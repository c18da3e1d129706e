------------------------------- MODULE LogSink ------------------------------
(***************************************************************************)
(* The agent's way to a job's log (cmd/agent/reporter_handler.go).  Every  *)
(* line the installer logs is queued without waiting; a few workers take   *)
(* lines off the queue and POST them.  When the installer has reported its *)
(* outcome the agent flushes: it stops the workers, empties the queue      *)
(* itself and waits for the workers' last POSTs.                           *)
(***************************************************************************)
EXTENDS Naturals, Sequences, FiniteSets, Functions

CONSTANTS
  Workers,                   \* asyncLogConcurrency goroutines
  Flusher,                   \* the goroutine that runs the install and flushes
  Cap,                       \* asyncLogChannelCap
  MaxLines,                  \* bound on the lines of one install
  Job, Nil

ASSUME SinkSizes == Cap \in Nat \ {0} /\ MaxLines \in Nat
ASSUME FlusherIsNoWorker == Flusher \notin Workers

VARIABLES
  pc,                        \* of handleJob, see Phases
  logged,                    \* lines handed to the handler so far
  queue,                     \* s.ch
  posting,                   \* the line each goroutine has in a POST, 0 for none
  returned,                  \* workers whose goroutine has ended
  inflight,                  \* POSTs that timed out here but may still arrive
  stored,                    \* the job's lines in job_logs, by id
  lost,                      \* lines that were dropped, refused or cut off
  status                     \* of the job: live, over or gone

agentVars == <<pc, logged, queue, posting, returned>>
vars == <<agentVars, inflight, stored, lost, status>>

Lines   == 1 .. MaxLines
Posters == Workers \cup {Flusher}
Phases  == {"install", "reported", "draining", "waiting", "returned", "off"}

(* s.stopCh is closed.                                                     *)
Stopped == pc \in {"draining", "waiting", "returned"}

LogTypeOK ==
  /\ pc \in Phases
  /\ logged \in 0 .. MaxLines
  /\ queue \in Seq(Lines) /\ Len(queue) <= Cap
  /\ posting \in [Posters -> 0 .. MaxLines]
  /\ returned \subseteq Workers
  /\ inflight \subseteq Lines /\ lost \subseteq Lines
  /\ stored \in Seq(Lines)
  /\ status \in {"live", "over", "gone"}

Init ==
  /\ pc = "install" /\ logged = 0
  /\ queue = <<>> /\ posting = [p \in Posters |-> 0] /\ returned = {}
  /\ inflight = {} /\ stored = <<>> /\ lost = {}
  /\ status = "live"

-----------------------------------------------------------------------------
(* The installer logs a line: Handle and submit.  A full queue drops it.   *)
HandleLine ==
  /\ pc = "install" /\ posting[Flusher] = 0
  /\ logged < MaxLines
  /\ logged' = logged + 1
  /\ \/ /\ Len(queue) < Cap
        /\ queue' = Append(queue, logged + 1)
        /\ UNCHANGED lost
     \/ /\ Len(queue) >= Cap
        /\ lost' = lost \cup {logged + 1}
        /\ UNCHANGED queue
  /\ UNCHANGED <<pc, posting, returned, inflight, stored, status>>

(* Or it reports the line itself (Reporter.Log) and waits for the POST,    *)
(* beside the lines that are queued.                                       *)
LogDirect ==
  /\ pc = "install" /\ posting[Flusher] = 0
  /\ logged < MaxLines
  /\ logged' = logged + 1
  /\ posting' = [posting EXCEPT ![Flusher] = logged + 1]
  /\ UNCHANGED <<pc, queue, returned, inflight, stored, lost, status>>

(* installer.Run reports its outcome, which may not arrive, and returns.   *)
Report ==
  /\ pc = "install" /\ posting[Flusher] = 0
  /\ pc' = "reported"
  /\ status' \in {status, IF status = "live" THEN "over" ELSE status}
  /\ UNCHANGED <<logged, queue, posting, returned, inflight, stored, lost>>

-----------------------------------------------------------------------------
Takes(p) ==
  /\ posting[p] = 0 /\ queue # <<>>
  /\ posting' = [posting EXCEPT ![p] = Head(queue)]
  /\ queue' = Tail(queue)
  /\ UNCHANGED <<pc, logged, returned, inflight, stored, lost, status>>

(* A worker's select takes a line when there is one, also once stopCh is   *)
(* closed: Go picks either case.                                           *)
WorkerTake(w) == w \notin returned /\ Takes(w)

WorkerHearsStop(w) ==      \* wrong on purpose: the stop is sent, not closed, so it is heard while draining only
  /\ pc = "draining" /\ queue = <<>>
  /\ w \notin returned /\ posting[w] = 0
  /\ returned' = returned \cup {w}
  /\ UNCHANGED <<pc, logged, queue, posting, inflight, stored, lost, status>>

WorkerStop(w) ==
  /\ Stopped
  /\ w \notin returned /\ posting[w] = 0
  /\ returned' = returned \cup {w}
  /\ UNCHANGED <<pc, logged, queue, posting, inflight, stored, lost, status>>

PostStoresAnyway(p) ==     \* wrong on purpose: no foreign key, the job need not exist
  /\ posting[p] # 0
  /\ stored' = Append(stored, posting[p])
  /\ posting' = [posting EXCEPT ![p] = 0]
  /\ UNCHANGED <<pc, logged, queue, returned, inflight, lost, status>>

(* A POST that reaches AppendLog; whether the answer comes back changes    *)
(* nothing, because the sink ignores errors.                               *)
PostStored(p) ==
  /\ posting[p] # 0 /\ status # "gone"
  /\ stored' = Append(stored, posting[p])
  /\ posting' = [posting EXCEPT ![p] = 0]
  /\ UNCHANGED <<pc, logged, queue, returned, inflight, lost, status>>

(* No connection, or 404 for a job that was deleted.                       *)
PostFails(p) ==
  /\ posting[p] # 0
  /\ lost' = lost \cup {posting[p]}
  /\ posting' = [posting EXCEPT ![p] = 0]
  /\ UNCHANGED <<pc, logged, queue, returned, inflight, stored, status>>

(* reporterLogTimeout ends the wait; the request is somewhere on its way.  *)
PostTimesOut(p) ==
  /\ posting[p] # 0
  /\ inflight' = inflight \cup {posting[p]}
  /\ posting' = [posting EXCEPT ![p] = 0]
  /\ UNCHANGED <<pc, logged, queue, returned, stored, lost, status>>

LateArrival ==
  \E l \in inflight :
    /\ inflight' = inflight \ {l}
    /\ \/ /\ status # "gone"
          /\ stored' = Append(stored, l)
          /\ UNCHANGED lost
       \/ /\ lost' = lost \cup {l}
          /\ UNCHANGED stored
    /\ UNCHANGED <<agentVars, status>>

-----------------------------------------------------------------------------
(* Flush closes stopCh, takes lines until the queue is empty, and waits.   *)
FlushCall ==
  /\ pc = "reported" /\ pc' = "draining"
  /\ UNCHANGED <<logged, queue, posting, returned, inflight, stored, lost, status>>

FlushTake == pc = "draining" /\ Takes(Flusher)

FlushWait ==
  /\ pc = "draining" /\ posting[Flusher] = 0 /\ queue = <<>>
  /\ pc' = "waiting"
  /\ UNCHANGED <<logged, queue, posting, returned, inflight, stored, lost, status>>

FlushLeaves ==             \* wrong on purpose: no wg.Wait
  /\ pc = "waiting"
  /\ pc' = "returned"
  /\ UNCHANGED <<logged, queue, posting, returned, inflight, stored, lost, status>>

FlushReturn ==
  /\ pc = "waiting" /\ returned = Workers
  /\ pc' = "returned"
  /\ UNCHANGED <<logged, queue, posting, returned, inflight, stored, lost, status>>

(* The machine is reset: by the orchestrator, which power-cycles it to its *)
(* disk as soon as the job has succeeded, or by hand.                      *)
PowerCycled ==
  /\ pc \notin {"off", "returned"} /\ pc' = "off"
  /\ queue' = <<>> /\ posting' = [p \in Posters |-> 0] /\ returned' = Workers
  /\ LET open == Range(posting) \ {0} IN
       \E sent \in SUBSET open :
         /\ inflight' = inflight \cup sent
         /\ lost' = lost \cup Range(queue) \cup (open \ sent)
  /\ UNCHANGED <<logged, stored, status>>

(* On the controller: an operator cancels the job, or deletes it, also     *)
(* while it runs when he deletes its image.                                *)
Cancelled ==
  /\ status = "live" /\ status' = "over"
  /\ UNCHANGED <<agentVars, inflight, stored, lost>>

Deleted ==
  /\ status # "gone" /\ status' = "gone"
  /\ UNCHANGED <<agentVars, inflight, stored, lost>>

Flush == FlushCall \/ FlushTake \/ FlushWait \/ FlushReturn
Post(p) == PostStored(p) \/ PostFails(p) \/ PostTimesOut(p)

Next ==
  \/ HandleLine \/ LogDirect \/ Report \/ Flush \/ LateArrival \/ PowerCycled \/ Cancelled \/ Deleted
  \/ \E w \in Workers : WorkerTake(w) \/ WorkerStop(w)
  \/ \E p \in Posters : Post(p)

(* A POST ends within its timeout, and no goroutine that can run waits for *)
(* ever; nothing forces the installer to log.                              *)
Fairness ==
  /\ WF_vars(Report) /\ WF_vars(Flush)
  /\ \A w \in Workers : WF_vars(WorkerTake(w) \/ WorkerStop(w))
  /\ \A p \in Posters : WF_vars(Post(p))

Spec == Init /\ [][Next]_vars /\ Fairness

-----------------------------------------------------------------------------
(* Flush "blocks until all submitted log entries have been POSTed (or      *)
(* dropped)": when it returns, nothing is left on the agent, and each line *)
(* is in the log, was given up, or is a request the controller may still   *)
(* receive.  And whatever times out, arrives late or is taken by whichever *)
(* goroutine, a line is never in the log twice.                            *)
FlushLeavesNothing ==
  pc = "returned" =>
    /\ queue = <<>> /\ \A p \in Posters : posting[p] = 0
    /\ 1 .. logged \subseteq Range(stored) \cup lost \cup inflight

StoredOnce == IsInjective(stored)

LinesAccounted == FlushLeavesNothing /\ StoredOnce

(* The agent's goroutines, restarts of the machine and late POSTs do to a  *)
(* job's log only what JobLog allows.                                      *)
Log == INSTANCE JobLog WITH
  Jobs <- {Job}, MaxRows <- MaxLines,
  rows <- [i \in DOMAIN stored |-> IF status = "gone" THEN Nil ELSE Job],
  status <- [j \in {Job} |-> status]
JobLogImplemented == Log!LogSpec

(* Flush returns: the workers all hear the stop, and no POST holds them    *)
(* for ever.                                                               *)
FlushReturns == (pc = "reported") ~> (pc \in {"returned", "off"})
=============================================================================
