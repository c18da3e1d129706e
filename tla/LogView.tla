------------------------------- MODULE LogView ------------------------------
(***************************************************************************)
(* The page of one job (frontend/src/views/JobDetailView.vue) following    *)
(* that job's log through GET /jobs/{id} and GET /jobs/{id}/logs.  A round *)
(* of polling asks both at once; every answer is handled when it comes,    *)
(* whatever the page has done since it asked.  Between answers the         *)
(* browser runs one handler at a time, so that each handler is one action. *)
(* The rows and status of JobLog are written by others: see JobTrace.      *)
(***************************************************************************)
EXTENDS JobLog, SequencesExt

CONSTANTS
  Chains,                    \* chains of polling rounds the page can have started
  Limit,                     \* lines in one answer
  MaxDisturbed               \* bound on refreshes, moves to another job's page and failed requests

VARIABLES
  jobId,                     \* the route's job
  job,                       \* job.value, the job last loaded: its status
  sinceId, logs,             \* cursor and ids of the lines on the page
  tailFetched, stopped,
  jobTimer,                  \* the chain whose timer was set last
  chain,                     \* what each chain does, see Chain
  visit,                     \* history: how often the page has moved
  misled,                    \* history: an answer to an earlier visit changed this one
  disturbed                  \* counter for the bound

page   == <<jobId, job, sinceId, logs, tailFetched, stopped, jobTimer>>
history == <<visit, misled>>
pageVars == <<page, chain, history, disturbed>>

Ids == 1 .. MaxRows
States == {"live", "over", "gone"}

(* A request for the job or for its lines: asked; or answered by the       *)
(* controller, the answer not yet handled.  visit: the visit that asked;   *)
(* nothing in the code tells an answer to an earlier one apart.            *)
Visits  == 0 .. MaxDisturbed
Request == [at : {"none"}] \cup
           [at : {"asked"}, what : {"job", "log"}, of : Jobs, since : 0 .. MaxRows, visit : Visits] \cup
           [at : {"answered"}, what : {"job"}, state : States, visit : Visits] \cup
           [at : {"answered"}, what : {"log"}, lines : Seq(Ids), visit : Visits]
Done == [at |-> "none"]
Asks(what, j, since, v) == [at |-> "asked", what |-> what, of |-> j, since |-> since, visit |-> v]
AskJob == Asks("job", jobId', 0, visit')
AskLog == Asks("log", jobId', sinceId', visit')
Has(r, what) == r # Done /\ r.what = what
Late(r) == r.visit # visit

(* A chain waits for its timer, or for a round: what loadJob waits for,    *)
(* which is the tail of the log in its last step, and what fetchLogs waits *)
(* for.  opening: the round that refreshAll starts.                        *)
Chain == [at : {"off", "timer", "round"}, load : Request, fetch : Request, opening : BOOLEAN]
Idle(at) == [at |-> at, load |-> Done, fetch |-> Done, opening |-> FALSE]
Round(opening) == [at |-> "round", load |-> AskJob, fetch |-> AskLog, opening |-> opening]

(* Chains are alike: a new one takes any that is off.                      *)
AnyOf(set) == CHOOSE c \in set : TRUE

(* What Logs answers: the first lines of the job after the cursor.         *)
After(j, since) ==
  LET all == SelectSeq([i \in 1 .. Len(rows) |-> i], LAMBDA i : i > since /\ rows[i] = j)
  IN SubSeq(all, 1, IF Len(all) < Limit THEN Len(all) ELSE Limit)

(* The page is opened on some job.                                         *)
PageInit ==
  /\ jobId \in Jobs
  /\ job = "live"
  /\ sinceId = 0 /\ logs = {}
  /\ tailFetched = FALSE /\ stopped = FALSE /\ jobTimer = Nil
  /\ chain = [c \in Chains |-> IF c = AnyOf(Chains) THEN [at |-> "round", opening |-> TRUE,
                load |-> Asks("job", jobId, 0, 0), fetch |-> Asks("log", jobId, 0, 0)] ELSE Idle("off")]
  /\ visit = 0 /\ misled = FALSE
  /\ disturbed = 0

Finished(state) == state = "over"

-----------------------------------------------------------------------------
(* refreshAll: the last timer set is cleared and a new chain is started;   *)
(* timers of other chains, and rounds in progress, go on.                  *)
Opens ==
  /\ stopped' = FALSE
  /\ tailFetched' = Finished(job)
  /\ LET cleared == [c \in Chains |->
                       IF c = jobTimer /\ chain[c].at = "timer" THEN Idle("off") ELSE chain[c]]
         free == {c \in Chains : cleared[c] = Idle("off")}
     IN free # {} /\ chain' = [cleared EXCEPT ![AnyOf(free)] = Round(TRUE)]

(* The refresh button, or a cancellation that was accepted.                *)
RefreshAll ==
  /\ UNCHANGED <<logVars, jobId, job, sinceId, logs, jobTimer, history>>
  /\ Opens

(* The route changes to another job while the component stays.  The job    *)
(* last loaded stays too, and answers still to come are not called off.    *)
ToJob ==
  /\ jobId' \in Jobs \ {jobId}
  /\ sinceId' = 0 /\ logs' = {}
  /\ visit' = visit + 1 /\ misled' = FALSE
  /\ UNCHANGED <<logVars, job, jobTimer>>
  /\ Opens

TimerFires(c) ==
  /\ chain[c].at = "timer"
  /\ UNCHANGED <<logVars, page, history, disturbed>>
  /\ chain' = [chain EXCEPT ![c] = IF stopped THEN Idle("off") ELSE Round(FALSE)]

-----------------------------------------------------------------------------
(* The controller answers one of a chain's requests.                       *)
Answered(r) ==
  IF r.what = "job"
  THEN [at |-> "answered", what |-> "job", state |-> status[r.of], visit |-> r.visit]
  ELSE [at |-> "answered", what |-> "log", lines |-> After(r.of, r.since), visit |-> r.visit]

Serve(c) ==
  /\ \/ /\ chain[c].load.at = "asked"
        /\ chain' = [chain EXCEPT ![c].load = Answered(@)]
     \/ /\ chain[c].fetch.at = "asked"
        /\ chain' = [chain EXCEPT ![c].fetch = Answered(@)]
  /\ UNCHANGED <<logVars, page, history, disturbed>>

(* An answer is handled that an earlier visit asked for.                   *)
Misleads(how) == misled' = (misled \/ how) /\ UNCHANGED visit

(* Chain c after a handler left it as k: once both of its requests are     *)
(* done it sets its timer again, unless the page has stopped.              *)
Settled(c, k) ==
  IF k.load # Done \/ k.fetch # Done
  THEN chain' = [chain EXCEPT ![c] = k] /\ UNCHANGED jobTimer
  ELSE IF k.opening \/ ~stopped'
       THEN chain' = [chain EXCEPT ![c] = Idle("timer")] /\ jobTimer' = c
       ELSE chain' = [chain EXCEPT ![c] = Idle("off")] /\ UNCHANGED jobTimer

ShowsFull(lines) ==        \* wrong on purpose: takes the cursor to the end although the answer is full
  /\ sinceId' = IF lines = <<>> THEN sinceId ELSE Len(rows)
  /\ logs' = logs \cup Range(lines)

(* fetchLogs with an answer: the lines are added, the cursor moves.        *)
Shows(lines) ==
  /\ sinceId' = IF lines = <<>> THEN sinceId ELSE Last(lines)
  /\ logs' = logs \cup Range(lines)

(* loadJob with an answer: when it tells that the job is over and the tail *)
(* was not fetched yet, the tail is fetched.  404 is an error: no change.  *)
EndsFollowing(state) == Finished(state) /\ ~tailFetched

Loaded(c) ==
  LET r == chain[c].load IN
  /\ Has(r, "job") /\ r.at = "answered"
  /\ job' = IF r.state = "gone" THEN job ELSE r.state
  /\ UNCHANGED <<logVars, jobId, sinceId, logs, tailFetched, stopped, disturbed>>
  /\ Misleads(Late(r) /\ EndsFollowing(r.state))
  /\ Settled(c, [chain[c] EXCEPT !.load = IF EndsFollowing(r.state) THEN AskLog ELSE Done])

(* The tail has come: polling ends.                                        *)
TailShown(c) ==
  LET r == chain[c].load IN
  /\ Has(r, "log") /\ r.at = "answered"
  /\ Shows(r.lines)
  /\ tailFetched' = TRUE /\ stopped' = TRUE
  /\ Misleads(Late(r))
  /\ Settled(c, [chain[c] EXCEPT !.load = Done])
  /\ UNCHANGED <<logVars, jobId, job, disturbed>>

LinesShown(c) ==
  LET r == chain[c].fetch IN
  /\ r.at = "answered"
  /\ Shows(r.lines)
  /\ UNCHANGED <<tailFetched, stopped>>
  /\ Misleads(Late(r) /\ r.lines # <<>>)
  /\ Settled(c, [chain[c] EXCEPT !.fetch = Done])
  /\ UNCHANGED <<logVars, jobId, job, disturbed>>

(* A request fails.  loadJob and fetchLogs pass over it; a tail that could *)
(* not be fetched counts as fetched.                                       *)
Fails(c) ==
  /\ UNCHANGED <<logVars, jobId, job, sinceId, logs>>
  /\ \/ /\ chain[c].fetch # Done
        /\ UNCHANGED <<tailFetched, stopped, history>>
        /\ Settled(c, [chain[c] EXCEPT !.fetch = Done])
     \/ /\ chain[c].load # Done
        /\ IF Has(chain[c].load, "log")
           THEN tailFetched' = TRUE /\ stopped' = TRUE /\ Misleads(Late(chain[c].load))
           ELSE UNCHANGED <<tailFetched, stopped, history>>
        /\ Settled(c, [chain[c] EXCEPT !.load = Done])

Poll(c) == TimerFires(c) \/ Serve(c) \/ Loaded(c) \/ TailShown(c) \/ LinesShown(c)
Disturbs == disturbed < MaxDisturbed /\ disturbed' = disturbed + 1
Clicked == Disturbs /\ (RefreshAll \/ ToJob)
Broken  == Disturbs /\ \E c \in Chains : Fails(c)

PageNext == Clicked \/ Broken \/ \E c \in Chains : Poll(c)
=============================================================================
