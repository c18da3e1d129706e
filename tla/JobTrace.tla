------------------------------ MODULE JobTrace ------------------------------
(***************************************************************************)
(* From the installer to the operator's eyes: the agent's log sink, the    *)
(* table it writes to, and the page that polls the table.  The sink's job  *)
(* is one of several the page can show; the others have lines of their own *)
(* among the sink's and end when they like.                                *)
(***************************************************************************)
EXTENDS LogSink

CONSTANTS
  OtherJobs,
  OtherLines,                \* bound on the lines of the other jobs
  Chains, Limit, MaxDisturbed    \* see LogView

ASSUME TraceBounds ==
  /\ Limit \in Nat \ {0} /\ MaxDisturbed \in Nat /\ OtherLines \in Nat
  /\ Job \notin OtherJobs /\ Nil \notin OtherJobs \cup Chains \cup {Job}

VARIABLES
  written,                   \* the job that wrote the line with each id
  others,                    \* status of the other jobs
  jobId, job, sinceId, logs, tailFetched, stopped, jobTimer, chain, visit, misled, disturbed

onPage == <<jobId, job, sinceId, logs, tailFetched, stopped, jobTimer, chain, visit, misled, disturbed>>
traceVars == <<vars, written, others, onPage>>

statusOf == [j \in {Job} \cup OtherJobs |-> IF j = Job THEN status ELSE others[j]]

View == INSTANCE LogView WITH
  Jobs <- {Job} \cup OtherJobs, MaxRows <- MaxLines + OtherLines,
  rows <- [i \in DOMAIN written |-> IF statusOf[written[i]] = "gone" THEN Nil ELSE written[i]],
  status <- statusOf

TraceInit ==
  /\ Init /\ View!PageInit
  /\ written = <<>> /\ others = [j \in OtherJobs |-> "live"]

(* The agent, the network and operators; the page stays as it is.          *)
(* Bound: nobody deletes the job of a page that was disturbed.             *)
SinkStep ==
  /\ Next /\ UNCHANGED <<others, onPage>>
  /\ written' = IF stored' = stored THEN written ELSE Append(written, Job)
  /\ disturbed > 0 => status' = status

(* The agent has flushed an install that lost no line but its outcome;     *)
(* POSTs may still arrive late or be refused.                              *)
Quiet == pc = "returned" /\ logged = MaxLines /\ lost = {} /\ status = "live"

(* Another job writes a line or ends.  Bound: before the sink's first line *)
(* or in a quiet state, while the page is its own; and it is not deleted.  *)
OtherStep(j) ==
  /\ logged = 0 \/ Quiet
  /\ jobId = j
  /\ UNCHANGED <<vars, onPage>>
  /\ \/ /\ Len(written) < Len(stored) + OtherLines
        /\ written' = Append(written, j) /\ UNCHANGED others
     \/ /\ others[j] = "live"
        /\ others' = [others EXCEPT ![j] = "over"] /\ UNCHANGED written

(* Bound: a request for this job may fail at any time; the operator        *)
(* refreshes its page, or comes to it from another job's, in a quiet state *)
(* only, and another job's page polls in such states only.  A page that    *)
(* was misled is not followed any further: LinesAppear excuses it.         *)
tables == <<vars, written, others>>

Polls(c) == UNCHANGED tables /\ ~misled /\ (Quiet \/ jobId = Job) /\ View!Poll(c)

PageStep ==
  \/ \E c \in Chains : Polls(c)
  \/ UNCHANGED tables /\ View!Broken /\ jobId' = Job
  \/ UNCHANGED tables /\ Quiet /\ View!Clicked /\ jobId' = Job

TraceNext == SinkStep \/ PageStep \/ \E j \in OtherJobs : OtherStep(j)

(* Timers fire and requests are answered while the page is open; nothing   *)
(* forces clicks, failures or other jobs.                                  *)
PageFairness == \A c \in Chains : WF_onPage(Polls(c))

TraceSpec == TraceInit /\ [][TraceNext]_traceVars /\ Fairness /\ PageFairness

-----------------------------------------------------------------------------
IdsOf(j) == {i \in DOMAIN written : written[i] = j}
OnPage(l) ==
  \E i \in IdsOf(Job) \cap logs : stored[Cardinality({k \in IdsOf(Job) : k <= i})] = l

(* A line of a running job comes to its page, or was lost on the way to    *)
(* the table: whichever goroutine posts it, whenever a late POST arrives,  *)
(* in whatever order the page's answers come, after a refresh, a failed    *)
(* request or a full answer, some round of polling still asks for it.  The *)
(* one way out of it is an answer to the page left behind that comes after *)
(* the move: one that tells of an end stops the polling (loadJob), one     *)
(* with lines takes the cursor with it (fetchLogs).                        *)
LinesAppear ==
  \A l \in Lines :
    (l <= logged /\ l \notin inflight)
      ~> (OnPage(l) \/ l \in lost \cup inflight \/ status # "live" \/ jobId # Job \/ misled)
=============================================================================
