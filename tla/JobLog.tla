------------------------------- MODULE JobLog -------------------------------
(***************************************************************************)
(* What the controller promises about the log of a job (table job_logs,    *)
(* internal/jobs/store.go): lines are only added at the end, under an id   *)
(* that is never used again, for as long as the job's row exists -- a job  *)
(* that has ended still takes lines -- and they go with the job.           *)
(***************************************************************************)
EXTENDS Naturals, Sequences

CONSTANTS
  Jobs,
  MaxRows,                   \* bound on the lines of all jobs
  Nil

VARIABLES
  rows,                      \* job_logs: the job of the line with each id, Nil once deleted
  status                     \* of a job: live, over, or gone with its row

logVars == <<rows, status>>

LogInit == rows = <<>> /\ status = [j \in Jobs |-> "live"]

(* An agent's or the orchestrator's line for job j.                        *)
AppendLog(j) ==
  /\ status[j] # "gone" /\ Len(rows) < MaxRows
  /\ rows' = Append(rows, j)
  /\ UNCHANGED status

(* Succeed, Fail or Cancel.                                                *)
JobEnds(j) ==
  /\ status[j] = "live"
  /\ status' = [status EXCEPT ![j] = "over"]
  /\ UNCHANGED rows

(* Delete and DeleteAllTerminal take jobs that are over; DeleteByImage and *)
(* DeleteByProfile take any.                                               *)
PurgeJob(j) ==
  /\ status[j] # "gone"
  /\ status' = [status EXCEPT ![j] = "gone"]
  /\ rows' = [i \in DOMAIN rows |-> IF rows[i] = j THEN Nil ELSE rows[i]]

LogNext == \E j \in Jobs : AppendLog(j) \/ JobEnds(j) \/ PurgeJob(j)

LogSpec == LogInit /\ [][LogNext]_logVars
=============================================================================
