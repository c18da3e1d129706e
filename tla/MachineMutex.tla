---------------------------- MODULE MachineMutex ----------------------------
(***************************************************************************)
(* What the partial UNIQUE index idx_jobs_one_inflight_per_machine         *)
(* promises: "the per-machine mutex" of internal/jobs/schema.go.  A        *)
(* machine is held by at most one job, a job holds its machine during one  *)
(* interval of its life, and a job id that was ever issued is never issued *)
(* again.  JobStore implements this module.                                *)
(***************************************************************************)
EXTENDS Naturals

CONSTANTS Machines, JobIds

Free == 0                    \* no job: job ids are numbered from 1

VARIABLES
  holder,                    \* the job that occupies a machine, or Free
  spent                      \* the ids that were ever issued

vars == <<holder, spent>>

TypeOK ==
  /\ holder \in [Machines -> JobIds \cup {Free}]
  /\ spent \in SUBSET JobIds

Init ==
  /\ holder = [m \in Machines |-> Free]
  /\ spent = {}

Acquire(m, j) ==
  /\ holder[m] = Free
  /\ j \notin spent
  /\ holder' = [holder EXCEPT ![m] = j]
  /\ spent' = spent \cup {j}

(* One statement may end several jobs: the catalog cascades do.            *)
Release(S) ==
  /\ holder' = [m \in Machines |-> IF m \in S THEN Free ELSE holder[m]]
  /\ UNCHANGED spent

Next ==
  \/ \E m \in Machines, j \in JobIds : Acquire(m, j)
  \/ \E S \in SUBSET Machines : Release(S)

Spec == Init /\ [][Next]_vars

=============================================================================
