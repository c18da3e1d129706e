------------------------------ MODULE JobStore ------------------------------
(***************************************************************************)
(* The jobs table of the controller (internal/jobs/store.go, schema.go):   *)
(* one row per install attempt.  Every operation below is one SQL          *)
(* statement or one transaction of the store, hence one atomic step; any   *)
(* caller may run any of them at any time.  Who does call them, and in     *)
(* what order, is the subject of InstallPipeline.                          *)
(*                                                                         *)
(* Ids are random 128-bit numbers that are never issued twice; here they   *)
(* are numbered in the order of their creation.  A number that was not     *)
(* issued yet has status "unissued", one whose row is gone "deleted".      *)
(* Columns nobody decides by (type, error text, started_at, created_by)    *)
(* are left out; retry_of_job_id is always NULL: no caller sets it.        *)
(*                                                                         *)
(* A stamp is read from the clock before the statement that stores it, and *)
(* the statement may wait for the database's write lock (busy_timeout is   *)
(* 30 seconds): the stamp of a write is the current second or an earlier   *)
(* one, though never from before the caller can have known of the row.     *)
(***************************************************************************)
EXTENDS Naturals

CONSTANTS
  Machines,                  \* machines.uuid
  Images,                    \* the (image_id, profile_id) pairs of the catalog
  Stages,                    \* stage markers
  Nil,                       \* NULL
  MaxJobs,                   \* bound on the ids that can be issued
  MaxTime                    \* bound on the clock

ASSUME MaxJobsNat == MaxJobs \in Nat
ASSUME MaxTimeNat == MaxTime \in Nat
ASSUME NilNotMachine == Nil \notin Machines

VARIABLES
  jobs,                      \* the table, by id
  now                        \* time.Now().Unix(): whole seconds

vars == <<jobs, now>>

JobIds == 1 .. MaxJobs
Never  == 0                  \* finished_at IS NULL; the clock starts at 1

InFlightStatus == {"pending", "running"}
TerminalStatus == {"succeeded", "failed", "cancelled"}
NoRowStatus    == {"unissued", "deleted"}

Job == [machine  : Machines \cup {Nil},
        image    : Images \cup {Nil},
        status   : InFlightStatus \cup TerminalStatus \cup NoRowStatus,
        stage    : Stages \cup {Nil},
        created  : Nat,
        finished : Nat]

NoRow(status) == [machine |-> Nil, image |-> Nil, status |-> status,
                  stage |-> Nil, created |-> 0, finished |-> Never]

TypeOK ==
  /\ jobs \in [JobIds -> Job]
  /\ now \in Nat

Exists(j)   == jobs[j].status \notin NoRowStatus
InFlight(j) == jobs[j].status \in InFlightStatus
Terminal(j) == jobs[j].status \in TerminalStatus
Busy(m)     == \E k \in JobIds : InFlight(k) /\ jobs[k].machine = m

(* Store.CurrentForMachine: the job GET /agent/jobs/current answers with.  *)
Current(m) == {k \in JobIds : InFlight(k) /\ jobs[k].machine = m}

NextId(j) ==
  /\ jobs[j].status = "unissued"
  /\ \A k \in JobIds : k < j => jobs[k].status # "unissued"

Init ==
  /\ jobs = [j \in JobIds |-> NoRow("unissued")]
  /\ now = 1

-----------------------------------------------------------------------------
(* Operations of the store.  Where the code returns an error instead, the  *)
(* operation is not enabled.                                               *)

CreateUnindexed(j, m, i, t) == \* wrong on purpose: no partial UNIQUE index
  /\ NextId(j) /\ t \in 1 .. now
  /\ jobs' = [jobs EXCEPT ![j] = [machine |-> m, image |-> i,
                                  status |-> "pending", stage |-> Nil,
                                  created |-> t, finished |-> Never]]

CreateQueued(j, m, i, t) == \* wrong on purpose: a status the schema does not know
  /\ NextId(j) /\ t \in 1 .. now
  /\ ~Busy(m)
  /\ jobs' = [jobs EXCEPT ![j] = [machine |-> m, image |-> i,
                                  status |-> "queued", stage |-> Nil,
                                  created |-> t, finished |-> Never]]

Create(j, m, i, t) ==
  /\ NextId(j) /\ t \in 1 .. now
  /\ ~Busy(m)                \* else ErrInFlight, from the partial index
  /\ jobs' = [jobs EXCEPT ![j] = [machine |-> m, image |-> i,
                                  status |-> "pending", stage |-> Nil,
                                  created |-> t, finished |-> Never]]

ClaimAgain(j) ==            \* wrong on purpose: a failed job may be claimed again
  /\ jobs[j].status \in {"pending", "failed"}
  /\ jobs' = [jobs EXCEPT ![j].status = "running"]

Claim(j) ==
  /\ jobs[j].status = "pending"
  /\ jobs' = [jobs EXCEPT ![j].status = "running"]

UpdateStage(j, s) ==
  /\ jobs[j].status = "running"
  /\ jobs' = [jobs EXCEPT ![j].stage = s]

TerminateUnstamped(j, target, allowedFrom) == \* wrong on purpose: no finished_at
  /\ jobs[j].status \in allowedFrom
  /\ jobs' = [jobs EXCEPT ![j].status = target]

Terminate(j, target, allowedFrom) ==
  /\ jobs[j].status \in allowedFrom
  /\ \E t \in jobs[j].created .. now :
       jobs' = [jobs EXCEPT ![j].status = target, ![j].finished = t]

Succeed(j) == Terminate(j, "succeeded", {"running"})
FailLate(j) == Terminate(j, "failed", InFlightStatus \cup {"succeeded"}) \* wrong on purpose
Fail(j)    == Terminate(j, "failed", InFlightStatus)
Cancel(j)  == Terminate(j, "cancelled", InFlightStatus)

DeleteRows(S) ==
  jobs' = [j \in JobIds |-> IF j \in S THEN NoRow("deleted") ELSE jobs[j]]

Delete(j) == Terminal(j) /\ DeleteRows({j})

DeleteAllTerminal == DeleteRows({j \in JobIds : Terminal(j)})

(* DeleteByImage and DeleteByProfile: rows of ANY status.                  *)
DeleteByImage(i) == DeleteRows({j \in JobIds : Exists(j) /\ jobs[j].image = i})

(* jobs.machine_uuid REFERENCES machines(uuid) ON DELETE CASCADE.          *)
DeleteByMachine(m) == DeleteRows({j \in JobIds : Exists(j) /\ jobs[j].machine = m})

(* The wall clock moves while the table does not.                          *)
ClockTick == now < MaxTime /\ now' = now + 1 /\ UNCHANGED jobs

Write ==
  \/ \E j \in JobIds, m \in Machines, i \in Images, t \in 1 .. now : Create(j, m, i, t)
  \/ \E j \in JobIds : Claim(j)
  \/ \E j \in JobIds, s \in Stages : UpdateStage(j, s)
  \/ \E j \in JobIds : Succeed(j)
  \/ \E j \in JobIds : Fail(j)
  \/ \E j \in JobIds : Cancel(j)
  \/ \E j \in JobIds : Delete(j)
  \/ DeleteAllTerminal
  \/ \E i \in Images : DeleteByImage(i)
  \/ \E m \in Machines : DeleteByMachine(m)

Next == (Write /\ UNCHANGED now) \/ ClockTick

Spec == Init /\ [][Next]_vars

-----------------------------------------------------------------------------
(* Properties.                                                             *)

(* At most one pending or running job per machine, whatever the callers    *)
(* race on: the promise of idx_jobs_one_inflight_per_machine that the      *)
(* orchestrator and the agent build on.                                    *)
OneInFlight ==
  \A j, k \in JobIds :
    InFlight(j) /\ InFlight(k) /\ jobs[j].machine = jobs[k].machine => j = k

(* A finished_at is stamped exactly on terminal rows and never precedes    *)
(* created_at: the two comparisons the orchestrator's scans rely on        *)
(* (created_at >= updated_at, finished_at >= updated_at) read a history.   *)
FinishedStamps ==
  \A j \in JobIds :
    IF Terminal(j) THEN jobs[j].created \in 1 .. jobs[j].finished /\ jobs[j].finished <= now
                   ELSE jobs[j].finished = Never

(* A job that reached a terminal status keeps its outcome until its row is *)
(* deleted, and a deleted id never comes back: a late POST of an agent     *)
(* cannot rewrite how an attempt ended.                                    *)
OutcomeIsFinal ==
  [][\A j \in JobIds :
       /\ Terminal(j) => jobs'[j] \in {jobs[j], NoRow("deleted")}
       /\ jobs[j].status = "deleted" => jobs'[j] = jobs[j]]_vars

(* The partial index implements a mutex: the job that is in flight on a    *)
(* machine holds it, for one interval of its life.                         *)
HolderOf(m) == IF Busy(m) THEN CHOOSE j \in JobIds : InFlight(j) /\ jobs[j].machine = m
                          ELSE 0

Mutex == INSTANCE MachineMutex WITH
           holder <- [m \in Machines |-> HolderOf(m)],
           spent  <- {j \in JobIds : jobs[j].status # "unissued"}

MutexImplemented == Mutex!Spec

=============================================================================
