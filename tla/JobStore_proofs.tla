--------------------------- MODULE JobStore_proofs ---------------------------
(***************************************************************************)
(* Proofs about the jobs table, for any number of machines, images, stages *)
(* and job ids.  The inductive invariant IInv adds to the three checked    *)
(* invariants what a statement leaves behind for the next one: the clock   *)
(* has started and a job in flight was created in the past.                *)
(***************************************************************************)
EXTENDS JobStore, TLAPS

(* Terminate stamps finished_at with the clock, FinishedStamps compares it *)
(* with created_at: so the creation times of live jobs must be known.      *)
CreatedStamps ==
  /\ now >= 1
  /\ \A j \in JobIds : InFlight(j) => jobs[j].created \in 1 .. now

IInv == TypeOK /\ OneInFlight /\ FinishedStamps /\ CreatedStamps

-----------------------------------------------------------------------------
(* A row that was issued or written by a statement is a row of the table.  *)
LEMMA NoRowIsJob == ASSUME NEW s \in NoRowStatus PROVE NoRow(s) \in Job
  BY DEF NoRow, Job, NoRowStatus, Never

(* Removing rows keeps the table a table, whatever set is removed.         *)
LEMMA DeleteRowsTyped ==
  ASSUME TypeOK, NEW S, DeleteRows(S) PROVE jobs' \in [JobIds -> Job]
  BY NoRowIsJob DEF TypeOK, DeleteRows, NoRowStatus

LEMMA TypeInit == Init => TypeOK
  BY NoRowIsJob DEF Init, TypeOK, NoRowStatus

(* Every statement of the store keeps the columns within the CHECK         *)
(* constraints of the schema.                                              *)
LEMMA TypeStep == TypeOK /\ [Next]_vars => TypeOK'
  <1> SUFFICES ASSUME TypeOK, [Next]_vars PROVE TypeOK'
    OBVIOUS
  <1> USE DEF TypeOK
  <1>1. CASE Write /\ UNCHANGED now
    <2>1. ASSUME NEW j \in JobIds, NEW m \in Machines, NEW i \in Images, NEW t \in 1 .. now,
                 Create(j, m, i, t)
          PROVE  jobs' \in [JobIds -> Job]
      BY <2>1 DEF Create, Job, InFlightStatus, Never
    <2>2. ASSUME NEW j \in JobIds, Claim(j) PROVE jobs' \in [JobIds -> Job]
      BY <2>2 DEF Claim, Job, InFlightStatus
    <2>3. ASSUME NEW j \in JobIds, NEW s \in Stages, UpdateStage(j, s)
          PROVE  jobs' \in [JobIds -> Job]
      BY <2>3 DEF UpdateStage, Job
    <2>4. ASSUME NEW j \in JobIds, NEW t \in TerminalStatus, NEW A, Terminate(j, t, A)
          PROVE  jobs' \in [JobIds -> Job]
      <3>1. PICK f \in jobs[j].created .. now :
              jobs' = [jobs EXCEPT ![j].status = t, ![j].finished = f]
        BY <2>4 DEF Terminate
      <3>2. f \in Nat
        BY <3>1 DEF Job
      <3> QED
        BY <3>1, <3>2 DEF Job
    <2>5. ASSUME NEW j \in JobIds, Succeed(j) \/ Fail(j) \/ Cancel(j)
          PROVE  jobs' \in [JobIds -> Job]
      BY <2>4, <2>5 DEF Succeed, Fail, Cancel, TerminalStatus
    <2>6. ASSUME NEW S, DeleteRows(S) PROVE jobs' \in [JobIds -> Job]
      BY <2>6, DeleteRowsTyped
    <2> QED
      BY <1>1, <2>1, <2>2, <2>3, <2>5, <2>6
      DEF Write, Delete, DeleteAllTerminal, DeleteByImage, DeleteByMachine
  <1>2. CASE ClockTick
    BY <1>2 DEF ClockTick
  <1>3. CASE UNCHANGED vars
    BY <1>3 DEF vars
  <1> QED
    BY <1>1, <1>2, <1>3 DEF Next

(* TypeOK holds always: the statements of store.go write only rows the     *)
(* schema accepts.                                                         *)
THEOREM TypeCorrect == Spec => []TypeOK
  BY TypeInit, TypeStep, PTL DEF Spec

-----------------------------------------------------------------------------
(* What a statement does to one row.  All later proofs go through these    *)
(* cases and never look at the statements again.                           *)
RowKept(j)    == jobs'[j] = jobs[j]
RowDropped(j) == jobs[j].status \notin NoRowStatus /\ jobs'[j] = NoRow("deleted")
RowEnded(j)   == /\ InFlight(j)
                 /\ \E t \in TerminalStatus, f \in jobs[j].created .. now :
                      jobs'[j] = [jobs[j] EXCEPT !.status = t, !.finished = f]
RowWorked(j)  == /\ InFlight(j)
                 /\ \E t \in InFlightStatus, s \in Stages \cup {Nil} :
                      jobs'[j] = [jobs[j] EXCEPT !.status = t, !.stage = s]
RowMade(j)    == /\ jobs[j].status = "unissued"
                 /\ \E m \in Machines, i \in Images, t \in 1 .. now :
                      /\ ~Busy(m)
                      /\ jobs'[j] = [machine |-> m, image |-> i, status |-> "pending",
                                     stage |-> Nil, created |-> t, finished |-> Never]

RowStep(j) == RowKept(j) \/ RowDropped(j) \/ RowEnded(j) \/ RowWorked(j)

(* Every statement but the INSERT keeps, drops, ends or works on each row. *)
(* The INSERT makes one row and keeps the others.                          *)
LEMMA WriteByRow ==
  ASSUME TypeOK, Write
  PROVE  \/ \A j \in JobIds : RowStep(j)
         \/ \E j \in JobIds : RowMade(j) /\ \A k \in JobIds \ {j} : RowKept(k)
  <1> USE DEF TypeOK
  <1>1. ASSUME NEW j \in JobIds, NEW m \in Machines, NEW i \in Images, NEW t \in 1 .. now,
               Create(j, m, i, t)
        PROVE  RowMade(j) /\ \A k \in JobIds \ {j} : RowKept(k)
    BY <1>1 DEF Create, NextId, RowMade, RowKept
  <1>2. ASSUME NEW j \in JobIds, Claim(j) PROVE \A k \in JobIds : RowStep(k)
    <2>1. jobs'[j] = [jobs[j] EXCEPT !.status = "running", !.stage = jobs[j].stage]
      BY <1>2 DEF Claim, Job
    <2>2. jobs[j].stage \in Stages \cup {Nil}
      BY DEF Job
    <2>3. RowWorked(j)
      BY <1>2, <2>1, <2>2 DEF Claim, RowWorked, InFlight, InFlightStatus
    <2>4. \A k \in JobIds \ {j} : RowKept(k)
      BY <1>2 DEF Claim, RowKept
    <2> QED
      BY <2>3, <2>4 DEF RowStep
  <1>3. ASSUME NEW j \in JobIds, NEW s \in Stages, UpdateStage(j, s)
        PROVE  \A k \in JobIds : RowStep(k)
    <2>1. jobs'[j] = [jobs[j] EXCEPT !.status = "running", !.stage = s]
      BY <1>3 DEF UpdateStage, Job
    <2>2. RowWorked(j)
      BY <1>3, <2>1 DEF UpdateStage, RowWorked, InFlight, InFlightStatus
    <2>3. \A k \in JobIds \ {j} : RowKept(k)
      BY <1>3 DEF UpdateStage, RowKept
    <2> QED
      BY <2>2, <2>3 DEF RowStep
  <1>4. ASSUME NEW j \in JobIds, NEW t \in TerminalStatus, NEW A \in SUBSET InFlightStatus,
               Terminate(j, t, A)
        PROVE  \A k \in JobIds : RowStep(k)
    <2>1. PICK f \in jobs[j].created .. now :
            jobs' = [jobs EXCEPT ![j].status = t, ![j].finished = f]
      BY <1>4 DEF Terminate
    <2>2. jobs'[j] = [jobs[j] EXCEPT !.status = t, !.finished = f]
      BY <2>1 DEF Job
    <2>3. RowEnded(j)
      BY <1>4, <2>2 DEF Terminate, RowEnded, InFlight
    <2>4. \A k \in JobIds \ {j} : RowKept(k)
      BY <2>1 DEF RowKept
    <2> QED
      BY <2>3, <2>4 DEF RowStep
  <1>5. ASSUME NEW j \in JobIds, Succeed(j) \/ Fail(j) \/ Cancel(j)
        PROVE  \A k \in JobIds : RowStep(k)
    <2>1. {"running"} \in SUBSET InFlightStatus /\ InFlightStatus \in SUBSET InFlightStatus
      BY DEF InFlightStatus
    <2>2. "succeeded" \in TerminalStatus /\ "failed" \in TerminalStatus /\ "cancelled" \in TerminalStatus
      BY DEF TerminalStatus
    <2> QED
      BY <1>4, <1>5, <2>1, <2>2 DEF Succeed, Fail, Cancel
  <1>6. ASSUME NEW S, \A j \in S \cap JobIds : Exists(j), DeleteRows(S)
        PROVE  \A k \in JobIds : RowStep(k)
    BY <1>6 DEF DeleteRows, Exists, RowStep, RowKept, RowDropped
  <1>7. ASSUME NEW j \in JobIds, Delete(j) PROVE \A k \in JobIds : RowStep(k)
    BY <1>6, <1>7 DEF Delete, Terminal, TerminalStatus, Exists, NoRowStatus
  <1>8. ASSUME DeleteAllTerminal PROVE \A k \in JobIds : RowStep(k)
    BY <1>6, <1>8 DEF DeleteAllTerminal, Terminal, TerminalStatus, Exists, NoRowStatus
  <1>9. ASSUME NEW i \in Images, DeleteByImage(i) PROVE \A k \in JobIds : RowStep(k)
    BY <1>6, <1>9 DEF DeleteByImage
  <1>10. ASSUME NEW m \in Machines, DeleteByMachine(m) PROVE \A k \in JobIds : RowStep(k)
    BY <1>6, <1>10 DEF DeleteByMachine
  <1> QED
    BY <1>1, <1>2, <1>3, <1>5, <1>7, <1>8, <1>9, <1>10 DEF Write

-----------------------------------------------------------------------------
(* The inductive invariant.                                                *)

LEMMA InvInit == Init => IInv
  <1> SUFFICES ASSUME Init PROVE OneInFlight /\ FinishedStamps /\ CreatedStamps
    BY TypeInit DEF IInv
  <1>1. \A j \in JobIds : jobs[j].status = "unissued" /\ jobs[j].finished = Never
    BY DEF Init, NoRow
  <1> QED
    BY <1>1 DEF Init, OneInFlight, FinishedStamps, CreatedStamps, InFlight, Terminal,
                InFlightStatus, TerminalStatus

(* No statement lets a second job of a machine come alive: only the INSERT *)
(* makes a row live, and it is refused while the machine is busy.          *)
LEMMA OneInFlightStep == IInv /\ Write => OneInFlight'
  <1> SUFFICES ASSUME IInv, Write, NEW a \in JobIds, NEW b \in JobIds,
                      InFlight(a)', InFlight(b)', jobs'[a].machine = jobs'[b].machine
               PROVE  a = b
    BY DEF OneInFlight
  <1> USE DEF IInv, TypeOK
  <1>1. ASSUME NEW k \in JobIds, RowStep(k), InFlight(k)'
        PROVE  InFlight(k) /\ jobs'[k].machine = jobs[k].machine
    <2>1. jobs[k] \in Job
      OBVIOUS
    <2>2. ~RowDropped(k)
      BY <1>1 DEF RowDropped, InFlight, NoRow, InFlightStatus
    <2>3. ~RowEnded(k)
      BY <1>1, <2>1 DEF RowEnded, InFlight, Job, InFlightStatus, TerminalStatus
    <2>4. CASE RowKept(k)
      BY <1>1, <2>4 DEF RowKept, InFlight
    <2>5. CASE RowWorked(k)
      BY <2>1, <2>5 DEF RowWorked, Job
    <2> QED
      BY <1>1, <2>2, <2>3, <2>4, <2>5 DEF RowStep
  <1>2. CASE \A k \in JobIds : RowStep(k)
    BY <1>1, <1>2 DEF OneInFlight
  <1>3. CASE \E j \in JobIds : RowMade(j) /\ \A k \in JobIds \ {j} : RowKept(k)
    <2>1. PICK j \in JobIds : RowMade(j) /\ \A k \in JobIds \ {j} : RowKept(k)
      BY <1>3
    <2>2. ASSUME NEW k \in JobIds \ {j}, InFlight(k)' PROVE jobs'[k].machine # jobs'[j].machine
      BY <2>1, <2>2 DEF RowMade, RowKept, InFlight, Busy
    <2>3. CASE a = j \/ b = j
      BY <2>2, <2>3
    <2>4. CASE a # j /\ b # j
      BY <2>1, <2>4, <1>1 DEF OneInFlight, RowStep
    <2> QED
      BY <2>3, <2>4
  <1> QED
    BY <1>2, <1>3, WriteByRow

(* Time stamps: an INSERT stamps created_at, the end of a job finished_at, *)
(* both with the clock; no other statement touches either.                 *)
LEMMA StampsStep == IInv /\ Write /\ UNCHANGED now => FinishedStamps' /\ CreatedStamps'
  <1> SUFFICES ASSUME IInv, Write, UNCHANGED now, NEW k \in JobIds
               PROVE  /\ Terminal(k)' => /\ jobs'[k].created \in 1 .. jobs'[k].finished
                                         /\ jobs'[k].finished <= now
                      /\ ~Terminal(k)' => jobs'[k].finished = Never
                      /\ InFlight(k)' => jobs'[k].created \in 1 .. now
    BY DEF IInv, FinishedStamps, CreatedStamps
  <1>1. /\ jobs[k] \in Job
        /\ now \in Nat /\ now >= 1
        /\ Terminal(k) => jobs[k].created \in 1 .. jobs[k].finished /\ jobs[k].finished <= now
        /\ ~Terminal(k) => jobs[k].finished = Never
        /\ InFlight(k) => jobs[k].created \in 1 .. now
    BY DEF IInv, TypeOK, FinishedStamps, CreatedStamps
  <1> USE DEF InFlight, Terminal, InFlightStatus, TerminalStatus
  <1>2. RowKept(k) \/ RowDropped(k) \/ RowEnded(k) \/ RowWorked(k) \/ RowMade(k)
    BY WriteByRow DEF IInv, RowStep
  <1>3. CASE RowKept(k)
    BY <1>1, <1>3 DEF RowKept
  <1>4. CASE RowDropped(k)
    BY <1>4 DEF RowDropped, NoRow
  <1>5. CASE RowEnded(k)
    BY <1>1, <1>5 DEF RowEnded, Job
  <1>6. CASE RowWorked(k)
    BY <1>1, <1>6 DEF RowWorked, Job
  <1>7. CASE RowMade(k)
    BY <1>1, <1>7 DEF RowMade
  <1> QED
    BY <1>2, <1>3, <1>4, <1>5, <1>6, <1>7

LEMMA InvStep == IInv /\ [Next]_vars => IInv'
  <1> SUFFICES ASSUME IInv, [Next]_vars PROVE IInv'
    OBVIOUS
  <1>1. TypeOK'
    BY TypeStep DEF IInv
  <1>2. CASE Write /\ UNCHANGED now
    BY <1>1, <1>2, OneInFlightStep, StampsStep DEF IInv
  <1>3. CASE ClockTick
    BY <1>1, <1>3 DEF IInv, ClockTick, TypeOK, OneInFlight, FinishedStamps, CreatedStamps,
                      InFlight, Terminal, Job
  <1>4. CASE UNCHANGED vars
    BY <1>1, <1>4 DEF IInv, vars, OneInFlight, FinishedStamps, CreatedStamps, InFlight, Terminal
  <1> QED
    BY <1>2, <1>3, <1>4 DEF Next

LEMMA Invariance == Spec => []IInv
  BY InvInit, InvStep, PTL DEF Spec

(* The per-machine mutex, for any number of machines and concurrent        *)
(* callers: idx_jobs_one_inflight_per_machine admits one live job.         *)
THEOREM MutualExclusion == Spec => []OneInFlight
  <1>1. IInv => OneInFlight
    BY DEF IInv
  <1> QED
    BY <1>1, Invariance, PTL

(* finished_at is set exactly on terminal rows, between created_at and the *)
(* clock: the history that the orchestrator's two scans compare with.      *)
THEOREM StampsAreHistory == Spec => []FinishedStamps
  <1>1. IInv => FinishedStamps
    BY DEF IInv
  <1> QED
    BY <1>1, Invariance, PTL

-----------------------------------------------------------------------------
(* An action property and the refinement.                                  *)

(* No statement reopens or rewrites a finished job; a deleted id stays     *)
(* deleted: the status guards of terminate, Claim, UpdateStage and Delete. *)
THEOREM OutcomesAreFinal == Spec => OutcomeIsFinal
  <1>1. ASSUME TypeOK, [Next]_vars, NEW j \in JobIds
        PROVE  /\ Terminal(j) => jobs'[j] \in {jobs[j], NoRow("deleted")}
               /\ jobs[j].status = "deleted" => jobs'[j] = jobs[j]
    <2>1. CASE Write
      <3>1. RowKept(j) \/ RowDropped(j) \/ RowEnded(j) \/ RowWorked(j) \/ RowMade(j)
        BY <1>1, <2>1, WriteByRow DEF RowStep
      <3> QED
        BY <3>1 DEF RowKept, RowDropped, RowEnded, RowWorked, RowMade, InFlight, Terminal,
                    InFlightStatus, TerminalStatus, NoRowStatus
    <2>2. CASE UNCHANGED jobs
      BY <2>2
    <2> QED
      BY <1>1, <2>1, <2>2 DEF Next, ClockTick, vars
  <1>2. TypeOK /\ [Next]_vars
          => [\A j \in JobIds : /\ Terminal(j) => jobs'[j] \in {jobs[j], NoRow("deleted")}
                                /\ jobs[j].status = "deleted" => jobs'[j] = jobs[j]]_vars
    BY <1>1
  <1> QED
    BY <1>2, TypeCorrect, PTL DEF Spec, OutcomeIsFinal

(* The job that holds its machine, when there is one.                      *)
LEMMA HolderIsInFlight ==
  ASSUME NEW m \in Machines, NEW j \in JobIds, OneInFlight, InFlight(j), jobs[j].machine = m
  PROVE  Busy(m) /\ HolderOf(m) = j
  <1>1. \A k \in JobIds : InFlight(k) /\ jobs[k].machine = m => k = j
    BY DEF OneInFlight
  <1> QED
    BY <1>1 DEF Busy, HolderOf

(* A statement that makes no job live releases the machines that lost      *)
(* theirs; the INSERT acquires one.                                        *)
LEMMA MutexStep == IInv /\ IInv' /\ Write => Mutex!Next
  <1> SUFFICES ASSUME IInv, IInv', Write PROVE Mutex!Next
    OBVIOUS
  <1> DEFINE spentNow == {j \in JobIds : jobs[j].status # "unissued"}
  <1>0. /\ \A k \in JobIds : jobs[k] \in Job /\ jobs'[k] \in Job
        /\ OneInFlight /\ OneInFlight'
    BY DEF IInv, TypeOK
  <1>1. ASSUME NEW k \in JobIds, RowStep(k)
        PROVE  /\ InFlight(k)' => InFlight(k) /\ jobs'[k].machine = jobs[k].machine
               /\ jobs'[k].status = "unissued" <=> jobs[k].status = "unissued"
    <2>1. CASE RowKept(k)
      BY <2>1 DEF RowKept, InFlight
    <2>2. CASE RowDropped(k)
      BY <2>2 DEF RowDropped, InFlight, NoRow, InFlightStatus, NoRowStatus
    <2>3. CASE RowEnded(k)
      BY <2>3, <1>0 DEF RowEnded, InFlight, Job, InFlightStatus, TerminalStatus
    <2>4. CASE RowWorked(k)
      BY <2>4, <1>0 DEF RowWorked, InFlight, Job, InFlightStatus
    <2> QED
      BY <1>1, <2>1, <2>2, <2>3, <2>4 DEF RowStep
  <1>2. CASE \A k \in JobIds : RowStep(k)
    <2> DEFINE S == {m \in Machines : ~Busy(m)'}
    <2>1. ASSUME NEW m \in Machines
          PROVE  HolderOf(m)' = IF m \in S THEN 0 ELSE HolderOf(m)
      <3>1. CASE ~Busy(m)'
        BY <3>1 DEF HolderOf
      <3>2. CASE Busy(m)'
        <4>1. PICK j \in JobIds : InFlight(j)' /\ jobs'[j].machine = m
          BY <3>2 DEF Busy
        <4>2. InFlight(j) /\ jobs[j].machine = m
          BY <4>1, <1>1, <1>2
        <4>3. HolderOf(m) = j
          BY <4>2, <1>0, HolderIsInFlight
        <4>4. \A k \in JobIds : InFlight(k)' /\ jobs'[k].machine = m => k = j
          BY <4>1, <1>0 DEF OneInFlight
        <4>5. HolderOf(m)' = j
          BY <4>1, <4>4, <3>2 DEF HolderOf
        <4> QED
          BY <4>3, <4>5, <3>2
      <3> QED
        BY <3>1, <3>2
    <2>2. spentNow' = spentNow
      BY <1>1, <1>2
    <2>3. S \in SUBSET Machines
      OBVIOUS
    <2>4. Mutex!Release(S)
      BY <2>1, <2>2 DEF Mutex!Release, Mutex!Free
    <2> QED
      BY <2>3, <2>4 DEF Mutex!Next
  <1>3. CASE \E j \in JobIds : RowMade(j) /\ \A k \in JobIds \ {j} : RowKept(k)
    <2>1. PICK j \in JobIds : RowMade(j) /\ \A k \in JobIds \ {j} : RowKept(k)
      BY <1>3
    <2>2. PICK m \in Machines :
             /\ ~Busy(m)
             /\ jobs'[j].status = "pending" /\ jobs'[j].machine = m
      BY <2>1 DEF RowMade
    <2>3. InFlight(j)' /\ jobs'[j].machine = m
      BY <2>2 DEF InFlight, InFlightStatus
    <2>4. HolderOf(m) = 0
      BY <2>2 DEF HolderOf
    <2>5. HolderOf(m)' = j
      <3>1. \A k \in JobIds : InFlight(k)' /\ jobs'[k].machine = m => k = j
        BY <2>3, <1>0 DEF OneInFlight
      <3> QED
        BY <2>3, <3>1 DEF HolderOf, Busy
    <2>6. ASSUME NEW n \in Machines, n # m PROVE HolderOf(n)' = HolderOf(n)
      <3>1. ASSUME NEW k \in JobIds
            PROVE  (InFlight(k)' /\ jobs'[k].machine = n) <=> (InFlight(k) /\ jobs[k].machine = n)
        <4>1. CASE k = j
          BY <4>1, <2>1, <2>2, <2>6 DEF RowMade, InFlight, InFlightStatus
        <4>2. CASE k # j
          BY <4>2, <2>1 DEF RowKept, InFlight
        <4> QED
          BY <4>1, <4>2
      <3> QED
        BY <3>1 DEF HolderOf, Busy
    <2>7. j \notin spentNow /\ spentNow' = spentNow \cup {j}
      BY <2>1, <2>2 DEF RowMade, RowKept
    <2>8. Mutex!Acquire(m, j)
      BY <2>4, <2>5, <2>6, <2>7 DEF Mutex!Acquire, Mutex!Free
    <2> QED
      BY <2>8 DEF Mutex!Next
  <1> QED
    BY <1>2, <1>3, WriteByRow DEF IInv

(* The jobs table with its partial UNIQUE index implements the per-machine *)
(* mutex that its schema promises.                                         *)
THEOREM ImplementsMutex == Spec => MutexImplemented
  <1>1. Init => Mutex!Init
    BY DEF Init, NoRow, Mutex!Init, Mutex!Free, HolderOf, Busy, InFlight, InFlightStatus
  <1>2. IInv /\ IInv' /\ [Next]_vars => [Mutex!Next]_(Mutex!vars)
    <2>1. ASSUME UNCHANGED jobs PROVE UNCHANGED Mutex!vars
      BY <2>1 DEF Mutex!vars, HolderOf, Busy, InFlight
    <2> QED
      BY <2>1, MutexStep DEF Next, ClockTick, vars
  <1> QED
    BY <1>1, <1>2, Invariance, PTL DEF Spec, MutexImplemented, Mutex!Spec
=============================================================================
