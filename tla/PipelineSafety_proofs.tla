------------------------ MODULE PipelineSafety_proofs ------------------------
(***************************************************************************)
(* Proofs of what the install pipeline is for: every write of a binding    *)
(* gets at most one attempt, and a machine is power-cycled into its disk   *)
(* only when nothing is being installed there and the disk is complete.    *)
(*                                                                         *)
(* The lemmas of the first part say once what a step of any party may do   *)
(* to each table, disk and goroutine ("moves"); the parts of the invariant *)
(* are then proved from these moves, not from the actions.                 *)
(***************************************************************************)
EXTENDS InstallPipeline_proofs

-----------------------------------------------------------------------------
(* What a step may do to the rows of the jobs table.                       *)

(* A row never changes what it is about, and never comes (back) to life.   *)
RowKeeps(j) ==
  /\ jobs[j].status # "unissued" => jobs'[j].status # "unissued"
  /\ jobs'[j].status \notin Store!NoRowStatus =>
       /\ Store!Exists(j)
       /\ jobs'[j].machine = jobs[j].machine
       /\ jobs'[j].image = jobs[j].image
       /\ jobs'[j].created = jobs[j].created
  /\ jobs'[j].status \in Store!InFlightStatus => Store!InFlight(j)

(* A row does not become succeeded.                                        *)
NoSuccess(j) == jobs'[j].status = "succeeded" => jobs'[j] = jobs[j]

RowsKeep == \A j \in JobIds : RowKeeps(j) /\ NoSuccess(j)

LEMMA SameRowsKeep == ASSUME UNCHANGED jobs PROVE RowsKeep
  BY DEF RowsKeep, RowKeeps, NoSuccess, Store!Exists, Store!InFlight

LEMMA WorkKeeps ==
  ASSUME JobsOK, NEW j \in JobIds,
         \/ Store!Claim(j)
         \/ \E s \in OrchStages \cup AgentStages : Store!UpdateStage(j, s)
  PROVE  RowsKeep
  <1> SUFFICES ASSUME NEW k \in JobIds PROVE RowKeeps(k) /\ NoSuccess(k)
    BY DEF RowsKeep
  <1>1. jobs \in [JobIds -> Store!Job]
    BY DEF JobsOK, Store!TypeOK, JobIds, Store!JobIds
  <1>2. CASE Store!Claim(j)
    BY <1>1, <1>2 DEF Store!Claim, RowKeeps, NoSuccess, Store!Exists, Store!InFlight,
                      Store!InFlightStatus, Store!NoRowStatus, Store!Job
  <1>3. ASSUME NEW s \in OrchStages \cup AgentStages, Store!UpdateStage(j, s)
        PROVE  RowKeeps(k) /\ NoSuccess(k)
    BY <1>1, <1>3 DEF Store!UpdateStage, RowKeeps, NoSuccess, Store!Exists, Store!InFlight,
                      Store!InFlightStatus, Store!NoRowStatus, Store!Job
  <1> QED
    BY <1>2, <1>3

LEMMA EndKeeps ==
  ASSUME JobsOK, NEW j \in JobIds, NEW target \in Store!TerminalStatus,
         NEW from \in SUBSET Store!InFlightStatus, Store!Terminate(j, target, from)
  PROVE  /\ \A k \in JobIds : RowKeeps(k)
         /\ \A k \in JobIds : k # j \/ target # "succeeded" => NoSuccess(k)
  <1>1. jobs \in [JobIds -> Store!Job]
    BY DEF JobsOK, Store!TypeOK, JobIds, Store!JobIds
  <1>2. PICK t : jobs' = [jobs EXCEPT ![j].status = target, ![j].finished = t]
    BY DEF Store!Terminate
  <1>3. jobs[j].status \in Store!InFlightStatus
    BY DEF Store!Terminate
  <1>4. \A k \in JobIds : k # j => jobs'[k] = jobs[k]
    BY <1>1, <1>2
  <1>5. /\ jobs'[j].status = target /\ jobs'[j].machine = jobs[j].machine
        /\ jobs'[j].image = jobs[j].image /\ jobs'[j].created = jobs[j].created
    BY <1>1, <1>2 DEF Store!Job
  <1> QED
    BY <1>3, <1>4, <1>5 DEF RowKeeps, NoSuccess, Store!Exists, Store!InFlight,
       Store!InFlightStatus, Store!TerminalStatus, Store!NoRowStatus

LEMMA DropKeeps ==
  ASSUME JobsOK, NEW S \in SUBSET {j \in JobIds : Store!Exists(j)}, Store!DeleteRows(S)
  PROVE  RowsKeep
  <1> SUFFICES ASSUME NEW k \in JobIds PROVE RowKeeps(k) /\ NoSuccess(k)
    BY DEF RowsKeep
  <1>1. jobs'[k] = IF k \in S THEN Store!NoRow("deleted") ELSE jobs[k]
    BY DEF Store!DeleteRows, JobIds, Store!JobIds
  <1> QED
    BY <1>1 DEF RowKeeps, NoSuccess, Store!Exists, Store!InFlight, Store!NoRow,
                Store!InFlightStatus, Store!NoRowStatus

(* Operators end and drop jobs.                                            *)
LEMMA OperatorKeeps == TInv /\ Operator => RowsKeep
  <1> SUFFICES ASSUME TInv, Operator PROVE RowsKeep
    OBVIOUS
  <1>0. JobsOK
    BY DEF TInv
  <1>1. ASSUME NEW j \in JobIds, CancelJob(j) PROVE RowsKeep
    <2>1. Store!Terminate(j, "cancelled", Store!InFlightStatus)
      BY <1>1 DEF CancelJob, Store!Cancel
    <2>2. "cancelled" \in Store!TerminalStatus /\ "cancelled" # "succeeded"
      BY DEF Store!TerminalStatus
    <2> QED
      BY <1>0, <2>1, <2>2, EndKeeps DEF RowsKeep
  <1>2. ASSUME NEW j \in JobIds, DeleteJob(j) PROVE RowsKeep
    <2>1. Store!Exists(j) /\ Store!DeleteRows({j})
      BY <1>2 DEF DeleteJob, Store!Delete, Store!Terminal, Store!TerminalStatus,
                  Store!Exists, Store!NoRowStatus
    <2> QED
      BY <1>0, <2>1, DropKeeps
  <1>3. CASE PurgeJobs
    <2> DEFINE S == {j \in Store!JobIds : Store!Terminal(j)}
    <2>1. S \in SUBSET {j \in JobIds : Store!Exists(j)}
      BY DEF Store!Terminal, Store!TerminalStatus, Store!Exists, Store!NoRowStatus,
             JobIds, Store!JobIds
    <2>2. Store!DeleteRows(S)
      BY <1>3 DEF PurgeJobs, Store!DeleteAllTerminal
    <2> QED
      BY <1>0, <2>1, <2>2, DropKeeps
  <1>4. CASE DeleteImageJobs
    <2> DEFINE S == {j \in Store!JobIds : Store!Exists(j) /\ jobs[j].image = deleting.image}
    <2>1. S \in SUBSET {j \in JobIds : Store!Exists(j)}
      BY DEF JobIds, Store!JobIds
    <2>2. Store!DeleteRows(S)
      BY <1>4 DEF DeleteImageJobs, Store!DeleteByImage
    <2> QED
      BY <1>0, <2>1, <2>2, DropKeeps
  <1>5. CASE UNCHANGED jobs
    BY <1>5, SameRowsKeep
  <1> QED
    BY <1>1, <1>2, <1>3, <1>4, <1>5
    DEF Operator, PutBinding, DeleteBinding, EditJobs, DeleteImageBindings, DeleteImageRow

LEMMA FailKeeps == ASSUME JobsOK, NEW j \in JobIds, TryFail(j) PROVE RowsKeep
  <1>1. CASE Store!Fail(j)
    <2>1. Store!Terminate(j, "failed", Store!InFlightStatus)
      BY <1>1 DEF Store!Fail
    <2>2. "failed" \in Store!TerminalStatus /\ "failed" # "succeeded"
      BY DEF Store!TerminalStatus
    <2> QED
      BY <2>1, <2>2, EndKeeps DEF RowsKeep
  <1>2. CASE UNCHANGED jobs
    BY <1>2, SameRowsKeep
  <1> QED
    BY <1>1, <1>2 DEF TryFail

(* The orchestrator makes jobs; it never ends one as succeeded.            *)
LEMMA OrchKeeps == TInv /\ OrchStep => RowsKeep \/ OrchCreate
  <1> SUFFICES ASSUME TInv, OrchStep PROVE RowsKeep \/ OrchCreate
    OBVIOUS
  <1>0. JobsOK
    BY DEF TInv
  <1>1. CASE OrchFailJob \/ OrchClaim \/ OrchStage
    <2>1. orch.job \in JobIds
      BY <1>1 DEF OrchFailJob, OrchClaim, OrchStage, TInv, OrchOK, OrchWorking
    <2>2. CASE UNCHANGED jobs
      BY <2>2, SameRowsKeep
    <2>3. CASE TryFail(orch.job)
      BY <1>0, <2>1, <2>3, FailKeeps
    <2>4. CASE Store!Claim(orch.job)
      BY <1>0, <2>1, <2>4, WorkKeeps
    <2>5. ASSUME NEW s \in OrchStages, Store!UpdateStage(orch.job, s) PROVE RowsKeep
      BY <1>0, <2>1, <2>5, WorkKeeps
    <2>6. "waiting_agent" \in OrchStages /\ "pxe_booting" \in OrchStages
      BY DEF OrchStages
    <2> QED
      BY <1>1, <2>2, <2>3, <2>4, <2>5, <2>6
      DEF OrchFailJob, OrchClaim, OrchStage, TryClaim, TryUpdateStage
  <1>2. CASE UNCHANGED jobs
    BY <1>2, SameRowsKeep
  <1> QED
    BY <1>1, <1>2
    DEF OrchStep, OrchScan, OrchSkip, OrchLiveCheck, OrchBootDevice, OrchCycle,
        OrchScanSucceeded, OrchDiskDevice, OrchDiskCycle, OrchClear, OrchTickEnds

(* An agent ends its own job as succeeded, and only from "succeed".        *)
LEMMA AgentKeeps ==
  ASSUME TInv, NEW m \in Machines, InstallStep(m)
  PROVE  RowsKeep \/ (AgentSucceed(m) /\ Store!Succeed(agent[m].job))
  <1> DEFINE j == agent[m].job
  <1>0. JobsOK
    BY DEF TInv
  <1>1. CASE AgentClaim(m) \/ AgentFail(m) \/ AgentSucceed(m)
    <2>1. j \in JobIds
      BY <1>1 DEF AgentClaim, AgentFail, AgentSucceed, TInv, AgentsOK, AgentWorking
    <2>2. CASE UNCHANGED jobs
      BY <2>2, SameRowsKeep
    <2>3. CASE TryFail(j)
      BY <1>0, <2>1, <2>3, FailKeeps
    <2>4. CASE Store!Claim(j)
      BY <1>0, <2>1, <2>4, WorkKeeps
    <2> QED
      BY <1>1, <2>2, <2>3, <2>4 DEF AgentClaim, AgentFail, AgentSucceed
  <1>2. CASE AgentPostStage(m)
    <2>1. j \in JobIds /\ agent[m].idx \in 1 .. Len(InstallStages)
      BY <1>2 DEF AgentPostStage, TInv, AgentsOK, AgentWorking
    <2>2. InstallStages[agent[m].idx] \in AgentStages
      BY <2>1, StagesAssumption DEF AgentStages
    <2>3. CASE UNCHANGED jobs
      BY <2>3, SameRowsKeep
    <2>4. CASE Store!UpdateStage(j, InstallStages[agent[m].idx])
      BY <1>0, <2>1, <2>2, <2>4, WorkKeeps
    <2> QED
      BY <1>2, <2>3, <2>4 DEF AgentPostStage
  <1>3. CASE UNCHANGED jobs
    BY <1>3, SameRowsKeep
  <1> QED
    BY <1>1, <1>2, <1>3 DEF InstallStep, AgentReport, AgentPoll, AgentSpec, AgentWork

LEMMA SucceedKeeps ==
  ASSUME TInv, NEW m \in Machines, AgentSucceed(m), Store!Succeed(agent[m].job)
  PROVE  /\ agent[m].job \in JobIds
         /\ jobs[agent[m].job].status = "running"
         /\ \A k \in JobIds : RowKeeps(k) /\ (k # agent[m].job => NoSuccess(k))
  <1>1. JobsOK /\ agent[m].job \in JobIds
    BY DEF AgentSucceed, TInv, AgentsOK, AgentWorking
  <1>2. Store!Terminate(agent[m].job, "succeeded", {"running"})
    BY DEF Store!Succeed
  <1>3. "succeeded" \in Store!TerminalStatus /\ {"running"} \in SUBSET Store!InFlightStatus
    BY DEF Store!TerminalStatus, Store!InFlightStatus
  <1> QED
    BY <1>1, <1>2, <1>3, EndKeeps DEF Store!Terminate

(* All together: a step keeps the rows, makes one, or ends one well.       *)
SomeSuccess == \E m \in Machines : AgentSucceed(m) /\ Store!Succeed(agent[m].job)

LEMMA JobsMove == TInv /\ [Next]_vars => RowsKeep \/ OrchCreate \/ SomeSuccess
  <1> SUFFICES ASSUME TInv, [Next]_vars PROVE RowsKeep \/ OrchCreate \/ SomeSuccess
    OBVIOUS
  <1>1. CASE UNCHANGED jobs
    BY <1>1, SameRowsKeep
  <1>2. ASSUME NEW m \in Machines, InstallStep(m) PROVE RowsKeep \/ SomeSuccess
    BY <1>2, AgentKeeps DEF SomeSuccess
  <1> QED
    BY <1>1, <1>2, OrchKeeps, OperatorKeeps
    DEF Next, Crash, Heartbeat, Boot, Reset, ClockTick, Store!ClockTick, dbVars,
        agentUnchanged, vars

(* What OrchCreate makes.                                                  *)
Makes(r, j, t) ==
  /\ orch.pc = "install" /\ r \in orch.rows /\ r \in Row
  /\ jobs[j].status = "unissued" /\ ~Store!Busy(r.machine)
  /\ t \in orch.since .. now /\ r.image \in catalog
  /\ \A k \in JobIds : k # j => jobs'[k] = jobs[k]
  /\ jobs'[j].status = "pending" /\ jobs'[j].machine = r.machine
  /\ jobs'[j].image = r.image /\ jobs'[j].created = t
  /\ jobRev' = [jobRev EXCEPT ![j] = r.rev]
  /\ orch'.pc = "live_check" /\ orch'.rows = orch.rows \ {r} /\ orch'.since = orch.since
  /\ UNCHANGED <<bindings, lastPut, now, disk, agent, catalog, puts>>

LEMMA CreateMakes ==
  ASSUME TInv, OrchCreate
  PROVE  \E r \in orch.rows, j \in JobIds, t \in Nat : Makes(r, j, t)
  <1>1. PICK r \in orch.rows, j \in JobIds, t \in orch.since .. now :
          /\ r.image \in catalog
          /\ Store!Create(j, r.machine, r.image, t)
          /\ jobRev' = [jobRev EXCEPT ![j] = r.rev]
          /\ orch' = [orch EXCEPT !.pc = "live_check", !.rows = @ \ {r},
                                  !.machine = r.machine, !.job = j]
    BY DEF OrchCreate
  <1>2. orch \in Orch /\ r \in Row /\ orch.since \in Nat /\ now \in Nat
    BY DEF TInv, OrchOK, JobsOK, Store!TypeOK, Orch
  <1>3. jobs \in [JobIds -> Store!Job]
    BY DEF TInv, JobsOK, Store!TypeOK, JobIds, Store!JobIds
  <1>4. /\ jobs[j].status = "unissued" /\ ~Store!Busy(r.machine)
        /\ jobs' = [jobs EXCEPT ![j] = [machine |-> r.machine, image |-> r.image,
                      status |-> "pending", stage |-> Nil, created |-> t,
                      finished |-> Store!Never]]
    BY <1>1 DEF Store!Create, Store!NextId
  <1>5. /\ orch'.pc = "live_check" /\ orch'.rows = orch.rows \ {r} /\ orch'.since = orch.since
    BY <1>1, <1>2 DEF Orch
  <1>6. orch.pc = "install" /\ UNCHANGED <<bindings, lastPut, now, disk, agent, catalog, puts>>
    BY DEF OrchCreate, orchUnchanged, hostVars
  <1>7. t \in Nat
    BY <1>2
  <1>8. Makes(r, j, t)
    BY <1>1, <1>2, <1>3, <1>4, <1>5, <1>6 DEF Makes
  <1> QED
    BY <1>7, <1>8

-----------------------------------------------------------------------------
(* What a step may do to the bindings.                                     *)

SomePut == \E m \in Machines, i \in Images, d \in {"none", "install"}, t \in 1 .. now :
             PutBinding(m, i, d, t)

(* Without a write of an operator a binding can only stop asking for an    *)
(* install (DELETE, the image cascade, ClearDesiredState).                 *)
BindingsLapse ==
  /\ UNCHANGED <<lastPut, puts>>
  /\ \A m \in Machines :
       \/ bindings'[m] = bindings[m]
       \/ /\ bindings'[m].desired # "install"
          /\ bindings'[m].rev \in {0, bindings[m].rev}
          /\ bindings'[m].updated \in {0, now}
          /\ bindings'[m].image \in {bindings[m].image, Nil}

LEMMA BindingsMove == TInv /\ [Next]_vars => SomePut \/ BindingsLapse
  <1> SUFFICES ASSUME TInv, [Next]_vars PROVE SomePut \/ BindingsLapse
    OBVIOUS
  <1>0. bindings \in [Machines -> Binding]
    BY DEF TInv, BindingsOK
  <1>1. CASE UNCHANGED <<bindings, lastPut, puts>>
    BY <1>1 DEF BindingsLapse
  <1>2. ASSUME NEW m \in Machines, DeleteBinding(m) PROVE BindingsLapse
    BY <1>0, <1>2 DEF DeleteBinding, NoBinding, BindingsLapse, boundVars
  <1>3. ASSUME NEW i \in Images, DeleteImageBindings(i) PROVE BindingsLapse
    BY <1>0, <1>3 DEF DeleteImageBindings, NoBinding, BindingsLapse, boundVars
  <1>4. CASE OrchClear
    <2>1. /\ UNCHANGED <<lastPut, puts, now>> /\ orch.machine \in Machines
      BY <1>4 DEF OrchClear, orchUnchanged, TInv, OrchOK, OrchWorking
    <2>2. bindings[orch.machine] \in Binding
      BY <1>0, <2>1
    <2> QED
      BY <1>0, <1>4, <2>1, <2>2 DEF OrchClear, BindingsLapse, Binding
  <1>5. CASE Operator
    BY <1>1, <1>2, <1>3, <1>5 DEF Operator, SomePut, EditJobs, DeleteImageJobs,
                                  DeleteImageRow, boundVars
  <1>6. CASE OrchStep
    BY <1>1, <1>4, <1>6
    DEF OrchStep, OrchScan, OrchCreate, OrchSkip, OrchLiveCheck, OrchBootDevice, OrchCycle,
        OrchFailJob, OrchClaim, OrchStage, OrchScanSucceeded, OrchDiskDevice, OrchDiskCycle,
        OrchTickEnds, orchUnchanged
  <1>7. CASE Crash \/ ClockTick \/ \E m \in Machines : InstallStep(m) \/ Heartbeat(m) \/ Boot(m) \/ Reset(m)
    BY <1>1, <1>7
    DEF Crash, ClockTick, InstallStep, Heartbeat, Boot, Reset, dbVars, boundVars, agentUnchanged,
        AgentReport, AgentPoll, AgentClaim, AgentSpec, AgentPostStage, AgentWork,
        AgentSucceed, AgentFail
  <1> QED
    BY <1>1, <1>5, <1>6, <1>7 DEF Next, vars, dbVars, boundVars

(* What a write does, spelled out.                                         *)
PutMakes(m, i, d, t) ==
  /\ i \in catalog /\ t \in lastPut .. now
  /\ lastPut' = now /\ puts' = puts + 1
  /\ \A n \in Machines : n # m => bindings'[n] = bindings[n]
  /\ bindings'[m] = [desired |-> d, image |-> i, updated |-> t, rev |-> puts + 1]
  /\ UNCHANGED <<jobs, now, orch, disk, agent, jobRev, catalog>>

LEMMA PutBindingMakes ==
  ASSUME TInv, NEW m \in Machines, NEW i, NEW d, NEW t, PutBinding(m, i, d, t)
  PROVE  PutMakes(m, i, d, t)
  BY DEF PutMakes, PutBinding, Bindable, hostVars, historyVars, TInv, BindingsOK

-----------------------------------------------------------------------------
(* What a step may do to the goroutines and the disks.                     *)

InstallPhase == {"install", "live_check", "boot", "cycle", "fail_job", "claim_live",
                 "claim_pxe", "stage_live", "stage_pxe"}
FinishPhase == {"finish", "finish_cycle", "clear"}

(* The orchestrator's rows come from a scan and get fewer.                 *)
OrchMoves ==
  /\ orch'.pc \in InstallPhase =>
       \/ /\ orch.pc \in InstallPhase
          /\ orch'.rows \subseteq orch.rows /\ orch'.since = orch.since
       \/ /\ orch'.rows = InstallRows /\ orch'.since = now
          /\ UNCHANGED <<jobs, bindings, lastPut, now, jobRev, puts>>
  /\ orch'.pc \in FinishPhase =>
       \/ orch.pc \in FinishPhase /\ orch'.rows \subseteq orch.rows
       \/ orch'.rows = FinalRows /\ UNCHANGED <<jobs, bindings, lastPut, disk, agent>>

LEMMA OrchMove == TInv /\ [Next]_vars => OrchMoves
  <1> SUFFICES ASSUME TInv, [Next]_vars PROVE OrchMoves
    OBVIOUS
  <1> USE DEF InstallPhase, FinishPhase, OrchMoves
  <1>0. orch \in Orch
    BY DEF TInv, OrchOK
  <1>1. CASE UNCHANGED orch
    BY <1>1
  <1>2. CASE orch' = OrchIdle
    BY <1>2 DEF OrchIdle
  <1>3. ASSUME NEW pc \in InstallPhase, orch.pc \in InstallPhase, orch'.pc = pc,
               orch'.rows \subseteq orch.rows, orch'.since = orch.since
        PROVE  OrchMoves
    BY <1>3
  <1>4. ASSUME NEW pc \in FinishPhase, orch.pc \in FinishPhase, orch'.pc = pc,
               orch'.rows \subseteq orch.rows
        PROVE  OrchMoves
    BY <1>4
  <1>5. CASE OrchStep
    <2>1. CASE OrchScan
      BY <1>0, <2>1 DEF OrchScan, OrchIdle, orchUnchanged, historyVars
    <2>2. CASE OrchCreate
      <3>1. PICK r : orch'.pc = "live_check" /\ orch'.rows = orch.rows \ {r} /\ orch'.since = orch.since
        BY <2>2, CreateMakes DEF Makes
      <3> QED
        BY <1>3, <2>2, <3>1 DEF OrchCreate
    <2>3. CASE OrchSkip
      <3>1. PICK r : orch' = [orch EXCEPT !.rows = @ \ {r}]
        BY <2>3 DEF OrchSkip
      <3>2. orch'.pc = "install" /\ orch'.rows = orch.rows \ {r} /\ orch'.since = orch.since
        BY <1>0, <2>3, <3>1 DEF OrchSkip, Orch
      <3> QED
        BY <1>3, <2>3, <3>2 DEF OrchSkip
    <2>4. CASE OrchLiveCheck \/ OrchBootDevice \/ OrchCycle \/ OrchFailJob \/ OrchClaim \/ OrchStage
      <3>1. orch.pc \in InstallPhase \ {"install"}
        BY <2>4 DEF OrchLiveCheck, OrchBootDevice, OrchCycle, OrchFailJob, OrchClaim, OrchStage
      <3>2. /\ orch'.pc \in InstallPhase
            /\ orch'.rows = orch.rows /\ orch'.since = orch.since
        BY <1>0, <2>4
        DEF OrchLiveCheck, OrchBootDevice, OrchCycle, OrchFailJob, OrchClaim, OrchStage, Orch
      <3> QED
        BY <1>3, <3>1, <3>2
    <2>5. CASE OrchScanSucceeded
      BY <1>0, <2>5 DEF OrchScanSucceeded, OrchIdle, orchUnchanged, hostVars
    <2>6. CASE OrchDiskDevice
      <3>1. PICK r \in orch.rows :
              \/ orch' = [orch EXCEPT !.pc = "finish_cycle", !.machine = r.machine, !.job = r.job]
              \/ orch' = [orch EXCEPT !.rows = @ \ {r}]
        BY <2>6 DEF OrchDiskDevice
      <3>2. orch.pc = "finish"
        BY <2>6 DEF OrchDiskDevice
      <3>3. /\ orch'.pc \in FinishPhase /\ orch'.rows \subseteq orch.rows
        BY <1>0, <3>1, <3>2 DEF Orch, FinishPhase
      <3> QED
        BY <1>4, <2>6, <3>3 DEF OrchDiskDevice
    <2>7. CASE OrchDiskCycle
      <3>1. PICK r \in orch.rows :
              \/ orch' = [orch EXCEPT !.pc = "clear", !.rows = @ \ {r}]
              \/ orch' = [orch EXCEPT !.pc = "finish", !.rows = @ \ {r}, !.job = 0, !.machine = Nil]
        BY <2>7 DEF OrchDiskCycle
      <3>2. /\ orch'.pc \in FinishPhase /\ orch'.rows \subseteq orch.rows
        BY <1>0, <3>1 DEF Orch, FinishPhase
      <3> QED
        BY <1>4, <2>7, <3>2 DEF OrchDiskCycle
    <2>8. CASE OrchClear
      <3>1. /\ orch'.pc \in FinishPhase /\ orch'.rows \subseteq orch.rows
        BY <1>0, <2>8 DEF OrchClear, Orch
      <3> QED
        BY <1>4, <2>8, <3>1 DEF OrchClear
    <2> QED
      BY <1>2, <1>5, <2>1, <2>2, <2>3, <2>4, <2>5, <2>6, <2>7, <2>8 DEF OrchStep, OrchTickEnds
  <1>6. CASE Operator
    BY <1>1, <1>6 DEF Operator, PutBinding, DeleteBinding, EditJobs, DeleteImageBindings,
                      DeleteImageJobs, DeleteImageRow
  <1>7. CASE Crash
    BY <1>2, <1>7 DEF Crash
  <1>8. CASE ClockTick \/ \E m \in Machines : InstallStep(m) \/ Heartbeat(m) \/ Boot(m) \/ Reset(m)
    BY <1>1, <1>8
    DEF ClockTick, InstallStep, Heartbeat, Boot, Reset, agentUnchanged,
        AgentReport, AgentPoll, AgentClaim, AgentSpec, AgentPostStage, AgentWork,
        AgentSucceed, AgentFail
  <1> QED
    BY <1>1, <1>5, <1>6, <1>7, <1>8 DEF Next, vars

(* Only OrchCreate says which write a job came from.                       *)
LEMMA RevMove == [Next]_vars => jobRev' = jobRev \/ OrchCreate
  BY DEF Next, vars, historyVars, Operator, PutBinding, DeleteBinding, EditJobs,
         DeleteImageBindings, DeleteImageJobs, DeleteImageRow, ClockTick, Crash,
         OrchStep, OrchScan, OrchSkip, OrchLiveCheck, OrchBootDevice, OrchCycle,
         OrchFailJob, OrchClaim, OrchStage, OrchScanSucceeded, OrchDiskDevice, OrchDiskCycle,
         OrchClear, OrchTickEnds, InstallStep, Heartbeat, Boot, Reset, agentUnchanged,
         AgentReport, AgentPoll, AgentClaim, AgentSpec, AgentPostStage, AgentWork,
         AgentSucceed, AgentFail

(* What a step may do to the agent and the disk of one machine: nothing;   *)
(* lose or end its job; take up a job; get its spec; go on with the job    *)
(* without touching the disk; start the work of a stage, which wipes the   *)
(* disk; complete the last stage.                                          *)
SameDisk(m) == disk'[m] = disk[m]
SameJob(m)  == agent'[m].job = agent[m].job /\ agent'[m].image = agent[m].image

Stays(m)    == agent'[m] = agent[m] /\ SameDisk(m)
Leaves(m)   == agent'[m].pc \notin AgentWorking /\ SameDisk(m)
Takes(m)    == /\ agent'[m].pc \in {"claim", "spec"} /\ agent'[m].job \in Store!Current(m)
               /\ UNCHANGED jobs /\ SameDisk(m)
Learns(m)   == /\ agent[m].pc = "spec" /\ agent'[m].pc = "stage"
               /\ agent'[m].job = agent[m].job /\ agent'[m].image = jobs[agent[m].job].image
               /\ UNCHANGED jobs /\ SameDisk(m)
Proceeds(m) == /\ agent[m].pc \in AgentWorking /\ agent'[m].pc \in {"spec", "stage", "fail"}
               /\ agent'[m].pc = "stage" => agent[m].pc = "work"
               /\ SameJob(m) /\ SameDisk(m)
Starts(m)   == /\ agent[m].pc = "stage" /\ agent'[m].pc = "work" /\ SameJob(m)
               /\ jobs[agent[m].job].status = "running"
Completes(m) == /\ agent[m].pc = "work" /\ agent'[m].pc = "succeed" /\ SameJob(m)
                /\ disk'[m] = agent[m].image

AgentMoves(m) ==
  Stays(m) \/ Leaves(m) \/ Takes(m) \/ Learns(m) \/ Proceeds(m) \/ Starts(m) \/ Completes(m)

(* Two shapes of a change of agent[m].                                     *)
LEMMA GotoMoves ==
  ASSUME TInv, NEW m \in Machines, NEW pc \in AgentPC, Goto(m, pc)
  PROVE  /\ agent'[m].pc = pc /\ SameJob(m)
         /\ \A n \in Machines : n # m => agent'[n] = agent[n]
  <1>1. agent \in [Machines -> Agent]
    BY DEF TInv, AgentsOK
  <1> QED
    BY <1>1 DEF Goto, SameJob, Agent

LEMMA RestMoves ==
  ASSUME TInv, NEW m \in Machines, NEW pc \in {"off", "report", "poll"},
         agent' = [agent EXCEPT ![m] = AgentAt(pc)], UNCHANGED disk
  PROVE  \A n \in Machines : AgentMoves(n)
  <1>1. agent \in [Machines -> Agent]
    BY DEF TInv, AgentsOK
  <1>2. agent'[m].pc = pc
    BY <1>1 DEF AgentAt
  <1> QED
    BY <1>1, <1>2 DEF AgentMoves, Stays, Leaves, SameDisk, AgentWorking

LEMMA OthersStay ==
  ASSUME TInv, NEW m \in Machines, AgentMoves(m),
         \A n \in Machines : n # m => agent'[n] = agent[n] /\ disk'[n] = disk[n]
  PROVE  \A n \in Machines : AgentMoves(n)
  BY DEF AgentMoves, Stays, SameDisk

LEMMA InstallMoves ==
  ASSUME TInv, NEW m \in Machines, InstallStep(m)
  PROVE  \A n \in Machines : AgentMoves(n)
  <1> DEFINE j == agent[m].job
  <1>0. /\ agent \in [Machines -> Agent] /\ disk \in [Machines -> Images \cup {Nil}]
        /\ agent[m] \in Agent
    BY DEF TInv, AgentsOK, HostsOK
  <1>1. ASSUME BackToPoll(m), UNCHANGED disk PROVE \A n \in Machines : AgentMoves(n)
    BY <1>1, RestMoves DEF BackToPoll
  <1>2. ASSUME NEW pc \in {"spec", "fail"}, agent[m].pc \in AgentWorking, Goto(m, pc), UNCHANGED disk
        PROVE  \A n \in Machines : AgentMoves(n)
    <2>1. Proceeds(m)
      BY <1>2, GotoMoves DEF Proceeds, SameDisk, AgentPC
    <2> QED
      BY <1>2, <2>1, GotoMoves, OthersStay DEF AgentMoves, AgentPC
  <1>3. CASE AgentReport(m)
    BY <1>1, <1>3 DEF AgentReport
  <1>4. CASE AgentPoll(m)
    <2>1. PICK k \in Store!Current(m), pc \in {"claim", "spec"} :
            agent' = [agent EXCEPT ![m] = [AgentAt(pc) EXCEPT !.job = k]]
      BY <1>4 DEF AgentPoll
    <2>2. agent'[m].pc = pc /\ agent'[m].job = k
      BY <1>0, <2>1 DEF AgentAt
    <2>3. Takes(m)
      BY <1>4, <2>2 DEF AgentPoll, Takes, SameDisk
    <2> QED
      BY <1>0, <1>4, <2>1, <2>3, OthersStay DEF AgentPoll, AgentMoves
  <1>5. CASE AgentClaim(m)
    BY <1>1, <1>2, <1>5 DEF AgentClaim, AgentWorking
  <1>6. CASE AgentSpec(m)
    <2>1. CASE Goto(m, "fail")
      BY <1>2, <1>6, <2>1 DEF AgentSpec, AgentWorking
    <2>2. CASE agent' = [agent EXCEPT ![m] = [pc |-> "stage", job |-> j,
                                              image |-> jobs[j].image, idx |-> 1]]
      <3>1. Learns(m)
        BY <1>0, <1>6, <2>2 DEF AgentSpec, Learns, SameDisk
      <3> QED
        BY <1>0, <1>6, <2>2, <3>1, OthersStay DEF AgentSpec, AgentMoves
    <2> QED
      BY <1>6, <2>1, <2>2 DEF AgentSpec
  <1>7. CASE AgentPostStage(m)
    <2>1. CASE Goto(m, "fail") /\ UNCHANGED disk
      BY <1>2, <1>7, <2>1 DEF AgentPostStage, AgentWorking
    <2>2. CASE /\ Store!UpdateStage(j, InstallStages[agent[m].idx]) /\ Goto(m, "work")
               /\ disk' = IF agent[m].idx >= WipeAt THEN [disk EXCEPT ![m] = Nil] ELSE disk
      <3>1. Starts(m)
        BY <1>7, <2>2, GotoMoves DEF AgentPostStage, Starts, Store!UpdateStage, AgentPC
      <3>2. \A n \in Machines : n # m => agent'[n] = agent[n] /\ disk'[n] = disk[n]
        BY <1>0, <2>2, GotoMoves DEF AgentPC
      <3> QED
        BY <3>1, <3>2, OthersStay DEF AgentMoves
    <2> QED
      BY <1>7, <2>1, <2>2 DEF AgentPostStage
  <1>8. CASE AgentWork(m)
    <2>1. CASE Goto(m, "fail") /\ UNCHANGED disk
      BY <1>2, <1>8, <2>1 DEF AgentWork, AgentWorking
    <2>2. CASE Goto(m, "succeed") /\ disk' = [disk EXCEPT ![m] = agent[m].image]
      <3>1. Completes(m)
        BY <1>0, <1>8, <2>2, GotoMoves DEF AgentWork, Completes, AgentPC
      <3>2. \A n \in Machines : n # m => agent'[n] = agent[n] /\ disk'[n] = disk[n]
        BY <1>0, <2>2, GotoMoves DEF AgentPC
      <3> QED
        BY <3>1, <3>2, OthersStay DEF AgentMoves
    <2>3. CASE agent' = [agent EXCEPT ![m].pc = "stage", ![m].idx = @ + 1] /\ UNCHANGED disk
      <3>1. agent'[m].pc = "stage" /\ SameJob(m)
        BY <1>0, <2>3 DEF SameJob, Agent
      <3>2. Proceeds(m)
        BY <1>8, <2>3, <3>1 DEF AgentWork, Proceeds, SameDisk, AgentWorking
      <3> QED
        BY <1>0, <2>3, <3>2, OthersStay DEF AgentMoves
    <2> QED
      BY <1>8, <2>1, <2>2, <2>3 DEF AgentWork
  <1>9. CASE AgentSucceed(m) \/ AgentFail(m)
    BY <1>1, <1>2, <1>9 DEF AgentSucceed, AgentFail, AgentWorking
  <1> QED
    BY <1>3, <1>4, <1>5, <1>6, <1>7, <1>8, <1>9 DEF InstallStep

LEMMA AgentsMove == TInv /\ [Next]_vars => \A m \in Machines : AgentMoves(m)
  <1> DEFINE Goal == \A m \in Machines : AgentMoves(m)
  <1> SUFFICES ASSUME TInv, [Next]_vars PROVE Goal
    OBVIOUS
  <1>1. CASE UNCHANGED <<agent, disk>>
    BY <1>1 DEF AgentMoves, Stays, SameDisk
  <1>2. ASSUME NEW m \in Machines, NEW pc \in {"off", "report", "poll"},
               agent' = [agent EXCEPT ![m] = AgentAt(pc)], UNCHANGED disk
        PROVE  Goal
    BY <1>2, RestMoves
  <1>3. ASSUME NEW m \in Machines, PowerCycle(m) PROVE Goal
    BY <1>2, <1>3 DEF PowerCycle
  <1>4. CASE OrchStep
    <2>1. CASE OrchCycle
      <3>1. orch.machine \in Machines
        BY <2>1 DEF OrchCycle, TInv, OrchOK, OrchWorking
      <3> QED
        BY <1>1, <1>3, <2>1, <3>1 DEF OrchCycle, hostVars
    <2>2. CASE OrchDiskCycle
      <3>1. orch.machine \in Machines
        BY <2>2 DEF OrchDiskCycle, TInv, OrchOK, OrchWorking
      <3> QED
        BY <1>1, <1>3, <2>2, <3>1 DEF OrchDiskCycle, hostVars
    <2> QED
      BY <1>1, <1>4, <2>1, <2>2
      DEF OrchStep, OrchScan, OrchCreate, OrchSkip, OrchLiveCheck, OrchBootDevice,
          OrchFailJob, OrchClaim, OrchStage, OrchScanSucceeded, OrchDiskDevice,
          OrchClear, OrchTickEnds, SetBootDevice, hostVars
  <1>5. ASSUME NEW m \in Machines, Boot(m) \/ Reset(m) PROVE Goal
    BY <1>1, <1>2, <1>5 DEF Boot, Reset
  <1>6. CASE Operator \/ Crash \/ ClockTick \/ \E m \in Machines : Heartbeat(m)
    BY <1>1, <1>6 DEF Operator, PutBinding, DeleteBinding, EditJobs, DeleteImageBindings,
                      DeleteImageJobs, DeleteImageRow, Crash, ClockTick, Heartbeat, hostVars
  <1>7. ASSUME NEW m \in Machines, InstallStep(m) PROVE Goal
    BY <1>7, InstallMoves
  <1> QED
    BY <1>1, <1>4, <1>5, <1>6, <1>7 DEF Next, vars, hostVars

-----------------------------------------------------------------------------
(* No dangling references (NoDanglingImage).                               *)

LEMMA ReferencesStep == TInv /\ NoDanglingImage /\ [Next]_vars => NoDanglingImage'
  <1> SUFFICES ASSUME TInv, NoDanglingImage, [Next]_vars, NEW i \in Images, Referenced(i)'
               PROVE  i \in catalog'
    BY DEF NoDanglingImage
  <1>1. CASE OrchCreate
    <2>1. PICK r \in orch.rows, j \in JobIds, t \in Nat : Makes(r, j, t)
      BY <1>1, CreateMakes
    <2>2. CASE i = r.image
      BY <2>1, <2>2 DEF Makes
    <2>3. CASE i # r.image
      <3>1. Referenced(i)
        BY <2>1, <2>3 DEF Makes, Referenced, Store!Exists
      <3> QED
        BY <2>1, <3>1 DEF NoDanglingImage, Makes
    <2> QED
      BY <2>2, <2>3
  <1>2. CASE SomePut
    <2>1. PICK m \in Machines, k \in Images, d \in {"none", "install"}, t \in 1 .. now :
            PutMakes(m, k, d, t)
      BY <1>2, PutBindingMakes DEF SomePut
    <2>2. CASE i = k
      BY <2>1, <2>2 DEF PutMakes
    <2>3. CASE i # k
      <3>1. Referenced(i)
        BY <2>1, <2>3 DEF PutMakes, Referenced, Store!Exists
      <3> QED
        BY <2>1, <3>1 DEF NoDanglingImage, PutMakes
    <2> QED
      BY <2>2, <2>3
  <1>3. CASE DeleteImageRow
    <2>1. UNCHANGED <<jobs, bindings>>
      BY <1>3 DEF DeleteImageRow
    <2>2. Referenced(i)
      BY <2>1 DEF Referenced, Store!Exists
    <2> QED
      BY <1>3, <2>2 DEF DeleteImageRow, NoDanglingImage
  <1>4. ASSUME ~OrchCreate, ~SomePut, ~DeleteImageRow PROVE i \in catalog'
    <2>1. \A j \in JobIds : RowKeeps(j)
      BY <1>4, JobsMove, SucceedKeeps DEF RowsKeep, SomeSuccess
    <2>2. \A m \in Machines : bindings'[m].image \in {bindings[m].image, Nil}
      BY <1>4, BindingsMove DEF BindingsLapse
    <2>3. Referenced(i)
      BY <2>1, <2>2, NilAssumption DEF Referenced, RowKeeps, Store!Exists
    <2>4. UNCHANGED catalog
      BY <1>4 DEF Next, vars, dbVars, Operator, SomePut, DeleteBinding, EditJobs,
         DeleteImageBindings, DeleteImageJobs, ClockTick, Crash,
         OrchStep, OrchScan, OrchSkip, OrchLiveCheck, OrchBootDevice, OrchCycle,
         OrchFailJob, OrchClaim, OrchStage, OrchScanSucceeded, OrchDiskDevice, OrchDiskCycle,
         OrchClear, OrchTickEnds, orchUnchanged, InstallStep, Heartbeat, Boot, Reset,
         agentUnchanged, AgentReport, AgentPoll, AgentClaim, AgentSpec, AgentPostStage,
         AgentWork, AgentSucceed, AgentFail
    <2> QED
      BY <2>3, <2>4 DEF NoDanglingImage
  <1> QED
    BY <1>1, <1>2, <1>3, <1>4

(* No binding and no job ever refers to an image that is gone, although    *)
(* DELETE /images/{id} is three statements and others write in between.    *)
THEOREM ReferencesAreKept == Spec => []NoDanglingImage
  <1>1. Init => NoDanglingImage
    BY NilAssumption DEF Init, NoDanglingImage, Referenced, NoBinding
  <1> QED
    BY <1>1, ReferencesStep, TypedAlways, PTL DEF Spec

-----------------------------------------------------------------------------
(* One attempt per write of the binding (OneJobPerRevision).               *)

(* Stamps of bindings lie in the past; the stamp of a request is not later *)
(* than the end of the last write (allocMu).                               *)
ClocksOK ==
  /\ lastPut <= now
  /\ \A m \in Machines : /\ bindings[m].updated <= now
                         /\ bindings[m].desired = "install" => bindings[m].updated <= lastPut

(* Revisions are numbered by the writes; the job of the current revision   *)
(* of a request is created no earlier than the request.                    *)
RevsOK ==
  /\ \A m \in Machines : bindings[m].rev <= puts
  /\ \A j \in JobIds : jobRev[j] <= puts
  /\ \A j \in JobIds, m \in Machines :
       /\ Store!Exists(j) /\ jobs[j].machine = m
       /\ bindings[m].desired = "install" /\ jobRev[j] = bindings[m].rev
       => jobs[j].created >= bindings[m].updated

(* A row of the scan names a write no job on record came from, and a write *)
(* that is still current was made before the scan.                         *)
RowFresh(r) ==
  /\ r.rev <= puts
  /\ \A j \in JobIds : Store!Exists(j) /\ jobs[j].machine = r.machine => jobRev[j] # r.rev
  /\ bindings[r.machine].desired = "install" /\ bindings[r.machine].rev = r.rev
       => bindings[r.machine].updated <= orch.since
RowsOK ==
  orch.pc \in InstallPhase =>
    /\ \A r \in orch.rows : RowFresh(r)
    /\ \A r, s \in orch.rows : s.machine = r.machine => s = r

RevInv == ClocksOK /\ RevsOK /\ RowsOK /\ OneJobPerRevision

LEMMA RevInit == Init => RevInv
  BY DEF Init, RevInv, ClocksOK, RevsOK, RowsOK, OneJobPerRevision, OrchIdle, InstallPhase,
         NoBinding, Store!Init, Store!Exists, Store!NoRow, Store!NoRowStatus, JobIds, Store!JobIds

(* The clock, the writes and the numbers only grow.                        *)
LEMMA CountersGrow ==
  TInv /\ [Next]_vars => /\ now' \in Nat /\ now <= now'
                         /\ puts' \in Nat /\ puts <= puts'
  <1> SUFFICES ASSUME TInv, [Next]_vars
               PROVE  now' \in Nat /\ now <= now' /\ puts' \in Nat /\ puts <= puts'
    OBVIOUS
  <1>0. now \in Nat /\ puts \in Nat
    BY DEF TInv, JobsOK, Store!TypeOK, HistoryOK
  <1>1. now' = now \/ now' = now + 1
    <2>1. CASE Next
      BY <2>1, StoreStep DEF StoreWrite, Store!ClockTick
    <2> QED
      BY <2>1 DEF vars
  <1>2. puts' = puts \/ puts' = puts + 1
    BY BindingsMove, PutBindingMakes DEF SomePut, PutMakes, BindingsLapse
  <1> QED
    BY <1>0, <1>1, <1>2

LEMMA ClocksStep == TInv /\ ClocksOK /\ [Next]_vars => ClocksOK' /\ lastPut <= lastPut'
  <1> SUFFICES ASSUME TInv, ClocksOK, [Next]_vars PROVE ClocksOK' /\ lastPut <= lastPut'
    OBVIOUS
  <1>0. /\ now \in Nat /\ now' \in Nat /\ now <= now' /\ lastPut \in Nat
        /\ \A m \in Machines : bindings[m].updated \in Nat
    BY CountersGrow DEF TInv, JobsOK, Store!TypeOK, BindingsOK, Binding
  <1>1. CASE SomePut
    <2>1. PICK m \in Machines, i \in Images, d \in {"none", "install"}, t \in 1 .. now :
            PutMakes(m, i, d, t)
      BY <1>1, PutBindingMakes DEF SomePut
    <2> QED
      BY <1>0, <2>1 DEF PutMakes, ClocksOK
  <1>2. CASE BindingsLapse
    BY <1>0, <1>2 DEF BindingsLapse, ClocksOK
  <1> QED
    BY <1>1, <1>2, BindingsMove

(* OrchCreate keeps every part: the row it takes is fresh, the others are  *)
(* of other machines.                                                      *)
LEMMA RevCreate ==
  ASSUME TInv, RevInv, NEW r \in orch.rows, NEW j \in JobIds, NEW t \in Nat, Makes(r, j, t)
  PROVE  RevsOK' /\ RowsOK' /\ OneJobPerRevision'
  <1>0. /\ jobRev \in [JobIds -> Nat] /\ orch.pc \in InstallPhase
        /\ \A s \in orch.rows : s.machine \in Machines /\ s.rev \in Nat
        /\ \A m \in Machines : bindings[m].updated \in Nat
        /\ orch.since \in Nat /\ now \in Nat
    BY DEF TInv, HistoryOK, Makes, InstallPhase, OrchOK, Orch, Row, BindingsOK, Binding,
           JobsOK, Store!TypeOK
  <1>1. RowFresh(r) /\ r.machine \in Machines
    BY <1>0 DEF RevInv, RowsOK
  <1>2. /\ jobRev'[j] = r.rev /\ jobs'[j].machine = r.machine /\ jobs'[j].created = t
        /\ \A k \in JobIds : k # j => jobRev'[k] = jobRev[k] /\ jobs'[k] = jobs[k]
    BY <1>0 DEF Makes
  <1>3. ~Store!Exists(j)
    BY DEF Makes, Store!Exists, Store!NoRowStatus
  <1>4. RevsOK'
    <2>1. \A m \in Machines : bindings'[m].rev <= puts'
      BY DEF Makes, RevInv, RevsOK
    <2>2. \A k \in JobIds : jobRev'[k] <= puts'
      BY <1>1, <1>2 DEF Makes, RevInv, RevsOK, RowFresh
    <2>3. ASSUME NEW k \in JobIds, NEW m \in Machines,
                 Store!Exists(k)', jobs'[k].machine = m,
                 bindings'[m].desired = "install", jobRev'[k] = bindings'[m].rev
          PROVE  jobs'[k].created >= bindings'[m].updated
      <3>1. CASE k = j
        <4>1. bindings[m].updated <= orch.since /\ orch.since <= t
          BY <1>0, <1>1, <1>2, <2>3, <3>1 DEF Makes, RowFresh
        <4> QED
          BY <1>0, <1>2, <3>1, <4>1 DEF Makes
      <3>2. CASE k # j
        BY <1>2, <2>3, <3>2 DEF Makes, RevInv, RevsOK, Store!Exists
      <3> QED
        BY <3>1, <3>2
    <2> QED
      BY <2>1, <2>2, <2>3 DEF RevsOK
  <1>5. RowsOK'
    <2>1. ASSUME NEW s \in orch'.rows PROVE RowFresh(s)'
      <3>1. s \in orch.rows /\ s # r
        BY DEF Makes
      <3>2. s.machine # r.machine /\ RowFresh(s)
        BY <1>0, <3>1 DEF RevInv, RowsOK
      <3> QED
        BY <1>2, <3>2 DEF RowFresh, Makes, Store!Exists
    <2>2. \A s, u \in orch'.rows : u.machine = s.machine => u = s
      BY <1>0 DEF Makes, RevInv, RowsOK
    <2> QED
      BY <2>1, <2>2 DEF RowsOK
  <1>6. OneJobPerRevision'
    <2> SUFFICES ASSUME NEW k \in JobIds, NEW l \in JobIds, Store!Exists(k)', Store!Exists(l)',
                        jobs'[k].machine = jobs'[l].machine, jobRev'[k] = jobRev'[l]
                 PROVE  k = l
      BY DEF OneJobPerRevision
    <2>1. CASE k # j /\ l # j
      BY <1>2, <2>1 DEF RevInv, OneJobPerRevision, Store!Exists
    <2>2. CASE k = j /\ l # j
      BY <1>1, <1>2, <2>2 DEF RowFresh, Store!Exists
    <2>3. CASE l = j /\ k # j
      BY <1>1, <1>2, <2>3 DEF RowFresh, Store!Exists
    <2> QED
      BY <2>1, <2>2, <2>3
  <1> QED
    BY <1>4, <1>5, <1>6

(* Any other step: no row appears, and a new write has a new number.       *)
LEMMA RevOther ==
  TInv /\ RevInv /\ [Next]_vars /\ ~OrchCreate => RevsOK' /\ RowsOK' /\ OneJobPerRevision'
  <1> SUFFICES ASSUME TInv, RevInv, [Next]_vars, ~OrchCreate
               PROVE  RevsOK' /\ RowsOK' /\ OneJobPerRevision'
    OBVIOUS
  <1>0. /\ puts \in Nat /\ puts' \in Nat /\ puts <= puts' /\ now \in Nat
        /\ lastPut \in Nat /\ jobRev \in [JobIds -> Nat]
        /\ \A m \in Machines : bindings[m].updated \in Nat /\ bindings[m].rev \in Nat
        /\ \A r \in orch.rows : r.machine \in Machines /\ r.rev \in Nat
    BY CountersGrow DEF TInv, HistoryOK, JobsOK, Store!TypeOK, BindingsOK, Binding,
       OrchOK, Orch, Row
  <1>1. \A j \in JobIds : RowKeeps(j)
    BY JobsMove, SucceedKeeps DEF RowsKeep, SomeSuccess
  <1>2. UNCHANGED jobRev
    BY RevMove
  <1>3. ASSUME NEW m \in Machines, NEW rev \in Nat, rev <= puts,
               bindings'[m].desired = "install", bindings'[m].rev = rev
        PROVE  bindings'[m] = bindings[m]
    <2>1. CASE SomePut
      <3>1. PICK n \in Machines, i \in Images, d \in {"none", "install"}, t \in 1 .. now :
              PutMakes(n, i, d, t)
        BY <2>1, PutBindingMakes DEF SomePut
      <3>2. CASE m = n
        BY <1>0, <1>3, <3>1, <3>2 DEF PutMakes
      <3> QED
        BY <3>1, <3>2 DEF PutMakes
    <2> QED
      BY <1>3, <2>1, BindingsMove DEF BindingsLapse
  <1>4. RevsOK'
    <2>1. \A m \in Machines : bindings'[m].rev <= puts'
      <3>1. CASE SomePut
        <4>1. PICK n \in Machines, i \in Images, d \in {"none", "install"}, t \in 1 .. now :
                PutMakes(n, i, d, t)
          BY <3>1, PutBindingMakes DEF SomePut
        <4> QED
          BY <1>0, <4>1 DEF PutMakes, RevInv, RevsOK
      <3>2. CASE BindingsLapse
        BY <1>0, <3>2 DEF BindingsLapse, RevInv, RevsOK
      <3> QED
        BY <3>1, <3>2, BindingsMove
    <2>2. \A j \in JobIds : jobRev'[j] <= puts'
      BY <1>0, <1>2 DEF RevInv, RevsOK
    <2>3. ASSUME NEW j \in JobIds, NEW m \in Machines,
                 Store!Exists(j)', jobs'[j].machine = m,
                 bindings'[m].desired = "install", jobRev'[j] = bindings'[m].rev
          PROVE  jobs'[j].created >= bindings'[m].updated
      <3>1. jobRev[j] \in Nat /\ jobRev[j] <= puts /\ jobRev'[j] = jobRev[j]
        BY <1>0, <1>2 DEF RevInv, RevsOK
      <3>2. bindings'[m] = bindings[m]
        BY <1>3, <2>3, <3>1
      <3> QED
        BY <1>1, <2>3, <3>1, <3>2 DEF RowKeeps, RevInv, RevsOK, Store!Exists
    <2> QED
      BY <2>1, <2>2, <2>3 DEF RevsOK
  <1>5. OneJobPerRevision'
    BY <1>1, <1>2 DEF RevInv, OneJobPerRevision, RowKeeps, Store!Exists
  <1>6. RowsOK'
    <2> SUFFICES ASSUME orch'.pc \in InstallPhase
                 PROVE  /\ \A r \in orch'.rows : RowFresh(r)'
                        /\ \A r, s \in orch'.rows : s.machine = r.machine => s = r
      BY DEF RowsOK
    <2>1. CASE orch.pc \in InstallPhase /\ orch'.rows \subseteq orch.rows /\ orch'.since = orch.since
      <3>1. ASSUME NEW r \in orch'.rows PROVE RowFresh(r)'
        <4>1. RowFresh(r) /\ r.machine \in Machines /\ r.rev \in Nat /\ r.rev <= puts
          BY <1>0, <2>1 DEF RevInv, RowsOK, RowFresh
        <4>2. r.rev <= puts'
          BY <1>0, <4>1
        <4>3. \A j \in JobIds : Store!Exists(j)' /\ jobs'[j].machine = r.machine => jobRev'[j] # r.rev
          BY <1>1, <1>2, <4>1 DEF RowFresh, RowKeeps, Store!Exists
        <4>4. bindings'[r.machine].desired = "install" /\ bindings'[r.machine].rev = r.rev
                => bindings'[r.machine].updated <= orch'.since
          BY <1>3, <2>1, <4>1 DEF RowFresh
        <4> QED
          BY <4>2, <4>3, <4>4 DEF RowFresh
      <3> QED
        BY <2>1, <3>1 DEF RevInv, RowsOK
    <2>2. CASE /\ orch'.rows = InstallRows /\ orch'.since = now
               /\ UNCHANGED <<jobs, bindings, lastPut, now, jobRev, puts>>
      <3>1. ASSUME NEW r \in InstallRows PROVE RowFresh(r)'
        <4>1. /\ r.machine \in Machines /\ bindings[r.machine].desired = "install"
              /\ r.rev = bindings[r.machine].rev
              /\ \A j \in JobIds : ~Blocks(j, r.machine)
          BY DEF InstallRows
        <4>2. ASSUME NEW j \in JobIds, Store!Exists(j), jobs[j].machine = r.machine,
                     jobRev[j] = r.rev
              PROVE  FALSE
          <5>1. jobs[j].created >= bindings[r.machine].updated
            BY <4>1, <4>2 DEF RevInv, RevsOK
          <5>2. Store!InFlight(j) \/ Store!Terminal(j)
            BY <4>2 DEF TInv, JobsOK, Store!TypeOK, Store!Job, Store!Exists, Store!InFlight,
                        Store!Terminal, JobIds, Store!JobIds
          <5> QED
            BY <4>1, <4>2, <5>1, <5>2 DEF Blocks
        <4> QED
          BY <2>2, <4>1, <4>2 DEF RowFresh, RevInv, RevsOK, ClocksOK, Store!Exists
      <3> QED
        BY <2>2, <3>1 DEF InstallRows
    <2> QED
      BY <2>1, <2>2, OrchMove DEF OrchMoves
  <1> QED
    BY <1>4, <1>5, <1>6

LEMMA RevStep == TInv /\ RevInv /\ [Next]_vars => RevInv'
  BY ClocksStep, CreateMakes, RevCreate, RevOther DEF RevInv

LEMMA RevAlways == Spec => []RevInv
  BY RevInit, RevStep, TypedAlways, PTL DEF Spec

(* Two job rows never stem from one write of a binding: however stale the  *)
(* scan's rows are, and across restarts, cancelling and purging, the scan  *)
(* answers a request at most once while the answer is on record.           *)
THEOREM OneAttemptPerWrite == Spec => []OneJobPerRevision
  BY RevAlways, PTL DEF RevInv

-----------------------------------------------------------------------------
(* A power cycle to disk finds an idle machine with a complete disk        *)
(* (FinalizeBootsInstalledDisk).                                           *)

Succeeded(j) == jobs[j].status = "succeeded"

(* No scan will take j for an answer to a request any more, whatever is    *)
(* written from now on: it ended before the last write and before the      *)
(* request at hand.                                                        *)
Superseded(j) ==
  LET b == bindings[jobs[j].machine] IN
  /\ jobs[j].finished < lastPut
  /\ b.desired = "install" => jobs[j].finished < b.updated

(* A job is live on a machine only after what succeeded there before is    *)
(* superseded ...                                                          *)
LiveSupersedes ==
  \A j, k \in JobIds :
    Succeeded(j) /\ Store!InFlight(k) /\ jobs[j].machine = jobs[k].machine => Superseded(j)

(* ... which is so already where the orchestrator is going to make a job.  *)
RowIdle(r) ==
  /\ ~Store!Busy(r.machine)
  /\ \A j \in JobIds : Succeeded(j) /\ jobs[j].machine = r.machine => Superseded(j)
RowsIdle == orch.pc \in InstallPhase => \A r \in orch.rows : RowIdle(r)

(* The job an agent holds is a job of its machine, and it installs the     *)
(* image of the job, as long as there is a row to compare with.            *)
AgentsKnow ==
  \A m \in Machines :
    LET a == agent[m] IN
    a.pc \in AgentWorking =>
      /\ jobs[a.job].status # "unissued"
      /\ Store!Exists(a.job) =>
           /\ jobs[a.job].machine = m
           /\ a.pc \in {"stage", "work", "succeed"} => jobs[a.job].image = a.image

(* An agent at work on the disk, though its job may be cancelled or gone,  *)
(* destroys no disk that a scan could take for installed.                  *)
WorkSupersedes ==
  \A m \in Machines, j \in JobIds :
    agent[m].pc = "work" /\ Succeeded(j) /\ jobs[j].machine = m => Superseded(j)

(* A job that a scan could still finalize left its image on the disk.      *)
DiskHolds ==
  /\ \A m \in Machines : agent[m].pc = "succeed" => disk[m] = agent[m].image
  /\ \A j \in JobIds : Succeeded(j) /\ ~Superseded(j) => disk[jobs[j].machine] = jobs[j].image

FinalOK ==
  orch.pc \in FinishPhase =>
    \A r \in orch.rows : /\ ~Store!Busy(r.machine) /\ disk[r.machine] = r.image
                         /\ agent[r.machine].pc # "work"

DiskInv == LiveSupersedes /\ RowsIdle /\ AgentsKnow /\ WorkSupersedes /\ DiskHolds /\ FinalOK

(* All that the parts rest on.                                             *)
Base == TInv /\ RevInv /\ Store!OneInFlight

LEMMA DiskInit == Init => DiskInv
  <1> SUFFICES ASSUME Init PROVE DiskInv
    OBVIOUS
  <1>1. \A j \in JobIds : jobs[j].status = "unissued"
    BY DEF Init, Store!Init, Store!NoRow, JobIds, Store!JobIds
  <1>2. \A m \in Machines : agent[m].pc \in {"off", "report"}
    BY DEF Init, AgentAt
  <1>3. orch.pc = "idle"
    BY DEF Init, OrchIdle
  <1> QED
    BY <1>1, <1>2, <1>3
    DEF DiskInv, LiveSupersedes, RowsIdle, AgentsKnow, WorkSupersedes, DiskHolds, FinalOK,
        Succeeded, InstallPhase, FinishPhase, AgentWorking

(* The moves of the jobs table once more, by what a row is afterwards.     *)
LEMMA RowBefore ==
  ASSUME TInv, [Next]_vars, NEW j \in JobIds
  PROVE  /\ jobs[j].status # "unissued" => RowKeeps(j)
         /\ Succeeded(j)' =>
              \/ jobs'[j] = jobs[j]
              \/ RowKeeps(j) /\ \E m \in Machines : /\ agent[m].pc = "succeed" /\ j = agent[m].job
                                                    /\ jobs[j].status = "running"
         /\ Store!InFlight(j)' =>
              \/ Store!InFlight(j) /\ jobs'[j].machine = jobs[j].machine
              \/ \E r \in orch.rows, t \in Nat : Makes(r, j, t)
  <1>0. Store!InFlight(j)' => Store!Exists(j)'
    BY DEF Store!InFlight, Store!Exists, Store!InFlightStatus, Store!NoRowStatus
  <1>1. CASE RowsKeep
    BY <1>0, <1>1 DEF RowsKeep, RowKeeps, NoSuccess, Succeeded, Store!InFlight, Store!Exists
  <1>2. CASE OrchCreate
    <2>1. PICK r \in orch.rows, k \in JobIds, t \in Nat : Makes(r, k, t)
      BY <1>2, CreateMakes
    <2>2. CASE j = k
      BY <2>1, <2>2 DEF Makes, Succeeded
    <2>3. CASE j # k
      <3>1. jobs'[j] = jobs[j]
        BY <2>1, <2>3 DEF Makes
      <3> QED
        BY <3>1 DEF RowKeeps, Store!InFlight, Store!Exists
    <2> QED
      BY <2>2, <2>3
  <1>3. CASE SomeSuccess
    <2>1. PICK m \in Machines : AgentSucceed(m) /\ Store!Succeed(agent[m].job)
      BY <1>3 DEF SomeSuccess
    <2>2. /\ agent[m].pc = "succeed" /\ jobs[agent[m].job].status = "running"
          /\ RowKeeps(j) /\ (j # agent[m].job => NoSuccess(j))
      BY <2>1, SucceedKeeps DEF AgentSucceed
    <2> QED
      BY <1>0, <2>2 DEF RowKeeps, NoSuccess, Succeeded, Store!InFlight, Store!Exists
  <1> QED
    BY <1>1, <1>2, <1>3, JobsMove

LEMMA SupersededStays ==
  ASSUME Base, [Next]_vars, NEW j \in JobIds, Succeeded(j), jobs'[j] = jobs[j], Superseded(j)
  PROVE  Superseded(j)'
  <1> DEFINE m == jobs[j].machine
  <1>0. /\ m \in Machines /\ jobs[j].finished \in Nat
        /\ lastPut \in Nat /\ lastPut' \in Nat /\ now \in Nat /\ lastPut <= lastPut'
    <2>1. Store!Exists(j)
      BY DEF Succeeded, Store!Exists, Store!NoRowStatus
    <2>2. BindingsOK'
      BY BindingsStep, TInvStutters DEF Base, TInv
    <2> QED
      BY <2>1, <2>2, ClocksStep DEF Base, RevInv, TInv, JobsBound, JobsOK, Store!TypeOK,
         Store!Job, JobIds, Store!JobIds, BindingsOK
  <1>1. jobs[j].finished < lastPut'
    BY <1>0 DEF Superseded
  <1>2. bindings'[m].desired = "install" => jobs[j].finished < bindings'[m].updated
    <2>1. CASE SomePut
      <3>1. PICK n \in Machines, i \in Images, d \in {"none", "install"}, t \in 1 .. now :
              PutMakes(n, i, d, t)
        BY <2>1, PutBindingMakes DEF SomePut, Base
      <3>2. CASE n = m
        BY <1>0, <3>1, <3>2 DEF PutMakes, Superseded
      <3>3. CASE n # m
        BY <1>0, <3>1, <3>3 DEF PutMakes, Superseded
      <3> QED
        BY <3>2, <3>3
    <2>2. CASE BindingsLapse
      BY <1>0, <2>2 DEF BindingsLapse, Superseded
    <2> QED
      BY <2>1, <2>2, BindingsMove DEF Base
  <1> QED
    BY <1>1, <1>2 DEF Superseded

LEMMA LiveStep == Base /\ DiskInv /\ [Next]_vars => LiveSupersedes'
  <1> SUFFICES ASSUME Base, DiskInv, [Next]_vars, NEW j \in JobIds, NEW k \in JobIds,
                      Succeeded(j)', Store!InFlight(k)', jobs'[j].machine = jobs'[k].machine
               PROVE  Superseded(j)'
    BY DEF LiveSupersedes
  <1>0. TInv
    BY DEF Base
  <1>1. CASE jobs'[j] = jobs[j]
    <2>1. Succeeded(j)
      BY <1>1 DEF Succeeded
    <2>2. CASE Store!InFlight(k) /\ jobs'[k].machine = jobs[k].machine
      <3>1. Superseded(j)
        BY <1>1, <2>1, <2>2 DEF DiskInv, LiveSupersedes
      <3> QED
        BY <1>1, <2>1, <3>1, SupersededStays
    <2>3. ASSUME NEW r \in orch.rows, NEW t \in Nat, Makes(r, k, t) PROVE Superseded(j)'
      <3>1. jobs'[k].machine = r.machine /\ orch.pc \in InstallPhase
        BY <2>3 DEF Makes, InstallPhase
      <3>2. Superseded(j)
        BY <1>1, <2>1, <3>1 DEF DiskInv, RowsIdle, RowIdle
      <3> QED
        BY <1>1, <2>1, <3>2, SupersededStays
    <2> QED
      BY <1>0, <2>2, <2>3, RowBefore
  <1>2. ASSUME RowKeeps(j), jobs[j].status = "running" PROVE FALSE
    <2>1. Store!InFlight(j) /\ ~Store!InFlight(j)' /\ jobs'[j].machine = jobs[j].machine
      BY <1>2 DEF Store!InFlight, Store!InFlightStatus, Succeeded, RowKeeps, Store!Exists,
                  Store!NoRowStatus
    <2>2. CASE Store!InFlight(k) /\ jobs'[k].machine = jobs[k].machine
      BY <2>1, <2>2 DEF Base, Store!OneInFlight, JobIds, Store!JobIds
    <2>3. ASSUME NEW r \in orch.rows, NEW t \in Nat, Makes(r, k, t) PROVE FALSE
      BY <2>1, <2>3 DEF Makes, Store!Busy, JobIds, Store!JobIds
    <2> QED
      BY <1>0, <2>2, <2>3, RowBefore
  <1> QED
    BY <1>0, <1>1, <1>2, RowBefore

LEMMA RowsIdleStep == Base /\ DiskInv /\ [Next]_vars => RowsIdle'
  <1> SUFFICES ASSUME Base, DiskInv, [Next]_vars, orch'.pc \in InstallPhase, NEW r \in orch'.rows
               PROVE  RowIdle(r)'
    BY DEF RowsIdle
  <1>0. TInv
    BY DEF Base
  <1>1. CASE orch.pc \in InstallPhase /\ orch'.rows \subseteq orch.rows
    <2>1. RowIdle(r) /\ r \in orch.rows
      BY <1>1 DEF DiskInv, RowsIdle
    <2>2. ASSUME NEW k \in JobIds, Store!InFlight(k)', jobs'[k].machine = r.machine PROVE FALSE
      <3>1. ASSUME NEW s \in orch.rows, NEW t \in Nat, Makes(s, k, t) PROVE FALSE
        <4>1. s.machine = r.machine /\ r # s
          BY <2>2, <3>1 DEF Makes
        <4> QED
          BY <1>1, <2>1, <4>1 DEF Base, RevInv, RowsOK
      <3>2. CASE Store!InFlight(k) /\ jobs'[k].machine = jobs[k].machine
        BY <2>1, <2>2, <3>2 DEF RowIdle, Store!Busy, JobIds, Store!JobIds
      <3> QED
        BY <1>0, <2>2, <3>1, <3>2, RowBefore
    <2>3. ASSUME NEW j \in JobIds, Succeeded(j)', jobs'[j].machine = r.machine
          PROVE  Superseded(j)'
      <3>1. CASE jobs'[j] = jobs[j]
        <4>1. Succeeded(j) /\ Superseded(j)
          BY <2>1, <2>3, <3>1 DEF Succeeded, RowIdle
        <4> QED
          BY <3>1, <4>1, SupersededStays
      <3>2. CASE RowKeeps(j) /\ jobs[j].status = "running"
        <4>1. Store!InFlight(j) /\ jobs[j].machine = r.machine
          BY <2>3, <3>2 DEF RowKeeps, Succeeded, Store!Exists, Store!InFlight,
                            Store!InFlightStatus, Store!NoRowStatus
        <4> QED
          BY <2>1, <4>1 DEF RowIdle, Store!Busy, JobIds, Store!JobIds
      <3> QED
        BY <1>0, <2>3, <3>1, <3>2, RowBefore
    <2> QED
      BY <2>2, <2>3 DEF RowIdle, Store!Busy, JobIds, Store!JobIds
  <1>2. CASE orch'.rows = InstallRows /\ UNCHANGED <<jobs, bindings, lastPut>>
    <2>1. /\ r.machine \in Machines /\ bindings[r.machine].desired = "install"
          /\ \A j \in JobIds : ~Blocks(j, r.machine)
      BY <1>2 DEF InstallRows
    <2>2. ~Store!Busy(r.machine)
      BY <2>1 DEF Store!Busy, Blocks, JobIds, Store!JobIds
    <2>3. ASSUME NEW j \in JobIds, Succeeded(j), jobs[j].machine = r.machine PROVE Superseded(j)
      <3>1. Store!Terminal(j)
        BY <2>3 DEF Succeeded, Store!Terminal, Store!TerminalStatus
      <3>2. /\ jobs[j].finished \in Nat /\ bindings[r.machine].updated \in Nat /\ lastPut \in Nat
            /\ bindings[r.machine].updated <= lastPut
        BY <2>1 DEF Base, RevInv, ClocksOK, TInv, JobsOK, Store!TypeOK, Store!Job, BindingsOK,
                    Binding, JobIds, Store!JobIds
      <3>3. jobs[j].finished < bindings[r.machine].updated
        BY <2>1, <2>3, <3>1, <3>2 DEF Blocks
      <3> QED
        BY <2>3, <3>2, <3>3 DEF Superseded
    <2> QED
      BY <1>2, <2>2, <2>3 DEF RowIdle, Store!Busy, Store!InFlight, Succeeded, Superseded
  <1> QED
    BY <1>0, <1>1, <1>2, OrchMove DEF OrchMoves

LEMMA AgentsKnowStep == Base /\ DiskInv /\ [Next]_vars => AgentsKnow'
  <1> DEFINE Known(m, k) ==
        /\ jobs'[k].status # "unissued"
        /\ jobs'[k].status \notin Store!NoRowStatus =>
             /\ jobs'[k].machine = m
             /\ agent'[m].pc \in {"stage", "work", "succeed"} => jobs'[k].image = agent'[m].image
  <1> SUFFICES ASSUME Base, DiskInv, [Next]_vars, NEW m \in Machines, agent'[m].pc \in AgentWorking
               PROVE  Known(m, agent'[m].job)
    BY DEF AgentsKnow, Store!Exists
  <1> DEFINE j == agent[m].job
  <1>0. TInv /\ AgentMoves(m)
    BY AgentsMove DEF Base
  <1>1. CASE Takes(m)
    BY <1>1 DEF Takes, Store!Current, Store!InFlight, Store!InFlightStatus
  <1>2. ASSUME agent[m].pc \in AgentWorking
        PROVE  /\ jobs'[j].status # "unissued"
               /\ jobs'[j].status \notin Store!NoRowStatus =>
                    /\ Store!Exists(j) /\ jobs'[j].machine = m /\ jobs'[j].image = jobs[j].image
                    /\ agent[m].pc \in {"stage", "work", "succeed"} => jobs[j].image = agent[m].image
    <2>1. j \in JobIds
      BY <1>0, <1>2 DEF TInv, AgentsOK
    <2>2. jobs[j].status # "unissued"
      BY <1>2 DEF DiskInv, AgentsKnow
    <2>3. RowKeeps(j)
      BY <1>0, <2>1, <2>2, RowBefore
    <2>4. Store!Exists(j) =>
            /\ jobs[j].machine = m
            /\ agent[m].pc \in {"stage", "work", "succeed"} => jobs[j].image = agent[m].image
      BY <1>2 DEF DiskInv, AgentsKnow
    <2>5. /\ jobs'[j].status # "unissued"
          /\ jobs'[j].status \notin Store!NoRowStatus =>
               /\ Store!Exists(j) /\ jobs'[j].machine = jobs[j].machine
               /\ jobs'[j].image = jobs[j].image
      BY <2>2, <2>3 DEF RowKeeps, Store!Exists
    <2> QED
      BY <2>4, <2>5
  <1>3. CASE Learns(m)
    BY <1>2, <1>3 DEF Learns, AgentWorking
  <1>4. CASE Stays(m) \/ Proceeds(m) \/ Starts(m) \/ Completes(m)
    <2>1. /\ agent[m].pc \in AgentWorking /\ SameJob(m)
          /\ agent'[m].pc \in {"stage", "work", "succeed"} => agent[m].pc \in {"stage", "work", "succeed"}
      BY <1>4 DEF Stays, Proceeds, Starts, Completes, SameJob, AgentWorking
    <2> QED
      BY <1>2, <2>1 DEF SameJob
  <1> QED
    BY <1>0, <1>1, <1>3, <1>4 DEF AgentMoves, Leaves

(* The job of an agent that starts the work of a stage is live, hence      *)
(* whatever succeeded on the machine is superseded.                        *)
LEMMA StartSupersedes ==
  ASSUME Base, DiskInv, NEW m \in Machines, Starts(m)
  PROVE  /\ Store!Busy(m)
         /\ \A j \in JobIds : Succeeded(j) /\ jobs[j].machine = m => Superseded(j)
  <1>1. agent[m].job \in JobIds
    BY DEF Base, TInv, AgentsOK, Starts, AgentWorking
  <1>2. Store!InFlight(agent[m].job) /\ jobs[agent[m].job].machine = m
    BY DEF Starts, DiskInv, AgentsKnow, AgentWorking, Store!Exists, Store!InFlight,
           Store!InFlightStatus, Store!NoRowStatus
  <1> QED
    BY <1>1, <1>2 DEF DiskInv, LiveSupersedes, Store!Busy, JobIds, Store!JobIds

LEMMA WorkStep == Base /\ DiskInv /\ [Next]_vars => WorkSupersedes'
  <1> SUFFICES ASSUME Base, DiskInv, [Next]_vars, NEW m \in Machines, NEW j \in JobIds,
                      agent'[m].pc = "work", Succeeded(j)', jobs'[j].machine = m
               PROVE  Superseded(j)'
    BY DEF WorkSupersedes
  <1>0. TInv /\ AgentMoves(m)
    BY AgentsMove DEF Base
  <1>1. (Stays(m) /\ agent[m].pc = "work") \/ Starts(m)
    BY <1>0 DEF AgentMoves, Stays, Leaves, Takes, Learns, Proceeds, Completes, AgentWorking
  <1>2. CASE jobs'[j] = jobs[j]
    <2>1. Succeeded(j) /\ jobs[j].machine = m
      BY <1>2 DEF Succeeded
    <2>2. Superseded(j)
      BY <1>1, <2>1, StartSupersedes DEF DiskInv, WorkSupersedes
    <2> QED
      BY <1>2, <2>1, <2>2, SupersededStays
  <1>3. ASSUME RowKeeps(j), NEW n \in Machines, agent[n].pc = "succeed", j = agent[n].job
        PROVE  FALSE
    <2>1. jobs[j].machine = m /\ Store!Exists(j)
      BY <1>3 DEF RowKeeps, Succeeded, Store!Exists, Store!NoRowStatus
    <2>2. n = m
      BY <1>3, <2>1 DEF DiskInv, AgentsKnow, AgentWorking
    <2> QED
      BY <1>1, <1>3, <2>2 DEF Starts
  <1> QED
    BY <1>0, <1>2, <1>3, RowBefore

LEMMA DiskHoldsStep == Base /\ DiskInv /\ [Next]_vars => DiskHolds'
  <1> SUFFICES ASSUME Base, DiskInv, [Next]_vars PROVE DiskHolds'
    OBVIOUS
  <1>0. TInv /\ \A m \in Machines : AgentMoves(m)
    BY AgentsMove DEF Base
  <1>1. ASSUME NEW m \in Machines, agent'[m].pc = "succeed" PROVE disk'[m] = agent'[m].image
    BY <1>0, <1>1 DEF AgentMoves, Stays, Leaves, Takes, Learns, Proceeds, Starts, Completes,
                      SameDisk, SameJob, AgentWorking, DiskInv, DiskHolds
  <1>2. ASSUME NEW j \in JobIds, Succeeded(j)', ~Superseded(j)'
        PROVE  disk'[jobs'[j].machine] = jobs'[j].image
    <2>1. CASE jobs'[j] = jobs[j]
      <3> DEFINE m == jobs[j].machine
      <3>1. Succeeded(j) /\ ~Superseded(j)
        BY <1>2, <2>1, SupersededStays DEF Succeeded
      <3>2. m \in Machines
        BY <3>1 DEF Base, TInv, JobsBound, Succeeded, Store!Exists, Store!NoRowStatus
      <3>3. ~Starts(m)
        BY <3>1, <3>2, StartSupersedes
      <3>4. ~Completes(m)
        BY <3>1, <3>2 DEF Completes, DiskInv, WorkSupersedes
      <3>5. SameDisk(m)
        BY <1>0, <3>2, <3>3, <3>4 DEF AgentMoves, Stays, Leaves, Takes, Learns, Proceeds
      <3> QED
        BY <2>1, <3>1, <3>5 DEF SameDisk, DiskInv, DiskHolds
    <2>2. ASSUME RowKeeps(j), NEW m \in Machines, agent[m].pc = "succeed", j = agent[m].job
          PROVE  disk'[jobs'[j].machine] = jobs'[j].image
      <3>1. /\ Store!Exists(j) /\ jobs'[j].machine = jobs[j].machine
            /\ jobs'[j].image = jobs[j].image
        BY <1>2, <2>2 DEF RowKeeps, Succeeded, Store!Exists, Store!NoRowStatus
      <3>2. jobs[j].machine = m /\ jobs[j].image = agent[m].image
        BY <2>2, <3>1 DEF DiskInv, AgentsKnow, AgentWorking
      <3>3. SameDisk(m)
        BY <1>0, <2>2 DEF AgentMoves, Stays, Leaves, Takes, Learns, Proceeds, Starts, Completes
      <3> QED
        BY <2>2, <3>1, <3>2, <3>3 DEF SameDisk, DiskInv, DiskHolds
    <2> QED
      BY <1>0, <1>2, <2>1, <2>2, RowBefore
  <1> QED
    BY <1>1, <1>2 DEF DiskHolds

LEMMA FinalStep == Base /\ DiskInv /\ [Next]_vars => FinalOK'
  <1> SUFFICES ASSUME Base, DiskInv, [Next]_vars, orch'.pc \in FinishPhase, NEW r \in orch'.rows
               PROVE  /\ ~Store!Busy(r.machine)' /\ disk'[r.machine] = r.image
                      /\ agent'[r.machine].pc # "work"
    BY DEF FinalOK, Store!Busy
  <1>0. TInv /\ \A m \in Machines : AgentMoves(m)
    BY AgentsMove DEF Base
  <1>1. CASE orch.pc \in FinishPhase /\ orch'.rows \subseteq orch.rows
    <2>1. /\ ~Store!Busy(r.machine) /\ disk[r.machine] = r.image
          /\ agent[r.machine].pc # "work" /\ r.machine \in Machines
      BY <1>1 DEF DiskInv, FinalOK, Base, TInv, OrchOK, Orch, Row
    <2>2. ~Store!Busy(r.machine)'
      <3> SUFFICES ASSUME NEW k \in JobIds, Store!InFlight(k)', jobs'[k].machine = r.machine
                   PROVE  FALSE
        BY DEF Store!Busy, JobIds, Store!JobIds
      <3>1. ~Store!InFlight(k) \/ jobs'[k].machine # jobs[k].machine
        BY <2>1 DEF Store!Busy, JobIds, Store!JobIds
      <3>2. PICK s \in orch.rows, t \in Nat : Makes(s, k, t)
        BY <1>0, <3>1, RowBefore
      <3> QED
        BY <1>1, <3>2 DEF Makes, FinishPhase
    <2>3. ~Starts(r.machine) /\ ~Completes(r.machine)
      BY <2>1, StartSupersedes DEF Completes
    <2> QED
      BY <1>0, <2>1, <2>2, <2>3
      DEF AgentMoves, Stays, Leaves, Takes, Learns, Proceeds, SameDisk, AgentWorking
  <1>2. CASE orch'.rows = FinalRows /\ UNCHANGED <<jobs, bindings, lastPut, disk, agent>>
    <2>1. PICK j \in JobIds : /\ SucceededFor(j)
                              /\ r.machine = jobs[j].machine /\ r.image = jobs[j].image
      BY <1>2 DEF FinalRows
    <2>2. r.machine \in Machines
      BY <2>1 DEF SucceededFor, Base, TInv, JobsBound, Store!Exists, Store!NoRowStatus
    <2>3. jobs[j].finished \in Nat /\ bindings[r.machine].updated \in Nat
      BY <2>2 DEF Base, TInv, JobsOK, Store!TypeOK, Store!Job, BindingsOK, Binding,
                  JobIds, Store!JobIds
    <2>4. Succeeded(j) /\ ~Superseded(j)
      BY <2>1, <2>3 DEF SucceededFor, Succeeded, Superseded
    <2>5. ~Store!Busy(r.machine)
      BY <2>1, <2>4 DEF DiskInv, LiveSupersedes, Store!Busy, JobIds, Store!JobIds
    <2>6. disk[r.machine] = r.image /\ agent[r.machine].pc # "work"
      BY <2>1, <2>2, <2>4 DEF DiskInv, DiskHolds, WorkSupersedes
    <2> QED
      BY <1>2, <2>5, <2>6 DEF Store!Busy, Store!InFlight
  <1> QED
    BY <1>0, <1>1, <1>2, OrchMove DEF OrchMoves

LEMMA BaseAlways == Spec => []Base
  BY TypedAlways, RevAlways, OneInstallPerMachine, PTL DEF Base

LEMMA DiskAlways == Spec => []DiskInv
  <1>1. Base /\ DiskInv /\ [Next]_vars => DiskInv'
    BY LiveStep, RowsIdleStep, AgentsKnowStep, WorkStep, DiskHoldsStep, FinalStep DEF DiskInv
  <1> QED
    BY <1>1, DiskInit, BaseAlways, PTL DEF Spec

(* Whatever operators, agents, restarts, lost calls and resets do: the     *)
(* orchestrator power-cycles a machine into its disk only while no install *)
(* runs there and the disk holds the complete system of the job it         *)
(* finishes, though it acts on a scan that others may have outdated.       *)
THEOREM PowerCycleIsSafe == Spec => []FinalizeBootsInstalledDisk
  <1>1. DiskInv => FinalizeBootsInstalledDisk
    BY DEF DiskInv, FinalOK, FinishPhase, FinalizeBootsInstalledDisk
  <1> QED
    BY <1>1, DiskAlways, PTL

-----------------------------------------------------------------------------
(* Every repeated power cycle is paid for (FinalizationsAccounted).        *)

(* What a repetition can be paid with.                                     *)
Budget == crashes + faults + puts
Paid == Budget' = Budget + 1

(* The next power cycle for the job is paid for already.                   *)
Room(j) == finals[j] + jobRev[j] <= Budget

(* Only a job that succeeded was ever finished, deleted since or not.      *)
FinalsSpent == \A j \in JobIds : finals[j] > 0 => jobs[j].status \in {"succeeded", "deleted"}

(* The jobs of the scan that are still to be finished can be, one by one.  *)
RowCovered(r) ==
  /\ Room(r.job) /\ jobs[r.job].status \in {"succeeded", "deleted"}
  /\ jobs[r.job].status = "succeeded" => jobs[r.job].machine = r.machine
  /\ orch.pc = "finish_cycle" /\ r.job = orch.job => r.machine = orch.machine
RowsRoom == orch.pc \in FinishPhase => \A r \in orch.rows : RowCovered(r)
RowsOnce == orch.pc \in FinishPhase => \A r, s \in orch.rows : r.job = s.job => r = s

(* So can the jobs the next scan will find: what was finished and not paid *)
(* for is the job whose request is about to be cleared.                    *)
Clearing(j) == orch.pc = "clear" /\ orch.machine = jobs[j].machine
NextRoom == \A j \in JobIds : SucceededFor(j) => Room(j) \/ Clearing(j)

AccInv == FinalizationsAccounted /\ FinalsSpent /\ RowsRoom /\ RowsOnce /\ NextRoom

LEMMA AccInit == Init => AccInv
  <1> SUFFICES ASSUME Init PROVE AccInv
    OBVIOUS
  <1>1. \A j \in JobIds : jobs[j].status = "unissued" /\ finals[j] = 0
    BY DEF Init, Store!Init, Store!NoRow, JobIds, Store!JobIds
  <1>2. orch.pc = "idle"
    BY DEF Init, OrchIdle
  <1> QED
    BY <1>1, <1>2 DEF AccInv, FinalizationsAccounted, FinalsSpent, RowsRoom, RowsOnce, NextRoom,
                      SucceededFor, FinishPhase

(* Only FinalizeBootDisk's power cycle counts.                             *)
LEMMA FinalsMove == [Next]_vars => finals' = finals \/ OrchDiskCycle
  BY DEF Next, vars, historyVars, Operator, PutBinding, DeleteBinding, EditJobs,
         DeleteImageBindings, DeleteImageJobs, DeleteImageRow, ClockTick, Crash,
         OrchStep, OrchScan, OrchCreate, OrchSkip, OrchLiveCheck, OrchBootDevice, OrchCycle,
         OrchFailJob, OrchClaim, OrchStage, OrchScanSucceeded, OrchDiskDevice,
         OrchClear, OrchTickEnds, InstallStep, Heartbeat, Boot, Reset, agentUnchanged,
         AgentReport, AgentPoll, AgentClaim, AgentSpec, AgentPostStage, AgentWork,
         AgentSucceed, AgentFail

(* What can be paid with never gets less; a write or a restart adds to it. *)
LEMMA BudgetMoves ==
  TInv /\ [Next]_vars =>
    /\ Budget \in Nat /\ Budget' \in Nat /\ puts <= Budget
    /\ Budget' = Budget \/ Paid
    /\ SomePut \/ Crash => Paid
  <1> SUFFICES ASSUME TInv, [Next]_vars
               PROVE  /\ Budget \in Nat /\ Budget' \in Nat /\ puts <= Budget
                      /\ Budget' = Budget \/ Paid
                      /\ SomePut \/ Crash => Paid
    OBVIOUS
  <1>0. puts \in Nat /\ faults \in Nat /\ crashes \in Nat
    BY DEF TInv, HistoryOK
  <1>1. CASE UNCHANGED <<puts, faults, crashes>> /\ ~SomePut /\ ~Crash
    BY <1>0, <1>1 DEF Budget
  <1>2. CASE SomePut
    BY <1>0, <1>2 DEF SomePut, PutBinding, Budget, Paid
  <1>3. CASE Crash
    BY <1>0, <1>3 DEF Crash, Budget, Paid
  <1>4. CASE UNCHANGED <<puts, crashes>> /\ (Fault \/ NoFault) /\ ~SomePut /\ ~Crash
    BY <1>0, <1>4 DEF Fault, NoFault, Budget, Paid
  <1>5. CASE Operator
    BY <1>1, <1>2, <1>3, <1>5
    DEF Operator, SomePut, DeleteBinding, EditJobs, DeleteImageBindings, DeleteImageJobs,
        DeleteImageRow, boundVars
  <1>6. CASE OrchStep
    BY <1>1, <1>2, <1>3, <1>4, <1>6
    DEF OrchStep, OrchScan, OrchCreate, OrchSkip, OrchLiveCheck, OrchBootDevice, OrchCycle,
        OrchFailJob, OrchClaim, OrchStage, OrchScanSucceeded, OrchDiskDevice, OrchDiskCycle,
        OrchClear, OrchTickEnds, orchUnchanged
  <1>7. CASE ClockTick \/ \E m \in Machines : InstallStep(m) \/ Heartbeat(m) \/ Boot(m) \/ Reset(m)
    BY <1>1, <1>2, <1>3, <1>4, <1>7
    DEF ClockTick, InstallStep, Heartbeat, Boot, Reset, dbVars, boundVars, agentUnchanged,
        AgentReport, AgentPoll, AgentClaim, AgentSpec, AgentPostStage, AgentWork,
        AgentSucceed, AgentFail, NoFault
  <1> QED
    BY <1>1, <1>2, <1>3, <1>5, <1>6, <1>7 DEF Next, vars, boundVars

(* The promise, said with the budget.                                      *)
Accounted == \A j \in JobIds : finals[j] > 0 => finals[j] + jobRev[j] <= 1 + Budget

LEMMA AccountedBy ==
  ASSUME TInv, [Next]_vars
  PROVE  (FinalizationsAccounted <=> Accounted) /\ (FinalizationsAccounted <=> Accounted)'
  <1>1. HistoryOK /\ HistoryOK'
    BY HistoryTyped, TInvStutters DEF TInv
  <1>2. 1 + crashes + faults + puts = 1 + Budget /\ (1 + crashes + faults + puts)' = 1 + Budget'
    BY <1>1 DEF HistoryOK, Budget
  <1> QED
    BY <1>2 DEF FinalizationsAccounted, Accounted

(* A job that succeeded stays so until its row is gone, and then for good. *)
LEMMA SuccessStays ==
  ASSUME TInv, [Next]_vars, NEW j \in JobIds, jobs[j].status \in {"succeeded", "deleted"}
  PROVE  /\ jobs'[j].status \in {"succeeded", "deleted"}
         /\ jobs'[j].status = "succeeded" => jobs'[j] = jobs[j]
  <1>1. CASE UNCHANGED jobs
    BY <1>1
  <1>2. CASE JS!Write
    <2>1. JS!TypeOK
      BY SameStore DEF TInv, JobsOK
    <2>2. JS!RowKept(j) \/ JS!RowDropped(j) \/ JS!RowEnded(j) \/ JS!RowWorked(j) \/ JS!RowMade(j)
      BY <1>2, <2>1, JS!WriteByRow, BoundsNat, NilAssumption
      DEF JS!RowStep, JS!MaxJobsNat, JS!JobIds, JobIds
    <2>3. CASE JS!RowKept(j)
      BY <2>3 DEF JS!RowKept
    <2>4. CASE JS!RowDropped(j)
      BY <2>4 DEF JS!RowDropped, JS!NoRow
    <2> QED
      BY <2>2, <2>3, <2>4 DEF JS!RowEnded, JS!RowWorked, JS!RowMade, JS!InFlight,
                              JS!InFlightStatus
  <1>3. CASE Next
    BY <1>1, <1>2, <1>3, StoreStep, SameStore DEF StoreWrite, Store!ClockTick
  <1> QED
    BY <1>1, <1>3 DEF vars, dbVars

(* Into the second half of a tick leads only its scan; out of "clear" only *)
(* ClearDesiredState or a restart.                                         *)
LEMMA FinishMoves ==
  ASSUME TInv, [Next]_vars
  PROVE  /\ orch'.pc \in FinishPhase =>
              orch' = orch \/ OrchScanSucceeded \/ OrchDiskDevice \/ OrchDiskCycle \/ OrchClear
         /\ orch.pc = "clear" => orch' = orch \/ OrchClear \/ Crash
  <1>0. orch \in Orch
    BY DEF TInv, OrchOK
  <1>1. CASE OrchStep
    <2>1. CASE OrchScan
      <3>1. orch'.pc = "install" /\ orch.pc = "idle"
        BY <2>1 DEF OrchScan, OrchIdle
      <3> QED
        BY <3>1 DEF FinishPhase
    <2>5. CASE OrchTickEnds
      <3>1. orch'.pc = "idle" /\ orch.pc = "finish"
        BY <2>5 DEF OrchTickEnds, OrchIdle
      <3> QED
        BY <3>1 DEF FinishPhase
    <2>2. CASE OrchCreate
      BY <2>2, CreateMakes DEF Makes, FinishPhase
    <2>3. CASE \/ OrchSkip \/ OrchLiveCheck \/ OrchBootDevice \/ OrchCycle \/ OrchFailJob
               \/ OrchClaim \/ OrchStage
      BY <1>0, <2>3 DEF OrchSkip, OrchLiveCheck, OrchBootDevice, OrchCycle, OrchFailJob,
                        OrchClaim, OrchStage, Orch, FinishPhase
    <2>4. CASE OrchScanSucceeded \/ OrchDiskDevice \/ OrchDiskCycle \/ OrchClear
      BY <2>4 DEF OrchScanSucceeded, OrchDiskDevice, OrchDiskCycle
    <2> QED
      BY <1>1, <2>1, <2>2, <2>3, <2>4, <2>5 DEF OrchStep
  <1>2. CASE Crash
    BY <1>2 DEF Crash, OrchIdle, FinishPhase
  <1>3. CASE UNCHANGED orch
    BY <1>3
  <1> QED
    BY <1>1, <1>2, <1>3
    DEF Next, vars, Operator, PutBinding, DeleteBinding, EditJobs, DeleteImageBindings,
        DeleteImageJobs, DeleteImageRow, ClockTick, InstallStep, Heartbeat, Boot, Reset,
        agentUnchanged, AgentReport, AgentPoll, AgentClaim, AgentSpec, AgentPostStage,
        AgentWork, AgentSucceed, AgentFail

(* What the accounts are made of.                                          *)
LEMMA AccTyped ==
  ASSUME Base
  PROVE  /\ jobRev \in [JobIds -> Nat] /\ finals \in [JobIds -> Nat] /\ orch \in Orch
         /\ \A j \in JobIds : jobRev[j] <= puts
         /\ orch.pc \in FinishPhase => \A r \in orch.rows : r.job \in JobIds
         /\ orch.pc \in {"finish_cycle", "clear"} => orch.job \in JobIds /\ orch.machine \in Machines
  BY DEF Base, TInv, HistoryOK, OrchOK, OrchWorking, RevInv, RevsOK, FinishPhase

(* A new job was never finished, and nothing is being cleared.             *)
LEMMA AccCreate ==
  ASSUME Base, AccInv, [Next]_vars, OrchCreate
  PROVE  AccInv'
  <1>0. /\ TInv /\ jobRev \in [JobIds -> Nat] /\ finals \in [JobIds -> Nat]
        /\ Budget \in Nat /\ Budget' \in Nat /\ (Budget' = Budget \/ Paid)
    BY AccTyped, BudgetMoves DEF Base
  <1>1. PICK r \in orch.rows, k \in JobIds, t \in Nat : Makes(r, k, t)
    BY <1>0, CreateMakes
  <1>2. /\ finals' = finals /\ Budget' = Budget
        /\ orch'.pc = "live_check" /\ orch.pc = "install" /\ UNCHANGED bindings
    BY <1>1 DEF OrchCreate, orchUnchanged, Budget, Makes
  <1>3. finals[k] = 0 /\ jobs'[k].status = "pending"
    BY <1>0, <1>1 DEF AccInv, FinalsSpent, Makes
  <1>4. \A j \in JobIds : j # k => jobs'[j] = jobs[j] /\ jobRev'[j] = jobRev[j]
    BY <1>0, <1>1 DEF Makes
  <1>5. FinalizationsAccounted'
    <2>1. Accounted'
      BY <1>0, <1>2, <1>3, <1>4, AccountedBy DEF AccInv, Accounted
    <2> QED
      BY <1>0, <2>1, AccountedBy
  <1>6. FinalsSpent'
    BY <1>2, <1>3, <1>4 DEF AccInv, FinalsSpent
  <1>7. RowsRoom' /\ RowsOnce'
    BY <1>2 DEF RowsRoom, RowsOnce, FinishPhase
  <1>8. ASSUME NEW j \in JobIds, SucceededFor(j)' PROVE Room(j)'
    <2>1. j # k /\ SucceededFor(j)
      BY <1>2, <1>3, <1>4, <1>8 DEF SucceededFor
    <2>2. Room(j)
      BY <1>2, <2>1 DEF AccInv, NextRoom, Clearing
    <2> QED
      BY <1>2, <1>4, <2>1, <2>2 DEF Room
  <1> QED
    BY <1>5, <1>6, <1>7, <1>8 DEF AccInv, NextRoom

(* The power cycle itself: it was paid for when the scan found the job; if *)
(* it fails, a fault pays for the next one, else its request is cleared.   *)
LEMMA AccCycle ==
  ASSUME Base, AccInv, [Next]_vars, OrchDiskCycle
  PROVE  AccInv'
  <1> DEFINE k == orch.job
  <1>0. /\ TInv /\ jobRev \in [JobIds -> Nat] /\ finals \in [JobIds -> Nat] /\ orch \in Orch
        /\ Budget \in Nat /\ Budget' \in Nat /\ k \in JobIds /\ orch.pc = "finish_cycle"
        /\ \A s \in orch.rows : s.job \in JobIds
    BY AccTyped, BudgetMoves DEF Base, OrchDiskCycle, FinishPhase
  <1>1. PICK r \in orch.rows :
          /\ r.job = k
          /\ \/ /\ NoFault /\ finals' = [finals EXCEPT ![k] = @ + 1]
                /\ orch' = [orch EXCEPT !.pc = "clear", !.rows = @ \ {r}]
             \/ /\ Fault
                /\ finals' = [finals EXCEPT ![k] = @ + 1] \/ UNCHANGED finals
                /\ orch' = [orch EXCEPT !.pc = "finish", !.rows = @ \ {r}, !.job = 0, !.machine = Nil]
    BY DEF OrchDiskCycle
  <1>2. UNCHANGED <<jobs, bindings, jobRev>> /\ UNCHANGED <<puts, crashes>>
    BY DEF OrchDiskCycle, orchUnchanged
  <1>3. /\ orch'.rows = orch.rows \ {r}
        /\ \/ orch'.pc = "clear" /\ orch'.machine = orch.machine /\ Budget' = Budget
           \/ orch'.pc = "finish" /\ Budget' = Budget + 1
    <2>1. /\ orch'.rows = orch.rows \ {r}
          /\ \/ orch'.pc = "clear" /\ orch'.machine = orch.machine /\ NoFault
             \/ orch'.pc = "finish" /\ Fault
      BY <1>0, <1>1 DEF Orch
    <2> QED
      BY <1>0, <1>2, <2>1 DEF Budget, Fault, NoFault, TInv, HistoryOK
  <1>4. /\ finals'[k] \in {finals[k], finals[k] + 1}
        /\ \A j \in JobIds : j # k => finals'[j] = finals[j]
    BY <1>0, <1>1
  <1>5. Room(k) /\ jobs[k].status \in {"succeeded", "deleted"}
        /\ (jobs[k].status = "succeeded" => jobs[k].machine = orch.machine)
    BY <1>0, <1>1 DEF AccInv, RowsRoom, RowCovered, FinishPhase
  <1>6. finals'[k] + jobRev'[k] <= 1 + Budget
    BY <1>0, <1>2, <1>4, <1>5 DEF Room
  <1>7. \A j \in JobIds : j # k /\ Room(j) => Room(j)'
    BY <1>0, <1>2, <1>3, <1>4 DEF Room
  <1>8. FinalizationsAccounted'
    <2> SUFFICES ASSUME NEW j \in JobIds, finals'[j] > 0
                 PROVE  finals'[j] + jobRev'[j] <= 1 + Budget'
      BY <1>0, AccountedBy DEF Accounted
    <2>1. CASE j = k
      BY <1>0, <1>2, <1>3, <1>4, <1>6, <2>1
    <2>2. CASE j # k
      <3>1. finals[j] + jobRev[j] <= 1 + Budget
        BY <1>0, <1>4, <2>2, AccountedBy DEF AccInv, Accounted
      <3> QED
        BY <1>0, <1>2, <1>3, <1>4, <2>2, <3>1
    <2> QED
      BY <2>1, <2>2
  <1>9. FinalsSpent'
    BY <1>2, <1>4, <1>5 DEF AccInv, FinalsSpent
  <1>10. RowsOnce'
    BY <1>0, <1>3 DEF AccInv, RowsOnce, FinishPhase
  <1>11. RowsRoom'
    <2> SUFFICES ASSUME NEW s \in orch'.rows PROVE RowCovered(s)'
      BY DEF RowsRoom
    <2>1. s \in orch.rows /\ s.job # k /\ s.job \in JobIds
      BY <1>0, <1>1, <1>3 DEF AccInv, RowsOnce, FinishPhase
    <2>2. RowCovered(s)
      BY <1>0, <2>1 DEF AccInv, RowsRoom, FinishPhase
    <2>3. Room(s.job)'
      BY <1>7, <2>1, <2>2 DEF RowCovered
    <2> QED
      BY <1>2, <1>3, <2>2, <2>3 DEF RowCovered
  <1>12. NextRoom'
    <2> SUFFICES ASSUME NEW j \in JobIds, SucceededFor(j)' PROVE Room(j)' \/ Clearing(j)'
      BY DEF NextRoom
    <2>1. SucceededFor(j) /\ Room(j)
      <3>1. SucceededFor(j)
        BY <1>2 DEF SucceededFor
      <3> QED
        BY <1>0, <3>1 DEF AccInv, NextRoom, Clearing
    <2>2. CASE j = k /\ orch'.pc = "clear"
      BY <1>2, <1>3, <1>5, <2>1, <2>2 DEF Clearing, SucceededFor
    <2>3. CASE j = k /\ orch'.pc = "finish"
      BY <1>0, <1>3, <1>6, <2>3 DEF Room
    <2>4. CASE j # k
      BY <1>7, <2>1, <2>4
    <2> QED
      BY <1>3, <2>2, <2>3, <2>4
  <1> QED
    BY <1>8, <1>9, <1>10, <1>11, <1>12 DEF AccInv

(* Any other step leaves the finished jobs and where they come from alone. *)
LEMMA Untouched ==
  ASSUME Base, AccInv, [Next]_vars, ~OrchCreate, ~OrchDiskCycle
  PROVE  /\ UNCHANGED <<jobRev, finals>>
         /\ \A j \in JobIds : Room(j) => Room(j)'
         /\ Paid => \A j \in JobIds : Room(j)'
         /\ \A j \in JobIds : finals[j] = 0 => Room(j)'
  <1>0. /\ TInv /\ jobRev \in [JobIds -> Nat] /\ finals \in [JobIds -> Nat]
        /\ Budget \in Nat /\ Budget' \in Nat /\ (Budget' = Budget \/ Paid)
        /\ puts \in Nat /\ puts <= Budget /\ \A j \in JobIds : jobRev[j] <= puts
    BY AccTyped, BudgetMoves DEF Base, TInv, HistoryOK
  <1>1. UNCHANGED <<jobRev, finals>>
    BY RevMove, FinalsMove
  <1>2. \A j \in JobIds : Room(j) => Room(j)'
    BY <1>0, <1>1 DEF Room, Paid
  <1>3. \A j \in JobIds : finals[j] = 0 => Room(j)'
    BY <1>0, <1>1 DEF Room, Paid
  <1>4. ASSUME Paid, NEW j \in JobIds, finals[j] > 0 PROVE Room(j)'
    <2>1. finals[j] + jobRev[j] <= 1 + Budget
      BY <1>0, <1>4, AccountedBy DEF AccInv, Accounted
    <2> QED
      BY <1>0, <1>1, <1>4, <2>1 DEF Room, Paid
  <1>5. \A j \in JobIds : finals[j] = 0 \/ finals[j] > 0
    BY <1>0
  <1> QED
    BY <1>1, <1>2, <1>3, <1>4, <1>5

LEMMA AccRows ==
  ASSUME Base, AccInv, [Next]_vars, ~OrchCreate, ~OrchDiskCycle
  PROVE  RowsRoom' /\ RowsOnce'
  <1> SUFFICES ASSUME orch'.pc \in FinishPhase
               PROVE  /\ \A r \in orch'.rows : RowCovered(r)'
                      /\ \A r, s \in orch'.rows : r.job = s.job => r = s
    BY DEF RowsRoom, RowsOnce
  <1>0. /\ TInv /\ orch \in Orch
        /\ orch.pc \in FinishPhase => \A r \in orch.rows : r.job \in JobIds
    BY AccTyped DEF Base
  <1>1. ASSUME orch.pc \in FinishPhase, orch'.rows \subseteq orch.rows,
               \A r \in orch'.rows : orch'.pc = "finish_cycle" /\ r.job = orch'.job
                                       => r.machine = orch'.machine
        PROVE  /\ \A r \in orch'.rows : RowCovered(r)'
               /\ \A r, s \in orch'.rows : r.job = s.job => r = s
    <2>1. ASSUME NEW r \in orch'.rows PROVE RowCovered(r)'
      <3>1. RowCovered(r) /\ r.job \in JobIds
        BY <1>0, <1>1 DEF AccInv, RowsRoom
      <3>2. Room(r.job)'
        BY <3>1, Untouched DEF RowCovered
      <3>3. /\ jobs'[r.job].status \in {"succeeded", "deleted"}
            /\ jobs'[r.job].status = "succeeded" => jobs'[r.job].machine = r.machine
        BY <1>0, <3>1, SuccessStays DEF RowCovered
      <3> QED
        BY <1>1, <3>2, <3>3 DEF RowCovered
    <2> QED
      BY <1>1, <2>1 DEF AccInv, RowsOnce
  <1>2. CASE orch' = orch
    BY <1>1, <1>2 DEF AccInv, RowsRoom, RowCovered
  <1>3. CASE OrchScanSucceeded
    <2>1. /\ orch.pc = "install" /\ UNCHANGED <<jobs, bindings, jobRev>>
          /\ orch'.pc = "finish" /\ orch'.rows = FinalRows
      BY <1>3 DEF OrchScanSucceeded, OrchIdle, FinishPhase, historyVars
    <2>2. ASSUME NEW r \in orch'.rows PROVE RowCovered(r)'
      <3>1. /\ r.job \in JobIds /\ SucceededFor(r.job) /\ r.machine = jobs[r.job].machine
        BY <2>1 DEF FinalRows
      <3>2. Room(r.job)
        BY <2>1, <3>1 DEF AccInv, NextRoom, Clearing
      <3>3. Room(r.job)'
        BY <3>1, <3>2, Untouched
      <3> QED
        BY <2>1, <3>1, <3>3 DEF RowCovered, SucceededFor
    <2>3. \A r, s \in orch'.rows : r.job = s.job => r = s
      BY <2>1 DEF FinalRows
    <2> QED
      BY <2>2, <2>3
  <1>4. CASE OrchDiskDevice
    <2>1. PICK r \in orch.rows :
            \/ orch' = [orch EXCEPT !.pc = "finish_cycle", !.machine = r.machine, !.job = r.job]
            \/ orch' = [orch EXCEPT !.rows = @ \ {r}]
      BY <1>4 DEF OrchDiskDevice
    <2>2. orch.pc = "finish" /\ orch.pc \in FinishPhase
      BY <1>4 DEF OrchDiskDevice, FinishPhase
    <2>3. /\ orch'.rows \subseteq orch.rows
          /\ orch'.pc = "finish_cycle" => orch'.job = r.job /\ orch'.machine = r.machine
      BY <1>0, <2>1, <2>2 DEF Orch
    <2> QED
      BY <1>1, <2>2, <2>3 DEF AccInv, RowsOnce
  <1>5. CASE OrchClear
    <2>1. /\ orch.pc \in FinishPhase /\ orch'.rows = orch.rows /\ orch'.pc = "finish"
      BY <1>0, <1>5 DEF OrchClear, Orch, FinishPhase
    <2> QED
      BY <1>1, <2>1
  <1> QED
    BY <1>0, <1>2, <1>3, <1>4, <1>5, FinishMoves

(* A job the next scan will find was one before, or has just succeeded and *)
(* was never finished; a new write of the binding pays for itself.         *)
LEMMA AccNext ==
  ASSUME Base, AccInv, [Next]_vars, ~OrchCreate, ~OrchDiskCycle
  PROVE  NextRoom'
  <1> SUFFICES ASSUME NEW j \in JobIds, SucceededFor(j)', ~Room(j)' PROVE Clearing(j)'
    BY DEF NextRoom
  <1>0. TInv /\ finals \in [JobIds -> Nat]
    BY AccTyped DEF Base
  <1>1. ~SomePut /\ ~Crash
    BY <1>0, Untouched, BudgetMoves
  <1>2. jobs'[j] = jobs[j]
    <2>1. ASSUME jobs[j].status = "running" PROVE FALSE
      <3>1. finals[j] = 0
        BY <1>0, <2>1 DEF AccInv, FinalsSpent
      <3> QED
        BY <3>1, Untouched
    <2> QED
      BY <1>0, <2>1, RowBefore DEF SucceededFor, Succeeded
  <1> DEFINE m == jobs[j].machine
  <1>3. m \in Machines /\ jobs[j].status = "succeeded"
    BY <1>0, <1>2 DEF TInv, JobsBound, SucceededFor, Store!Exists, Store!NoRowStatus
  <1>4. bindings'[m] = bindings[m] /\ bindings'[m].desired = "install"
    BY <1>0, <1>1, <1>2, <1>3, BindingsMove DEF BindingsLapse, SucceededFor
  <1>5. SucceededFor(j)
    BY <1>2, <1>4 DEF SucceededFor
  <1>6. orch.pc = "clear" /\ orch.machine = m
    BY <1>5, Untouched DEF AccInv, NextRoom, Clearing
  <1>7. ~OrchClear
    <2> SUFFICES ASSUME OrchClear PROVE FALSE
      OBVIOUS
    <2>1. bindings[m] \in Binding /\ bindings \in [Machines -> Binding]
      BY <1>0, <1>3 DEF TInv, BindingsOK
    <2>2. bindings'[m] = IF bindings[m].desired = "install"
                           THEN [bindings[m] EXCEPT !.desired = "none", !.updated = now]
                           ELSE bindings[m]
      BY <1>3, <1>6, <2>1 DEF OrchClear
    <2>3. bindings'[m].desired # "install"
      BY <2>1, <2>2 DEF Binding
    <2> QED
      BY <1>4, <2>3
  <1>8. orch' = orch
    BY <1>0, <1>1, <1>6, <1>7, FinishMoves
  <1> QED
    BY <1>2, <1>6, <1>8 DEF Clearing

LEMMA AccStep == Base /\ AccInv /\ [Next]_vars => AccInv'
  <1> SUFFICES ASSUME Base, AccInv, [Next]_vars PROVE AccInv'
    OBVIOUS
  <1>1. ASSUME ~OrchCreate, ~OrchDiskCycle PROVE AccInv'
    <2>0. /\ TInv /\ jobRev \in [JobIds -> Nat] /\ finals \in [JobIds -> Nat]
          /\ Budget \in Nat /\ Budget' \in Nat /\ (Budget' = Budget \/ Paid)
          /\ UNCHANGED <<jobRev, finals>>
      BY <1>1, AccTyped, BudgetMoves, Untouched DEF Base
    <2>1. Accounted'
      BY <2>0, AccountedBy DEF AccInv, Accounted, Paid
    <2>2. FinalizationsAccounted'
      BY <2>0, <2>1, AccountedBy
    <2>3. FinalsSpent'
      BY <2>0, SuccessStays DEF AccInv, FinalsSpent
    <2> QED
      BY <1>1, <2>2, <2>3, AccRows, AccNext DEF AccInv
  <1> QED
    BY <1>1, AccCreate, AccCycle

(* No machine is power-cycled into its disk for one job more often than    *)
(* once plus what was paid: a controller restart that lost the clearing of *)
(* the request, a BMC call that reported an error, a later write of the    *)
(* binding (handleSucceededJobs against everything that can repeat it).    *)
THEOREM RepetitionsArePaid == Spec => []FinalizationsAccounted
  <1>1. AccInv => FinalizationsAccounted
    BY DEF AccInv
  <1> QED
    BY <1>1, AccInit, AccStep, BaseAlways, PTL DEF Spec

=============================================================================
