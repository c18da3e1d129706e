------------------------ MODULE InstallPipeline_proofs ------------------------
(***************************************************************************)
(* Proofs about the install pipeline, for any number of machines, images,  *)
(* stages, jobs, restarts and faults.  What is proved of the jobs table in *)
(* JobStore_proofs is reused: the pipeline implements JobStore.            *)
(***************************************************************************)
EXTENDS InstallPipeline, TLAPS

JS == INSTANCE JobStore_proofs WITH Stages <- OrchStages \cup AgentStages

(* What the goroutines carry from one step to the next: the orchestrator   *)
(* and the agents hold ids of jobs, of machines and of stages whenever     *)
(* they are about to use them.                                             *)
OrchWorking == {"live_check", "boot", "cycle", "fail_job", "claim_live", "claim_pxe",
                "stage_live", "stage_pxe", "finish_cycle", "clear"}
AgentWorking == {"claim", "spec", "stage", "work", "succeed", "fail"}

JobsOK == Store!TypeOK
JobsBound == \A j \in JobIds :
  Store!Exists(j) => jobs[j].machine \in Machines /\ jobs[j].image \in Images
BindingsOK ==
  /\ bindings \in [Machines -> Binding] /\ lastPut \in Nat
  /\ \A m \in Machines : bindings[m].desired # "absent" => bindings[m].image \in Images
OrchOK ==
  /\ orch \in Orch
  /\ orch.pc \in OrchWorking => orch.job \in JobIds /\ orch.machine \in Machines
  /\ orch.pc \in {"finish", "finish_cycle", "clear"} => \A r \in orch.rows : r.job \in JobIds
AgentsOK ==
  /\ agent \in [Machines -> Agent]
  /\ \A m \in Machines :
       /\ agent[m].pc \in AgentWorking => agent[m].job \in JobIds
       /\ agent[m].pc \in {"stage", "work"} => agent[m].idx \in 1 .. Len(InstallStages)
HostsOK ==
  /\ power \in [Machines -> {"live", "os", "reboot"}]
  /\ nextBoot \in [Machines -> {"any", "pxe", "disk"}]
  /\ disk \in [Machines -> Images \cup {Nil}]
CatalogOK ==
  /\ catalog \in SUBSET Images
  /\ deleting \in [image : Images \cup {Nil}, step : {"idle", "jobs", "row"}]
  /\ deleting.step # "idle" => deleting.image \in Images
SeenOK == seen \in [Machines -> Nat] /\ reported \in [Machines -> BOOLEAN]
HistoryOK ==
  /\ jobRev \in [JobIds -> Nat] /\ finals \in [JobIds -> Nat]
  /\ puts \in Nat /\ faults \in Nat /\ crashes \in Nat /\ resets \in Nat

TInv == /\ JobsOK /\ JobsBound /\ BindingsOK /\ OrchOK /\ AgentsOK
        /\ HostsOK /\ CatalogOK /\ SeenOK /\ HistoryOK

LEMMA InvIsTyped == TInv => TypeOK
  BY DEF TInv, JobsOK, BindingsOK, OrchOK, AgentsOK, HostsOK, CatalogOK, SeenOK, HistoryOK, TypeOK

-----------------------------------------------------------------------------
(* The pipeline's steps on the jobs table.                                 *)

(* The two instances of JobStore, of the module and of its proofs, are one.*)
LEMMA SameStore ==
  /\ Store!Init <=> JS!Init
  /\ Store!Next <=> JS!Next
  /\ Store!Write <=> JS!Write
  /\ Store!TypeOK <=> JS!TypeOK
  <1> USE DEF JS!JobIds, Store!JobIds, JS!InFlightStatus, Store!InFlightStatus,
              JS!TerminalStatus, Store!TerminalStatus, JS!NoRowStatus, Store!NoRowStatus,
              JS!NoRow, Store!NoRow, JS!Never, Store!Never
  <1>1. Store!Write <=> JS!Write
    BY DEF JS!Write, Store!Write, JS!Create, Store!Create, JS!NextId, Store!NextId,
           JS!Busy, Store!Busy, JS!InFlight, Store!InFlight, JS!Claim, Store!Claim,
           JS!UpdateStage, Store!UpdateStage, JS!Succeed, Store!Succeed, JS!Fail, Store!Fail,
           JS!Cancel, Store!Cancel, JS!Terminate, Store!Terminate, JS!Delete, Store!Delete,
           JS!Terminal, Store!Terminal, JS!DeleteRows, Store!DeleteRows,
           JS!DeleteAllTerminal, Store!DeleteAllTerminal, JS!DeleteByImage, Store!DeleteByImage,
           JS!DeleteByMachine, Store!DeleteByMachine, JS!Exists, Store!Exists
  <1>2. Store!Init <=> JS!Init
    BY DEF JS!Init, Store!Init
  <1>3. Store!Next <=> JS!Next
    BY <1>1 DEF JS!Next, Store!Next, JS!ClockTick, Store!ClockTick
  <1>4. Store!TypeOK <=> JS!TypeOK
    BY DEF JS!TypeOK, Store!TypeOK, JS!Job, Store!Job
  <1> QED
    BY <1>1, <1>2, <1>3, <1>4

(* A statement of some caller, or none, while the clock stands.            *)
StoreWrite == (Store!Write \/ UNCHANGED jobs) /\ UNCHANGED now

LEMMA TryWrites ==
  ASSUME NEW j \in JobIds, NEW s \in OrchStages \cup AgentStages,
         TryClaim(j) \/ TryUpdateStage(j, s) \/ TryFail(j)
  PROVE  Store!Write \/ UNCHANGED jobs
  BY DEF TryClaim, TryUpdateStage, TryFail, Store!Write, JobIds, Store!JobIds

(* Operators, the orchestrator and the agents change the jobs table only   *)
(* by statements of the store, on ids, machines, images and stages there   *)
(* are (jobs/orchestrator.go, agent_api.go, api.go).                       *)
LEMMA StoreStep == TInv /\ Next => StoreWrite \/ Store!ClockTick
  <1> SUFFICES ASSUME TInv, Next PROVE StoreWrite \/ Store!ClockTick
    OBVIOUS
  <1>1. CASE Operator
    <2>1. CASE EditJobs
      BY <2>1 DEF EditJobs, CancelJob, DeleteJob, PurgeJobs, StoreWrite, Store!Write,
                  JobIds, Store!JobIds
    <2>2. CASE DeleteImageJobs
      <3>1. deleting.image \in Images
        BY <2>2 DEF DeleteImageJobs, TInv, CatalogOK
      <3> QED
        BY <2>2, <3>1 DEF DeleteImageJobs, StoreWrite, Store!Write
    <2> QED
      BY <1>1, <2>1, <2>2
      DEF Operator, PutBinding, DeleteBinding, DeleteImageBindings, DeleteImageRow, StoreWrite
  <1>2. CASE OrchStep
    <2>1. CASE OrchCreate
      <3>1. PICK r \in orch.rows, j \in JobIds, t \in orch.since .. now :
              Store!Create(j, r.machine, r.image, t)
        BY <2>1 DEF OrchCreate
      <3>2. r.machine \in Machines /\ r.image \in Images
        BY DEF TInv, OrchOK, Orch, Row
      <3>3. t \in 1 .. now
        BY <3>1 DEF Store!Create
      <3> QED
        BY <2>1, <3>1, <3>2, <3>3
        DEF OrchCreate, orchUnchanged, StoreWrite, Store!Write, JobIds, Store!JobIds
    <2>2. CASE OrchFailJob \/ OrchClaim \/ OrchStage
      <3>1. orch.job \in JobIds
        BY <2>2 DEF OrchFailJob, OrchClaim, OrchStage, TInv, OrchOK, OrchWorking
      <3>2. "waiting_agent" \in OrchStages /\ "pxe_booting" \in OrchStages
        BY DEF OrchStages
      <3> QED
        BY <2>2, <3>1, <3>2, TryWrites
        DEF OrchFailJob, OrchClaim, OrchStage, orchUnchanged, StoreWrite
    <2> QED
      BY <1>2, <2>1, <2>2
      DEF OrchStep, OrchScan, OrchSkip, OrchLiveCheck, OrchBootDevice, OrchCycle,
          OrchScanSucceeded, OrchDiskDevice, OrchDiskCycle, OrchClear, OrchTickEnds,
          orchUnchanged, StoreWrite
  <1>3. ASSUME NEW m \in Machines, InstallStep(m) PROVE StoreWrite
    <2> DEFINE j == agent[m].job
    <2>1. CASE AgentClaim(m) \/ AgentSucceed(m) \/ AgentFail(m)
      <3>1. j \in JobIds
        BY <2>1 DEF AgentClaim, AgentSucceed, AgentFail, TInv, AgentsOK, AgentWorking
      <3> QED
        BY <2>1, <3>1 DEF AgentClaim, AgentSucceed, AgentFail, TryFail, agentUnchanged,
                          StoreWrite, Store!Write, JobIds, Store!JobIds
    <2>2. CASE AgentPostStage(m)
      <3>1. j \in JobIds /\ agent[m].idx \in 1 .. Len(InstallStages)
        BY <2>2 DEF AgentPostStage, TInv, AgentsOK, AgentWorking
      <3>2. InstallStages[agent[m].idx] \in AgentStages
        BY <3>1, StagesAssumption DEF AgentStages
      <3> QED
        BY <2>2, <3>1, <3>2 DEF AgentPostStage, agentUnchanged, StoreWrite, Store!Write,
                                JobIds, Store!JobIds
    <2> QED
      BY <1>3, <2>1, <2>2 DEF InstallStep, AgentReport, AgentPoll, AgentSpec, AgentWork,
                              agentUnchanged, StoreWrite
  <1>4. CASE Crash \/ \E m \in Machines : Heartbeat(m) \/ Boot(m) \/ Reset(m)
    BY <1>4 DEF Crash, Heartbeat, Boot, Reset, dbVars, agentUnchanged, StoreWrite
  <1>5. CASE ClockTick
    BY <1>5 DEF ClockTick
  <1> QED
    BY <1>1, <1>2, <1>3, <1>4, <1>5 DEF Next

-----------------------------------------------------------------------------
(* The typed parts, one by one.                                            *)

LEMMA InitTyped == Init => TInv
  <1> SUFFICES ASSUME Init PROVE TInv
    OBVIOUS
  <1>1. JobsOK
    BY JS!TypeInit, BoundsNat, NilAssumption, SameStore DEF Init, JobsOK, JS!MaxJobsNat
  <1>2. JobsBound
    BY DEF Init, Store!Init, JobsBound, Store!Exists, Store!NoRow, Store!NoRowStatus,
           JobIds, Store!JobIds
  <1>3. OrchOK
    BY DEF Init, OrchOK, Orch, OrchIdle, OrchPC, OrchWorking
  <1>4. AgentsOK
    BY DEF Init, AgentsOK, Agent, AgentAt, AgentPC, AgentWorking
  <1>5. BindingsOK /\ HostsOK /\ CatalogOK /\ SeenOK /\ HistoryOK
    BY DEF Init, BindingsOK, Binding, NoBinding, HostsOK, CatalogOK, SeenOK, HistoryOK
  <1> QED
    BY <1>1, <1>2, <1>3, <1>4, <1>5 DEF TInv

LEMMA JobsStep == TInv /\ Next => JobsOK' /\ JobsBound'
  <1> SUFFICES ASSUME TInv, Next PROVE JobsOK' /\ JobsBound'
    OBVIOUS
  <1>1. Store!Next \/ UNCHANGED <<jobs, now>>
    BY StoreStep DEF StoreWrite, Store!Next
  <1>2. JS!TypeOK /\ JS!TypeOK'
    BY <1>1, JS!TypeStep, SameStore, BoundsNat, NilAssumption
    DEF TInv, JobsOK, JS!vars, JS!MaxJobsNat
  <1>3. JobsOK'
    BY <1>2, SameStore DEF JobsOK, Store!TypeOK, JS!TypeOK, Store!Job, JS!Job,
       Store!JobIds, JS!JobIds, JS!InFlightStatus, Store!InFlightStatus,
       JS!TerminalStatus, Store!TerminalStatus, JS!NoRowStatus, Store!NoRowStatus
  <1>4. CASE UNCHANGED jobs
    BY <1>3, <1>4 DEF TInv, JobsBound, Store!Exists
  <1>5. CASE JS!Write
    <2> SUFFICES ASSUME NEW j \in JobIds, Store!Exists(j)'
                 PROVE  jobs'[j].machine \in Machines /\ jobs'[j].image \in Images
      BY <1>3 DEF JobsBound
    <2>1. JS!RowKept(j) \/ JS!RowDropped(j) \/ JS!RowEnded(j) \/ JS!RowWorked(j) \/ JS!RowMade(j)
      BY <1>2, <1>5, JS!WriteByRow, BoundsNat, NilAssumption
      DEF JS!RowStep, JS!MaxJobsNat, JS!JobIds, JobIds
    <2>2. jobs[j] \in JS!Job
      BY <1>2 DEF JS!TypeOK, JS!JobIds, JobIds
    <2>3. CASE JS!RowMade(j)
      BY <2>3 DEF JS!RowMade
    <2>4. CASE JS!RowKept(j)
      BY <2>4 DEF JS!RowKept, TInv, JobsBound, Store!Exists
    <2>5. CASE JS!RowDropped(j)
      BY <2>5 DEF JS!RowDropped, JS!NoRow, Store!Exists, Store!NoRowStatus
    <2>6. CASE JS!RowEnded(j) \/ JS!RowWorked(j)
      <3>1. jobs'[j].machine = jobs[j].machine /\ jobs'[j].image = jobs[j].image
        BY <2>2, <2>6 DEF JS!RowEnded, JS!RowWorked, JS!Job
      <3>2. Store!Exists(j)
        BY <2>6 DEF JS!RowEnded, JS!RowWorked, JS!InFlight, JS!InFlightStatus,
                    Store!Exists, Store!NoRowStatus
      <3> QED
        BY <3>1, <3>2 DEF TInv, JobsBound
    <2> QED
      BY <2>1, <2>3, <2>4, <2>5, <2>6
  <1> QED
    BY <1>1, <1>3, <1>4, <1>5, SameStore DEF Store!Next, Store!ClockTick

LEMMA BindingsStep == TInv /\ Next => BindingsOK'
  <1> SUFFICES ASSUME TInv, Next PROVE BindingsOK'
    OBVIOUS
  <1> USE DEF BindingsOK
  <1>0. BindingsOK /\ CatalogOK /\ HistoryOK /\ now \in Nat
    BY DEF TInv, JobsOK, Store!TypeOK
  <1>1. ASSUME NEW m \in Machines, NEW i \in Images, NEW d \in {"none", "install"},
               NEW t \in 1 .. now, PutBinding(m, i, d, t)
        PROVE  BindingsOK'
    BY <1>0, <1>1 DEF PutBinding, Binding, HistoryOK
  <1>2. ASSUME NEW m \in Machines, DeleteBinding(m) PROVE BindingsOK'
    BY <1>0, <1>2 DEF DeleteBinding, Binding, NoBinding
  <1>3. ASSUME NEW i \in Images, DeleteImageBindings(i) PROVE BindingsOK'
    BY <1>0, <1>3 DEF DeleteImageBindings, Binding, NoBinding
  <1>4. CASE OrchClear
    <2>1. orch.machine \in Machines
      BY <1>4 DEF OrchClear, TInv, OrchOK, OrchWorking
    <2> QED
      BY <1>0, <1>4, <2>1 DEF OrchClear, Binding, orchUnchanged
  <1>5. CASE UNCHANGED <<bindings, lastPut>>
    BY <1>0, <1>5
  <1>6. CASE Operator
    BY <1>1, <1>2, <1>3, <1>5, <1>6 DEF Operator, EditJobs, DeleteImageJobs, DeleteImageRow
  <1>7. CASE OrchStep
    BY <1>4, <1>5, <1>7
    DEF OrchStep, OrchScan, OrchCreate, OrchSkip, OrchLiveCheck, OrchBootDevice, OrchCycle,
        OrchFailJob, OrchClaim, OrchStage, OrchScanSucceeded, OrchDiskDevice, OrchDiskCycle,
        OrchTickEnds, orchUnchanged
  <1>8. CASE Crash \/ ClockTick \/ \E m \in Machines : InstallStep(m) \/ Heartbeat(m) \/ Boot(m) \/ Reset(m)
    BY <1>5, <1>8
    DEF Crash, ClockTick, InstallStep, Heartbeat, Boot, Reset, dbVars, agentUnchanged,
        AgentReport, AgentPoll, AgentClaim, AgentSpec, AgentPostStage, AgentWork,
        AgentSucceed, AgentFail
  <1> QED
    BY <1>6, <1>7, <1>8 DEF Next

(* What a row of a scan names is in the tables of the scan, hence in the   *)
(* sets.                                                                   *)
LEMMA RowsTyped ==
  TInv => /\ InstallRows \in SUBSET Row /\ FinalRows \in SUBSET Row
          /\ \A r \in FinalRows : r.job \in JobIds
  <1> SUFFICES ASSUME TInv
               PROVE  /\ InstallRows \in SUBSET Row /\ FinalRows \in SUBSET Row
                      /\ \A r \in FinalRows : r.job \in JobIds
    OBVIOUS
  <1>1. ASSUME NEW m \in Machines, bindings[m].desired = "install"
        PROVE  bindings[m].image \in Images /\ bindings[m].rev \in Nat
    BY <1>1 DEF TInv, BindingsOK, Binding
  <1>2. ASSUME NEW j \in JobIds, jobs[j].status = "succeeded"
        PROVE  /\ jobs[j].machine \in Machines /\ jobs[j].image \in Images
               /\ jobRev[j] \in Nat
    BY <1>2 DEF TInv, JobsBound, HistoryOK, Store!Exists, Store!NoRowStatus
  <1> QED
    BY <1>1, <1>2 DEF InstallRows, FinalRows, SucceededFor, Row

LEMMA OrchTyped == TInv /\ Next => OrchOK'
  <1> SUFFICES ASSUME TInv, Next PROVE OrchOK'
    OBVIOUS
  <1> USE DEF OrchOK, Orch, OrchPC, OrchWorking
  <1>0. OrchOK /\ now \in Nat
    BY DEF TInv, JobsOK, Store!TypeOK
  <1>r. \A r \in orch.rows : r \in Row
    BY <1>0
  <1>1. OrchIdle \in Orch
    BY DEF OrchIdle
  <1>2. CASE OrchStep
    <2>1. CASE OrchScan
      BY <1>0, <2>1, RowsTyped DEF OrchScan, OrchIdle
    <2>2. CASE OrchCreate
      <3>1. PICK r \in orch.rows, j \in JobIds :
              orch' = [orch EXCEPT !.pc = "live_check", !.rows = @ \ {r},
                                   !.machine = r.machine, !.job = j]
        BY <2>2 DEF OrchCreate
      <3>2. r.machine \in Machines
        BY <1>r DEF Row
      <3> QED
        BY <1>0, <3>1, <3>2
    <2>3. CASE OrchSkip
      BY <1>0, <2>3 DEF OrchSkip
    <2>4. CASE OrchLiveCheck \/ OrchBootDevice \/ OrchCycle
      BY <1>0, <2>4 DEF OrchLiveCheck, OrchBootDevice, OrchCycle
    <2>5. CASE OrchFailJob \/ OrchClaim \/ OrchStage
      BY <1>0, <2>5 DEF OrchFailJob, OrchClaim, OrchStage
    <2>6. CASE OrchScanSucceeded
      BY <1>0, <1>1, <2>6, RowsTyped DEF OrchScanSucceeded, OrchIdle
    <2>7. CASE OrchDiskDevice
      <3>1. PICK r \in orch.rows :
              \/ orch' = [orch EXCEPT !.pc = "finish_cycle", !.machine = r.machine, !.job = r.job]
              \/ orch' = [orch EXCEPT !.rows = @ \ {r}]
        BY <2>7 DEF OrchDiskDevice
      <3>2. r.machine \in Machines
        BY <1>r DEF Row
      <3>3. r.job \in JobIds
        BY <1>0, <2>7 DEF OrchDiskDevice
      <3>4. orch.pc = "finish"
        BY <2>7 DEF OrchDiskDevice
      <3>5. CASE orch' = [orch EXCEPT !.pc = "finish_cycle", !.machine = r.machine, !.job = r.job]
        BY <1>0, <3>2, <3>3, <3>4, <3>5
      <3>6. CASE orch' = [orch EXCEPT !.rows = @ \ {r}]
        BY <1>0, <3>4, <3>6
      <3> QED
        BY <3>1, <3>5, <3>6
    <2>8. CASE OrchDiskCycle
      <3>1. PICK r \in orch.rows :
              \/ orch' = [orch EXCEPT !.pc = "clear", !.rows = @ \ {r}]
              \/ orch' = [orch EXCEPT !.pc = "finish", !.rows = @ \ {r}, !.job = 0, !.machine = Nil]
        BY <2>8 DEF OrchDiskCycle
      <3>2. orch.pc = "finish_cycle"
        BY <2>8 DEF OrchDiskCycle
      <3>3. CASE orch' = [orch EXCEPT !.pc = "clear", !.rows = @ \ {r}]
        BY <1>0, <3>2, <3>3
      <3>4. CASE orch' = [orch EXCEPT !.pc = "finish", !.rows = @ \ {r}, !.job = 0, !.machine = Nil]
        BY <1>0, <3>2, <3>4
      <3> QED
        BY <3>1, <3>3, <3>4
    <2>9. CASE OrchClear \/ OrchTickEnds
      BY <1>0, <1>1, <2>9 DEF OrchClear, OrchTickEnds, OrchIdle
    <2> QED
      BY <1>2, <2>1, <2>2, <2>3, <2>4, <2>5, <2>6, <2>7, <2>8, <2>9 DEF OrchStep
  <1>3. CASE Crash
    BY <1>1, <1>3 DEF Crash, OrchIdle
  <1>4. CASE UNCHANGED orch
    BY <1>0, <1>4
  <1>5. CASE Operator
    BY <1>4, <1>5 DEF Operator, PutBinding, DeleteBinding, EditJobs, DeleteImageBindings,
                      DeleteImageJobs, DeleteImageRow
  <1>6. CASE ClockTick \/ \E m \in Machines : InstallStep(m) \/ Heartbeat(m) \/ Boot(m) \/ Reset(m)
    BY <1>4, <1>6
    DEF ClockTick, InstallStep, Heartbeat, Boot, Reset, agentUnchanged,
        AgentReport, AgentPoll, AgentClaim, AgentSpec, AgentPostStage, AgentWork,
        AgentSucceed, AgentFail
  <1> QED
    BY <1>2, <1>3, <1>5, <1>6 DEF Next

LEMMA AgentsTyped == TInv /\ Next => AgentsOK'
  <1> SUFFICES ASSUME TInv, Next PROVE AgentsOK'
    OBVIOUS
  <1> USE DEF AgentsOK, Agent, AgentPC, AgentWorking
  <1>0. AgentsOK
    BY DEF TInv
  <1>1. CASE UNCHANGED agent
    BY <1>0, <1>1
  <1>2. ASSUME NEW m, NEW a \in Agent, agent' = [agent EXCEPT ![m] = a],
               a.pc \in AgentWorking => a.job \in JobIds,
               a.pc \in {"stage", "work"} => a.idx \in 1 .. Len(InstallStages)
        PROVE  AgentsOK'
    BY <1>0, <1>2
  <1>3. \A pc \in AgentPC : AgentAt(pc) \in Agent /\ AgentAt(pc).pc = pc
    BY DEF AgentAt
  <1>4. ASSUME NEW m, PowerCycle(m) PROVE AgentsOK'
    BY <1>2, <1>3, <1>4 DEF PowerCycle
  <1>5. CASE OrchStep
    BY <1>1, <1>4, <1>5
    DEF OrchStep, OrchScan, OrchCreate, OrchSkip, OrchLiveCheck, OrchBootDevice, OrchCycle,
        OrchFailJob, OrchClaim, OrchStage, OrchScanSucceeded, OrchDiskDevice, OrchDiskCycle,
        OrchClear, OrchTickEnds, SetBootDevice, hostVars
  <1>6. ASSUME NEW m \in Machines, BackToPoll(m) PROVE AgentsOK'
    BY <1>2, <1>3, <1>6 DEF BackToPoll
  <1>7. ASSUME NEW m \in Machines, NEW pc \in AgentPC, agent[m].pc \in AgentWorking, Goto(m, pc),
               pc = "work" => agent[m].pc = "stage", pc # "stage"
        PROVE  AgentsOK'
    <2>1. agent' = [agent EXCEPT ![m] = [agent[m] EXCEPT !.pc = pc]]
      BY <1>0, <1>7 DEF Goto
    <2> DEFINE a == [agent[m] EXCEPT !.pc = pc]
    <2>2. /\ a \in Agent /\ a.pc = pc /\ a.job = agent[m].job /\ a.idx = agent[m].idx
          /\ a.job \in JobIds /\ (pc = "work" => a.idx \in 1 .. Len(InstallStages))
      BY <1>0, <1>7
    <2> QED
      BY <1>2, <1>7, <2>1, <2>2
  <1>8. ASSUME NEW m \in Machines, InstallStep(m) PROVE AgentsOK'
    <2>1. CASE AgentReport(m)
      BY <1>6, <2>1 DEF AgentReport
    <2>2. CASE AgentPoll(m)
      <3>1. PICK j \in Store!Current(m), pc \in {"claim", "spec"} :
              agent' = [agent EXCEPT ![m] = [AgentAt(pc) EXCEPT !.job = j]]
        BY <2>2 DEF AgentPoll
      <3>2. j \in JobIds
        BY DEF Store!Current, Store!JobIds, JobIds
      <3> DEFINE a == [AgentAt(pc) EXCEPT !.job = j]
      <3>3. a \in Agent /\ a.pc = pc /\ a.job \in JobIds
        BY <3>2 DEF AgentAt
      <3> QED
        BY <1>2, <3>1, <3>3
    <2>3. CASE AgentClaim(m) \/ AgentSucceed(m) \/ AgentFail(m)
      BY <1>6, <1>7, <2>3 DEF AgentClaim, AgentSucceed, AgentFail
    <2>4. CASE AgentSpec(m)
      <3>1. CASE Goto(m, "fail")
        BY <1>7, <2>4, <3>1 DEF AgentSpec
      <3>2. CASE /\ SpecAvailable(m, agent[m].job)
                 /\ agent' = [agent EXCEPT ![m] = [pc |-> "stage", job |-> agent[m].job,
                                image |-> jobs[agent[m].job].image, idx |-> 1]]
        <4>1. agent[m].job \in JobIds
          BY <1>0, <2>4 DEF AgentSpec
        <4>2. jobs[agent[m].job].image \in Images
          BY <3>2, <4>1 DEF SpecAvailable, TInv, JobsBound
        <4>3. 1 \in 1 .. Len(InstallStages)
          BY StagesAssumption
        <4> QED
          BY <1>2, <3>2, <4>1, <4>2, <4>3
      <3> QED
        BY <2>4, <3>1, <3>2 DEF AgentSpec
    <2>5. CASE AgentPostStage(m)
      BY <1>7, <2>5 DEF AgentPostStage
    <2>6. CASE AgentWork(m)
      <3>1. CASE Goto(m, "succeed") \/ Goto(m, "fail")
        BY <1>7, <2>6, <3>1 DEF AgentWork
      <3>2. CASE /\ agent[m].idx < Len(InstallStages)
                 /\ agent' = [agent EXCEPT ![m].pc = "stage", ![m].idx = @ + 1]
        <4> DEFINE a == [agent[m] EXCEPT !.pc = "stage", !.idx = @ + 1]
        <4>1. agent' = [agent EXCEPT ![m] = a]
          BY <1>0, <3>2
        <4>2. /\ agent[m] \in Agent /\ agent[m].job \in JobIds
              /\ agent[m].idx \in 1 .. Len(InstallStages)
          BY <1>0, <2>6 DEF AgentWork
        <4>3. Len(InstallStages) \in Nat
          BY StagesAssumption
        <4>4. agent[m].idx + 1 \in 1 .. Len(InstallStages) /\ agent[m].idx + 1 \in Nat
          BY <3>2, <4>2, <4>3
        <4>5. a \in Agent /\ a.job = agent[m].job /\ a.idx = agent[m].idx + 1
          BY <4>2, <4>4
        <4> QED
          BY <1>2, <4>1, <4>2, <4>4, <4>5
      <3> QED
        BY <2>6, <3>1, <3>2 DEF AgentWork
    <2> QED
      BY <1>8, <2>1, <2>2, <2>3, <2>4, <2>5, <2>6 DEF InstallStep
  <1>9. ASSUME NEW m \in Machines, Boot(m) \/ Reset(m) PROVE AgentsOK'
    <2>1. ASSUME NEW pc \in {"off", "report"}, agent' = [agent EXCEPT ![m] = AgentAt(pc)]
          PROVE  AgentsOK'
      BY <1>2, <1>3, <2>1
    <2> QED
      BY <1>1, <1>9, <2>1 DEF Boot, Reset
  <1>10. CASE Operator \/ Crash \/ ClockTick \/ \E m \in Machines : Heartbeat(m)
    BY <1>1, <1>10 DEF Operator, PutBinding, DeleteBinding, EditJobs, DeleteImageBindings,
                      DeleteImageJobs, DeleteImageRow, Crash, ClockTick, Heartbeat, hostVars
  <1> QED
    BY <1>5, <1>8, <1>9, <1>10 DEF Next

LEMMA HostsTyped == TInv /\ Next => HostsOK'
  <1> SUFFICES ASSUME TInv, Next PROVE HostsOK'
    OBVIOUS
  <1> USE DEF HostsOK
  <1>0. HostsOK
    BY DEF TInv
  <1>1. CASE UNCHANGED <<power, nextBoot, disk>>
    BY <1>0, <1>1
  <1>2. ASSUME NEW m, PowerCycle(m) \/ SetBootDevice(m, "pxe") \/ SetBootDevice(m, "disk")
        PROVE  HostsOK'
    BY <1>0, <1>2 DEF PowerCycle, SetBootDevice
  <1>3. CASE OrchStep
    BY <1>1, <1>2, <1>3
    DEF OrchStep, OrchScan, OrchCreate, OrchSkip, OrchLiveCheck, OrchBootDevice, OrchCycle,
        OrchFailJob, OrchClaim, OrchStage, OrchScanSucceeded, OrchDiskDevice, OrchDiskCycle,
        OrchClear, OrchTickEnds, hostVars
  <1>4. ASSUME NEW m \in Machines, AgentPostStage(m) \/ AgentWork(m) PROVE HostsOK'
    <2>1. agent[m].image \in Images \cup {Nil}
      BY DEF TInv, AgentsOK, Agent
    <2> QED
      BY <1>0, <1>4, <2>1 DEF AgentPostStage, AgentWork, agentUnchanged
  <1>5. ASSUME NEW m \in Machines, Boot(m) \/ Reset(m) PROVE HostsOK'
    BY <1>0, <1>5 DEF Boot, Reset
  <1>6. CASE Operator \/ Crash \/ ClockTick
    BY <1>1, <1>6 DEF Operator, PutBinding, DeleteBinding, EditJobs, DeleteImageBindings,
                      DeleteImageJobs, DeleteImageRow, Crash, ClockTick, hostVars
  <1>7. ASSUME NEW m \in Machines, InstallStep(m) \/ Heartbeat(m) PROVE HostsOK'
    BY <1>1, <1>4, <1>7 DEF InstallStep, Heartbeat, AgentReport, AgentPoll, AgentClaim,
                            AgentSpec, AgentSucceed, AgentFail, agentUnchanged
  <1> QED
    BY <1>3, <1>5, <1>6, <1>7 DEF Next

LEMMA CatalogTyped == TInv /\ Next => CatalogOK'
  <1> SUFFICES ASSUME TInv, Next PROVE CatalogOK'
    OBVIOUS
  <1> USE DEF CatalogOK
  <1>0. CatalogOK
    BY DEF TInv
  <1>1. CASE UNCHANGED <<catalog, deleting>>
    BY <1>0, <1>1
  <1>2. CASE Operator
    BY <1>0, <1>1, <1>2 DEF Operator, PutBinding, DeleteBinding, EditJobs, DeleteImageBindings,
                            DeleteImageJobs, DeleteImageRow
  <1>3. CASE Crash
    BY <1>0, <1>3 DEF Crash, dbVars
  <1>4. CASE OrchStep
    BY <1>1, <1>4
    DEF OrchStep, OrchScan, OrchCreate, OrchSkip, OrchLiveCheck, OrchBootDevice, OrchCycle,
        OrchFailJob, OrchClaim, OrchStage, OrchScanSucceeded, OrchDiskDevice, OrchDiskCycle,
        OrchClear, OrchTickEnds, orchUnchanged
  <1>5. CASE ClockTick \/ \E m \in Machines : InstallStep(m) \/ Heartbeat(m) \/ Boot(m) \/ Reset(m)
    BY <1>1, <1>5
    DEF ClockTick, InstallStep, Heartbeat, Boot, Reset, dbVars, agentUnchanged,
        AgentReport, AgentPoll, AgentClaim, AgentSpec, AgentPostStage, AgentWork,
        AgentSucceed, AgentFail
  <1> QED
    BY <1>2, <1>3, <1>4, <1>5 DEF Next

LEMMA SeenTyped == TInv /\ Next => SeenOK'
  <1> SUFFICES ASSUME TInv, Next PROVE SeenOK'
    OBVIOUS
  <1> USE DEF SeenOK
  <1>0. SeenOK /\ now \in Nat
    BY DEF TInv, JobsOK, Store!TypeOK
  <1>1. CASE UNCHANGED <<seen, reported>>
    BY <1>0, <1>1
  <1>2. ASSUME NEW m \in Machines, UpsertReport(m) \/ StoreHeartbeat(m) PROVE SeenOK'
    BY <1>0, <1>2 DEF UpsertReport, StoreHeartbeat
  <1>3. CASE Operator \/ Crash \/ ClockTick
    BY <1>1, <1>3 DEF Operator, PutBinding, DeleteBinding, EditJobs, DeleteImageBindings,
                      DeleteImageJobs, DeleteImageRow, Crash, ClockTick, dbVars
  <1>4. CASE OrchStep
    BY <1>1, <1>4
    DEF OrchStep, OrchScan, OrchCreate, OrchSkip, OrchLiveCheck, OrchBootDevice, OrchCycle,
        OrchFailJob, OrchClaim, OrchStage, OrchScanSucceeded, OrchDiskDevice, OrchDiskCycle,
        OrchClear, OrchTickEnds, orchUnchanged
  <1>5. CASE \E m \in Machines : InstallStep(m) \/ Heartbeat(m) \/ Boot(m) \/ Reset(m)
    BY <1>1, <1>2, <1>5
    DEF InstallStep, Heartbeat, Boot, Reset, dbVars, agentUnchanged,
        AgentReport, AgentPoll, AgentClaim, AgentSpec, AgentPostStage, AgentWork,
        AgentSucceed, AgentFail
  <1> QED
    BY <1>3, <1>4, <1>5 DEF Next

LEMMA HistoryTyped == TInv /\ Next => HistoryOK'
  <1> SUFFICES ASSUME TInv, Next PROVE HistoryOK'
    OBVIOUS
  <1> USE DEF HistoryOK
  <1>0. HistoryOK
    BY DEF TInv
  <1>1. CASE UNCHANGED <<jobRev, finals, puts, faults, crashes, resets>>
    BY <1>0, <1>1
  <1>2. CASE Operator \/ ClockTick \/ Crash
    BY <1>0, <1>1, <1>2 DEF Operator, PutBinding, DeleteBinding, EditJobs, DeleteImageBindings,
          DeleteImageJobs, DeleteImageRow, ClockTick, Crash, historyVars, boundVars
  <1>3. CASE OrchStep
    <2>1. CASE OrchCreate
      <3>1. PICK r \in orch.rows, j \in JobIds : jobRev' = [jobRev EXCEPT ![j] = r.rev]
        BY <2>1 DEF OrchCreate
      <3>2. r.rev \in Nat
        BY DEF TInv, OrchOK, Orch, Row
      <3> QED
        BY <1>0, <2>1, <3>1, <3>2 DEF OrchCreate, orchUnchanged
    <2>2. CASE OrchDiskCycle
      <3>1. orch.job \in JobIds
        BY <2>2 DEF OrchDiskCycle, TInv, OrchOK, OrchWorking
      <3> QED
        BY <1>0, <2>2, <3>1 DEF OrchDiskCycle, orchUnchanged, Fault, NoFault
    <2>3. CASE OrchBootDevice \/ OrchCycle \/ OrchDiskDevice
      <3>1. UNCHANGED historyVars /\ (Fault \/ NoFault) /\ UNCHANGED <<puts, crashes, resets>>
        BY <2>3 DEF OrchBootDevice, OrchCycle, OrchDiskDevice, orchUnchanged
      <3> QED
        BY <1>0, <3>1 DEF historyVars, Fault, NoFault
    <2>4. CASE \/ OrchScan \/ OrchSkip \/ OrchLiveCheck \/ OrchFailJob \/ OrchClaim
               \/ OrchStage \/ OrchScanSucceeded \/ OrchClear \/ OrchTickEnds
      BY <1>1, <2>4
      DEF OrchScan, OrchSkip, OrchLiveCheck, OrchFailJob, OrchClaim, OrchStage,
          OrchScanSucceeded, OrchClear, OrchTickEnds, orchUnchanged, historyVars
    <2> QED
      BY <1>3, <2>1, <2>2, <2>3, <2>4 DEF OrchStep
  <1>4. ASSUME NEW m \in Machines, InstallStep(m) \/ Heartbeat(m) \/ Boot(m) \/ Reset(m)
        PROVE  HistoryOK'
    BY <1>0, <1>4
    DEF InstallStep, Heartbeat, Boot, Reset, dbVars, agentUnchanged, historyVars, boundVars,
        AgentReport, AgentPoll, AgentClaim, AgentSpec, AgentPostStage, AgentWork,
        AgentSucceed, AgentFail, Fault, NoFault
  <1> QED
    BY <1>2, <1>3, <1>4 DEF Next

LEMMA TInvStutters == TInv /\ UNCHANGED vars => TInv'
  BY DEF TInv, vars, dbVars, hostVars, historyVars, boundVars, JobsOK, JobsBound, BindingsOK,
         OrchOK, AgentsOK, HostsOK, CatalogOK, SeenOK, HistoryOK, Store!TypeOK, Store!Exists

LEMMA TypedAlways == Spec => []TInv
  <1>1. TInv /\ [Next]_vars => TInv'
    BY JobsStep, BindingsStep, OrchTyped, AgentsTyped, HostsTyped, CatalogTyped, SeenTyped,
       HistoryTyped, TInvStutters DEF TInv
  <1> QED
    BY <1>1, InitTyped, PTL DEF Spec

-----------------------------------------------------------------------------
(* The theorems.                                                           *)

(* Whatever operators, the orchestrator, agents, firmware and restarts do, *)
(* each of them works with jobs, machines, images and stages there are.    *)
THEOREM PipelineTypeCorrect == Spec => []TypeOK
  BY TypedAlways, InvIsTyped, PTL

(* The parties of the pipeline use the jobs table only as JobStore allows. *)
THEOREM PipelineImplementsStore == Spec => StoreImplemented
  <1>1. Init => Store!Init
    BY DEF Init
  <1>2. TInv /\ [Next]_vars => [Store!Next]_(Store!vars)
    BY StoreStep DEF StoreWrite, Store!Next, Store!vars, vars, dbVars
  <1> QED
    BY <1>1, <1>2, TypedAlways, PTL DEF Spec, StoreImplemented, Store!Spec

(* So what is proved of the table holds in the running system: one live    *)
(* job per machine, and outcomes that are never rewritten.                 *)
THEOREM OneInstallPerMachine == Spec => []Store!OneInFlight
  <1>1. StoreImplemented => JS!Spec
    <2>1. [Store!Next]_(Store!vars) <=> [JS!Next]_(JS!vars)
      BY SameStore DEF Store!vars, JS!vars
    <2> QED
      BY <2>1, SameStore, PTL DEF StoreImplemented, Store!Spec, JS!Spec
  <1>2. JS!Spec => []JS!OneInFlight
    BY JS!MutualExclusion, BoundsNat, NilAssumption DEF JS!MaxJobsNat
  <1>3. JS!OneInFlight <=> Store!OneInFlight
    BY DEF JS!OneInFlight, Store!OneInFlight, JS!InFlight, Store!InFlight, JS!JobIds,
           Store!JobIds, JS!InFlightStatus, Store!InFlightStatus
  <1> QED
    BY <1>1, <1>2, <1>3, PipelineImplementsStore, PTL

=============================================================================
