--------------------------- MODULE InstallPipeline ---------------------------
(***************************************************************************)
(* One install, end to end.  Four parties share the controller's database: *)
(*   - operators, who write bindings ("what should this machine run"),     *)
(*     cancel and delete jobs, and delete catalog images;                  *)
(*   - the orchestrator, one goroutine that every tick turns bindings into *)
(*     jobs and finishes the jobs that succeeded (internal/jobs/           *)
(*     orchestrator.go);                                                   *)
(*   - one agent per machine, alive while the machine runs the live        *)
(*     system: it polls for a job and installs it (cmd/agent, internal/    *)
(*     installer, internal/agentclient) through internal/jobs/agent_api.go;*)
(*   - the machines themselves, which boot and are power-cycled by IPMI.   *)
(* Each action is what one party does between two points where the others  *)
(* may interleave: one statement on the database, one HTTP request, one    *)
(* IPMI command, one installer stage.                                      *)
(***************************************************************************)
EXTENDS Naturals, Sequences

CONSTANTS
  Machines, Images, Nil,
  InstallStages,             \* the stages installer.Run reports, in order
  WipeAt,                    \* index of the first stage that touches the disk
  LiveFreshness,             \* OrchestratorConfig.LiveFreshness, in clock ticks
  HasIPMI,                   \* FALSE: "agent-pulls-job" mode, no BMC access
  MaxJobs, MaxTime,          \* bounds on ids and on the clock
  MaxPuts,                   \* bound on binding writes by operators
  Housekeeping,              \* operators cancel, delete and purge jobs, ...
  MaxFaults,                 \* bound on failed calls: IPMI, HTTP, installer
  MaxCrashes,                \* bound on controller restarts
  MaxResets                  \* bound on machine resets nobody commanded

ASSUME StagesAssumption == InstallStages \in Seq(STRING) /\ WipeAt \in 1 .. Len(InstallStages)
ASSUME FreshnessNat == LiveFreshness \in Nat
ASSUME BoundsNat == MaxJobs \in Nat /\ MaxTime \in Nat
ASSUME NilAssumption == Nil \notin Machines /\ Nil \notin Images

VARIABLES
  jobs, now,                 \* see JobStore
  bindings,                  \* table bindings, by machine
  lastPut,                   \* when an Upsert last released allocMu
  catalog,                   \* table images: the ids that exist
  deleting,                  \* DELETE /images/{id} in progress
  orch,                      \* the orchestrator's goroutine
  seen, reported,            \* machines.last_seen; has a latest_report
  power, nextBoot,           \* what a machine runs; one-shot boot device
  disk,                      \* the complete system on its disk, or Nil
  agent,                     \* the agent process of a machine
  jobRev,                    \* history: the binding revision a job came from
  finals,                    \* history: power cycles to disk spent on a job
  puts, faults, crashes, resets

dbVars      == <<jobs, bindings, lastPut, catalog, seen, reported>>
hostVars    == <<power, nextBoot, disk, agent>>
historyVars == <<jobRev, finals>>
boundVars   == <<puts, faults, crashes, resets>>
vars == <<dbVars, now, deleting, orch, hostVars, historyVars, boundVars>>

OrchStages == {"waiting_agent", "pxe_booting"}
AgentStages == {InstallStages[k] : k \in DOMAIN InstallStages}

Store == INSTANCE JobStore WITH Stages <- OrchStages \cup AgentStages

JobIds == 1 .. MaxJobs

-----------------------------------------------------------------------------
(* State.                                                                  *)

(* desired merges 'install' and 'reinstall', which the code never tells    *)
(* apart; "absent": no row.  rev numbers the operators' writes: the code   *)
(* has no such column and orders revisions by updated_at alone.            *)
Binding == [desired : {"absent", "none", "install"}, image : Images \cup {Nil},
            updated : Nat, rev : Nat]
NoBinding == [desired |-> "absent", image |-> Nil, updated |-> 0, rev |-> 0]

(* A row of one of the orchestrator's two result sets.                     *)
Row == [machine : Machines, image : Images, rev : Nat, job : JobIds \cup {0}]

OrchPC == {"idle", "install", "live_check", "boot", "cycle", "fail_job", "claim_live",
           "claim_pxe", "stage_live", "stage_pxe", "finish", "finish_cycle", "clear"}
Orch == [pc : OrchPC, rows : SUBSET Row, since : Nat,
         machine : Machines \cup {Nil}, job : JobIds \cup {0}]
OrchIdle == [pc |-> "idle", rows |-> {}, since |-> 0, machine |-> Nil, job |-> 0]

AgentPC == {"off", "report", "poll", "claim", "spec", "stage", "work", "succeed", "fail"}
Agent == [pc : AgentPC, job : JobIds \cup {0}, image : Images \cup {Nil}, idx : Nat]
AgentAt(pc) == [pc |-> pc, job |-> 0, image |-> Nil, idx |-> 0]

TypeOK ==
  /\ Store!TypeOK
  /\ bindings \in [Machines -> Binding]
  /\ lastPut \in Nat
  /\ catalog \in SUBSET Images
  /\ deleting \in [image : Images \cup {Nil}, step : {"idle", "jobs", "row"}]
  /\ orch \in Orch
  /\ seen \in [Machines -> Nat] /\ reported \in [Machines -> BOOLEAN]
  /\ power \in [Machines -> {"live", "os", "reboot"}]
  /\ nextBoot \in [Machines -> {"any", "pxe", "disk"}]
  /\ disk \in [Machines -> Images \cup {Nil}]
  /\ agent \in [Machines -> Agent]
  /\ jobRev \in [JobIds -> Nat] /\ finals \in [JobIds -> Nat]
  /\ puts \in Nat /\ faults \in Nat /\ crashes \in Nat /\ resets \in Nat

(* Machines are registered, none is bound, nothing was ever installed by   *)
(* this controller; a machine may be up in the live system already.        *)
Init ==
  /\ Store!Init
  /\ bindings = [m \in Machines |-> NoBinding] /\ lastPut = 1
  /\ catalog = Images
  /\ deleting = [image |-> Nil, step |-> "idle"]
  /\ orch = OrchIdle
  /\ seen = [m \in Machines |-> 0] /\ reported = [m \in Machines |-> FALSE]
  /\ power \in [Machines -> {"live", "os"}]
  /\ nextBoot = [m \in Machines |-> "any"]
  /\ disk = [m \in Machines |-> Nil]
  /\ agent = [m \in Machines |-> AgentAt(IF power[m] = "live" THEN "report" ELSE "off")]
  /\ jobRev = [j \in JobIds |-> 0] /\ finals = [j \in JobIds |-> 0]
  /\ puts = 0 /\ faults = 0 /\ crashes = 0 /\ resets = 0

(* A call that fails, for whatever reason, uses up one of the faults.      *)
Fault == faults < MaxFaults /\ faults' = faults + 1
NoFault == UNCHANGED faults

(* Callers that log and ignore a store error go on whether or not the      *)
(* statement matched its row.                                              *)
TryClaim(j)          == Store!Claim(j) \/ (jobs[j].status # "pending" /\ UNCHANGED jobs)
TryUpdateStage(j, s) == Store!UpdateStage(j, s) \/ (jobs[j].status # "running" /\ UNCHANGED jobs)
TryFailAny(j) ==           \* wrong on purpose: UPDATE without its status guard
  IF Store!Exists(j) THEN jobs' = [jobs EXCEPT ![j].status = "failed", ![j].finished = now]
                     ELSE UNCHANGED jobs
TryFail(j)           == Store!Fail(j) \/ (~Store!InFlight(j) /\ UNCHANGED jobs)

-----------------------------------------------------------------------------
(* Operators: requests of the UI.                                          *)

(* checkImageExists, and the foreign key under the INSERT.                 *)
Bindable(i) == i \in catalog

(* PUT /machines/{uuid}/binding, bindings.Store.Upsert.  updated_at is     *)
(* stamped on every write, whether or not the row changes, with a clock    *)
(* read before the statement got the write lock, but under allocMu: after  *)
(* the Upsert before it was through.                                       *)
PutBindingUnlocked(m, i, d, t) == \* wrong on purpose: the clock is read outside allocMu
  /\ puts < MaxPuts /\ puts' = puts + 1
  /\ t \in 1 .. now /\ lastPut' = now
  /\ Bindable(i)
  /\ bindings' = [bindings EXCEPT ![m] = [desired |-> d, image |-> i,
                                          updated |-> t, rev |-> puts + 1]]
  /\ UNCHANGED <<jobs, now, catalog, seen, reported, deleting, orch, hostVars,
                 historyVars, faults, crashes, resets>>

PutBinding(m, i, d, t) ==
  /\ puts < MaxPuts /\ puts' = puts + 1
  /\ t \in lastPut .. now /\ lastPut' = now
  /\ Bindable(i)
  /\ bindings' = [bindings EXCEPT ![m] = [desired |-> d, image |-> i,
                                          updated |-> t, rev |-> puts + 1]]
  /\ UNCHANGED <<jobs, now, catalog, seen, reported, deleting, orch, hostVars,
                 historyVars, faults, crashes, resets>>

DeleteBinding(m) ==
  /\ Housekeeping /\ bindings[m].desired # "absent"
  /\ bindings' = [bindings EXCEPT ![m] = NoBinding]
  /\ UNCHANGED <<lastPut, jobs, now, catalog, seen, reported, deleting, orch, hostVars,
                 historyVars, boundVars>>

CancelJob(j) == Store!Cancel(j)
DeleteJob(j) == Store!Delete(j)
PurgeJobs    == Store!DeleteAllTerminal

EditJobs ==
  /\ Housekeeping
  /\ \/ \E j \in JobIds : CancelJob(j) \/ DeleteJob(j)
     \/ PurgeJobs
  /\ UNCHANGED <<lastPut, now, bindings, catalog, seen, reported, deleting, orch, hostVars,
                 historyVars, boundVars>>

(* DELETE /images/{id} cascades in three statements of its own, outside    *)
(* any transaction: bindings, then jobs of any status, then the image row, *)
(* which foreign keys protect against references made in between.          *)
DeleteImageBindings(i) ==
  /\ Housekeeping /\ deleting.step = "idle" /\ i \in catalog
  /\ deleting' = [image |-> i, step |-> "jobs"]
  /\ bindings' = [m \in Machines |-> IF bindings[m].image = i THEN NoBinding ELSE bindings[m]]
  /\ UNCHANGED <<lastPut, jobs, now, catalog, seen, reported, orch, hostVars, historyVars, boundVars>>

DeleteImageJobs ==
  /\ deleting.step = "jobs"
  /\ deleting' = [deleting EXCEPT !.step = "row"]
  /\ Store!DeleteByImage(deleting.image)
  /\ UNCHANGED <<lastPut, now, bindings, catalog, seen, reported, orch, hostVars, historyVars, boundVars>>

Referenced(i) ==
  \/ \E m \in Machines : bindings[m].image = i
  \/ \E j \in JobIds : Store!Exists(j) /\ jobs[j].image = i

DeleteImageRowUnchecked == \* wrong on purpose: no foreign keys
  /\ deleting.step = "row"
  /\ deleting' = [image |-> Nil, step |-> "idle"]
  /\ catalog' = catalog \ {deleting.image}
  /\ UNCHANGED <<lastPut, jobs, now, bindings, seen, reported, orch, hostVars, historyVars, boundVars>>

DeleteImageRow ==
  /\ deleting.step = "row"
  /\ deleting' = [image |-> Nil, step |-> "idle"]
  /\ catalog' = IF Referenced(deleting.image) THEN catalog ELSE catalog \ {deleting.image}
  /\ UNCHANGED <<lastPut, jobs, now, bindings, seen, reported, orch, hostVars, historyVars, boundVars>>

-----------------------------------------------------------------------------
(* BMC and machine.  BootForPXE and FinalizeBootDisk set the one-shot boot *)
(* device and then power-cycle, seconds apart; a command that reports an   *)
(* error may have reached the BMC all the same (its answer timed out).     *)

SetBootDevice(m, dev) ==
  /\ nextBoot' = [nextBoot EXCEPT ![m] = dev]
  /\ UNCHANGED <<power, agent, disk>>

PowerCycleOff(m) ==        \* wrong on purpose: "power off" for "power cycle"
  /\ power' = [power EXCEPT ![m] = "off"]
  /\ agent' = [agent EXCEPT ![m] = AgentAt("off")]
  /\ UNCHANGED <<nextBoot, disk>>

(* Whatever ran on the machine is gone.                                    *)
PowerCycle(m) ==
  /\ power' = [power EXCEPT ![m] = "reboot"]
  /\ agent' = [agent EXCEPT ![m] = AgentAt("off")]
  /\ UNCHANGED <<nextBoot, disk>>

-----------------------------------------------------------------------------
(* The orchestrator.  Both scans answer from a snapshot: the rows are      *)
(* worked off one by one, with IPMI calls of seconds in between, while the *)
(* tables move on.                                                         *)

BlocksStrictly(j, m) ==    \* wrong on purpose: > for >=
  /\ jobs[j].machine = m
  /\ \/ Store!InFlight(j)
     \/ /\ Store!Terminal(j)
        /\ \/ jobs[j].created > bindings[m].updated
           \/ jobs[j].finished > bindings[m].updated

Blocks(j, m) ==
  /\ jobs[j].machine = m
  /\ \/ Store!InFlight(j)
     \/ /\ Store!Terminal(j)
        /\ \/ jobs[j].created >= bindings[m].updated
           \/ jobs[j].finished >= bindings[m].updated

InstallRows ==
  {[machine |-> m, image |-> bindings[m].image, rev |-> bindings[m].rev, job |-> 0] :
     m \in {n \in Machines : /\ bindings[n].desired = "install"
                             /\ \A j \in JobIds : ~Blocks(j, n)}}

SucceededFor(j) ==
  /\ jobs[j].status = "succeeded"
  /\ bindings[jobs[j].machine].desired = "install"
  /\ jobs[j].finished >= bindings[jobs[j].machine].updated

FinalRows ==
  {[machine |-> jobs[j].machine, image |-> jobs[j].image, rev |-> jobRev[j], job |-> j] :
     j \in {k \in JobIds : SucceededFor(k)}}

orchUnchanged == <<now, lastPut, catalog, seen, reported, deleting, puts, crashes, resets>>

(* handleInstallRequests: the scan at the start of a tick.                 *)
OrchScan ==
  /\ orch.pc = "idle"
  /\ orch' = [OrchIdle EXCEPT !.pc = "install", !.rows = InstallRows, !.since = now]
  /\ UNCHANGED <<jobs, bindings, hostVars, historyVars, faults>> /\ UNCHANGED orchUnchanged

(* startJobForBinding, Store.Create.  The row is what the scan saw; the    *)
(* stamp is read after the scan and before the INSERT has the write lock.  *)
OrchCreate ==
  /\ orch.pc = "install"
  /\ \E r \in orch.rows, j \in JobIds, t \in orch.since .. now :
       /\ r.image \in catalog
       /\ Store!Create(j, r.machine, r.image, t)
       /\ jobRev' = [jobRev EXCEPT ![j] = r.rev]
       /\ orch' = [orch EXCEPT !.pc = "live_check", !.rows = @ \ {r},
                               !.machine = r.machine, !.job = j]
  /\ UNCHANGED <<bindings, hostVars, finals, faults>> /\ UNCHANGED orchUnchanged

(* ErrInFlight, ErrImageUnknown, or (MaxJobs) no id left: on to the next.  *)
OrchSkip ==
  /\ orch.pc = "install"
  /\ \E r \in orch.rows :
       /\ \/ r.image \notin catalog
          \/ Store!Busy(r.machine)
          \/ \A j \in JobIds : jobs[j].status # "unissued"
       /\ orch' = [orch EXCEPT !.rows = @ \ {r}]
  /\ UNCHANGED <<jobs, bindings, hostVars, historyVars, faults>> /\ UNCHANGED orchUnchanged

(* The latest report, once there is one, is always one of the live system: *)
(* only its agent posts reports.                                           *)
MachineInLive(m) == reported[m] /\ now <= seen[m] + LiveFreshness

OrchLiveCheck ==
  /\ orch.pc = "live_check"
  /\ orch' = [orch EXCEPT !.pc = IF MachineInLive(orch.machine) THEN "claim_live"
                                 ELSE IF HasIPMI THEN "boot" ELSE "install"]
  /\ UNCHANGED <<jobs, bindings, hostVars, historyVars, faults>> /\ UNCHANGED orchUnchanged

(* GetWithPassword and BootForPXE; a missing BMC record is one more error. *)
OrchBootDevice ==
  /\ orch.pc = "boot"
  /\ \/ /\ SetBootDevice(orch.machine, "pxe") /\ NoFault
        /\ orch' = [orch EXCEPT !.pc = "cycle"]
     \/ /\ SetBootDevice(orch.machine, "pxe") \/ UNCHANGED hostVars
        /\ orch' = [orch EXCEPT !.pc = "fail_job"]
        /\ Fault
  /\ UNCHANGED <<jobs, bindings, historyVars>> /\ UNCHANGED orchUnchanged

OrchCycleNoFail ==         \* wrong on purpose: an IPMI error is only logged
  /\ orch.pc = "cycle"
  /\ \/ /\ PowerCycle(orch.machine) /\ NoFault
        /\ orch' = [orch EXCEPT !.pc = "claim_pxe"]
     \/ /\ PowerCycle(orch.machine) \/ UNCHANGED hostVars
        /\ orch' = [orch EXCEPT !.pc = "install", !.job = 0, !.machine = Nil]
        /\ Fault
  /\ UNCHANGED <<jobs, bindings, historyVars>> /\ UNCHANGED orchUnchanged

OrchCycle ==
  /\ orch.pc = "cycle"
  /\ \/ /\ PowerCycle(orch.machine) /\ NoFault
        /\ orch' = [orch EXCEPT !.pc = "claim_pxe"]
     \/ /\ PowerCycle(orch.machine) \/ UNCHANGED hostVars
        /\ orch' = [orch EXCEPT !.pc = "fail_job"]
        /\ Fault
  /\ UNCHANGED <<jobs, bindings, historyVars>> /\ UNCHANGED orchUnchanged

OrchFailJob ==
  /\ orch.pc = "fail_job"
  /\ TryFail(orch.job)
  /\ orch' = [orch EXCEPT !.pc = "install", !.job = 0, !.machine = Nil]
  /\ UNCHANGED <<bindings, hostVars, historyVars, faults>> /\ UNCHANGED orchUnchanged

OrchClaim ==
  /\ orch.pc \in {"claim_live", "claim_pxe"}
  /\ TryClaim(orch.job)
  /\ orch' = [orch EXCEPT !.pc = IF @ = "claim_live" THEN "stage_live" ELSE "stage_pxe"]
  /\ UNCHANGED <<bindings, hostVars, historyVars, faults>> /\ UNCHANGED orchUnchanged

OrchStage ==
  /\ orch.pc \in {"stage_live", "stage_pxe"}
  /\ TryUpdateStage(orch.job, IF orch.pc = "stage_live" THEN "waiting_agent" ELSE "pxe_booting")
  /\ orch' = [orch EXCEPT !.pc = "install", !.job = 0, !.machine = Nil]
  /\ UNCHANGED <<bindings, hostVars, historyVars, faults>> /\ UNCHANGED orchUnchanged

(* handleSucceededJobs: the second scan of the tick.                       *)
OrchScanSucceeded ==
  /\ orch.pc = "install" /\ orch.rows = {}
  /\ orch' = IF HasIPMI THEN [OrchIdle EXCEPT !.pc = "finish", !.rows = FinalRows] ELSE OrchIdle
  /\ UNCHANGED <<jobs, bindings, hostVars, historyVars, faults>> /\ UNCHANGED orchUnchanged

(* finalizeMachine: GetWithPassword and FinalizeBootDisk; on an error a    *)
(* later tick tries again.                                                 *)
OrchDiskDevice ==
  /\ orch.pc = "finish"
  /\ \E r \in orch.rows :
       \/ /\ SetBootDevice(r.machine, "disk") /\ NoFault
          /\ orch' = [orch EXCEPT !.pc = "finish_cycle", !.machine = r.machine, !.job = r.job]
       \/ /\ SetBootDevice(r.machine, "disk") \/ UNCHANGED hostVars
          /\ orch' = [orch EXCEPT !.rows = @ \ {r}]
          /\ Fault
  /\ UNCHANGED <<jobs, bindings, historyVars>> /\ UNCHANGED orchUnchanged

OrchDiskCycle ==
  /\ orch.pc = "finish_cycle"
  /\ \E r \in orch.rows :
       /\ r.job = orch.job
       /\ \/ /\ PowerCycle(orch.machine) /\ NoFault
             /\ finals' = [finals EXCEPT ![orch.job] = @ + 1]
             /\ orch' = [orch EXCEPT !.pc = "clear", !.rows = @ \ {r}]
          \/ /\ \/ PowerCycle(orch.machine) /\ finals' = [finals EXCEPT ![orch.job] = @ + 1]
                \/ UNCHANGED <<hostVars, finals>>
             /\ orch' = [orch EXCEPT !.pc = "finish", !.rows = @ \ {r}, !.job = 0, !.machine = Nil]
             /\ Fault
  /\ UNCHANGED <<jobs, bindings, jobRev>> /\ UNCHANGED orchUnchanged

OrchClearTouches ==        \* wrong on purpose: stamps the row, keeps the request
  /\ orch.pc = "clear"
  /\ bindings' = [bindings EXCEPT ![orch.machine].updated =
                    IF bindings[orch.machine].desired = "install" THEN now ELSE @]
  /\ orch' = [orch EXCEPT !.pc = "finish", !.job = 0, !.machine = Nil]
  /\ UNCHANGED <<jobs, hostVars, historyVars, faults>> /\ UNCHANGED orchUnchanged

(* bindings.Store.ClearDesiredState: no matter which revision it is.  The  *)
(* stamp of a binding that asks for nothing is read by nobody.             *)
OrchClear ==
  /\ orch.pc = "clear"
  /\ bindings' = [bindings EXCEPT ![orch.machine] =
                    IF @.desired = "install" THEN [@ EXCEPT !.desired = "none", !.updated = now]
                                             ELSE @]
  /\ orch' = [orch EXCEPT !.pc = "finish", !.job = 0, !.machine = Nil]
  /\ UNCHANGED <<jobs, hostVars, historyVars, faults>> /\ UNCHANGED orchUnchanged

OrchTickEnds ==
  /\ orch.pc = "finish" /\ orch.rows = {}
  /\ orch' = OrchIdle
  /\ UNCHANGED <<jobs, bindings, hostVars, historyVars, faults>> /\ UNCHANGED orchUnchanged

OrchStep ==
  \/ OrchScan \/ OrchCreate \/ OrchSkip \/ OrchLiveCheck \/ OrchBootDevice \/ OrchCycle
  \/ OrchFailJob \/ OrchClaim \/ OrchStage \/ OrchScanSucceeded \/ OrchDiskDevice
  \/ OrchDiskCycle \/ OrchClear \/ OrchTickEnds

(* The controller process dies and comes back: the tables survive, what    *)
(* its goroutines knew does not.                                           *)
Crash ==
  /\ crashes < MaxCrashes /\ crashes' = crashes + 1
  /\ orch' = OrchIdle
  /\ deleting' = [image |-> Nil, step |-> "idle"]
  /\ UNCHANGED <<dbVars, now, hostVars, historyVars, puts, faults, resets>>

-----------------------------------------------------------------------------
(* The agent of machine m and the endpoints it calls.  A POST may be lost  *)
(* before the controller saw it, or its answer after; the agent cannot     *)
(* tell the two apart.                                                     *)

Goto(m, pc) == agent' = [agent EXCEPT ![m].pc = pc]
BackToPoll(m) == agent' = [agent EXCEPT ![m] = AgentAt("poll")]

agentUnchanged == <<now, bindings, lastPut, catalog, deleting, orch, power, nextBoot,
                    historyVars, puts, crashes, resets>>

UpsertReport(m) ==
  /\ seen' = [seen EXCEPT ![m] = now] /\ reported' = [reported EXCEPT ![m] = TRUE]

(* postReportLoop until the report is in, then the install loop starts.    *)
AgentReport(m) ==
  /\ agent[m].pc = "report"
  /\ UpsertReport(m)
  /\ BackToPoll(m)
  /\ UNCHANGED <<jobs, disk, faults>> /\ UNCHANGED agentUnchanged

StoreHeartbeat(m) == seen' = [seen EXCEPT ![m] = now] /\ UNCHANGED reported

(* heartbeatLoop runs beside the install loop.                             *)
Heartbeat(m) ==
  /\ agent[m].pc \notin {"off", "report"}
  /\ StoreHeartbeat(m)
  /\ UNCHANGED <<jobs, disk, agent, faults>> /\ UNCHANGED agentUnchanged

AgentPollPending(m) ==     \* wrong on purpose: forgets a job it claimed before
  /\ agent[m].pc = "poll"
  /\ \E j \in Store!Current(m) :
       /\ jobs[j].status = "pending"
       /\ agent' = [agent EXCEPT ![m] = [AgentAt("claim") EXCEPT !.job = j]]
  /\ UNCHANGED <<jobs, seen, reported, disk, faults>> /\ UNCHANGED agentUnchanged

(* GET jobs/current.  A job that already runs is taken for one this        *)
(* machine claimed before it restarted.                                    *)
AgentPoll(m) ==
  /\ agent[m].pc = "poll"
  /\ \E j \in Store!Current(m) :
       agent' = [agent EXCEPT ![m] =
                   [AgentAt(IF jobs[j].status = "pending" THEN "claim" ELSE "spec") EXCEPT !.job = j]]
  /\ UNCHANGED <<jobs, seen, reported, disk, faults>> /\ UNCHANGED agentUnchanged

AgentClaim(m) ==
  /\ agent[m].pc = "claim"
  /\ \/ Store!Claim(agent[m].job) /\ Goto(m, "spec") /\ NoFault
     \/ jobs[agent[m].job].status # "pending" /\ UNCHANGED jobs /\ BackToPoll(m) /\ NoFault
     \/ Fault /\ (UNCHANGED jobs \/ Store!Claim(agent[m].job)) /\ BackToPoll(m)
  /\ UNCHANGED <<seen, reported, disk>> /\ UNCHANGED agentUnchanged

(* GET jobs/{id}/spec: the job row, the binding and the image must exist;  *)
(* the image is the job's, the rest of the spec the binding's.             *)
SpecAvailable(m, j) ==
  Store!Exists(j) /\ bindings[m].desired # "absent" /\ jobs[j].image \in catalog

AgentSpec(m) ==
  LET j == agent[m].job IN
  /\ agent[m].pc = "spec"
  /\ \/ /\ SpecAvailable(m, j) /\ NoFault
        /\ agent' = [agent EXCEPT ![m] = [pc |-> "stage", job |-> j, image |-> jobs[j].image, idx |-> 1]]
     \/ ~SpecAvailable(m, j) /\ Goto(m, "fail") /\ NoFault
     \/ Fault /\ Goto(m, "fail")
  /\ UNCHANGED <<jobs, seen, reported, disk>> /\ UNCHANGED agentUnchanged

(* installer.Run announces a stage before it does its work, and gives up   *)
(* when the controller refuses: the job is no longer running.              *)
AgentPostStage(m) ==
  LET j == agent[m].job IN
  /\ agent[m].pc = "stage"
  /\ \/ /\ Store!UpdateStage(j, InstallStages[agent[m].idx]) /\ NoFault
        /\ Goto(m, "work")
        /\ disk' = IF agent[m].idx >= WipeAt THEN [disk EXCEPT ![m] = Nil] ELSE disk
     \/ jobs[j].status # "running" /\ UNCHANGED <<jobs, disk>> /\ Goto(m, "fail") /\ NoFault
     \/ /\ Fault /\ Goto(m, "fail") /\ UNCHANGED disk
        /\ UNCHANGED jobs \/ Store!UpdateStage(j, InstallStages[agent[m].idx])
  /\ UNCHANGED <<seen, reported>> /\ UNCHANGED agentUnchanged

(* The work of a stage.  The disk holds a complete system again when the   *)
(* last one is through.                                                    *)
AgentWork(m) ==
  /\ agent[m].pc = "work"
  /\ \/ /\ agent[m].idx < Len(InstallStages) /\ NoFault
        /\ agent' = [agent EXCEPT ![m].pc = "stage", ![m].idx = @ + 1]
        /\ UNCHANGED disk
     \/ /\ agent[m].idx = Len(InstallStages) /\ NoFault
        /\ Goto(m, "succeed")
        /\ disk' = [disk EXCEPT ![m] = agent[m].image]
     \/ Fault /\ Goto(m, "fail") /\ UNCHANGED disk
  /\ UNCHANGED <<jobs, seen, reported>> /\ UNCHANGED agentUnchanged

(* An error of the Succeed POST is an error of the install: Run's deferred *)
(* handler reports it like any other.                                      *)
AgentSucceed(m) ==
  LET j == agent[m].job IN
  /\ agent[m].pc = "succeed"
  /\ \/ Store!Succeed(j) /\ BackToPoll(m) /\ NoFault
     \/ jobs[j].status # "running" /\ UNCHANGED jobs /\ Goto(m, "fail") /\ NoFault
     \/ Fault /\ (UNCHANGED jobs \/ Store!Succeed(j)) /\ Goto(m, "fail")
  /\ UNCHANGED <<seen, reported, disk>> /\ UNCHANGED agentUnchanged

(* The error of the Fail POST is ignored.                                  *)
AgentFail(m) ==
  /\ agent[m].pc = "fail"
  /\ BackToPoll(m)
  /\ \/ TryFail(agent[m].job) /\ NoFault
     \/ UNCHANGED jobs /\ Fault
  /\ UNCHANGED <<seen, reported, disk>> /\ UNCHANGED agentUnchanged

InstallStep(m) ==
  \/ AgentReport(m) \/ AgentPoll(m) \/ AgentClaim(m) \/ AgentSpec(m) \/ AgentPostStage(m)
  \/ AgentWork(m) \/ AgentSucceed(m) \/ AgentFail(m)

-----------------------------------------------------------------------------
(* Machines boot what the one-shot device or their own boot order says:    *)
(* network boot leads into the live system and starts an agent.            *)
Boot(m) ==
  /\ power[m] = "reboot"
  /\ \/ /\ nextBoot[m] \in {"pxe", "any"}
        /\ power' = [power EXCEPT ![m] = "live"]
        /\ agent' = [agent EXCEPT ![m] = AgentAt("report")]
     \/ /\ nextBoot[m] \in {"disk", "any"}
        /\ power' = [power EXCEPT ![m] = "os"]
        /\ UNCHANGED agent
  /\ nextBoot' = [nextBoot EXCEPT ![m] = "any"]
  /\ UNCHANGED <<dbVars, now, disk, deleting, orch, historyVars, boundVars>>

(* A power failure, a kernel panic, an operator at the machine.            *)
Reset(m) ==
  /\ resets < MaxResets /\ resets' = resets + 1
  /\ power[m] # "reboot"
  /\ power' = [power EXCEPT ![m] = "reboot"]
  /\ agent' = [agent EXCEPT ![m] = AgentAt("off")]
  /\ UNCHANGED <<dbVars, now, nextBoot, disk, deleting, orch, historyVars,
                 puts, faults, crashes>>

ClockTick ==
  /\ Store!ClockTick
  /\ UNCHANGED <<lastPut, bindings, catalog, seen, reported, deleting, orch, hostVars,
                 historyVars, boundVars>>

Operator ==
  \/ \E m \in Machines, i \in Images, d \in {"none", "install"}, t \in 1 .. now :
       PutBinding(m, i, d, t)
  \/ \E m \in Machines : DeleteBinding(m)
  \/ EditJobs
  \/ \E i \in Images : DeleteImageBindings(i)
  \/ DeleteImageJobs
  \/ DeleteImageRow

Next ==
  \/ Operator
  \/ OrchStep
  \/ Crash
  \/ \E m \in Machines : InstallStep(m) \/ Heartbeat(m) \/ Boot(m) \/ Reset(m)
  \/ ClockTick

Spec == Init /\ [][Next]_vars

(* Scheduling that justifies progress: the orchestrator's ticker keeps     *)
(* firing, a live agent keeps polling and working, a rebooting machine     *)
(* comes up.  Operators, faults and the clock owe nothing.                 *)
Fairness ==
  /\ WF_vars(OrchStep)
  /\ \A m \in Machines : WF_vars(InstallStep(m)) /\ WF_vars(Boot(m))

FairSpec == Spec /\ Fairness

-----------------------------------------------------------------------------
(* Safety.                                                                 *)

(* A machine the orchestrator is about to power-cycle into its disk has no *)
(* job in flight that the power cycle would kill, and its disk holds the   *)
(* complete system the finished job put there (handleSucceededJobs, from   *)
(* the scan to the IPMI call, against agents, operators, restarts and a    *)
(* clock of whole seconds).                                                *)
FinalizeBootsInstalledDisk ==
  orch.pc \in {"finish", "finish_cycle"} =>
    \A r \in orch.rows : ~Store!Busy(r.machine) /\ disk[r.machine] = r.image

(* One write of the binding never has two attempts on record: the scan's   *)
(* comparisons of seconds, made on a snapshot, keep a finished attempt     *)
(* from being repeated ("no auto-retry"), even across a restart.           *)
OneJobPerRevision ==
  \A j, k \in JobIds :
    /\ Store!Exists(j) /\ Store!Exists(k)
    /\ jobs[j].machine = jobs[k].machine /\ jobRev[j] = jobRev[k]
    => j = k

(* A machine is not sent into a loop of power cycles: every repetition for *)
(* the same job is paid for by a controller restart between FinalizeBootDisk *)
(* and ClearDesiredState, by a lost answer of the BMC, or by a later write *)
(* of the binding.                                                         *)
FinalizationsAccounted ==
  \A j \in JobIds : finals[j] > 0 => finals[j] + jobRev[j] <= 1 + crashes + faults + puts

(* No binding and no job refers to an image that is gone, although the     *)
(* delete handler cascades in three separate statements while operators    *)
(* and the orchestrator make new references.                               *)
NoDanglingImage ==
  \A i \in Images : Referenced(i) => i \in catalog

(* What all parties together do to the jobs table is what JobStore allows; *)
(* what is proved of JobStore holds of the jobs of a running system.       *)
StoreImplemented == Store!Spec

-----------------------------------------------------------------------------
(* Liveness.                                                               *)

(* A job has ended that handleInstallRequests takes for the outcome of the *)
(* binding's last write ("no auto-retry"): one it started for that write,  *)
(* or one of an earlier write that ended only after it.                    *)
Ended(m, how) == \E j \in JobIds : jobs[j].status \in how /\ Blocks(j, m)

(* A request is settled when it was fulfilled or withdrawn, or when its    *)
(* job ended otherwise.                                                    *)
Settled(m) ==
  \/ bindings[m].desired # "install"
  \/ Ended(m, {"failed", "cancelled"})
  \/ \E j \in JobIds : jobRev[j] = bindings[m].rev /\ jobs[j].status = "deleted"

(* MaxJobs: without deletions one id per write is enough.                  *)
OutOfIds ==
  /\ \A j \in JobIds : jobs[j].status # "unissued"
  /\ \E j \in JobIds : jobs[j].status = "deleted"

(* A job left running while its machine runs the system on its disk: no    *)
(* agent will take it up and no timeout ends it.  It was claimed for a     *)
(* live system that was gone already (machineInLive), or the live system   *)
(* it ran in was reset.                                                    *)
Stranded(m) ==
  /\ power[m] = "os"
  /\ \E j \in JobIds : jobs[j].machine = m /\ jobs[j].status = "running" /\ orch.job # j

(* Every request is fulfilled, withdrawn or refused, or its job stranded:  *)
(* beyond that one case the orchestrator, the BMC and the agent never all  *)
(* wait for one another (Tick, startJobForBinding, handleSucceededJobs,    *)
(* handleJob).                                                             *)
RequestSettles ==
  \A m \in Machines : bindings[m].desired = "install" ~> Settled(m) \/ Stranded(m) \/ OutOfIds

(* A machine that stays up in the live system gets its request served      *)
(* without IPMI and across controller restarts and lost messages: its      *)
(* agent takes up a job whether or not it remembers having claimed it      *)
(* (handleJob, the orchestrator's "leaving pending" path).                 *)
ServedByAgent ==
  \A m \in Machines :
    bindings[m].desired = "install" /\ power[m] = "live"
      ~> power[m] # "live" \/ Settled(m) \/ Ended(m, {"succeeded"}) \/ OutOfIds

-----------------------------------------------------------------------------
(* What comments of the code say and the code does not keep.               *)

(* orchestrator.go: a job for a machine found "ALREADY running the live    *)
(* system" is left to it, for "the on-machine agent polls                  *)
(* /agent/jobs/current every 10s and will pick this job up directly".       *)
WaitsForAgent(j) == jobs[j].status = "running" /\ jobs[j].stage = "waiting_agent"
LiveJobPickedUp ==
  \A j \in JobIds :
    WaitsForAgent(j) ~> ~WaitsForAgent(j) \/ \E m \in Machines : agent[m].job = j

(* orchestrator.go: finished_at >= updated_at keeps "stale succeeded jobs  *)
(* from a previous binding revision" from being finalized.                 *)
NoStaleFinalize ==
  [][orch.pc = "install" /\ orch'.pc = "finish" =>
       \A r \in orch'.rows : r.rev = bindings[r.machine].rev]_vars
=============================================================================
