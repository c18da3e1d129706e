# metalkit: formal models

metalkit is a bare-metal provisioning controller: one Go process with an SQLite
database, a DHCP/TFTP/iPXE/HTTP front, and an orchestrator that turns "this
machine should run that image" into PXE boots over IPMI. A live system booted by
the machine runs an agent, which reports hardware and executes install jobs.

This directory holds TLA+ models of the parts where interleaving, restarts, lost
calls and stale reads decide whether an install ends well; TLC configurations
that check them on small instances; and TLAPS proofs of what holds for instances
of any size. The file `PROJECT.json` maps every definition to the source lines it
stands for and lists components, runs, mutants, findings, hazards and theorems.

    tlc -config MCFaults.cfg MCInstallPipeline.tla      # one run
    tlapm JobStore_proofs.tla                           # the proofs of a module

## 1. Inventory

| Component (source) | State it keeps | Operations | What makes it correct |
|---|---|---|---|
| Jobs table (`internal/jobs/store.go`, `schema.go`) | `jobs` rows: status, stage, created/started/finished; `job_logs` | Create, Claim, UpdateStage, Succeed, Fail, Cancel, Delete, DeleteAllTerminal, DeleteByImage/Profile, cascade from machines | one job in flight per machine; outcomes are final; finished_at exactly on terminal rows |
| Orchestrator (`internal/jobs/orchestrator.go`) | the rows of its current scan, nothing durable | tick: handleInstallRequests, startJobForBinding, machineInLive, handleSucceededJobs, finalizeMachine | one attempt per operator write; a power cycle never kills an install and never boots a half-written disk; requests settle |
| Agent API, jobs API (`agent_api.go`, `api.go`, `installspec.go`) | none | current, claim, spec, stage, logs, succeed, fail; cancel, delete, purge | late or repeated POSTs change nothing |
| Bindings (`internal/bindings`) | one row per machine: image, profile, desired_state, updated_at, static address, overrides | Upsert, Delete, DeleteByImage/Profile, ClearDesiredState, allocateIPFromSubnet | never refers to a missing image; no address twice |
| Live agent (`cmd/agent`, `internal/agentclient`) | its current job | report, heartbeat, poll, claim, run, succeed/fail | takes up its job whatever it remembers |
| Installer stages (`internal/installer`: installer, release, zap, qemuwrite, esp, grow, mount, grub) | the disk, its EFI partition, NVRAM, mounts, kernels and boot menu of the new system | release, wipe, write, re-read, EFI partition, grow, mount, seed, loader, prune, unmount; deferred cleanup and Fail | a success boots; a failed attempt does not spoil the next; nothing of another disk is harmed |
| Installer seed (`internal/installer/seed.go`) | files of the new root file system | user-data, network-config, five renderers, direct writes without cloud-init, SELinux labels | the address ends up on the port the profile means, tagged as asked; a login works |
| IPMI (`internal/ipmi`), machines | boot device, power | SetBootDevice, PowerCycle, composites | - |
| Inventory (`internal/inventory`) | machines (last_seen, latest_report, status), reports, heartbeats | UpsertReport, Heartbeat, Delete, RunOfflineMarker | an online machine is not marked offline; delete does not orphan an install |
| Images (`internal/images`) | `images`, `upload_sessions`, chunk files, image files | CreateUpload, WriteChunk, FinalizeUpload, AbortUpload, GCStaleUploads, DeleteImage | a catalog row names a file whose hash is the row's; one finalize at a time |
| Leases and DHCP (`internal/leases`, `internal/dhcp`) | `leases`, pool configuration | Allocate, Confirm, Release, GC; OFFER/ACK/NAK/DECLINE; Reload | no address acknowledged to two clients |
| Static addresses (`bindings/store.go`) | the address column | allocateIPFromSubnet, reservedIPs | disjoint from leases and reservations |
| SSH keys, subnets, profiles | catalog rows | create, update, delete with reference checks | no dangling reference; an update keeps the columns it leaves out |
| Sessions, login throttle | `sessions`, failure counters | Create, Touch, Delete, sweep | an ended session does not come back |
| BMC credentials (`internal/bmc`) | encrypted credentials, placeholder machines | POST, PUT, DELETE, reconciliation by a report or an operator | no credential lost in a move; a machine never gets the BMC of another |
| Settings and hot reload (`internal/settings`, `cmd/controller/main.go`) | settings rows, the running DHCP pools | putDHCP, reload | the pools in use are those last saved |
| Job log (`cmd/agent/reporter_handler.go`, `job_logs`, `views/JobDetailView.vue`) | a queue and five workers on the agent; the table; cursor and timers of the page | Handle, worker, flush; AppendLog, Logs; loadJob, fetchLogs, schedule, refreshAll, route change | flush leaves nothing behind; no line twice in the table; the page overlooks no line of a running job |
| Monitoring, audit, HTTP, TFTP, iPXE, TLS, UI, config, crypto, collection | append-only samples, none | - | - |

How they interact. Everything durable is in one SQLite database (WAL), so
one statement or transaction is one atomic step and a long scan reads a snapshot;
nothing is locked between two statements. The orchestrator is one goroutine: it
scans, works off the rows one by one with IPMI calls of seconds in between,
then scans for finished jobs. HTTP handlers run concurrently with it and
with each other. The agent knows the controller only through HTTP: it polls, and
any answer may be lost. A machine obeys whoever last set its boot device.

DHCP packets are served by a goroutine each, next to operators who edit settings
and subnets (two reload paths with no lock in common) and to bindings that draw static addresses
from the same networks. An upload's chunks come in concurrent requests, and its
session row, chunk files, catalog row and image file change in separate steps.
Lines of the installer reach `job_logs` through a queue and concurrent POSTs of the
agent; the browser polls them with requests whose answers overlap.

Hard behaviours: the gap between a scan and the writes based on it; revisions of
a binding are told apart only by `updated_at`, whole seconds read before the write
lock is obtained; two claimers of one job (agent and orchestrator); a
controller restart between a row and the IPMI command it calls for; an agent that
cannot tell a refused POST from one whose answer was lost; deletes that cascade
in several statements; files shared by concurrent requests; addresses that are
re-used while a late packet still confirms them; an installer whose fifty-odd
commands may fail, most of them without ending the run.

## 2. Modules

| Module | Models | Composed of, implements |
|---|---|---|
| `MachineMutex` | abstract: what `idx_jobs_one_inflight_per_machine` promises | - |
| `JobStore` | every statement on the jobs table, any caller at any time | implements `MachineMutex` |
| `InstallPipeline` | operators, orchestrator, BMC, machines, agents and endpoints around one jobs table | implements `JobStore` |
| `ImageUploads` | upload sessions, chunks, assembly, filing, abort, deletion, restart | - |
| `Leases` | the DHCP server in full mode, the lease table, the clients; the pools change in any way | - |
| `AddressPlan` | settings, subnet catalog, both reload paths, restarts, static addresses | extends and implements `Leases` |
| `Bootloader` | what grub.go does to kernels, initrds and the boot menu (operators only) | - |
| `DiskInstall` | the stages of an install and the next attempt, with failing commands | extends `Bootloader` |
| `NetworkSeed` | the files buildSeedCommon writes, one by one | - |
| `InstallerRun` | the whole run | `DiskInstall` with an instance of `NetworkSeed` as its seed stage |
| `Registry` | machines, credentials, profiles, subnets, keys and bindings under concurrent requests | - |
| `JobLog` | abstract: the table job_logs and what may happen to the lines of a job | - |
| `LogSink` | the agent's log handler, its goroutines and its POSTs | implements `JobLog` |
| `LogView` | the page that follows a job's log | extends `JobLog` |
| `JobTrace` | an install's lines from the agent to the page | `LogSink` with an instance of `LogView` |

`JobStore_proofs`, `InstallPipeline_proofs`, `PipelineSafety_proofs`,
`ImageUploads_proofs`, `AddressPlan_proofs`, `InstallerRun_proofs`, `Registry_proofs` and
`LogSink_proofs` hold the theorems; `MCJobStore`, `MCInstallPipeline`, `MCImageUploads`, `MCAddressPlan`,
`MCInstallerRun`, `MCRegistry` and `MCJobTrace` the instances for TLC.

### JobStore

`jobs` is a function from ids to rows; ids are numbered in order of creation and
never reissued (the code draws 128 random bits). Two statuses the table does not
have stand for "no row": `unissued`, `deleted`. A guard of an action is the WHERE
clause or the constraint the statement runs into; where the code returns an error
(ErrInFlight, ErrConflict, ErrNotFound) the action is not enabled, and the caller's
module says what the caller does then. `now` is the clock in whole seconds. Stamps
are read before the statement runs, and the statement may wait for the write
lock, so `Create` takes any stamp `1 .. now` (the caller narrows it) and
`Terminate` any from the row's creation to now. The wall clock is assumed not to step
backwards.

### InstallPipeline

| In the model | In the code |
|---|---|
| `orch.pc`, `orch.rows`, `orch.machine`, `orch.job` | the point the tick goroutine has reached and the result set it walks |
| `OrchScan` ... `OrchStage` | handleInstallRequests and startJobForBinding, one action per statement or IPMI command |
| `OrchScanSucceeded`, `OrchDiskDevice`, `OrchDiskCycle`, `OrchClear`, `OrchTickEnds` | handleSucceededJobs, finalizeMachine, ClearDesiredState |
| `agent[m].pc` | the main goroutine of the agent: postReportLoop, installLoop, handleJob, installer.Run |
| `AgentPoll` ... `AgentFail` | one HTTP request or one installer stage, with the endpoint's effect |
| `Heartbeat` | heartbeatLoop, in parallel |
| `PutBinding`, `DeleteBinding`, `EditJobs` | requests of the UI |
| `DeleteImageBindings`, `DeleteImageJobs`, `DeleteImageRow` | the three statements of DELETE /images/{id} |
| `Crash` | process exit and restart: tables stay, goroutines forget |
| `Boot`, `Reset` | firmware; outside the repository |
| `jobRev`, `finals`, `bindings[m].rev` | history the code does not keep: the operator's write a job came from, power cycles spent on a job, the number of the write |

`desired_state` 'install' and 'reinstall' are one value (no code tells them
apart). The disk is one value: the image whose system is complete on it, or
none. `image` stands for the (image, profile) pair. Requests that a handler
rejects before it touches the database are left out. A call that fails uses up
one of `MaxFaults`: an HTTP request lost before or after the controller saw it,
an IPMI command that errs before or after the BMC obeyed, an installer stage
that fails. SQL statements themselves do not fail.

Stamps. `PutBinding` takes any stamp from `lastPut` to `now`: Upsert holds `allocMu`
from before it reads the clock until its statement is through, so its stamp is not
older than the end of the write before it, but may be older than the moment its
row appears. The mutex matters: with stamps of any earlier second
(`PutBindingUnlocked`) two writes could carry stamps in the wrong order and the
scan would power-cycle a machine in the middle of an install. `OrchCreate` takes any
stamp since its scan.

### ImageUploads

| In the model | In the code |
|---|---|
| `sessions`, `images` | tables upload_sessions (state, uploaded_chunks as `high`) and images |
| `partial`, `chunk`, `stage`, `files` | chunk-N.partial, chunk-N, `assembled` and the catalog directory, each by what it holds |
| `handler[h]` | one HTTP request: its next statement, what its file descriptor points to, what it has read |
| `Create*`, `Chunk*`, `Finalize*`, `Abort*`, `Delete*` | CreateUpload, WriteChunk, FinalizeUpload, AbortUpload, DeleteImageFile, one action per statement or system call that others can see |
| `Crash` | restart: requests vanish, tables and files stay |

A file descriptor survives a rename or removal of its name, and two requests
for one chunk share the `.partial` file: the second truncates it under the first.
Therefore a chunk that was verified may still change before it is renamed; what saves the catalog is the
hash over the whole file. `lost` records the finalizations that a restart cut short. A client may send any chunk of the file at
any time: `uploaded_chunks` is the highest number that was recorded, not a count. `skipped` is history: the
sessions whose client once sent a chunk while an earlier one was missing. `Length[u]` is the number of chunks of
session u. Recording a chunk may fail after the rename (`ChunkBump`): the chunk is there and the mark is not.

### Leases and AddressPlan

`alloc` is the Allocate that holds `allocMu`: it picks an address in one step
and writes the row in another, and everything that takes no lock (Confirm, Release, GC, Reload)
comes between. A REQUEST is served in two halves, `RequestRead` (the pool check and
SELECT) and `RequestWrite` (the UPDATE and the ACK). `held` is what a client
believes; its answers may get lost (`heard`). `overtaken` records ACKs that did not find
their row in force, because somebody else took the address between the halves: the one
case the code leaves open, and the one exception of the properties.

`Leases` lets the pools change to any policy at any time. `AddressPlan` says where they come
from: `saved` (the dhcp.* rows of settings), `catalog` (the ranges of subnet rows),
`edit[a]` (an operator's request between the commit of its row and the swap of the pools: mode check, build,
swap, with no lock between), `Restart` with the startup merge. `static` is the column
of bindings; `choice` is the Upsert under `allocMu` between its reads and its write.
`exposed` records machines whose static address a DHCP client could claim: a
pool has contained it since it was chosen, or a client held it when it was chosen. ARP probes may
pass over any address. Numbers stand for addresses; one pool is a sequence of
addresses with exclusions.

### Installer

A run of the installer is one goroutine in a live system. Its difficulty is
not interleaving but the number of commands that may fail, in any combination, with
an effect on a later stage or on the next attempt. Each stage of `DiskInstall` is
an action over the set `bad` of its commands that fail, and follows the code in which of them
are fatal, which are retried and which are only logged. The state is what later
stages and the firmware depend on: the table and data on the disk, which partitions
the kernel shows (`seen`: those of the old disk, none, the current ones), what still
holds them (`held`), the EFI partition and the loaders on it, NVRAM, mounts and which
of them the cleanup knows of, the kernels, initrds and boot menu of the new
system. `Boots` is the firmware, GRUB and the kernel: external, read off from what the comments
of grub.go and esp.go say they require.

`NetworkSeed` writes files in the order of seed.go. A stanza of a file binds
to ports by MAC or by name, and the installed system may name a port differently from the live one
(`name`, `renamed`). A file has its SELinux label when it was labelled
after it was written. `InstallerRun` lets these writes take the place of the seed stage; a fatal one aborts
the run.

Combinations the code does not manage are excluded by name in `Supported` (one in each module), and the failures
that the code only logs although the result depends on them are listed in `Blame` and `Depended`: these lists
are results. Every combination outside them is checked. The general proofs made both longer: a RHEL image behind a
RAID controller with kernels of both kinds, a loader tree on an MBR disk that none of the instance's images has,
a profile that names a MAC the machine does not have, and `auto` on a machine with only virtual
ports came up as proof obligations that no fact discharged, not as counterexamples of the instance.

### Registry

Each HTTP handler is a call in one of a few slots; `call[s].pc` is its next
statement, `call[s].seen` what it has read. A transaction is one step (sqlitedb
begins with the write lock). `lock` is `allocMu` of the bindings store, which key deletion borrows
(BindingWriteLock). `cascades` says whether bmc_credentials has its foreign key: two
schemas create the table and the first wins, so both databases exist. `expected` and
`registered` are histories of what operators and agents last asked for;
`overlapped`, `mistyped` and `refused` record the excuses of the properties.

### Job log

| In the model | In the code |
|---|---|
| `rows` (JobLog), `stored` (LogSink) | job_logs by id; the id is AUTOINCREMENT, so it is never used again |
| `queue`, `posting`, `returned` | the channel, the line each goroutine has in a POST, the workers that wg no longer counts |
| `pc` | handleJob: installer.Run, its outcome, flush's loop, wg.Wait |
| `HandleLine`, `LogDirect` | a line through slog, and one the installer reports itself and waits for |
| `inflight`, `LateArrival` | a request whose client gave up after reporterLogTimeout; the controller may still serve it |
| `PowerCycled`, `Cancelled`, `Deleted` | the orchestrator's power cycle or a reset; requests of the UI, image deletion included |
| `chain[c]` (LogView) | one call of refreshAll with the timers and rounds that follow from it |
| `load`, `fetch` | what loadJob and fetchLogs of a round wait for; `opening` is the round that refreshAll itself starts |
| `job` | job.value, which a change of route does not reset |
| `visit`, `misled` | history the page does not keep: which visit a request was made on; an answer to an earlier visit changed this one |
| `written`, `others` (JobTrace) | the job that wrote each row of job_logs; the status of the other jobs |

A browser runs a handler to its next await, so each answer is one action. Answers may
come in any order and at any time; the table changes between them. The page asks for 200 lines at a
time (`Limit`). A chain is needed for each refresh or move, because clearTimeout
reaches only the timer that was set last, and no round that is under way. `JobTrace` lets the page read
the table that the agent, late POSTs and operators change, and in which another job, whose page the operator may
come from, has lines of its own and ends.

## 3. Runs

| Run | Question | Instance |
|---|---|---|
| `jobstore` | Does any interleaving of statements keep `OneInFlight`, `FinishedStamps`, `OutcomeIsFinal`, and implement `MachineMutex`? | 2 machines, 2 images, 3 ids, 2 s |
| `faults` | Two images, late stamps, a restart and a failed call at any point: is every machine that gets power-cycled to disk idle and completely installed (`FinalizeBootsInstalledDisk`)? No loop of power cycles (`FinalizationsAccounted`)? | 1 machine, 2 images, 3 writes, 2 ids, 2 s, 1 restart, 1 failed call |
| `pull_mode` | No IPMI, while operators write again, cancel, delete and purge jobs and delete bindings and images: do references resolve (`NoDanglingImage`), is no attempt repeated (`OneJobPerRevision`), and is a machine that stays in the live system served (`ServedByAgent`)? | 1 machine, 1 image, 2 writes, 2 ids, 1 stage, 1 restart, 1 lost call; safety and liveness |
| `progress` | With IPMI: does each request settle unless its job is stranded (`RequestSettles`), and does the pipeline implement `JobStore` (`StoreImplemented`)? | 1 machine, 1 image, 2 writes, 2 ids, 2 stages, 2 failed calls, 1 reset; liveness and refinement |
| `uploads` | Does every catalog row name a file with the bytes it promises (`CatalogIntact`), does one request assemble a session (`OneFinalizer`), can an upload resume where it says (`ResumePoint`), does every early return of a finalization give its claim back (`ClaimsHaveOwners`)? | two sessions of one file name with 1 chunk each, or one session with 2 chunks in any order; 2 contents, 2 requests at a time, 1 restart |
| `addresses` | Do clients have addresses of their own (`OneClientPerAddress`) and on record (`AckOnRecord`), apart from static ones (`StaticNotLeased`), from the pools that were saved (`LiveFollowsSaved`)? | 2 clients, 3 addresses on 2 segments, 3 subnet rows, 1 static machine, 3 edits or restarts, 2 s |
| `installer` | After a reported success, does the machine boot, is the network as meant, does a login work, is NVRAM clean? After a failure, can the next run succeed? | 5 machines with 8 images, 2 failing commands, 2 runs; a few hundred network plans on one machine, 2 failing writes |
| `registry` | Under concurrent requests, do references resolve, are choices, registrations and stubs kept, does no machine get the BMC of another? | 2 machines, 2 BMCs, 3 calls at a time, 5 in all, out of 5 mixes of requests |
| `job_trace` | Does Flush end (`FlushReturns`)? Is each line then stored, given up or on its way, and none stored twice (`LinesAccounted`)? Does the table only see what `JobLog` allows? Does each line stored for a running job come to its page (`LinesAppear`)? | 1 worker and the flusher, a queue of 1, 2 lines; another job that may write 1 line and end; answers of 1 line, 2 chains, 1 refresh, move or failed request; liveness and refinement |
| `stale_finalize`, `stale_live`, `credential_cascade` | What comments say and the code does not keep; see section 5 | violation expected |

Every property of a passing run has a mutant (an operator marked "wrong on
purpose" in the module): the definition of the code is replaced by a version
with a plausible bug, and the run must then fail.

### Bounds, and why they suffice

*Jobs and pipeline.* *Two seconds* give the three orders of any two stamps
(before, equal, after) and with the lag of stamps every comparison the scans
make. *Two ids per run* let one attempt succeed another on a machine; jobs interact
only through the one-in-flight index and the scans,
which compare a job with its binding, not with other jobs. The third id of `jobstore`
lets one machine reuse the index while the other is busy. *Two writes* are the
shortest history with an earlier revision, and with a request that meets what an earlier install left behind (a machine that passes
for live, a job still running); three (`faults`) are needed to see
stamps out of order: the first is installed, the second makes the scan ask for a new
job, and a third with an older stamp would make the first job its answer again. *Faults, crashes, resets*: one
each at every point, and two lost calls in `progress`, where a lost answer to Claim and a lost Fail meet. No run has all three
kinds at once: `faults` and `pull_mode` cross a restart with a lost call, `progress` crosses lost calls with a reset.
*Two stages* of ten: the first wipes the disk, the last completes it; the eight between repeat the first. `pull_mode`, the
largest of these because of the operators' deletions, has one stage that wipes and completes. *Two ids* may run out when
jobs are deleted, and then no job can be made: the liveness properties excuse exactly that (`OutOfIds`); without
deletions one id per write is enough. *LiveFreshness =
0* ticks makes a heartbeat fresh for the current second only. *One machine*: that rows which went stale
while another machine was served still finalize the right disk is proved for any
number of machines (`PowerCycleIsSafe`).

*Uploads.* Two requests meet in every pair of handlers; two sessions of one name
meet in the catalog directory, where the number of chunks plays no part; two chunks are needed for order: the second may be
sent, recorded or refused before, after or during the first. `Focus` takes the two cases one at a time. A third request adds no state that two do not reach: `OneFinalizer` and
`ResumePoint` are proved for any number.

*Addresses.* Two clients that compete for one free address (the third address is
behind a relay), a lease and an offer of one second, and two seconds of clock: a row can expire,
be collected and be re-used. `Focus` restricts the instance: the second client is
explored while operators have done little and the clock is short when they have done
much; the theorems have no such bound. Catalog rows: one for the local segment, two for the
same relayed segment, so that a rebuild can fail.

*Installer.* The machines differ in firmware, RAID controller, device name,
what the live system activated and what NVRAM holds. The images are those that the tests and comments
of the repository name (Debian, Ubuntu, Rocky, openEuler, CentOS 7) and three awkward ones. Two failing commands break every chain of
two fallbacks; the longer ones are the re-read of the partition table (four commands, all but one of which
fail without being chosen while something holds the disk) and three `update-grub` calls, which are in `Blame`
as a triple that two failures do not reach. Network plans: all five renderers, the selectors and bonds that
validate.go admits, ports that keep or change their names, with and without
cloud-init and SELinux. The product is not taken: network plans do not touch the disk. `MaxPorts` bounds a machine, and a
bond, to three ports: a BMC's and two real ones are the shortest list in which the first port, the first real one,
the first with a cable and the one that is meant all differ.

*Registry.* Three calls are a reader, a writer and a deletion between its
statements; five calls in all allow two calls of history first. Each mix holds
the requests that touch common rows; mixes of requests without common rows
are left out. Symmetry under permutation of slots.

*Job log.* The worker, the flusher and the installer's own POSTs meet at one queue; the theorems
hold for any number of workers, lines and places in the queue. Two lines overflow a queue of one and make every
answer of the page full. The hard cases of the page are two chains that overlap, each with two requests under way, and a move from
the page of another job whose answers are still to come. To keep the product small: refreshes and moves are explored when the
agent has flushed an install that lost no line but its outcome, so that the job still runs (`Quiet`; late POSTs and the job's end are still
to come), failures of requests at any time. The other job writes and ends before the agent's first line or in a quiet state, while its
page is shown, and that page polls in quiet states only. Once its page was disturbed a job neither ends nor is deleted:
`LinesAppear` asks nothing of a job that has ended. Nor is a page followed once it was misled.

Symmetry under permutation of machines, images, contents and slots is used in safety runs
only. Deadlock checking is on where the system never stops by itself: an agent in the live system can always send a
heartbeat, the orchestrator scan again. It is off for `uploads`,
`addresses`, `installer` and `job_trace`, whose clients, operators, runs and pages may all be
finished.

### Fairness

`InstallPipeline`: weak fairness of the orchestrator as a whole (`time.Ticker` and
`runTickSafe` recover from panics), of each agent's install loop (polls every
few seconds, retries for ever) and of `Boot` (firmware). Operators, faults, resets,
crashes, heartbeats and the clock owe nothing. After the PXE boot nothing in
the code watches a running job. A machine that runs the system on its disk while its job is 'running' leaves it so until
somebody cancels it: that is the code's design (no timeout is promised), and `RequestSettles` names the case (`Stranded`). Two ways lead
there: a reset in the middle of an install, and a job claimed for a machine that was taken for live (finding
`stale_live`). Everything else settles. `ServedByAgent` says what
holds without IPMI as long as the machine stays in the live system. `LogSink`: weak fairness of the install goroutine's report and flush, of
each worker, and of each POST, which ends at the latest when its timeout of
5 s (60 s for a line the installer reports itself) does; nothing forces a line, a late arrival or a reset. `JobTrace`
adds weak fairness of each chain of the page (`PageFairness`), for timers fire and requests are answered while the page is open.

## 4. Proofs

`JobStore_proofs` proves, for any sets of machines, images and stages and any number
of ids, ticks and callers:

- `TypeCorrect`: `Spec => []TypeOK`;
- `MutualExclusion`, `StampsAreHistory`: `[]OneInFlight`, `[]FinishedStamps`;
- `OutcomesAreFinal`: the action property `OutcomeIsFinal`;
- `ImplementsMutex`: `Spec => Mutex!Spec`.

The inductive invariant is `IInv == TypeOK /\ OneInFlight /\ FinishedStamps /\
CreatedStamps`. `CreatedStamps` (the clock has started, and a job in flight was created in `1 .. now`) is
needed because `FinishedStamps` compares the stamp that ends a job with the one
that began it. The argument never looks at a statement twice: `WriteByRow` shows
that a statement keeps, drops, ends or works on each row, or makes one row; every
later lemma is a case split over these. Refinement: `HolderIsInFlight` shows that the
CHOOSE in `HolderOf` has exactly one candidate, then each row case is an
`Acquire`, a `Release` of the machines whose holder left, or a stutter.

Assumptions: `MaxJobs` and `MaxTime` are naturals, NULL is no machine.

`InstallPipeline_proofs` proves of the composed system, for any machines, images,
stages, bounds and faults:

- `PipelineTypeCorrect`: `Spec => []TypeOK`;
- `PipelineImplementsStore`: `Spec => StoreImplemented`, the pipeline refines `JobStore`;
- `OneInstallPerMachine`: `Spec => []Store!OneInFlight`, from `MutualExclusion` by the
  refinement: `JobStore_proofs` is instantiated with the stages of the pipeline.

Its invariant is `TInv`: `TypeOK` plus what the goroutines carry across steps. The
orchestrator and an agent about to use a job id hold one that exists as an id
(`OrchOK`, `AgentsOK`), rows of a result set name machines and images, and every
existing job and every binding names a machine and an image (`JobsBound`,
`BindingsOK`). Types alone are not inductive: an orchestrator in "claim" with job 0
would write outside the table.

`PipelineSafety_proofs` proves the properties that matter most:

- `ReferencesAreKept`: `Spec => []NoDanglingImage`;
- `OneAttemptPerWrite`: `Spec => []OneJobPerRevision`;
- `PowerCycleIsSafe`: `Spec => []FinalizeBootsInstalledDisk`;
- `RepetitionsArePaid`: `Spec => []FinalizationsAccounted`.

The first part of the module says what one step of anybody can do to a job row, a binding, the
orchestrator's rows, an agent with its disk ("moves"); the invariants
are proved from the moves. For `OneAttemptPerWrite` the invariant `RevInv`
adds: the job of a request's current revision was created at or after
the request's stamp (so the scan's comparison sees it), and a row of a scan names a
revision no job on record came from, on a machine of its own. For `PowerCycleIsSafe` the
idea is `Superseded(j)`: a succeeded job ended before the last write and before the
request at hand, hence before every later request as well. `DiskInv` says that a live job,
an agent at work on the disk and a row about to become a job each imply that every
earlier success on the machine is superseded; that a success not superseded still has its
image on the disk; and that rows being finalized are of idle machines.
A scan for finished jobs selects only what is not superseded, which gives the
property. This is where `allocMu` and the order of the scan's comparisons are needed.
For `RepetitionsArePaid` the invariant `AccInv` counts ahead: a row that a scan found
still has room for one more power cycle (`RowsRoom`), as has any finished job that a scan could find
next, unless its request is just being cleared (`NextRoom`); a job whose row is gone
keeps what it has spent (`FinalsSpent`). Every step that makes a job findable again
(`Paid`: a restart, a fault, a write of the binding) adds one to the right-hand side.
Each part of `RevInv` and `DiskInv` was also checked with TLC, on the instance of
`faults` and on one with all of the operators' requests, before it was proved.

Assumptions: those above, `Nil` is no image, and `InstallStages` is a sequence with
`WipeAt` an index of it.

`ImageUploads_proofs`, for any sessions, chunks, requests and restarts:

- `UploadTypeCorrect`: `[]TypeOK`; uploaded_chunks never exceeds the chunks there are;
- `FinalizersExclude`: `[]OneFinalizer`, by `OneInv`: every request between claim and
  release has a session in state 'finalizing', or one that is filed or aborted for good (`Claimed`); the conditional
  UPDATE of a second claim finds neither;
- `UploadsResume`: `[]ResumePoint`, by `ResumeInv`: the chunk whose mark a request is about to write
  is already in place, and so is every earlier one, unless the session is in `skipped` (`Mark`). Chunks are removed only after the session's row has gone.
  The code takes chunks in any order, so the statement has two parts: the chunk at the mark is always there, and the chunks
  below it are unless the client skipped one.
- `ClaimsAreReleased`: `[]ClaimsHaveOwners`, by following each request from claim to release;
- `CatalogStaysIntact`: `[]CatalogIntact`, under the hypothesis `~ConcurrentDeletes`, by `CatInv`: the file name of a row is
  the plain name or carries the row's own hash, so no two rows share one (`RowsNamed`, `RowsApart`); a
  request that is about to rename its file has just made the row (`Moving`), one that is about to unlink finds
  the name in no row (`Unlinking`). The hypothesis is the run's own: with a deletion between a finalize's
  statements the property fails (section 5), so the theorem could not be stated without it.

The first part of `AddressPlan_proofs`, about `Leases`, for any clients, pools, segments and reloads:

- `LeaseTypeCorrect`, `AcksAreKept` (`[]AckOnRecord`), `NoAddressConflict`
  (`[]OneClientPerAddress`). The invariant `LeaseInv` adds that no two rows
  have one address (`OneRow`), that the client Allocate is picking for has no row and nobody uses the address it picked
  (`PickerHasNoRow`, `PickUnused`), and that a client that started over while its REQUEST was served uses nothing
  (`UnheardUsesNothing`).

Its second part:

- `PlanTypeCorrect`: what a reload installs is always a complete policy, also
  when rebuilding failed half-way;
- `RefinesLeases`: `Spec => LeasesImplemented`, hence `PlanAcksAreKept` and
  `PlanNoAddressConflict`, carried over from the first part;
- `StaticsStayApart` (`[]StaticNotLeased`), by `StaticInv`: a chosen address that is not exposed
  is out of reach of the server (`Apart`): no pool serves it, no Allocate has picked it, no row names it;
- `ReloadsFollow` (`[]LiveFollowsSaved`), by `FollowInv`: an edit past its build
  carries the pools of what is saved, as long as it is the only one in progress.

`Registry_proofs`, for any machines, addresses, catalogs, requests and calls:

- `RegistryTypeCorrect`, `BindingsAlwaysResolve` (foreign keys for machine and profile; for keys, that the holder of `allocMu` has just seen
  the keys it writes), `ChoicesAreKept` (a PUT past its reads still agrees with the row unless it was deleted), `RegistrationsAreKept`,
  `PowerIsOwn` (reports name a machine's own BMC, placeholders hold their own address, and a pairing moves only the placeholder of the machine's address), `StubsAreAccounted`.

`LogSink_proofs`, for any workers, queue sizes and lines:

- `SinkTypeCorrect`, `FlushIsComplete` (`[]FlushLeavesNothing`), by `SinkInv`: each line logged is in one of
  five places (`Places`); a worker that has ended holds none; once flush has seen the queue empty it stays empty,
  because nobody logs after installer.Run. The last part needs that flush empties the queue before it waits;
- `LineStoredOnce` (`[]StoredOnce`; both together are `LinesAreAccounted`), by `OnceInv`: the places are disjoint (`Apart`) and neither queue nor table
  repeats a line; a POST that timed out leaves the hands of its goroutine for good;
- `SinkImplementsJobLog`: `Spec => JobLogImplemented`. A line that is stored was not stored before, so by the
  pigeonhole principle there is room for it below `MaxRows` (`RoomLeft`).

`InstallerRun_proofs`, for any machines, images and network plans of the stated kinds, any number of runs, any failures of
at most `MaxFaults` commands and `SeedFaults` writes:

- `RunTypeCorrect`: `[]RunTypeOK`, by `TargetInv` and `SeedTyped`;
- `NothingIsLeftMounted`: `[]NothingLeftMounted`, by `MountInv`: from the first mount to the cleanup every mount is on the
  cleanup's list (`tracked`), and there is none before and after;
- `StaleEntriesAreGone`: `[]StaleEntriesGone`, by `StaleInv` (past the prune no entry of the old system is left) with the part
  of `TargetInv` that says why the prune looks at the right disk: a UEFI machine gets past the grow stage only with an
  EFI partition of this install;
- `SuccessMeansBoot` and `CleanRunsSucceed`: `[]BootsUnlessBlamed`, `[]CleanRunSucceeds`, by `CourseInv`. `HeldInv`: what holds the
  target past the release is there because a command failed. `OnCourse`: unless a command in `Blame` failed, each stage
  hands the next what it needs (the image's table, an EFI partition with its type and files, the mounts that
  fstab asks for, a loader that survives the prune), and after the bootloader stage the machine `Boots`. `Clean`: without a failure
  nothing is given up. The lemmas below them follow a kernel through grub.go: an initrd with drivers is found or made, and the menu's
  first entry is one of those. The proofs use that at most two commands fail (`InstallBounds`), as the run does: with a third,
  the three `update-grub` calls of `Blame` would have to be argued about, too;
- `LoginIsLabelled`: `[]LoginLabelled`, by `SeedInv` (until restorecon, what is unlabelled lies below the directories it will
  visit; after it, with cloud-init, only the console unit is written) and `SeedStage` (a run goes past the seed only when `buildSeedCommon` returned
  without a fatal error);
- `NetworkIsAsMeant`: `[]NetworkBindsAsMeant`, by `NetInv`: which stanzas cloud-init's seed and the directories that the system reads hold at
  each step: what was written, and of what the image shipped the files that no glob of cleanStaleNetworkConfig matches. There are none of these
  in a `Supported` plan (`AllRemoved`); the theorem holds for every number and kind of shipped files that the globs match. `ByNameAsMeant` to `KeyfilesAsMeant` then show renderer by renderer that these
  stanzas bind the port or bond that is meant (`MeantPort`).

`CourseInv` was checked with TLC on the instance of `installer` before it was proved; the last theorem's clauses of `Supported`
on some 120,000 plans of machines with up to two ports.

Assumptions of these: the named ASSUMEs of the modules, all on constants: `Nil` and `Keep` are no
data, `Nil` is no hash (`NoShaIsNil`), clocks and bounds are naturals, the ranges of a subnet row lie in known
addresses, a POST of a credential is for its own placeholder, BMC addresses of machines differ; machines, images and
plans are of the kinds `Host`, `Image` and `Plan` describe (`InstallData`, `PlanData`: an image has a kernel, an entry
of another kind than a disk's is on no disk, ports differ in address and in name), and MACs, names and the words
`any`, `none` and `bond0` are told apart (`PortData`). TLC evaluates them in the runs.

Only model-checked: everything about the page of a job (what it shows is defined by filtering the table, over answers in any order),
and liveness, which together with fairness is out of the proof system's reach.

## 5. Findings

Each is a run whose property quotes a comment of the code, and a counterexample.

- `stale_finalize`: `finished_at >= updated_at` does not tell a
  job of this revision from one of an earlier revision that finished
  after the re-PUT. A re-PUT during an install is then answered with the old
  install: no job is made for it, and ClearDesiredState drops it. Still,
  `FinalizeBootsInstalledDisk` shows that the machine boots a complete system.
- `stale_live`: machineInLive (orchestrator.go:278) believes heartbeats for 90 s, also after the machine was power-cycled to
  its disk. A request written within that time is claimed as 'waiting_agent' without PXE, for the agent that "polls
  /agent/jobs/current every 10s and will pick this job up directly"; no agent runs, and the job stays 'running' until
  somebody cancels it. Two writes suffice, with no fault and no reset.
- `credential_cascade`: on a new database `bmc_credentials` has no foreign key, because
  inventory/schema.go creates it first and the CREATE TABLE IF NOT EXISTS of bmc/schema.go does
  nothing. Deleting a machine leaves its credential, which blocks its address.

Observations made while modelling, without a run of their own. Where a property had to make an exception or a constant
exclude a case, this is why:

*Pipeline.* The end of an earlier revision's job after a re-PUT also keeps the scan from making a
new job (orchestrator.go:145, 161), also when that job failed or was cancelled: the re-PUT is then never tried, and its desired_state
stays 'install' until the next write. `RequestSettles` counts it as refused (`Ended`). The orchestrator's stage marker may overwrite a later one of the agent (store.go:281). A restart between INSERT and
IPMI leaves a pending job that no tick takes to the BMC (orchestrator.go:160), although the comment at orchestrator.go:128 has each
tick take up a job "just created or already there". Purging the history of a failed request makes the next tick
try again (orchestrator.go:147). The spec an agent gets joins the job's image and profile with the binding's
overrides of that moment.

*Uploads.* Two writers of one chunk share a `.partial`, so a chunk that was verified may differ
afterwards; only an operator's hash over the whole file detects it. A restart during a finalization leaves the session in 'finalizing'
until it is aborted. `CatalogIntact` fails if images are deleted while another upload takes the
freed name (`ConcurrentDeletes = TRUE`).

*Addresses.* The pools built at startup omit the saved exclusions (main.go:564-568, unlike config.go:146). Overlapping subnets are accepted; the reload then
fails with a log line, and the next start exits. A DECLINE is handled as a RELEASE,
so the same address is offered again. A late DISCOVER turns an acknowledged lease into an offer. `reservedIPs` sees only
the settings rows, not config.yaml.

*Installer.* The prune deletes every MBR entry, including the fresh one, and GPT entries of other disks
(zap.go:29). An NVMe or MMC target fails, because parentDiskOf takes off the digit (mount.go:183). `sgdisk -z` destroys the GPT just written if no EFI partition is seen
(esp.go:48). When a mount of fstab fails, the earlier ones stay mounted (mount.go:67-71, contrary to lines 28-29). An ext4 /boot is taken for the EFI mount. A machine in BIOS mode gets the EFI
loader if the image has an EFI partition. A volume group on an md array is not released. The last resort of
grub-mkconfig writes the live system's menu; that of grubby names a version, not an entry. Among a RHEL image's kernels none is chosen for its drivers. A fallback loader
below efi/ on an MBR disk is copied to where firmware looks by the RHEL path only. What is written after restorecon (the vt-init unit, the direct writes)
stays unlabelled.

*Seed.* ENI files name ports as the live system does; `by-name:` with a MAC is matched as a name by netplan; a wicked bond
lists its ports as the profile spells them; a VLAN without a bond is ignored outside netplan and cloud-init; a direct keyfile takes the first port for
`auto`, even the BMC's. cleanStaleNetworkConfig removes ifcfg-eth*, ifcfg-eno* and ifcfg-ens* only (seed.go:688-691): an image's ifcfg-enp3s0 or
ifcfg-em1 stays and brings up its own address next to the one asked for (`AllRemoved` excludes such images). The comment at seed.go:1308-1311 says that a VLAN is
not supported in the ifcfg fallback; for a bond writeIfcfgBond (1394-1427) writes ifcfg-bond0.<vlan>, and the run checks that it works.

*Registry.* Two concurrent updates of one catalog row lose a column. A binding deleted under a PUT comes back with the fields the PUT had kept. A subnet
can be deleted under a binding write, which then names nothing. A registration that is refused
leaves its placeholder. Pairing moves whatever the stale owner has by then. Two credential rows may have one address (no UNIQUE). A report with a MAC of another machine is refused.

*Job log.* Five workers reorder lines, and the table knows no other order than arrival, while the handler's test
(reporter_handler_test.go:72) takes them in the order logged. The outcome is reported before the sink is flushed, the
orchestrator adds a line of its own after that (orchestrator.go:342), and the page of a finished job fetches one answer of at
most 200 lines and stops, even if that request failed: the view need not be the "FULL install trace" of reporter_handler.go:7-8,
which is why `LinesAppear` speaks of running jobs. loadJob's tail and the fetchLogs of the same round ask with one cursor, and
both answers are appended (JobDetailView.vue:70, 81): the end of a log may appear twice, under keys that should be unique (line 279). A change of route resets the page ("重置全部状态", JobDetailView.vue:86) but calls off no request, and no answer says whose it is. A job answer of the page left behind that tells of an
end sets `stopped` on the new page (36-41), which then freezes although its job is running; a log answer adds the other job's lines and takes the cursor with it
(51-53), past lines not shown. `LinesAppear` excuses both (`misled`), and fails without the excuse. A refresh of a finished job's page sets tailFetched and polls from then on without end. When the page moves from a finished job to a
running one, refreshAll takes over the old job's status: the tail of the new one is never fetched as such, and its page never stops either. A
power cycle that follows a success cuts off the lines still in the queue (no flush of the agent holds it up).

## 6. Not modelled, and why

*Sessions and login throttle*: rows used by one browser each, one conditional
UPDATE, a counter under one mutex. *Monitoring and audit*: append-only samples. *HTTP routing, TFTP, iPXE scripts, TLS, the other pages of the UI,
configuration parsing, encryption, hardware collection, probes, the monitor implant, probecheck*: no shared state that a model would
say more about than their tests.

Within the modelled parts. Installer: edits of text (`bridgeRHELGrubCfg`, `fixRHELGrubCmdline`, `fixBLSEntriesCmdline`,
`disableSELinuxIfEnforcing`, unit masks), the text of user-data, and `pickOSInstaller`. Uploads: `GCStaleUploads` has no
caller in the repository; `RewriteLegacyNames` changes only rows without a file name; two statements whose error is ignored are taken to succeed,
the DELETE that takes back a catalog row when the rename fails (uploads.go:288) and the UPDATE of releaseFinalize (uploads.go:359). If they failed,
the row would name no file and the session would stay in 'finalizing'. DHCP: proxy mode keeps no lease;
packet options. Bindings: the columns that Upsert keeps alike are one field. Inventory: the offline marker and
remarks write columns that nothing else reads. BMC: encryption; the manual power commands of its page count
as `Reset`. Job log: texts, levels, scrolling, leaving the page (it stops all chains). Settings: the storage directory, used after a restart only.
