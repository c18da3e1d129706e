------------------------------- MODULE Registry -------------------------------
(***************************************************************************)
(* The controller's catalogs: machines and their BMC credentials           *)
(* (internal/inventory, internal/bmc), profiles, subnets and SSH keys      *)
(* (internal/profiles, subnets, sshkeys), and the bindings that refer to   *)
(* them.  Every HTTP handler is a call that runs its SQL statements one by *)
(* one, interleaved with those of other calls; a transaction is one step,  *)
(* for sqlitedb begins each with the write lock.  The only lock across     *)
(* statements is allocMu of the bindings store.                            *)
(***************************************************************************)
EXTENDS Naturals, FiniteSets

CONSTANTS
  Machines,                  \* SMBIOS UUIDs
  Ips,                       \* addresses of BMCs
  BmcOf,                     \* where a machine's BMC really is
  Profiles, StaticProfiles,  \* the static ones need their subnet's CIDR
  Subnets, Keys,
  Fresh,                     \* catalog rows that are not made yet
  Slots, MaxCalls,           \* bounds: calls at a time, calls in all
  Workloads,                 \* bound: the requests that are mixed in a behaviour
  Keep,                      \* a field that a request leaves out
  Nil

Placeholder(ip) == [placeholder |-> ip]
Stubs == {Placeholder(ip) : ip \in Ips}
Owners == Machines \cup Stubs
Catalog == Profiles \cup Subnets \cup Keys
Fields == {"name", "body"}
Values == 0..2
Row == [Fields -> Values]
Binding == [profile : Profiles, subnet : Subnets \cup {Nil}, keys : SUBSET Keys, secret : Values]

(* What the API is asked: a PUT of a binding gives a field or leaves it    *)
(* out (Keep), an update gives one column.  A POST of a credential is for  *)
(* the placeholder of its address; an agent reports its own BMC's address, *)
(* or none.                                                                *)
Requests ==
  [op : {"put"}, machine : Machines, profile : Profiles, subnet : Subnets \cup {Nil, Keep},
   keys : {Keep} \cup SUBSET Keys, secret : Values \cup {Keep}]
  \cup [op : {"unbind", "pair", "retire", "job"}, machine : Machines]
  \cup [op : {"update"}, id : Catalog, field : Fields, value : Values]
  \cup [op : {"create"}, id : Fresh]
  \cup [op : {"drop profile"}, id : Profiles]
  \cup [op : {"drop subnet"}, id : Subnets]
  \cup [op : {"drop key"}, id : Keys]
  \cup [op : {"register"}, post : BOOLEAN, owner : Owners, ip : Ips, password : BOOLEAN]
  \cup [op : {"unregister"}, owner : Owners]
  \cup [op : {"report"}, machine : Machines, ip : Ips \cup {Nil}]

ASSUME RegistryConstants ==
  /\ BmcOf \in [Machines -> Ips] /\ \A m, n \in Machines : BmcOf[m] = BmcOf[n] => m = n
  /\ Machines \cap Stubs = {}
  /\ Profiles \cap Subnets = {} /\ Profiles \cap Keys = {} /\ Subnets \cap Keys = {}
  /\ StaticProfiles \subseteq Profiles /\ Fresh \subseteq Catalog
  /\ MaxCalls \in Nat /\ Workloads \subseteq SUBSET Requests
  /\ \A w \in Workloads : \A r \in w :
       /\ r.op = "register" /\ r.post => r.owner = Placeholder(r.ip)
       /\ r.op = "report" => r.ip \in {BmcOf[r.machine], Nil}
  /\ Nil \notin Slots \cup Ips \cup Subnets \cup Profiles \cup Requests \cup Binding
  /\ Keep \notin Subnets \cup {Nil} \cup Values /\ \A ks \in SUBSET Keys : Keep # ks

VARIABLES
  workload, calls,           \* the requests of this behaviour, and how many were made
  cascades,                  \* whether bmc_credentials references machines ON DELETE CASCADE
  machines,                  \* rows of machines
  reported,                  \* BMC address in the latest report
  active,                    \* profile of a machine's pending or running job
  cred,                      \* address in bmc_credentials, by machine_uuid
  fresh, live, row,          \* catalog ids not made yet, rows there are, their columns
  binding,
  lock,                      \* the call that holds allocMu
  call,                      \* calls in flight: request, next statement, what they have read
  registered, mistyped, refused,  \* history: of credentials
  expected, overlapped       \* history: what was last chosen, and which rows may differ

calling == <<workload, calls, cascades>>
fleet == <<machines, reported, active>>
catalogs == <<fresh, live, row>>
credHistory == <<registered, mistyped, refused>>
choiceHistory == <<expected, overlapped>>
vars == <<calling, fleet, cred, catalogs, binding, lock, call, credHistory, choiceHistory>>
bmcOnly == <<calling, catalogs, binding, lock, choiceHistory>>
bindingsOnly == <<calling, fleet, cred, credHistory>>

Idle == [req |-> Nil, pc |-> "idle", seen |-> Nil]
Statements == {"idle", "start", "lock", "read", "subnet", "secret", "write", "count", "delete",
               "jobs", "ensure", "stub", "conflict", "exists", "reconcile", "find", "move",
               "binding", "machine"}

KeptFields == [subnet : Subnets \cup {Nil}, keys : SUBSET Keys, secret : Values]
Call == [req : Requests \cup {Nil}, pc : Statements, seen : {Nil} \cup KeptFields \cup Row \cup Ips \cup Owners]

RegistryTypeOK ==
  /\ workload \in Workloads /\ calls \in 0..MaxCalls /\ cascades \in BOOLEAN
  /\ machines \subseteq Owners
  /\ reported \in [Machines -> Ips \cup {Nil}]
  /\ active \in [Machines -> Profiles \cup {Nil}]
  /\ cred \in [Owners -> Ips \cup {Nil}]
  /\ fresh \subseteq Fresh /\ live \subseteq Catalog
  /\ row \in [Catalog -> Row]
  /\ binding \in [Machines -> Binding \cup {Nil}]
  /\ lock \in Slots \cup {Nil}
  /\ call \in [Slots -> Call]

Init ==
  /\ workload \in Workloads /\ calls = 0 /\ cascades \in BOOLEAN
  /\ machines = {} /\ reported = [m \in Machines |-> Nil] /\ active = [m \in Machines |-> Nil]
  /\ cred = [o \in Owners |-> Nil]
  /\ fresh = Fresh /\ live = Catalog \ Fresh
  /\ row = [id \in Catalog |-> [f \in Fields |-> 0]]
  /\ binding = [m \in Machines |-> Nil] /\ lock = Nil
  /\ call = [s \in Slots |-> Idle]
  /\ registered = {} /\ mistyped = {} /\ refused = {}
  /\ expected = [binding |-> binding, row |-> row] /\ overlapped = {}

At(s, op, pc) == call[s].pc = pc /\ call[s].req.op = op
Done(s) == call' = [call EXCEPT ![s] = Idle]
Goto(s, pc) == call' = [call EXCEPT ![s].pc = pc]
GotoWith(s, pc, seen) == call' = [call EXCEPT ![s].pc = pc, ![s].seen = seen]
GoOnIf(ok, s, pc) == IF ok THEN Goto(s, pc) ELSE Done(s)

(* A request arrives.                                                      *)
Request(s, r) ==
  /\ call[s] = Idle /\ calls < MaxCalls
  /\ call' = [call EXCEPT ![s] = [req |-> r, pc |-> "start", seen |-> Nil]] /\ calls' = calls + 1
  /\ UNCHANGED <<workload, cascades, fleet, cred, catalogs, binding, lock, credHistory,
                 choiceHistory>>

-------------------------------------------------------------------------------
(* Store.Upsert of bindings.  The existence checks come first, unlocked.   *)
PutChecks(s) ==
  /\ At(s, "put", "start")
  /\ GoOnIf(call[s].req.machine \in machines /\ call[s].req.profile \in live, s, "lock")
  /\ UNCHANGED <<bindingsOnly, catalogs, binding, lock, choiceHistory>>

(* Wrong on purpose: allocMu is taken for reading, which other PUTs share. *)
PutReadLock(s) ==
  /\ At(s, "put", "lock") /\ \A t \in Slots : lock = t => call[t].req.op = "put"
  /\ lock' = s /\ Goto(s, "read")
  /\ UNCHANGED <<bindingsOnly, catalogs, binding, choiceHistory>>
PutLock(s) ==
  /\ At(s, "put", "lock") /\ lock = Nil
  /\ lock' = s /\ Goto(s, "read")
  /\ UNCHANGED <<bindingsOnly, catalogs, binding, choiceHistory>>

Refuse(s) == Done(s) /\ lock' = Nil

(* A field the request leaves out is the existing row's; without a row     *)
(* there is nothing to keep.                                               *)
Kept(value, kept) == IF value = Keep THEN kept ELSE value
Existing(b) ==
  IF b = Nil THEN [subnet |-> Nil, keys |-> {}, secret |-> 0]
             ELSE [subnet |-> b.subnet, keys |-> b.keys, secret |-> b.secret]

(* The existing row is read, and the keys the request names must exist:    *)
(* under allocMu, which the deletion of a key takes too.                   *)
KeysKnown(r) == r.keys # Keep => r.keys \subseteq live

PutReads(s) ==
  LET r == call[s].req IN
  /\ At(s, "put", "read")
  /\ IF KeysKnown(r) THEN GotoWith(s, "subnet", Existing(binding[r.machine])) /\ lock' = lock
                     ELSE Refuse(s)
  /\ UNCHANGED <<bindingsOnly, catalogs, binding, choiceHistory>>

(* A subnet the request names must exist; a static profile needs the CIDR  *)
(* of whichever subnet is in effect.                                       *)
PutSubnetOK(r, subnet) ==
  subnet # Nil /\ (r.subnet # Keep \/ r.profile \in StaticProfiles) => subnet \in live

PutSubnet(s) ==
  LET r == call[s].req IN
  /\ At(s, "put", "subnet")
  /\ IF PutSubnetOK(r, Kept(r.subnet, call[s].seen.subnet))
       THEN Goto(s, "secret") /\ lock' = lock ELSE Refuse(s)
  /\ UNCHANGED <<bindingsOnly, catalogs, binding, choiceHistory>>

(* The second read: the password, target disk and bond to keep.            *)
PutSecret(s) ==
  /\ At(s, "put", "secret")
  /\ GotoWith(s, "write", [call[s].seen EXCEPT !.secret = Existing(binding[call[s].req.machine]).secret])
  /\ UNCHANGED <<bindingsOnly, catalogs, binding, lock, choiceHistory>>

Chosen(r, kept) ==
  [profile |-> r.profile, subnet |-> Kept(r.subnet, kept.subnet), keys |-> Kept(r.keys, kept.keys),
   secret |-> Kept(r.secret, kept.secret)]

(* INSERT ... ON CONFLICT DO UPDATE; the foreign keys hold the machine and *)
(* the profile.                                                            *)
PutWrite(s) ==
  LET r == call[s].req IN
  /\ At(s, "put", "write") /\ Refuse(s)
  /\ IF r.machine \in machines /\ r.profile \in live
       THEN /\ binding' = [binding EXCEPT ![r.machine] = Chosen(r, call[s].seen)]
            /\ expected' = [expected EXCEPT !.binding[r.machine] = Chosen(r, Existing(@))]
       ELSE UNCHANGED <<binding, expected>>
  /\ UNCHANGED <<bindingsOnly, catalogs, overlapped>>

Put(s) == PutChecks(s) \/ PutLock(s) \/ PutReads(s) \/ PutSubnet(s) \/ PutSecret(s) \/ PutWrite(s)

(* A binding that is deleted while a PUT has read it may come back with    *)
(* the fields the PUT keeps.                                               *)
BeingPut(m) ==
  \E s \in Slots : call[s].pc \in {"subnet", "secret", "write"} /\ call[s].req.op = "put"
                   /\ call[s].req.machine = m
DeleteBindings(ms) ==
  /\ binding' = [m \in Machines |-> IF m \in ms THEN Nil ELSE binding[m]]
  /\ expected' = [expected EXCEPT !.binding = [m \in Machines |-> IF m \in ms THEN Nil ELSE @[m]]]
  /\ overlapped' = overlapped \cup {m \in ms : BeingPut(m)}

Unbind(s) ==
  /\ At(s, "unbind", "start") /\ Done(s)
  /\ DeleteBindings({call[s].req.machine})
  /\ UNCHANGED <<bindingsOnly, catalogs, lock>>

-------------------------------------------------------------------------------
(* The catalogs.  A key is counted and deleted under allocMu, a subnet     *)
(* under no lock.                                                          *)
Create(s, table) ==
  LET id == call[s].req.id IN
  /\ At(s, "create", "start") /\ id \in table /\ Done(s)
  /\ fresh' = fresh \ {id} /\ live' = live \cup (fresh \cap {id})
  /\ UNCHANGED <<bindingsOnly, row, binding, lock, choiceHistory>>

CreateKey(s) == Create(s, Keys)
CreateSubnet(s) == Create(s, Subnets)
CreateProfile(s) == Create(s, Profiles)

Bound(m) == binding[m] # Nil
UsersOfKey(id) == {m \in Machines : Bound(m) /\ id \in binding[m].keys}
UsersOfSubnet(id) == {m \in Machines : Bound(m) /\ binding[m].subnet = id}
UsersOfProfile(id) == {m \in Machines : Bound(m) /\ binding[m].profile = id}

(* Wrong on purpose: the references are counted without allocMu.           *)
DropKeyUnlocked(s) ==
  /\ At(s, "drop key", "start") /\ Goto(s, "count")
  /\ UNCHANGED <<bindingsOnly, catalogs, binding, lock, choiceHistory>>
DropKeyLock(s) ==
  /\ At(s, "drop key", "start") /\ lock = Nil
  /\ lock' = s /\ Goto(s, "count")
  /\ UNCHANGED <<bindingsOnly, catalogs, binding, choiceHistory>>

DropKeyCount(s) ==
  /\ At(s, "drop key", "count")
  /\ IF UsersOfKey(call[s].req.id) = {} THEN Goto(s, "delete") /\ lock' = lock ELSE Refuse(s)
  /\ UNCHANGED <<bindingsOnly, catalogs, binding, choiceHistory>>

DropKeyDelete(s) ==
  /\ At(s, "drop key", "delete") /\ Refuse(s)
  /\ live' = live \ {call[s].req.id}
  /\ UNCHANGED <<bindingsOnly, fresh, row, binding, choiceHistory>>

DropSubnetCount(s) ==
  /\ At(s, "drop subnet", "start")
  /\ GoOnIf(UsersOfSubnet(call[s].req.id) = {}, s, "delete")
  /\ UNCHANGED <<bindingsOnly, catalogs, binding, lock, choiceHistory>>

DropSubnetDelete(s) ==
  /\ At(s, "drop subnet", "delete") /\ Done(s)
  /\ live' = live \ {call[s].req.id}
  /\ UNCHANGED <<bindingsOnly, fresh, row, binding, lock, choiceHistory>>

(* A profile takes its bindings and its jobs with it, one statement each;  *)
(* the foreign keys refuse the row if one came back in between.            *)
DropProfileBindings(s) ==
  /\ At(s, "drop profile", "start") /\ Goto(s, "jobs")
  /\ DeleteBindings(UsersOfProfile(call[s].req.id))
  /\ UNCHANGED <<bindingsOnly, catalogs, lock>>

DropProfileJobs(s) ==
  /\ At(s, "drop profile", "jobs") /\ Goto(s, "delete")
  /\ active' = [m \in Machines |-> IF active[m] = call[s].req.id THEN Nil ELSE active[m]]
  /\ UNCHANGED <<calling, machines, reported, cred, catalogs, binding, lock, credHistory,
                 choiceHistory>>

DropProfileDelete(s) ==
  LET id == call[s].req.id IN
  /\ At(s, "drop profile", "delete") /\ Done(s)
  /\ live' = IF UsersOfProfile(id) = {} /\ \A m \in Machines : active[m] # id
               THEN live \ {id} ELSE live
  /\ UNCHANGED <<bindingsOnly, fresh, row, binding, lock, choiceHistory>>

(* An update reads the row, changes the columns it was given and writes    *)
(* them all back, under no lock.                                           *)
UpdateReads(s, table) ==
  /\ At(s, "update", "start") /\ call[s].req.id \in table
  /\ IF call[s].req.id \in live THEN GotoWith(s, "write", row[call[s].req.id]) ELSE Done(s)
  /\ UNCHANGED <<bindingsOnly, catalogs, binding, lock, choiceHistory>>

UpdateWrite(s, table) ==
  LET r == call[s].req IN
  /\ At(s, "update", "write") /\ r.id \in table /\ Done(s)
  /\ IF r.id \in live
       THEN /\ row' = [row EXCEPT ![r.id] = [call[s].seen EXCEPT ![r.field] = r.value]]
            /\ expected' = [expected EXCEPT !.row[r.id][r.field] = r.value]
            /\ overlapped' = overlapped \cup
                 {id \in {r.id} : \E t \in Slots \ {s} : At(t, "update", "write") /\ call[t].req.id = id}
       ELSE UNCHANGED <<row, expected, overlapped>>
  /\ UNCHANGED <<bindingsOnly, fresh, live, binding, lock>>

UpdateKey(s) == UpdateReads(s, Keys) \/ UpdateWrite(s, Keys)
UpdateSubnet(s) == UpdateReads(s, Subnets) \/ UpdateWrite(s, Subnets)
UpdateProfile(s) == UpdateReads(s, Profiles) \/ UpdateWrite(s, Profiles)

Catalogs(s) ==
  \/ Unbind(s) \/ CreateKey(s) \/ CreateSubnet(s) \/ CreateProfile(s)
  \/ UpdateKey(s) \/ UpdateSubnet(s) \/ UpdateProfile(s)
  \/ DropKeyLock(s) \/ DropKeyCount(s) \/ DropKeyDelete(s)
  \/ DropSubnetCount(s) \/ DropSubnetDelete(s)
  \/ DropProfileBindings(s) \/ DropProfileJobs(s) \/ DropProfileDelete(s)

-------------------------------------------------------------------------------
(* POST and PUT of a BMC credential.                                       *)
Holders(ip) == {o \in Owners : cred[o] = ip}
IsStub(o) == o \in Stubs
StubOf(r) == {ip \in {r.ip} : IsStub(r.owner)}
Rejected(s) == Done(s) /\ refused' = refused \cup StubOf(call[s].req)

(* A POST refuses an address that is taken; a placeholder must encode its  *)
(* address.                                                                *)
(* Wrong on purpose: any address is taken for any placeholder.             *)
AnyIp(r) == TRUE
EncodesIp(r) == IsStub(r.owner) => r.owner = Placeholder(r.ip)
RegisterChecks(s) ==
  LET r == call[s].req IN
  /\ At(s, "register", "start")
  /\ GoOnIf((r.post => Holders(r.ip) = {}) /\ EncodesIp(r), s, "ensure")
  /\ UNCHANGED <<bmcOnly, fleet, cred, credHistory>>

(* ensureMachineExists: a placeholder gets a stub row in machines.         *)
EnsureLooks(s) ==
  LET o == call[s].req.owner IN
  /\ At(s, "register", "ensure")
  /\ IF o \in machines THEN Goto(s, "conflict") ELSE GoOnIf(IsStub(o), s, "stub")
  /\ UNCHANGED <<bmcOnly, fleet, cred, credHistory>>

(* Wrong on purpose: the stub is keyed by the address itself.              *)
AddressKey(r) == r.ip
StubKey(r) == r.owner
EnsureInserts(s) ==
  /\ At(s, "register", "stub")
  /\ GoOnIf(call[s].req.owner \notin machines, s, "conflict")
  /\ machines' = machines \cup {StubKey(call[s].req)}
  /\ UNCHANGED <<bmcOnly, reported, active, cred, credHistory>>

(* FindByIP answers with any one row that has the address.                 *)
RegisterConflict(s) ==
  LET r == call[s].req IN
  /\ At(s, "register", "conflict")
  /\ \/ /\ Holders(r.ip) = {} \/ r.owner \in Holders(r.ip)
        /\ Goto(s, "exists") /\ refused' = refused
     \/ /\ Holders(r.ip) \ {r.owner} # {} /\ Rejected(s)
  /\ UNCHANGED <<bmcOnly, fleet, cred, registered, mistyped>>

RegisterExists(s) ==
  LET r == call[s].req IN
  /\ At(s, "register", "exists")
  /\ IF r.password \/ cred[r.owner] # Nil THEN Goto(s, "write") /\ refused' = refused ELSE Rejected(s)
  /\ UNCHANGED <<bmcOnly, fleet, cred, registered, mistyped>>

(* With a password an upsert, which the foreign key may refuse; without    *)
(* one an UPDATE of the row that was there.                                *)
Writable(r) ==
  IF r.password THEN cascades => r.owner \in machines ELSE cred[r.owner] # Nil

RegisterWrite(s) ==
  LET r == call[s].req IN
  /\ At(s, "register", "write")
  /\ \/ /\ Writable(r) /\ Done(s)
        /\ cred' = [cred EXCEPT ![r.owner] = r.ip]
        /\ registered' = (registered \ {cred[r.owner]}) \cup {r.ip}
        /\ mistyped' = mistyped \cup {m \in Machines : m = r.owner /\ r.ip # BmcOf[m]}
        /\ refused' = refused
     \/ ~Writable(r) /\ Rejected(s) /\ UNCHANGED <<cred, registered, mistyped>>
  /\ UNCHANGED <<bmcOnly, fleet>>

Register(s) ==
  \/ RegisterChecks(s) \/ EnsureLooks(s) \/ EnsureInserts(s)
  \/ RegisterConflict(s) \/ RegisterExists(s) \/ RegisterWrite(s)

(* A row of machines goes, and with the foreign key its credential.        *)
Cascade(o) ==
  IF cascades
    THEN cred' = [cred EXCEPT ![o] = Nil] /\ registered' = registered \ {cred[o]}
    ELSE UNCHANGED <<cred, registered>>

UnregisterCredential(s) ==
  LET o == call[s].req.owner IN
  /\ At(s, "unregister", "start")
  /\ GoOnIf(cred[o] # Nil /\ IsStub(o), s, "machine")
  /\ cred' = [cred EXCEPT ![o] = Nil] /\ registered' = registered \ {cred[o]}
  /\ UNCHANGED <<bmcOnly, fleet, mistyped, refused>>

UnregisterStub(s) ==
  LET o == call[s].req.owner IN
  /\ At(s, "unregister", "machine") /\ Done(s)
  /\ machines' = machines \ {o} /\ Cascade(o)
  /\ UNCHANGED <<bmcOnly, reported, active, mistyped, refused>>

(* A credential moves to the machine, unless the machine has one already   *)
(* (primary key) or is gone (foreign key); a stub it leaves goes with it,  *)
(* in one transaction.                                                     *)
CanMove(from, m) == cred[from] # Nil => cred[m] = Nil /\ (cascades => m \in machines)
(* Wrong on purpose: the stub goes before its credential has moved, which  *)
(* then goes with it.                                                      *)
MoveLate(from, m) ==
  /\ cred' = IF cred[from] = Nil \/ (cascades /\ from \in Stubs)
               THEN [cred EXCEPT ![from] = Nil] ELSE [cred EXCEPT ![m] = cred[from], ![from] = Nil]
  /\ machines' = machines \ ({from} \cap Stubs)
(* Wrong on purpose: the stub stays.                                       *)
MoveOnly(from, m) ==
  /\ cred' = IF cred[from] = Nil THEN cred ELSE [cred EXCEPT ![m] = cred[from], ![from] = Nil]
  /\ UNCHANGED machines
Move(from, m) ==
  /\ cred' = IF cred[from] = Nil THEN cred ELSE [cred EXCEPT ![m] = cred[from], ![from] = Nil]
  /\ machines' = machines \ ({from} \cap Stubs)

(* UpsertReport, then ReconcilePlaceholder.                                *)
ReportSave(s) ==
  LET r == call[s].req IN
  /\ At(s, "report", "start")
  /\ machines' = machines \cup {r.machine}
  /\ reported' = [reported EXCEPT ![r.machine] = r.ip]
  /\ GoOnIf(r.ip # Nil, s, "reconcile")
  /\ UNCHANGED <<bmcOnly, active, cred, credHistory>>

ReportReconcile(s) ==
  LET r == call[s].req  p == Placeholder(r.ip) IN
  /\ At(s, "report", "reconcile") /\ Done(s)
  /\ IF cred[p] # Nil /\ CanMove(p, r.machine) THEN Move(p, r.machine) ELSE UNCHANGED <<cred, machines>>
  /\ UNCHANGED <<bmcOnly, reported, active, credHistory>>

(* POST /bmc/{uuid}/reconcile: the reported address, who holds it, the     *)
(* move of whatever that owner has by then.                                *)
PairReads(s) ==
  LET m == call[s].req.machine IN
  /\ At(s, "pair", "start")
  /\ IF m \in machines /\ reported[m] # Nil THEN GotoWith(s, "find", reported[m]) ELSE Done(s)
  /\ UNCHANGED <<bmcOnly, fleet, cred, credHistory>>

PairFinds(s) ==
  /\ At(s, "pair", "find")
  /\ \/ \E u \in Holders(call[s].seen) \ {call[s].req.machine} : GotoWith(s, "move", u)
     \/ (Holders(call[s].seen) = {} \/ call[s].req.machine \in Holders(call[s].seen)) /\ Done(s)
  /\ UNCHANGED <<bmcOnly, fleet, cred, credHistory>>

PairMoves(s) ==
  LET u == call[s].seen  m == call[s].req.machine IN
  /\ At(s, "pair", "move") /\ Done(s)
  /\ IF CanMove(u, m) THEN Move(u, m) ELSE UNCHANGED <<cred, machines>>
  /\ UNCHANGED <<bmcOnly, reported, active, credHistory>>

(* DELETE /machines/{uuid}: an active job refuses it, then the binding     *)
(* goes, then the row, with what references it.                            *)
RetireChecks(s) ==
  /\ At(s, "retire", "start")
  /\ GoOnIf(active[call[s].req.machine] = Nil, s, "binding")
  /\ UNCHANGED <<bmcOnly, fleet, cred, credHistory>>

RetireBinding(s) ==
  /\ At(s, "retire", "binding") /\ Goto(s, "machine")
  /\ DeleteBindings({call[s].req.machine})
  /\ UNCHANGED <<bindingsOnly, catalogs, lock>>

RetireMachine(s) ==
  LET m == call[s].req.machine IN
  /\ At(s, "retire", "machine") /\ Done(s)
  /\ IF m \in machines /\ ~Bound(m)
       THEN /\ machines' = machines \ {m} /\ Cascade(m)
            /\ reported' = [reported EXCEPT ![m] = Nil] /\ active' = [active EXCEPT ![m] = Nil]
       ELSE UNCHANGED <<fleet, cred, registered>>
  /\ UNCHANGED <<bmcOnly, mistyped, refused>>

(* The orchestrator starts a job for a binding, or a job ends.             *)
Job(s) ==
  LET m == call[s].req.machine IN
  /\ At(s, "job", "start") /\ Done(s)
  /\ active' = [active EXCEPT ![m] = IF @ = Nil /\ Bound(m) THEN binding[m].profile ELSE Nil]
  /\ UNCHANGED <<bmcOnly, machines, reported, cred, credHistory>>

Fleet(s) ==
  \/ UnregisterCredential(s) \/ UnregisterStub(s)
  \/ ReportSave(s) \/ ReportReconcile(s)
  \/ PairReads(s) \/ PairFinds(s) \/ PairMoves(s)
  \/ RetireChecks(s) \/ RetireBinding(s) \/ RetireMachine(s) \/ Job(s)

Finished == calls = MaxCalls /\ (\A s \in Slots : call[s] = Idle) /\ UNCHANGED vars

Next ==
  \/ \E s \in Slots : \/ \E r \in workload : Request(s, r)
                      \/ Put(s) \/ Catalogs(s) \/ Register(s) \/ Fleet(s)
  \/ Finished

Spec == Init /\ [][Next]_vars

-------------------------------------------------------------------------------
(* What a binding names can be fetched for its install: the machine, the   *)
(* profile, and every SSH key.  The keys' half is why the deletion of a    *)
(* key takes the bindings' lock (sshkeys/api.go BindingWriteLock).         *)
BindingsResolve ==
  \A m \in Machines : Bound(m) =>
    m \in machines /\ binding[m].profile \in live /\ binding[m].keys \subseteq live

(* A field holds what was last chosen for it: a PUT of a binding that      *)
(* leaves it out keeps it, whatever other PUTs are running (allocMu), and  *)
(* so does an update of a catalog row.  Excepted are a binding deleted     *)
(* under a PUT that had read it, and a row with two updates at once.       *)
LastChoiceKept ==
  /\ \A m \in Machines \ overlapped : binding[m] = expected.binding[m]
  /\ \A id \in Catalog \ overlapped : row[id] = expected.row[id]

(* An address that was registered stays in some credential, through the    *)
(* moves of reports and of pairing, until an operator replaces it or       *)
(* deletes its owner.                                                      *)
RegistrationsKept == \A ip \in registered : Holders(ip) # {}

(* Unless an operator has typed another machine's address, a machine's     *)
(* credential is for its own BMC: power is never cut on another machine.   *)
OwnBmc == mistyped = {} => \A m \in Machines : cred[m] \in {Nil, BmcOf[m]}

(* A stub row in machines has a credential, or belongs to a registration   *)
(* that was refused or to a call that is still running: reconciliation     *)
(* and deletion leave none behind.                                         *)
Touching(ip) ==
  \E s \in Slots : /\ call[s].pc \notin {"idle", "start"}
                   /\ call[s].req.op \in {"register", "unregister"}
                   /\ call[s].req.owner = Placeholder(ip)
StubsAccounted ==
  \A ip \in Ips : Placeholder(ip) \in machines /\ cred[Placeholder(ip)] = Nil =>
    ip \in refused \/ Touching(ip)

(* internal/inventory/store.go, Delete: "Cascading FKs wipe machine_macs,  *)
(* reports, heartbeats, bmc_credentials, and jobs": no credential without  *)
(* its machine.                                                            *)
CredentialsHaveMachines == \A o \in Owners : cred[o] # Nil => o \in machines
=============================================================================
