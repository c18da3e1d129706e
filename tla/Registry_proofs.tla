--------------------------- MODULE Registry_proofs ----------------------------
(***************************************************************************)
(* Proofs about machines, credentials, bindings and catalogs, for any      *)
(* number of rows of each, any number of concurrent calls, and whatever    *)
(* they ask.                                                               *)
(***************************************************************************)
EXTENDS Registry, TLAPS

SeenValues == {Nil} \cup KeptFields \cup Row \cup Ips \cup Owners

(* What a call has established when it reaches a statement.                *)
CallOK(c) ==
  /\ c.pc # "idle" => c.req \in workload
  /\ c.pc # "idle" /\ c.req.op = "put" /\ c.pc \in {"subnet", "secret", "write"} => c.seen \in KeptFields
  /\ c.pc # "idle" /\ c.req.op = "update" /\ c.pc = "write" => c.seen \in Row
  /\ c.pc # "idle" /\ c.req.op = "pair" /\ c.pc = "find" => c.seen \in Ips
  /\ c.pc # "idle" /\ c.req.op = "pair" /\ c.pc = "move" => c.seen \in Owners \ {c.req.machine}
  /\ c.pc # "idle" /\ c.req.op = "report" /\ c.pc = "reconcile" => c.req.ip \in Ips
  /\ c.pc # "idle" /\ c.req.op = "unregister" /\ c.pc = "machine" => IsStub(c.req.owner)
  /\ c.pc # "idle" /\ c.req.op = "register" /\ c.pc # "start" => EncodesIp(c.req)
CallsOK == \A s \in Slots : CallOK(call[s])

Typed == RegistryTypeOK /\ CallsOK

-----------------------------------------------------------------------------
(* The requests, by what they ask.                                         *)
LEMMA PutTyped == ASSUME NEW r \in Requests, r.op = "put"
  PROVE  /\ r.machine \in Machines /\ r.profile \in Profiles /\ r.subnet \in Subnets \cup {Nil, Keep}
         /\ r.keys \in {Keep} \cup SUBSET Keys /\ r.secret \in Values \cup {Keep}
  BY DEF Requests
LEMMA OnMachineTyped == ASSUME NEW r \in Requests, r.op \in {"unbind", "pair", "retire", "job"}
  PROVE  r.machine \in Machines
  BY DEF Requests
LEMMA UpdateTyped == ASSUME NEW r \in Requests, r.op = "update"
  PROVE  r.id \in Catalog /\ r.field \in Fields /\ r.value \in Values
  BY DEF Requests
LEMMA CreateTyped == ASSUME NEW r \in Requests, r.op = "create" PROVE r.id \in Fresh
  BY DEF Requests
LEMMA DropTyped == ASSUME NEW r \in Requests
  PROVE  /\ r.op = "drop profile" => r.id \in Profiles
         /\ r.op = "drop subnet" => r.id \in Subnets
         /\ r.op = "drop key" => r.id \in Keys
  BY DEF Requests
LEMMA RegisterTyped == ASSUME NEW r \in Requests, r.op = "register"
  PROVE  r.post \in BOOLEAN /\ r.owner \in Owners /\ r.ip \in Ips /\ r.password \in BOOLEAN
  BY DEF Requests
LEMMA UnregisterTyped == ASSUME NEW r \in Requests, r.op = "unregister" PROVE r.owner \in Owners
  BY DEF Requests
LEMMA ReportTyped == ASSUME NEW r \in Requests, r.op = "report" PROVE r.machine \in Machines /\ r.ip \in Ips \cup {Nil}
  BY DEF Requests

-----------------------------------------------------------------------------
(* How a call goes on: only it moves, and it still serves its request.     *)
LEMMA IdleOK == Idle \in Call /\ CallOK(Idle)
  BY DEF Idle, Call, CallOK, Statements

LEMMA Moves ==
  ASSUME Typed, NEW s \in Slots, NEW c \in Call, CallOK(c), call' = [call EXCEPT ![s] = c], workload' = workload
  PROVE  call' \in [Slots -> Call] /\ CallsOK'
  <1>1. call' \in [Slots -> Call]
    BY DEF Typed, RegistryTypeOK
  <1>2. \A t \in Slots : CallOK(call'[t])
    BY DEF Typed, RegistryTypeOK, CallsOK
  <1> QED
    BY <1>1, <1>2 DEF CallsOK, CallOK

LEMMA DoneMoves ==
  ASSUME Typed, NEW s \in Slots, Done(s), workload' = workload
  PROVE  /\ call' \in [Slots -> Call] /\ CallsOK'
         /\ call'[s] = Idle /\ \A t \in Slots : t # s => call'[t] = call[t]
  BY IdleOK, Moves DEF Done, Typed, RegistryTypeOK

LEMMA GotoMoves ==
  ASSUME Typed, NEW s \in Slots, NEW pc \in Statements, Goto(s, pc), workload' = workload,
         CallOK([call[s] EXCEPT !.pc = pc])
  PROVE  /\ call' \in [Slots -> Call] /\ CallsOK'
         /\ call'[s].pc = pc /\ call'[s].req = call[s].req /\ call'[s].seen = call[s].seen
         /\ \A t \in Slots : t # s => call'[t] = call[t]
  <1> DEFINE c == [call[s] EXCEPT !.pc = pc]
  <1>1. call[s] \in Call /\ call \in [Slots -> Call]
    BY DEF Typed, RegistryTypeOK
  <1>2. c \in Call /\ c.pc = pc /\ c.req = call[s].req /\ c.seen = call[s].seen
    BY <1>1 DEF Call
  <1>3. call' = [call EXCEPT ![s] = c]
    BY <1>1 DEF Goto
  <1> HIDE DEF c
  <1>4. CallOK(c)
    BY DEF c
  <1> QED
    BY <1>1, <1>2, <1>3, <1>4, Moves

LEMMA GotoWithMoves ==
  ASSUME Typed, NEW s \in Slots, NEW pc \in Statements, NEW seen \in SeenValues, GotoWith(s, pc, seen),
         workload' = workload, CallOK([call[s] EXCEPT !.pc = pc, !.seen = seen])
  PROVE  /\ call' \in [Slots -> Call] /\ CallsOK'
         /\ call'[s].pc = pc /\ call'[s].req = call[s].req /\ call'[s].seen = seen
         /\ \A t \in Slots : t # s => call'[t] = call[t]
  <1> DEFINE c == [call[s] EXCEPT !.pc = pc, !.seen = seen]
  <1>1. call[s] \in Call /\ call \in [Slots -> Call]
    BY DEF Typed, RegistryTypeOK
  <1>2. c \in Call /\ c.pc = pc /\ c.req = call[s].req /\ c.seen = seen
    BY <1>1 DEF Call, SeenValues
  <1>3. call' = [call EXCEPT ![s] = c]
    BY <1>1 DEF GotoWith
  <1> HIDE DEF c
  <1>4. CallOK(c)
    BY DEF c
  <1> QED
    BY <1>1, <1>2, <1>3, <1>4, Moves

LEMMA Serving ==
  ASSUME Typed, NEW s \in Slots, call[s].pc # "idle"
  PROVE  call[s] \in Call /\ call[s].req \in workload /\ call[s].req \in Requests
  BY RegistryConstants DEF Typed, RegistryTypeOK, CallsOK, CallOK

-----------------------------------------------------------------------------
(* Types, action by action.                                                *)
LEMMA RequestTyped == ASSUME Typed, NEW s \in Slots, NEW r \in workload, Request(s, r) PROVE Typed'
  <1> USE DEF Typed, RegistryTypeOK
  <1> DEFINE c == [req |-> r, pc |-> "start", seen |-> Nil]
  <1>1. r \in Requests
    BY RegistryConstants
  <1>2. c \in Call /\ CallOK(c)
    BY <1>1 DEF Call, Statements, CallOK
  <1>3. call' = [call EXCEPT ![s] = c] /\ workload' = workload
    BY DEF Request
  <1> HIDE DEF c
  <1>4. call' \in [Slots -> Call] /\ CallsOK'
    BY <1>2, <1>3, Moves
  <1>5. calls' \in 0..MaxCalls
    BY RegistryConstants DEF Request
  <1> QED
    BY <1>4, <1>5 DEF Request, fleet, catalogs

(* A PUT of a binding.                                                     *)
LEMMA ExistingTyped == ASSUME Typed, NEW m \in Machines PROVE Existing(binding[m]) \in KeptFields
  BY DEF Typed, RegistryTypeOK, Existing, KeptFields, Binding, Values

LEMMA ChosenTyped ==
  ASSUME NEW r \in Requests, r.op = "put", NEW kept \in KeptFields PROVE Chosen(r, kept) \in Binding
  BY PutTyped DEF Chosen, Kept, KeptFields, Binding

LEMMA PutTypes == ASSUME Typed, NEW s \in Slots, Put(s) PROVE Typed'
  <1> USE DEF Typed, RegistryTypeOK
  <1>0. At(s, "put", call[s].pc) /\ call[s].pc \in {"start", "lock", "read", "subnet", "secret", "write"}
        /\ UNCHANGED bindingsOnly
    BY DEF Put, PutChecks, PutLock, PutReads, PutSubnet, PutSecret, PutWrite, At
  <1>1. call[s] \in Call /\ call[s].req \in Requests /\ call[s].req \in workload /\ call[s].req.op = "put"
    BY <1>0, Serving DEF At
  <1>2. workload' = workload
    BY <1>0 DEF bindingsOnly, calling
  <1>3. \A pc \in {"lock", "read"} : CallOK([call[s] EXCEPT !.pc = pc])
    BY <1>1 DEF CallOK, Call
  <1>4. CASE PutChecks(s)
    BY <1>2, <1>3, <1>4, DoneMoves, GotoMoves
    DEF PutChecks, GoOnIf, bindingsOnly, calling, fleet, catalogs, Statements
  <1>5. CASE PutLock(s)
    BY <1>2, <1>3, <1>5, GotoMoves DEF PutLock, bindingsOnly, calling, fleet, catalogs, Statements
  <1>6. CASE PutReads(s)
    <2> DEFINE k == Existing(binding[call[s].req.machine])
    <2>1. k \in KeptFields
      BY <1>1, PutTyped, ExistingTyped
    <2> HIDE DEF k
    <2>2. CallOK([call[s] EXCEPT !.pc = "subnet", !.seen = k])
      BY <1>1, <2>1 DEF CallOK, Call
    <2>3. Done(s) \/ GotoWith(s, "subnet", k)
      BY <1>6 DEF PutReads, Refuse, k
    <2>4. call' \in [Slots -> Call] /\ CallsOK'
      BY <1>2, <2>1, <2>2, <2>3, DoneMoves, GotoWithMoves DEF Statements, SeenValues
    <2> QED
      BY <1>6, <2>4 DEF PutReads, Refuse, bindingsOnly, calling, fleet, catalogs
  <1>7. CASE PutSubnet(s)
    <2>1. CallOK([call[s] EXCEPT !.pc = "secret"])
      BY <1>1, <1>7 DEF CallOK, Call, CallsOK, PutSubnet, At
    <2>2. Done(s) \/ Goto(s, "secret")
      BY <1>7 DEF PutSubnet, Refuse
    <2>3. call' \in [Slots -> Call] /\ CallsOK'
      BY <1>2, <2>1, <2>2, DoneMoves, GotoMoves DEF Statements
    <2> QED
      BY <1>7, <2>3 DEF PutSubnet, Refuse, bindingsOnly, calling, fleet, catalogs
  <1>8. CASE PutSecret(s)
    <2> DEFINE k == [call[s].seen EXCEPT !.secret = Existing(binding[call[s].req.machine]).secret]
    <2>1. k \in KeptFields
      <3>1. call[s].seen \in KeptFields
        BY <1>1, <1>8 DEF CallsOK, CallOK, PutSecret, At
      <3>2. Existing(binding[call[s].req.machine]) \in KeptFields
        BY <1>1, PutTyped, ExistingTyped
      <3> QED
        BY <3>1, <3>2 DEF KeptFields
    <2>2. GotoWith(s, "write", k)
      BY <1>8 DEF PutSecret
    <2> HIDE DEF k
    <2>3. CallOK([call[s] EXCEPT !.pc = "write", !.seen = k])
      BY <1>1, <2>1 DEF CallOK, Call
    <2>4. call' \in [Slots -> Call] /\ CallsOK'
      BY <1>2, <2>1, <2>2, <2>3, GotoWithMoves DEF Statements, SeenValues
    <2> QED
      BY <1>8, <2>4 DEF PutSecret, bindingsOnly, calling, fleet, catalogs
  <1>9. CASE PutWrite(s)
    <2>1. call' \in [Slots -> Call] /\ CallsOK'
      BY <1>2, <1>9, DoneMoves DEF PutWrite, Refuse
    <2>2. Chosen(call[s].req, call[s].seen) \in Binding
      BY <1>1, <1>9, ChosenTyped DEF CallsOK, CallOK, PutWrite, At
    <2>3. binding' \in [Machines -> Binding \cup {Nil}]
      BY <1>9, <2>2 DEF PutWrite
    <2> QED
      BY <1>9, <2>1, <2>3 DEF PutWrite, Refuse, bindingsOnly, calling, fleet, catalogs
  <1> QED
    BY <1>4, <1>5, <1>6, <1>7, <1>8, <1>9 DEF Put

LEMMA DeleteBindingsTyped ==
  ASSUME Typed, NEW ms, DeleteBindings(ms) PROVE binding' \in [Machines -> Binding \cup {Nil}]
  BY DEF Typed, RegistryTypeOK, DeleteBindings

LEMMA CatalogTypes == ASSUME Typed, NEW s \in Slots, Catalogs(s) PROVE Typed'
  <1> USE DEF Typed, RegistryTypeOK
  <1>0. call[s].pc # "idle"
    BY DEF Catalogs, Unbind, CreateKey, CreateSubnet, CreateProfile, Create, UpdateKey, UpdateSubnet, UpdateProfile,
           UpdateReads, UpdateWrite, DropKeyLock, DropKeyCount, DropKeyDelete, DropSubnetCount, DropSubnetDelete,
           DropProfileBindings, DropProfileJobs, DropProfileDelete, At
  <1>1. call[s] \in Call /\ call[s].req \in Requests /\ call[s].req \in workload
    BY <1>0, Serving
  <1>2. ASSUME NEW pc \in Statements, call[s].req.op \in {"drop key", "drop subnet", "drop profile"}
        PROVE  CallOK([call[s] EXCEPT !.pc = pc])
    BY <1>1, <1>2 DEF CallOK, Call
  <1>3. CASE Unbind(s)
    BY <1>3, DoneMoves, DeleteBindingsTyped DEF Unbind, bindingsOnly, calling, fleet, catalogs
  <1>4. ASSUME NEW table, Create(s, table) PROVE Typed'
    <2>1. call[s].req.id \in Catalog
      BY <1>1, <1>4, CreateTyped, RegistryConstants DEF Create, At
    <2> QED
      BY <1>4, <2>1, DoneMoves DEF Create, bindingsOnly, calling, fleet
  <1>5. ASSUME NEW table, UpdateReads(s, table) PROVE Typed'
    <2> DEFINE k == row[call[s].req.id]
    <2>1. call[s].req.op = "update" /\ k \in Row
      BY <1>1, <1>5, UpdateTyped DEF UpdateReads, At
    <2>2. Done(s) \/ GotoWith(s, "write", k)
      BY <1>5 DEF UpdateReads
    <2> HIDE DEF k
    <2>3. CallOK([call[s] EXCEPT !.pc = "write", !.seen = k])
      BY <1>1, <2>1 DEF CallOK, Call
    <2>4. workload' = workload
      BY <1>5 DEF UpdateReads, bindingsOnly, calling
    <2>5. call' \in [Slots -> Call] /\ CallsOK'
      BY <2>1, <2>2, <2>3, <2>4, DoneMoves, GotoWithMoves DEF Statements, SeenValues
    <2> QED
      BY <1>5, <2>5 DEF UpdateReads, bindingsOnly, calling, fleet, catalogs
  <1>6. ASSUME NEW table, UpdateWrite(s, table) PROVE Typed'
    <2>1. call[s].req.op = "update" /\ call[s].req.id \in Catalog /\ call[s].req.value \in Values /\ call[s].seen \in Row
      BY <1>1, <1>6, UpdateTyped DEF UpdateWrite, At, CallsOK, CallOK
    <2>2. [call[s].seen EXCEPT ![call[s].req.field] = call[s].req.value] \in Row
      BY <2>1 DEF Row
    <2>3. row' \in [Catalog -> Row]
      BY <1>6, <2>2 DEF UpdateWrite
    <2> QED
      BY <1>6, <2>3, DoneMoves DEF UpdateWrite, bindingsOnly, calling, fleet
  <1>7. CASE DropKeyLock(s)
    BY <1>2, <1>7, GotoMoves DEF DropKeyLock, At, Statements, bindingsOnly, calling, fleet, catalogs
  <1>8. CASE DropKeyCount(s)
    BY <1>2, <1>8, DoneMoves, GotoMoves DEF DropKeyCount, Refuse, At, Statements, bindingsOnly, calling, fleet, catalogs
  <1>9. CASE DropKeyDelete(s)
    BY <1>9, DoneMoves DEF DropKeyDelete, Refuse, bindingsOnly, calling, fleet
  <1>10. CASE DropSubnetCount(s)
    BY <1>2, <1>10, DoneMoves, GotoMoves DEF DropSubnetCount, GoOnIf, At, Statements, bindingsOnly, calling, fleet, catalogs
  <1>11. CASE DropSubnetDelete(s)
    BY <1>11, DoneMoves DEF DropSubnetDelete, bindingsOnly, calling, fleet
  <1>12. CASE DropProfileBindings(s)
    BY <1>2, <1>12, GotoMoves, DeleteBindingsTyped
    DEF DropProfileBindings, At, Statements, bindingsOnly, calling, fleet, catalogs
  <1>13. CASE DropProfileJobs(s)
    <2>1. active' \in [Machines -> Profiles \cup {Nil}]
      BY <1>13 DEF DropProfileJobs
    <2> QED
      BY <1>2, <1>13, <2>1, GotoMoves DEF DropProfileJobs, At, Statements, calling, catalogs
  <1>14. CASE DropProfileDelete(s)
    BY <1>14, DoneMoves DEF DropProfileDelete, bindingsOnly, calling, fleet
  <1> QED
    BY <1>3, <1>4, <1>5, <1>6, <1>7, <1>8, <1>9, <1>10, <1>11, <1>12, <1>13, <1>14
    DEF Catalogs, CreateKey, CreateSubnet, CreateProfile, UpdateKey, UpdateSubnet, UpdateProfile

(* The registration of a credential.                                       *)
LEMMA RegisterTypes == ASSUME Typed, NEW s \in Slots, Register(s) PROVE Typed'
  <1> USE DEF Typed, RegistryTypeOK
  <1>0. call[s].pc # "idle" /\ call[s].req.op = "register" /\ UNCHANGED bmcOnly
    BY DEF Register, RegisterChecks, EnsureLooks, EnsureInserts, RegisterConflict, RegisterExists, RegisterWrite, At
  <1>1. call[s] \in Call /\ call[s].req \in Requests /\ call[s].req \in workload
        /\ call[s].req.owner \in Owners /\ call[s].req.ip \in Ips
    BY <1>0, Serving, RegisterTyped
  <1>2. workload' = workload
    BY <1>0 DEF bmcOnly, calling
  <1>3. EncodesIp(call[s].req) => \A pc \in Statements : CallOK([call[s] EXCEPT !.pc = pc])
    BY <1>0, <1>1 DEF CallOK, Call
  <1>4. call[s].pc # "start" => EncodesIp(call[s].req)
    BY <1>0 DEF CallsOK, CallOK
  <1>5. CASE RegisterChecks(s)
    <2>1. call' \in [Slots -> Call] /\ CallsOK'
      BY <1>2, <1>3, <1>5, DoneMoves, GotoMoves DEF RegisterChecks, GoOnIf, Statements
    <2> QED
      BY <1>5, <2>1 DEF RegisterChecks, bmcOnly, calling, fleet, catalogs
  <1>6. CASE EnsureLooks(s)
    <2>1. call' \in [Slots -> Call] /\ CallsOK'
      BY <1>2, <1>3, <1>4, <1>6, DoneMoves, GotoMoves DEF EnsureLooks, GoOnIf, Statements, At
    <2> QED
      BY <1>6, <2>1 DEF EnsureLooks, bmcOnly, calling, fleet, catalogs
  <1>7. CASE EnsureInserts(s)
    <2>1. call' \in [Slots -> Call] /\ CallsOK'
      BY <1>2, <1>3, <1>4, <1>7, DoneMoves, GotoMoves DEF EnsureInserts, GoOnIf, Statements, At
    <2> QED
      BY <1>1, <1>7, <2>1 DEF EnsureInserts, StubKey, bmcOnly, calling, catalogs
  <1>8. CASE RegisterConflict(s)
    <2>1. call' \in [Slots -> Call] /\ CallsOK'
      BY <1>2, <1>3, <1>4, <1>8, DoneMoves, GotoMoves DEF RegisterConflict, Rejected, Statements, At
    <2> QED
      BY <1>8, <2>1 DEF RegisterConflict, bmcOnly, calling, fleet, catalogs
  <1>9. CASE RegisterExists(s)
    <2>1. call' \in [Slots -> Call] /\ CallsOK'
      BY <1>2, <1>3, <1>4, <1>9, DoneMoves, GotoMoves DEF RegisterExists, Rejected, Statements, At
    <2> QED
      BY <1>9, <2>1 DEF RegisterExists, bmcOnly, calling, fleet, catalogs
  <1>10. CASE RegisterWrite(s)
    <2>1. call' \in [Slots -> Call] /\ CallsOK'
      BY <1>2, <1>10, DoneMoves DEF RegisterWrite, Rejected
    <2>2. cred' \in [Owners -> Ips \cup {Nil}]
      BY <1>1, <1>10 DEF RegisterWrite
    <2> QED
      BY <1>10, <2>1, <2>2 DEF RegisterWrite, bmcOnly, calling, fleet, catalogs
  <1> QED
    BY <1>5, <1>6, <1>7, <1>8, <1>9, <1>10 DEF Register

LEMMA MoveTyped ==
  ASSUME Typed, NEW from \in Owners, NEW m \in Machines, Move(from, m) \/ UNCHANGED <<cred, machines>>
  PROVE  cred' \in [Owners -> Ips \cup {Nil}] /\ machines' \subseteq Owners
  BY DEF Move, Typed, RegistryTypeOK, Owners

LEMMA CascadeTyped == ASSUME Typed, NEW o, Cascade(o) PROVE cred' \in [Owners -> Ips \cup {Nil}]
  BY DEF Cascade, Typed, RegistryTypeOK

(* Reports, pairing, retirement and the deletion of credentials.           *)
LEMMA FleetTypes == ASSUME Typed, NEW s \in Slots, Fleet(s) PROVE Typed'
  <1> USE DEF Typed, RegistryTypeOK
  <1>0. call[s].pc # "idle"
    BY DEF Fleet, UnregisterCredential, UnregisterStub, ReportSave, ReportReconcile, PairReads, PairFinds, PairMoves,
           RetireChecks, RetireBinding, RetireMachine, Job, At
  <1>1. call[s] \in Call /\ call[s].req \in Requests /\ call[s].req \in workload
    BY <1>0, Serving
  <1>2. ASSUME NEW pc \in Statements, call[s].req.op \in {"report", "retire", "job"},
               pc = "reconcile" => call[s].req.ip \in Ips
        PROVE  CallOK([call[s] EXCEPT !.pc = pc])
    BY <1>1, <1>2 DEF CallOK, Call
  <1>3. CASE UnregisterCredential(s)
    <2>1. IsStub(call[s].req.owner) => CallOK([call[s] EXCEPT !.pc = "machine"])
      BY <1>1, <1>3 DEF CallOK, Call, UnregisterCredential, At
    <2>2. call' \in [Slots -> Call] /\ CallsOK'
      BY <1>3, <2>1, DoneMoves, GotoMoves DEF UnregisterCredential, GoOnIf, Statements, bmcOnly, calling
    <2>3. cred' \in [Owners -> Ips \cup {Nil}]
      BY <1>3 DEF UnregisterCredential
    <2> QED
      BY <1>3, <2>2, <2>3 DEF UnregisterCredential, bmcOnly, calling, fleet, catalogs
  <1>4. CASE UnregisterStub(s)
    BY <1>4, DoneMoves, CascadeTyped DEF UnregisterStub, bmcOnly, calling, catalogs
  <1>5. CASE ReportSave(s)
    <2>1. call[s].req.machine \in Machines /\ call[s].req.ip \in Ips \cup {Nil}
      BY <1>1, <1>5, ReportTyped DEF ReportSave, At
    <2>2. call[s].req.ip # Nil => CallOK([call[s] EXCEPT !.pc = "reconcile"])
      BY <1>1, <1>5, <2>1 DEF ReportSave, At, CallOK, Call
    <2>3. Done(s) \/ (call[s].req.ip # Nil /\ Goto(s, "reconcile"))
      BY <1>5 DEF ReportSave, GoOnIf
    <2>4. workload' = workload
      BY <1>5 DEF ReportSave, bmcOnly, calling
    <2>5. call' \in [Slots -> Call] /\ CallsOK'
      BY <2>2, <2>3, <2>4, DoneMoves, GotoMoves DEF Statements
    <2> QED
      BY <1>5, <2>1, <2>5 DEF ReportSave, Owners, bmcOnly, calling, catalogs
  <1>6. CASE ReportReconcile(s)
    <2>1. call[s].req.machine \in Machines
      BY <1>1, <1>6, ReportTyped DEF ReportReconcile, At
    <2>2. CASE call[s].req.ip \in Ips
      <3>1. Placeholder(call[s].req.ip) \in Owners
        BY <2>2 DEF Owners, Stubs
      <3>2. cred' \in [Owners -> Ips \cup {Nil}] /\ machines' \subseteq Owners
        BY <1>6, <2>1, <3>1, MoveTyped DEF ReportReconcile
      <3> QED
        BY <1>6, <3>2, DoneMoves DEF ReportReconcile, bmcOnly, calling, catalogs
    <2>3. call[s].req.ip \in Ips
      BY <1>6 DEF ReportReconcile, At, CallsOK, CallOK
    <2> QED
      BY <2>2, <2>3
  <1>7. CASE PairReads(s)
    <2>1. call[s].req.machine \in Machines /\ call[s].req.op = "pair"
      BY <1>1, <1>7, OnMachineTyped DEF PairReads, At
    <2>2. Done(s) \/ (reported[call[s].req.machine] # Nil /\ GotoWith(s, "find", reported[call[s].req.machine]))
      BY <1>7 DEF PairReads
    <2>3. reported[call[s].req.machine] \in Ips => CallOK([call[s] EXCEPT !.pc = "find", !.seen = reported[call[s].req.machine]])
      BY <1>1, <2>1 DEF CallOK, Call
    <2>4. call' \in [Slots -> Call] /\ CallsOK'
      BY <1>7, <2>1, <2>2, <2>3, DoneMoves, GotoWithMoves DEF PairReads, Statements, SeenValues, bmcOnly, calling
    <2> QED
      BY <1>7, <2>4 DEF PairReads, bmcOnly, calling, fleet, catalogs
  <1>8. CASE PairFinds(s)
    <2>1. Done(s) \/ \E u \in Owners \ {call[s].req.machine} : GotoWith(s, "move", u)
      BY <1>8 DEF PairFinds, Holders
    <2>2. \A u \in Owners \ {call[s].req.machine} : CallOK([call[s] EXCEPT !.pc = "move", !.seen = u])
      BY <1>1, <1>8 DEF CallOK, Call, PairFinds, At
    <2>3. call' \in [Slots -> Call] /\ CallsOK'
      BY <1>8, <2>1, <2>2, DoneMoves, GotoWithMoves DEF PairFinds, Statements, SeenValues, bmcOnly, calling
    <2> QED
      BY <1>8, <2>3 DEF PairFinds, bmcOnly, calling, fleet, catalogs
  <1>9. CASE PairMoves(s)
    <2>1. call[s].req.machine \in Machines /\ call[s].seen \in Owners
      BY <1>1, <1>9, OnMachineTyped DEF PairMoves, At, CallsOK, CallOK
    <2>2. cred' \in [Owners -> Ips \cup {Nil}] /\ machines' \subseteq Owners
      BY <1>9, <2>1, MoveTyped DEF PairMoves
    <2> QED
      BY <1>9, <2>2, DoneMoves DEF PairMoves, bmcOnly, calling, catalogs
  <1>10. CASE RetireChecks(s)
    BY <1>2, <1>10, DoneMoves, GotoMoves DEF RetireChecks, GoOnIf, At, Statements, bmcOnly, calling, fleet, catalogs
  <1>11. CASE RetireBinding(s)
    BY <1>2, <1>11, GotoMoves, DeleteBindingsTyped
    DEF RetireBinding, At, Statements, bindingsOnly, calling, fleet, catalogs
  <1>12. CASE RetireMachine(s)
    <2>1. reported' \in [Machines -> Ips \cup {Nil}] /\ active' \in [Machines -> Profiles \cup {Nil}]
      BY <1>12 DEF RetireMachine, fleet
    <2>2. cred' \in [Owners -> Ips \cup {Nil}] /\ machines' \subseteq Owners
      BY <1>12, CascadeTyped DEF RetireMachine, fleet
    <2> QED
      BY <1>12, <2>1, <2>2, DoneMoves DEF RetireMachine, bmcOnly, calling, catalogs
  <1>13. CASE Job(s)
    <2>1. active' \in [Machines -> Profiles \cup {Nil}]
      BY <1>13 DEF Job, Bound, Binding
    <2> QED
      BY <1>13, <2>1, DoneMoves DEF Job, bmcOnly, calling, catalogs
  <1> QED
    BY <1>3, <1>4, <1>5, <1>6, <1>7, <1>8, <1>9, <1>10, <1>11, <1>12, <1>13 DEF Fleet

LEMMA TypedInit == Init => Typed
  <1> SUFFICES ASSUME Init PROVE Typed
    OBVIOUS
  <1>1. calls \in 0..MaxCalls /\ [m \in Machines |-> Nil] \in [Machines -> Binding \cup {Nil}]
    BY RegistryConstants DEF Init
  <1>2. [id \in Catalog |-> [f \in Fields |-> 0]] \in [Catalog -> Row]
    BY DEF Row, Values
  <1> QED
    BY <1>1, <1>2, IdleOK DEF Init, Typed, RegistryTypeOK, CallsOK, Idle

LEMMA TypedStep == Typed /\ [Next]_vars => Typed'
  <1> SUFFICES ASSUME Typed, [Next]_vars PROVE Typed'
    OBVIOUS
  <1>1. CASE UNCHANGED vars
    BY <1>1 DEF vars, calling, fleet, catalogs, Typed, RegistryTypeOK, CallsOK, CallOK
  <1>2. CASE Next
    BY <1>1, <1>2, RequestTyped, PutTypes, CatalogTypes, RegisterTypes, FleetTypes DEF Next, Finished
  <1> QED
    BY <1>1, <1>2

(* Every table keeps its columns' types, and every call works on what its  *)
(* earlier statements have read, whatever the others do meanwhile.         *)
THEOREM RegistryTypeCorrect == Spec => []RegistryTypeOK
  <1>1. Typed => RegistryTypeOK
    BY DEF Typed
  <1> QED
    BY <1>1, TypedInit, TypedStep, PTL DEF Spec

-----------------------------------------------------------------------------
(* What a step of a call leaves alone.                                     *)
LEMMA CallGoesOn ==
  ASSUME Typed, NEW s \in Slots,
         Done(s) \/ (\E pc : Goto(s, pc)) \/ (\E pc, seen : GotoWith(s, pc, seen))
  PROVE  /\ call'[s] = Idle \/ call'[s].req = call[s].req
         /\ \A t \in Slots : t # s => call'[t] = call[t]
  <1>1. call[s] \in Call /\ call \in [Slots -> Call]
    BY DEF Typed, RegistryTypeOK
  <1>2. CASE Done(s)
    BY <1>1, <1>2 DEF Done
  <1>3. ASSUME NEW pc, Goto(s, pc) PROVE call'[s].req = call[s].req /\ \A t \in Slots : t # s => call'[t] = call[t]
    BY <1>1, <1>3 DEF Goto, Call
  <1>4. ASSUME NEW pc, NEW seen, GotoWith(s, pc, seen)
        PROVE  call'[s].req = call[s].req /\ \A t \in Slots : t # s => call'[t] = call[t]
    BY <1>1, <1>4 DEF GotoWith, Call
  <1> QED
    BY <1>2, <1>3, <1>4

LEMMA RegisterCalls ==
  ASSUME Typed, NEW s \in Slots, Register(s)
  PROVE  /\ call[s].req.op = "register" /\ call[s].pc # "idle"
         /\ call'[s] = Idle \/ call'[s].req = call[s].req
         /\ \A t \in Slots : t # s => call'[t] = call[t]
         /\ UNCHANGED bmcOnly /\ machines \subseteq machines'
  <1>1. Done(s) \/ \E pc : Goto(s, pc)
    BY DEF Register, RegisterChecks, EnsureLooks, EnsureInserts, RegisterConflict, RegisterExists, RegisterWrite,
           GoOnIf, Rejected
  <1>2. call[s].req.op = "register" /\ call[s].pc # "idle" /\ UNCHANGED bmcOnly /\ machines \subseteq machines'
    BY DEF Register, RegisterChecks, EnsureLooks, EnsureInserts, RegisterConflict, RegisterExists, RegisterWrite, At, fleet
  <1> QED
    BY <1>1, <1>2, CallGoesOn

FleetOps == {"unregister", "report", "pair", "retire", "job"}
LEMMA FleetCalls ==
  ASSUME Typed, NEW s \in Slots, Fleet(s)
  PROVE  /\ call[s].req.op \in FleetOps /\ call[s].pc # "idle"
         /\ call'[s] = Idle \/ call'[s].req = call[s].req
         /\ \A t \in Slots : t # s => call'[t] = call[t]
         /\ UNCHANGED <<calling, catalogs, lock>>
         /\ UNCHANGED <<binding, choiceHistory>> \/ RetireBinding(s)
  <1>1. Done(s) \/ (\E pc : Goto(s, pc)) \/ (\E pc, seen : GotoWith(s, pc, seen))
    BY DEF Fleet, UnregisterCredential, UnregisterStub, ReportSave, ReportReconcile, PairReads, PairFinds, PairMoves,
           RetireChecks, RetireBinding, RetireMachine, Job, GoOnIf
  <1>2. /\ call[s].req.op \in FleetOps /\ call[s].pc # "idle"
        /\ UNCHANGED <<calling, catalogs, lock>>
        /\ UNCHANGED <<binding, choiceHistory>> \/ RetireBinding(s)
    BY DEF Fleet, UnregisterCredential, UnregisterStub, ReportSave, ReportReconcile, PairReads, PairFinds, PairMoves,
           RetireChecks, RetireBinding, RetireMachine, Job, At, FleetOps, bmcOnly, bindingsOnly
  <1> QED
    BY <1>1, <1>2, CallGoesOn

-----------------------------------------------------------------------------
(* Bindings resolve.  allocMu covers a PUT from its read of the binding to *)
(* its write, and the deletion of a key from the count to the DELETE; so   *)
(* the keys a PUT will write stay there, and a key that was counted unused *)
(* stays unused.                                                           *)
Critical(c) ==
  \/ c.req.op = "put" /\ c.pc \in {"read", "subnet", "secret", "write"}
  \/ c.req.op = "drop key" /\ c.pc \in {"count", "delete"}
Writing(c) == c.req.op = "put" /\ c.pc \in {"subnet", "secret", "write"}
Dropping(c) == c.req.op = "drop key" /\ c.pc = "delete"

OneCritical == \A s \in Slots : Critical(call[s]) => lock = s
KeysStay == \A s \in Slots : Writing(call[s]) => call[s].seen.keys \subseteq live /\ KeysKnown(call[s].req)
UnusedStay == \A s \in Slots : Dropping(call[s]) => UsersOfKey(call[s].req.id) = {}
BindInv == Typed /\ OneCritical /\ KeysStay /\ UnusedStay /\ BindingsResolve

LEMMA IdleNotCritical == ~Critical(Idle) /\ ~Writing(Idle) /\ ~Dropping(Idle)
  BY DEF Idle, Critical, Writing, Dropping

LEMMA WritingIsCritical == ASSUME NEW c PROVE (Writing(c) => Critical(c)) /\ (Dropping(c) => Critical(c))
  BY DEF Writing, Dropping, Critical

(* Steps that take nothing away from a binding that stays.                 *)
LEMMA Harmless ==
  ASSUME BindInv, NEW s \in Slots,
         \A t \in Slots : t # s => call'[t] = call[t],
         ~Critical(call'[s]),
         lock' = lock \/ (lock' = Nil /\ lock = s),
         \A k \in Keys : k \in live => k \in live',
         \A m \in Machines : /\ binding'[m] = binding[m] \/ binding'[m] = Nil
                             /\ binding'[m] # Nil /\ m \in machines => m \in machines'
                             /\ binding'[m] # Nil /\ binding[m].profile \in live => binding[m].profile \in live'
  PROVE  OneCritical' /\ KeysStay' /\ UnusedStay' /\ BindingsResolve'
  <1> USE DEF BindInv
  <1>1. ~Writing(call'[s]) /\ ~Dropping(call'[s])
    BY WritingIsCritical
  <1>2. OneCritical'
    BY DEF OneCritical
  <1>3. ASSUME NEW t \in Slots, Writing(call'[t]) PROVE (call[t].seen.keys \subseteq live /\ KeysKnown(call[t].req))'
    <2>1. t # s /\ call'[t] = call[t] /\ Writing(call[t])
      BY <1>1, <1>3
    <2>2. call[t].seen.keys \subseteq live /\ KeysKnown(call[t].req)
      BY <2>1 DEF KeysStay
    <2>3. call[t].pc # "idle" /\ call[t].req.op = "put"
      BY <2>1 DEF Writing
    <2>4. call[t].seen \in KeptFields /\ call[t].req \in Requests
      BY <2>1, <2>3, Serving DEF Typed, CallsOK, CallOK, Writing
    <2>5. call[t].seen.keys \subseteq Keys /\ (call[t].req.keys # Keep => call[t].req.keys \subseteq Keys)
      BY <2>3, <2>4, PutTyped DEF KeptFields
    <2> QED
      BY <2>1, <2>2, <2>5 DEF KeysKnown
  <1>4. KeysStay'
    BY <1>3 DEF KeysStay
  <1>5. \A id : UsersOfKey(id) = {} => UsersOfKey(id)' = {}
    BY DEF UsersOfKey, Bound
  <1>6. UnusedStay'
    BY <1>1, <1>5 DEF UnusedStay
  <1>7. BindingsResolve'
    <2>1. \A m \in Machines : binding[m] # Nil => binding[m].keys \subseteq Keys
      BY DEF Typed, RegistryTypeOK, Binding
    <2> QED
      BY <2>1 DEF BindingsResolve, Bound
  <1> QED
    BY <1>2, <1>4, <1>6, <1>7

LEMMA NotStub == ASSUME NEW m \in Machines PROVE m \notin Stubs
  BY RegistryConstants

(* A machine that is bound is not removed: stubs are no machines, and a    *)
(* retirement that finds a binding stops at the foreign key.               *)
LEMMA FleetKeepsBound ==
  ASSUME Typed, NEW s \in Slots, Fleet(s), NEW m \in Machines, m \in machines, binding'[m] # Nil
  PROVE  m \in machines'
  <1>1. m \notin Stubs
    BY NotStub
  <1>2. CASE UnregisterStub(s)
    <2>1. IsStub(call[s].req.owner)
      BY <1>2 DEF UnregisterStub, At, Typed, CallsOK, CallOK
    <2> QED
      BY <1>1, <1>2, <2>1 DEF UnregisterStub, IsStub
  <1>3. CASE RetireMachine(s)
    BY <1>3 DEF RetireMachine, Bound, bmcOnly, fleet
  <1>4. CASE ReportReconcile(s) \/ PairMoves(s)
    BY <1>1, <1>4 DEF ReportReconcile, PairMoves, Move
  <1> QED
    BY <1>2, <1>3, <1>4 DEF Fleet, UnregisterCredential, ReportSave, PairReads, PairFinds, RetireChecks, RetireBinding, Job,
                            fleet, bindingsOnly

LEMMA FleetResolves ==
  ASSUME BindInv, NEW s \in Slots, Fleet(s) PROVE OneCritical' /\ KeysStay' /\ UnusedStay' /\ BindingsResolve'
  <1>1. ~Critical(call'[s])
    BY FleetCalls, IdleNotCritical DEF BindInv, Critical, FleetOps
  <1>2. UNCHANGED <<lock, live>> /\ \A t \in Slots : t # s => call'[t] = call[t]
    BY FleetCalls DEF BindInv, catalogs
  <1>3. \A m \in Machines : binding'[m] = binding[m] \/ binding'[m] = Nil
    BY FleetCalls DEF BindInv, RetireBinding, DeleteBindings
  <1>4. \A m \in Machines : binding'[m] # Nil /\ m \in machines => m \in machines'
    BY FleetKeepsBound DEF BindInv
  <1> QED
    BY <1>1, <1>2, <1>3, <1>4, Harmless

LEMMA OthersResolve ==
  ASSUME BindInv, NEW s \in Slots, Register(s) \/ \E r \in workload : Request(s, r)
  PROVE  OneCritical' /\ KeysStay' /\ UnusedStay' /\ BindingsResolve'
  <1>1. CASE Register(s)
    <2>1. ~Critical(call'[s])
      BY <1>1, RegisterCalls, IdleNotCritical DEF BindInv, Critical
    <2>2. UNCHANGED <<lock, live, binding>> /\ machines \subseteq machines' /\ \A t \in Slots : t # s => call'[t] = call[t]
      BY <1>1, RegisterCalls DEF BindInv, bmcOnly, catalogs
    <2> QED
      BY <2>1, <2>2, Harmless
  <1>2. ASSUME NEW r \in workload, Request(s, r) PROVE OneCritical' /\ KeysStay' /\ UnusedStay' /\ BindingsResolve'
    <2>1. call'[s].pc = "start" /\ \A t \in Slots : t # s => call'[t] = call[t]
      BY <1>2 DEF Request, BindInv, Typed, RegistryTypeOK
    <2>2. ~Critical(call'[s])
      BY <2>1 DEF Critical
    <2>3. UNCHANGED <<lock, live, binding, machines>>
      BY <1>2 DEF Request, catalogs, fleet
    <2> QED
      BY <2>1, <2>2, <2>3, Harmless
  <1> QED
    BY <1>1, <1>2

(* A PUT: under the lock, its keys are checked, and written.               *)
LEMMA PutResolves ==
  ASSUME BindInv, NEW s \in Slots, Put(s) PROVE OneCritical' /\ KeysStay' /\ UnusedStay' /\ BindingsResolve'
  <1> USE DEF BindInv
  <1> DEFINE r == call[s].req
  <1>0. r.op = "put" /\ call[s].pc # "idle" /\ UNCHANGED <<live, machines>>
    BY DEF Put, PutChecks, PutLock, PutReads, PutSubnet, PutSecret, PutWrite, At, bindingsOnly, fleet, catalogs
  <1>1. call[s] \in Call /\ call \in [Slots -> Call] /\ r \in Requests
    BY <1>0, Serving DEF Typed, RegistryTypeOK
  <1>2. \A t \in Slots : t # s => call'[t] = call[t]
    <2>1. Done(s) \/ (\E pc : Goto(s, pc)) \/ (\E pc, seen : GotoWith(s, pc, seen))
      BY DEF Put, PutChecks, PutLock, PutReads, PutSubnet, PutSecret, PutWrite, GoOnIf, Refuse
    <2> QED
      BY <2>1, CallGoesOn
  <1>3. ASSUME Done(s), lock' = Nil, lock = s, UNCHANGED binding
        PROVE  OneCritical' /\ KeysStay' /\ UnusedStay' /\ BindingsResolve'
    <2>1. ~Critical(call'[s])
      BY <1>1, <1>3, IdleNotCritical DEF Done
    <2> QED
      BY <1>0, <1>2, <1>3, <2>1, Harmless
  <1>4. CASE PutChecks(s)
    <2>1. call'[s] = Idle \/ call'[s].pc = "lock"
      BY <1>1, <1>4 DEF PutChecks, GoOnIf, Done, Goto, Call
    <2>2. ~Critical(call'[s])
      BY <2>1, IdleNotCritical DEF Critical
    <2> QED
      BY <1>0, <1>2, <1>4, <2>2, Harmless DEF PutChecks
  (* While s goes on with the lock, the others are not in their sections.  *)
  <1>5. ASSUME lock = Nil \/ lock = s, lock' = s, UNCHANGED binding,
               Writing(call'[s]) => call'[s].seen.keys \subseteq live /\ KeysKnown(call'[s].req), ~Dropping(call'[s])
        PROVE  OneCritical' /\ KeysStay' /\ UnusedStay' /\ BindingsResolve'
    <2>1. Nil \notin Slots
      BY RegistryConstants
    <2>2. \A t \in Slots : t # s => ~Critical(call[t])
      BY <1>5, <2>1 DEF OneCritical
    <2>3. OneCritical'
      BY <1>2, <1>5, <2>2 DEF OneCritical
    <2>4. KeysStay'
      BY <1>0, <1>2, <1>5, <2>2, WritingIsCritical DEF KeysStay, KeysKnown
    <2>5. UnusedStay'
      BY <1>2, <1>5, <2>2, WritingIsCritical DEF UnusedStay
    <2>6. BindingsResolve'
      BY <1>0, <1>5 DEF BindingsResolve, Bound
    <2> QED
      BY <2>3, <2>4, <2>5, <2>6
  <1>6. CASE PutLock(s)
    <2>1. call'[s].pc = "read"
      BY <1>1, <1>6 DEF PutLock, Goto, Call
    <2> QED
      BY <1>5, <1>6, <2>1 DEF PutLock, Writing, Dropping
  <1>7. ASSUME call[s].pc \in {"read", "subnet", "secret", "write"} PROVE lock = s
    BY <1>0, <1>7 DEF OneCritical, Critical
  <1>8. CASE PutReads(s)
    <2>1. lock = s
      BY <1>7, <1>8 DEF PutReads, At
    <2>2. CASE KeysKnown(r)
      <3>1. call'[s].pc = "subnet" /\ call'[s].req = r /\ call'[s].seen = Existing(binding[r.machine])
        BY <1>1, <1>8, <2>2 DEF PutReads, GotoWith, Call
      <3>2. Existing(binding[r.machine]).keys \subseteq live
        BY <1>0, <1>1, PutTyped DEF Existing, BindingsResolve, Bound
      <3> QED
        BY <1>0, <1>5, <1>8, <2>1, <2>2, <3>1, <3>2 DEF PutReads, Writing, Dropping
    <2>3. CASE ~KeysKnown(r)
      BY <1>3, <1>8, <2>1, <2>3 DEF PutReads, Refuse
    <2> QED
      BY <2>2, <2>3
  <1>9. CASE PutSubnet(s) \/ PutSecret(s)
    <2>1. lock = s /\ Writing(call[s]) /\ UNCHANGED binding
      BY <1>0, <1>7, <1>9 DEF PutSubnet, PutSecret, At, Writing
    <2>2. call[s].seen.keys \subseteq live /\ KeysKnown(r) /\ call[s].seen \in KeptFields
      BY <1>0, <2>1 DEF KeysStay, Writing, Typed, CallsOK, CallOK
    <2>3. CASE Refuse(s)
      BY <1>3, <2>1, <2>3 DEF Refuse
    <2>4. CASE Goto(s, "secret") /\ lock' = lock
      <3>1. call'[s].pc = "secret" /\ call'[s].req = r /\ call'[s].seen = call[s].seen
        BY <1>1, <2>4 DEF Goto, Call
      <3> QED
        BY <1>0, <1>5, <2>1, <2>2, <2>4, <3>1 DEF Writing, Dropping
    <2>5. CASE PutSecret(s)
      <3>1. call'[s].pc = "write" /\ call'[s].req = r /\ call'[s].seen.keys = call[s].seen.keys
        BY <1>1, <2>2, <2>5 DEF PutSecret, GotoWith, Call, KeptFields
      <3> QED
        BY <1>0, <1>5, <2>1, <2>2, <2>5, <3>1 DEF PutSecret, Writing, Dropping
    <2> QED
      BY <1>9, <2>3, <2>4, <2>5 DEF PutSubnet
  <1>10. CASE PutWrite(s)
    <2>1. lock = s /\ Writing(call[s])
      BY <1>0, <1>7, <1>10 DEF PutWrite, At, Writing
    <2>2. Chosen(r, call[s].seen).keys \subseteq live /\ Chosen(r, call[s].seen).profile = r.profile
      BY <2>1 DEF KeysStay, KeysKnown, Chosen, Kept
    <2>3. call'[s] = Idle /\ lock' = Nil
      BY <1>1, <1>10 DEF PutWrite, Refuse, Done
    <2>4. \A t \in Slots : ~Critical(call'[t])
      BY <1>2, <2>1, <2>3, IdleNotCritical DEF OneCritical
    <2>5. OneCritical' /\ KeysStay' /\ UnusedStay'
      BY <2>4, WritingIsCritical DEF OneCritical, KeysStay, UnusedStay
    <2>6. \A m \in Machines : \/ binding'[m] = binding[m]
                              \/ binding'[m] = Chosen(r, call[s].seen) /\ m \in machines /\ r.profile \in live
      BY <1>0, <1>1, <1>10, PutTyped DEF PutWrite, Typed, RegistryTypeOK
    <2>7. BindingsResolve'
      BY <1>0, <2>2, <2>6 DEF BindingsResolve, Bound
    <2> QED
      BY <2>5, <2>7
  <1> QED
    BY <1>4, <1>6, <1>8, <1>9, <1>10 DEF Put


(* The catalogs: all but the deletion of a key takes nothing a binding     *)
(* names, and that deletion holds the lock.                                *)
LEMMA CatalogCalls ==
  ASSUME Typed, NEW s \in Slots, Catalogs(s)
  PROVE  /\ call[s].pc # "idle" /\ call[s] \in Call /\ call \in [Slots -> Call]
         /\ call[s].req \in Requests /\ call[s].req.op \notin {"put", "register", "unregister", "report", "pair"}
         /\ call'[s] = Idle \/ call'[s].req = call[s].req
         /\ \A t \in Slots : t # s => call'[t] = call[t]
         /\ UNCHANGED <<calling, machines, reported, cred, credHistory>>
  <1> USE DEF Catalogs, Unbind, CreateKey, CreateSubnet, CreateProfile, Create, UpdateKey, UpdateSubnet, UpdateProfile,
           UpdateReads, UpdateWrite, DropKeyLock, DropKeyCount, DropKeyDelete, DropSubnetCount, DropSubnetDelete,
           DropProfileBindings, DropProfileJobs, DropProfileDelete
  <1>1. call[s].pc # "idle" /\ call[s].req.op \notin {"put", "register", "unregister", "report", "pair"}
    BY DEF At
  <1>2. Done(s) \/ (\E pc : Goto(s, pc)) \/ (\E pc, seen : GotoWith(s, pc, seen))
    BY DEF GoOnIf, Refuse
  <1>3. UNCHANGED <<calling, machines, reported, cred, credHistory>>
    BY DEF bindingsOnly, fleet
  <1> QED
    BY <1>1, <1>2, <1>3, CallGoesOn, Serving DEF Typed, RegistryTypeOK

LEMMA CatalogResolves ==
  ASSUME BindInv, NEW s \in Slots, Catalogs(s) PROVE OneCritical' /\ KeysStay' /\ UnusedStay' /\ BindingsResolve'
  <1> DEFINE id == call[s].req.id
  <1> DEFINE Safe == OneCritical' /\ KeysStay' /\ UnusedStay' /\ BindingsResolve'
  <1>0. Typed
    BY DEF BindInv
  <1>1. /\ call[s] \in Call /\ call \in [Slots -> Call] /\ call[s].req \in Requests
        /\ call'[s] = Idle \/ call'[s].req = call[s].req
        /\ \A t \in Slots : t # s => call'[t] = call[t]
        /\ machines' = machines
    BY <1>0, CatalogCalls
  <1>2. call[s].req.op \notin {"put", "drop key"} => ~Critical(call'[s])
    BY <1>1, <1>0, CatalogCalls, IdleNotCritical DEF Critical
  (* What leaves the keys and the profiles alone.                          *)
  <1>3. ASSUME ~Critical(call'[s]), lock' = lock, live \subseteq live',
               \A m \in Machines : binding'[m] = binding[m] \/ binding'[m] = Nil
        PROVE  Safe
    BY <1>1, <1>3, Harmless
  <1>4. CASE Unbind(s) \/ DropProfileBindings(s)
    BY <1>2, <1>3, <1>4 DEF Unbind, DropProfileBindings, At, DeleteBindings, catalogs
  <1>5. ASSUME NEW table, Create(s, table) \/ UpdateReads(s, table) \/ UpdateWrite(s, table) PROVE Safe
    <2>1. call[s].req.op \notin {"put", "drop key"} /\ live \subseteq live' /\ UNCHANGED <<lock, binding>>
      BY <1>5 DEF Create, UpdateReads, UpdateWrite, At, catalogs
    <2> QED
      BY <1>2, <1>3, <2>1
  <1>6. CASE DropSubnetCount(s) \/ DropProfileJobs(s)
    BY <1>2, <1>3, <1>6 DEF DropSubnetCount, DropProfileJobs, At, catalogs
  <1>7. CASE DropSubnetDelete(s)
    <2>1. id \in Subnets /\ ~Critical(call'[s]) /\ live' = live \ {id} /\ UNCHANGED <<lock, binding>>
      BY <1>1, <1>2, <1>7, DropTyped DEF DropSubnetDelete, At
    <2>2. id \notin Keys /\ id \notin Profiles
      BY <2>1, RegistryConstants
    <2>3. \A m \in Machines : binding'[m] # Nil => binding[m].profile \in Profiles
      BY <1>0, <2>1 DEF Typed, RegistryTypeOK, Binding
    <2> QED
      BY <1>1, <2>1, <2>2, <2>3, Harmless
  <1>8. CASE DropProfileDelete(s)
    <2>1. id \in Profiles /\ ~Critical(call'[s]) /\ UNCHANGED <<lock, binding>>
      BY <1>1, <1>2, <1>8, DropTyped DEF DropProfileDelete, At
    <2>2. id \notin Keys
      BY <2>1, RegistryConstants
    <2>3. live' = live \/ (live' = live \ {id} /\ UsersOfProfile(id) = {})
      BY <1>8 DEF DropProfileDelete
    <2>4. UsersOfProfile(id) = {} => \A m \in Machines : binding[m] # Nil => binding[m].profile # id
      BY DEF UsersOfProfile, Bound
    <2> HIDE DEF id
    <2>5. \A m \in Machines : binding'[m] # Nil /\ binding[m].profile \in live => binding[m].profile \in live'
      BY <2>1, <2>3, <2>4
    <2> QED
      BY <1>1, <2>1, <2>2, <2>3, <2>5, Harmless
  <1>9. ASSUME call[s].req.op = "drop key", call[s].pc \in {"count", "delete"} PROVE lock = s
    BY <1>9 DEF BindInv, OneCritical, Critical
  (* While s holds the lock, the others are not in their sections.         *)
  <1>10. ASSUME lock = Nil \/ lock = s PROVE \A t \in Slots : t # s => ~Critical(call[t]) /\ ~Critical(call'[t])
    <2>1. Nil \notin Slots
      BY RegistryConstants
    <2> QED
      BY <1>1, <1>10, <2>1 DEF BindInv, OneCritical
  <1>11. CASE DropKeyLock(s) \/ DropKeyCount(s)
    <2>1. /\ lock = Nil \/ lock = s
          /\ call[s].req.op = "drop key" /\ UNCHANGED <<live, binding>>
      BY <1>9, <1>11 DEF DropKeyLock, DropKeyCount, At, catalogs
    <2>2. CASE DropKeyCount(s) /\ Refuse(s)
      <3>1. call'[s] = Idle /\ lock' = Nil /\ lock = s
        BY <1>1, <1>9, <2>2 DEF Refuse, Done, DropKeyCount, At
      <3> QED
        BY <1>1, <2>1, <3>1, IdleNotCritical, Harmless
    <2>3. CASE ~(DropKeyCount(s) /\ Refuse(s))
      <3>1. lock' = s /\ call'[s].req = call[s].req /\ (call'[s].pc = "delete" => UsersOfKey(id) = {})
        BY <1>1, <1>9, <1>11, <2>3 DEF DropKeyLock, DropKeyCount, At, Goto, Call
      <3>2. OneCritical'
        BY <1>10, <2>1, <3>1 DEF OneCritical
      <3>3. KeysStay'
        BY <1>10, <2>1, <3>1, WritingIsCritical DEF KeysStay, Writing
      <3>4. \A k : UsersOfKey(k) = {} => UsersOfKey(k)' = {}
        BY <2>1 DEF UsersOfKey, Bound
      <3>5. UnusedStay'
        BY <1>10, <2>1, <3>1, <3>4, WritingIsCritical DEF UnusedStay, Dropping
      <3>6. BindingsResolve'
        BY <1>1, <2>1 DEF BindInv, BindingsResolve, Bound
      <3> QED
        BY <3>2, <3>3, <3>5, <3>6
    <2> QED
      BY <2>2, <2>3
  <1>12. CASE DropKeyDelete(s)
    <2>1. lock = s /\ Dropping(call[s]) /\ live' = live \ {id} /\ UNCHANGED binding /\ id \in Keys
      BY <1>1, <1>9, <1>12, DropTyped DEF DropKeyDelete, At, Dropping
    <2>2. UsersOfKey(id) = {} /\ id \notin Profiles
      BY <2>1, RegistryConstants DEF BindInv, UnusedStay
    <2>3. call'[s] = Idle /\ lock' = Nil
      BY <1>1, <1>12 DEF DropKeyDelete, Refuse, Done
    <2>4. \A t \in Slots : ~Critical(call'[t])
      BY <1>10, <2>1, <2>3, IdleNotCritical
    <2>5. OneCritical' /\ KeysStay' /\ UnusedStay'
      BY <2>4, WritingIsCritical DEF OneCritical, KeysStay, UnusedStay
    <2>6. \A m \in Machines : binding[m] # Nil => id \notin binding[m].keys /\ binding[m].profile \in Profiles
      BY <1>0, <2>2 DEF UsersOfKey, Bound, Typed, RegistryTypeOK, Binding
    <2> HIDE DEF id
    <2>7. BindingsResolve'
      BY <1>1, <2>1, <2>2, <2>6 DEF BindInv, BindingsResolve, Bound
    <2> QED
      BY <2>5, <2>7
  <1> QED
    BY <1>4, <1>5, <1>6, <1>7, <1>8, <1>11, <1>12
    DEF Catalogs, CreateKey, CreateSubnet, CreateProfile, UpdateKey, UpdateSubnet, UpdateProfile

LEMMA BindInit == Init => BindInv
  <1> SUFFICES ASSUME Init PROVE BindInv
    OBVIOUS
  <1>1. Typed
    BY TypedInit
  <1>2. \A t \in Slots : call[t] = Idle
    BY DEF Init
  <1>3. OneCritical /\ KeysStay /\ UnusedStay
    BY <1>2, IdleNotCritical DEF OneCritical, KeysStay, UnusedStay
  <1> QED
    BY <1>1, <1>3 DEF Init, BindInv, BindingsResolve, Bound

LEMMA BindStep == BindInv /\ [Next]_vars => BindInv'
  <1> SUFFICES ASSUME BindInv, [Next]_vars PROVE BindInv'
    OBVIOUS
  <1>1. Typed'
    BY TypedStep DEF BindInv
  <1>2. CASE UNCHANGED vars
    BY <1>1, <1>2 DEF vars, catalogs, fleet, BindInv, OneCritical, KeysStay, KeysKnown, UnusedStay, UsersOfKey,
                      BindingsResolve, Bound
  <1>3. ASSUME NEW s \in Slots, (\E r \in workload : Request(s, r)) \/ Put(s) \/ Catalogs(s) \/ Register(s) \/ Fleet(s)
        PROVE  BindInv'
    BY <1>1, <1>3, OthersResolve, PutResolves, CatalogResolves, FleetResolves DEF BindInv
  <1> QED
    BY <1>2, <1>3 DEF Next, Finished

(* What a binding names is there: the machine, the profile and every key,  *)
(* whatever PUTs, deletions and retirements run at once.                   *)
THEOREM BindingsAlwaysResolve == Spec => []BindingsResolve
  <1>1. BindInv => BindingsResolve
    BY DEF BindInv
  <1> QED
    BY <1>1, BindInit, BindStep, PTL DEF Spec


-----------------------------------------------------------------------------
(* Credentials.  What requests, PUTs of bindings and the catalogs leave    *)
(* alone.                                                                  *)
LEMMA PutCalls ==
  ASSUME Typed, NEW s \in Slots, Put(s)
  PROVE  /\ call[s].req.op = "put" /\ call[s].pc # "idle"
         /\ call'[s] = Idle \/ call'[s].req = call[s].req
         /\ \A t \in Slots : t # s => call'[t] = call[t]
         /\ UNCHANGED <<calling, fleet, cred, credHistory, catalogs>>
  <1>1. Done(s) \/ (\E pc : Goto(s, pc)) \/ (\E pc, seen : GotoWith(s, pc, seen))
    BY DEF Put, PutChecks, PutLock, PutReads, PutSubnet, PutSecret, PutWrite, GoOnIf, Refuse
  <1>2. call[s].req.op = "put" /\ call[s].pc # "idle" /\ UNCHANGED <<calling, fleet, cred, credHistory, catalogs>>
    BY DEF Put, PutChecks, PutLock, PutReads, PutSubnet, PutSecret, PutWrite, At, bindingsOnly
  <1> QED
    BY <1>1, <1>2, CallGoesOn

LEMMA NoCredentials ==
  ASSUME Typed, NEW s \in Slots, (\E r \in workload : Request(s, r)) \/ Put(s) \/ Catalogs(s)
  PROVE  /\ UNCHANGED <<machines, reported, cred, credHistory>>
         /\ \A t \in Slots : t # s => call'[t] = call[t]
         /\ call'[s].pc \in {"idle", "start"} \/ call'[s].req.op \notin {"pair", "register", "unregister"}
         /\ call[s].pc = "idle" \/ call[s].req.op \notin {"pair", "register", "unregister"}
  <1>1. CASE \E r \in workload : Request(s, r)
    <2>1. PICK r \in workload : Request(s, r)
      BY <1>1
    <2>2. call \in [Slots -> Call]
      BY DEF Typed, RegistryTypeOK
    <2> QED
      BY <2>1, <2>2 DEF Request, fleet, Idle
  <1>2. CASE Put(s)
    BY <1>2, PutCalls DEF fleet, Idle
  <1>3. CASE Catalogs(s)
    BY <1>3, CatalogCalls DEF Idle
  <1> QED
    BY <1>1, <1>2, <1>3

(* A placeholder's credential has its own address, a machine has reported  *)
(* no other BMC than its own, and a pairing moves what is the machine's.   *)
StubCreds == \A ip \in Ips : cred[Placeholder(ip)] \in {Nil, ip}
ReportsOwn == \A m \in Machines : reported[m] \in {Nil, BmcOf[m]}
PairsOwn ==
  \A s \in Slots :
    /\ call[s].pc = "find" /\ call[s].req.op = "pair" => call[s].seen = BmcOf[call[s].req.machine]
    /\ call[s].pc = "move" /\ call[s].req.op = "pair" /\ mistyped = {} =>
         call[s].seen = Placeholder(BmcOf[call[s].req.machine])
OwnInv == Typed /\ StubCreds /\ ReportsOwn /\ OwnBmc /\ PairsOwn

LEMMA Placeholders == /\ \A ip, jp : Placeholder(ip) = Placeholder(jp) => ip = jp
                      /\ \A ip \in Ips : Placeholder(ip) \in Stubs /\ Placeholder(ip) \in Owners
                      /\ \A m \in Machines : m \in Owners /\ m \notin Stubs /\ BmcOf[m] \in Ips
  <1>1. \A ip, jp : Placeholder(ip) = Placeholder(jp) => ip = jp
    <2> SUFFICES ASSUME NEW ip, NEW jp, Placeholder(ip) = Placeholder(jp) PROVE ip = jp
      OBVIOUS
    <2>1. Placeholder(ip).placeholder = ip /\ Placeholder(jp).placeholder = jp
      BY DEF Placeholder
    <2> QED
      BY <2>1
  <1> QED
    BY <1>1, RegistryConstants DEF Stubs, Owners

LEMMA PairsElsewhere ==
  ASSUME PairsOwn, NEW s \in Slots, \A t \in Slots : t # s => call'[t] = call[t],
         call'[s].pc \in {"find", "move"} => call'[s].req.op # "pair", mistyped' = {} => mistyped = {}
  PROVE  PairsOwn'
  BY DEF PairsOwn

LEMMA RegisterOwn == ASSUME OwnInv, NEW s \in Slots, Register(s) PROVE StubCreds' /\ ReportsOwn' /\ OwnBmc' /\ PairsOwn'
  <1> USE DEF OwnInv
  <1> DEFINE r == call[s].req
  <1>1. /\ call[s].req.op = "register" /\ call[s].pc # "idle"
        /\ call'[s].pc = "idle" \/ call'[s].req.op = "register"
        /\ \A t \in Slots : t # s => call'[t] = call[t]
    BY RegisterCalls DEF Idle
  <1>2. mistyped \subseteq mistyped' /\ reported' = reported
    BY DEF Register, RegisterChecks, EnsureLooks, EnsureInserts, RegisterConflict, RegisterExists, RegisterWrite, fleet,
           credHistory
  <1>3. PairsOwn'
    BY <1>1, <1>2, PairsElsewhere
  <1>4. CASE UNCHANGED cred
    BY <1>2, <1>3, <1>4 DEF StubCreds, ReportsOwn, OwnBmc
  <1>5. CASE ~UNCHANGED cred
    <2>1. RegisterWrite(s) /\ Writable(r)
      BY <1>5 DEF Register, RegisterChecks, EnsureLooks, EnsureInserts, RegisterConflict, RegisterExists, RegisterWrite
    <2>2. r \in Requests /\ r.owner \in Owners /\ r.ip \in Ips /\ EncodesIp(r)
      BY <1>1, <2>1, Serving, RegisterTyped DEF RegisterWrite, At, Typed, CallsOK, CallOK
    <2>3. cred \in [Owners -> Ips \cup {Nil}]
      BY DEF Typed, RegistryTypeOK
    <2>4. /\ cred' = [cred EXCEPT ![r.owner] = r.ip]
          /\ mistyped' = mistyped \cup {m \in Machines : m = r.owner /\ r.ip # BmcOf[m]}
      BY <1>5, <2>1 DEF RegisterWrite
    <2> HIDE DEF r
    <2>5. StubCreds'
      BY <2>2, <2>3, <2>4, Placeholders DEF StubCreds, EncodesIp, IsStub
    <2>6. OwnBmc'
      <3> SUFFICES ASSUME mistyped' = {}, NEW m \in Machines PROVE cred'[m] \in {Nil, BmcOf[m]}
        BY DEF OwnBmc
      <3>1. m = r.owner => r.ip = BmcOf[m]
        BY <2>4
      <3>2. cred[m] \in {Nil, BmcOf[m]}
        BY <1>2 DEF OwnBmc
      <3> QED
        BY <2>2, <2>3, <2>4, <3>1, <3>2 DEF Owners
    <2> QED
      BY <1>2, <1>3, <2>5, <2>6 DEF ReportsOwn
  <1> QED
    BY <1>4, <1>5

(* A credential that goes, or moves from a placeholder to its machine.     *)
LEMMA GoneOwn ==
  ASSUME OwnInv, NEW o, cred' = [cred EXCEPT ![o] = Nil] \/ cred' = cred, mistyped' = mistyped
  PROVE  StubCreds' /\ OwnBmc'
  <1>1. \A p \in Owners : cred'[p] \in {Nil, cred[p]}
    BY DEF OwnInv, Typed, RegistryTypeOK
  <1> QED
    BY <1>1, Placeholders DEF OwnInv, StubCreds, OwnBmc

LEMMA MovedOwn ==
  ASSUME OwnInv, NEW from \in Owners, NEW m \in Machines, mistyped = {} => from = Placeholder(BmcOf[m]),
         Move(from, m) \/ cred' = cred, mistyped' = mistyped
  PROVE  StubCreds' /\ OwnBmc'
  <1>1. CASE cred' = cred
    BY <1>1 DEF OwnInv, StubCreds, OwnBmc
  <1>2. CASE cred' = [cred EXCEPT ![m] = cred[from], ![from] = Nil]
    <2>1. cred \in [Owners -> Ips \cup {Nil}] /\ m \in Owners /\ m \notin Stubs /\ BmcOf[m] \in Ips
      BY Placeholders DEF OwnInv, Typed, RegistryTypeOK
    <2>2. \A p \in Owners : p # m => cred'[p] \in {Nil, cred[p]}
      BY <1>2, <2>1
    <2>3. StubCreds'
      BY <2>1, <2>2, Placeholders DEF OwnInv, StubCreds
    <2>4. cred'[m] = IF m = from THEN Nil ELSE cred[from]
      BY <1>2, <2>1
    <2>5. mistyped = {} => cred'[m] \in {Nil, BmcOf[m]}
      BY <2>1, <2>4 DEF OwnInv, StubCreds
    <2>6. OwnBmc'
      BY <2>2, <2>5, Placeholders DEF OwnInv, OwnBmc
    <2> QED
      BY <2>3, <2>6
  <1> QED
    BY <1>1, <1>2 DEF Move

LEMMA FleetOwn == ASSUME OwnInv, NEW s \in Slots, Fleet(s) PROVE StubCreds' /\ ReportsOwn' /\ OwnBmc' /\ PairsOwn'
  <1> DEFINE r == call[s].req
  <1>0. Typed
    BY DEF OwnInv
  <1>1. /\ r.op \in FleetOps /\ call[s].pc # "idle"
        /\ call'[s] = Idle \/ call'[s].req = r
        /\ \A t \in Slots : t # s => call'[t] = call[t]
    BY <1>0, FleetCalls
  <1>2. call[s] \in Call /\ r \in Requests /\ r \in workload /\ call \in [Slots -> Call]
    BY <1>0, <1>1, Serving DEF Typed, RegistryTypeOK
  <1>3. mistyped' = mistyped
    BY DEF Fleet, UnregisterCredential, UnregisterStub, ReportSave, ReportReconcile, PairReads, PairFinds, PairMoves,
           RetireChecks, RetireBinding, RetireMachine, Job, credHistory, bindingsOnly
  <1>4. ASSUME call'[s].pc \in {"find", "move"} => call'[s].req.op # "pair" PROVE PairsOwn'
    BY <1>1, <1>3, <1>4, PairsElsewhere DEF OwnInv
  <1>5. r.op # "pair" => PairsOwn'
    BY <1>1, <1>4 DEF Idle
  <1>6. cred' = cred => StubCreds' /\ OwnBmc'
    BY <1>3 DEF OwnInv, StubCreds, OwnBmc
  <1>7. reported' = reported => ReportsOwn'
    BY DEF OwnInv, ReportsOwn
  <1>8. CASE UnregisterCredential(s) \/ UnregisterStub(s)
    <2>1. r.op # "pair" /\ reported' = reported /\ (cred' = [cred EXCEPT ![r.owner] = Nil] \/ cred' = cred)
      BY <1>8 DEF UnregisterCredential, UnregisterStub, Cascade, At, fleet
    <2> QED
      BY <1>3, <1>5, <1>7, <2>1, GoneOwn
  <1>9. CASE RetireMachine(s)
    <2>1. r.op # "pair" /\ (cred' = [cred EXCEPT ![r.machine] = Nil] \/ cred' = cred)
      BY <1>9 DEF RetireMachine, Cascade, At
    <2>2. ReportsOwn'
      BY <1>9, <1>0 DEF RetireMachine, fleet, OwnInv, ReportsOwn, Typed, RegistryTypeOK
    <2> QED
      BY <1>3, <1>5, <2>1, <2>2, GoneOwn
  <1>10. CASE RetireChecks(s) \/ RetireBinding(s) \/ Job(s)
    BY <1>5, <1>6, <1>7, <1>10 DEF RetireChecks, RetireBinding, Job, At, fleet, bindingsOnly
  <1>11. r.op = "report" => r.machine \in Machines /\ r.ip \in {BmcOf[r.machine], Nil}
    BY <1>0, <1>2, ReportTyped, RegistryConstants DEF Typed, RegistryTypeOK
  <1>12. CASE ReportSave(s)
    <2>1. ReportsOwn'
      BY <1>0, <1>11, <1>12 DEF ReportSave, At, OwnInv, ReportsOwn, Typed, RegistryTypeOK
    <2> QED
      BY <1>5, <1>6, <1>12, <2>1 DEF ReportSave, At
  <1>13. CASE ReportReconcile(s)
    <2>1. r.op = "report" /\ r.ip \in Ips
      BY <1>0, <1>13 DEF ReportReconcile, At, Typed, CallsOK, CallOK
    <2>2. r.machine \in Machines /\ r.ip = BmcOf[r.machine] /\ Placeholder(r.ip) \in Owners
      BY <1>11, <2>1, Placeholders, RegistryConstants
    <2>3. Move(Placeholder(r.ip), r.machine) \/ cred' = cred
      BY <1>13 DEF ReportReconcile
    <2> QED
      BY <1>3, <1>5, <1>7, <1>13, <2>1, <2>2, <2>3, MovedOwn DEF ReportReconcile
  <1>14. CASE PairReads(s)
    <2>1. r.machine \in Machines
      BY <1>2, <1>14, OnMachineTyped DEF PairReads, At
    <2>2. UNCHANGED <<cred, reported>>
      BY <1>14 DEF PairReads, fleet
    <2>3. CASE Done(s)
      BY <1>2, <1>4, <1>6, <1>7, <2>2, <2>3 DEF Done, Idle
    <2>4. CASE reported[r.machine] # Nil /\ GotoWith(s, "find", reported[r.machine])
      <3>1. call'[s].pc = "find" /\ call'[s].seen = BmcOf[call'[s].req.machine]
        BY <1>2, <2>1, <2>4 DEF GotoWith, Call, OwnInv, ReportsOwn
      <3>2. PairsOwn'
        BY <1>1, <1>3, <3>1 DEF OwnInv, PairsOwn
      <3> QED
        BY <1>6, <1>7, <2>2, <3>2
    <2> QED
      BY <1>14, <2>3, <2>4 DEF PairReads
  <1>15. CASE PairFinds(s)
    <2>1. r.machine \in Machines /\ call[s].seen = BmcOf[r.machine]
      BY <1>2, <1>15, OnMachineTyped DEF PairFinds, At, OwnInv, PairsOwn
    <2>2. UNCHANGED <<cred, reported>>
      BY <1>15 DEF PairFinds, fleet
    <2>3. CASE Done(s)
      BY <1>2, <1>4, <1>6, <1>7, <2>2, <2>3 DEF Done, Idle
    <2>4. ASSUME NEW u \in Holders(call[s].seen) \ {r.machine}, GotoWith(s, "move", u)
          PROVE  StubCreds' /\ ReportsOwn' /\ OwnBmc' /\ PairsOwn'
      <3>1. u \in Owners /\ cred[u] = BmcOf[r.machine] /\ u # r.machine
        BY <2>1, <2>4 DEF Holders
      <3>2. mistyped = {} => u \notin Machines
        BY <2>1, <3>1, RegistryConstants DEF OwnInv, OwnBmc
      <3>3. u \notin Machines => u = Placeholder(BmcOf[r.machine])
        <4>1. SUFFICES ASSUME u \in Stubs PROVE u = Placeholder(BmcOf[r.machine])
          BY <3>1 DEF Owners
        <4>2. PICK ip \in Ips : u = Placeholder(ip)
          BY <4>1 DEF Stubs
        <4> QED
          BY <2>1, <3>1, <4>2, RegistryConstants DEF OwnInv, StubCreds
      <3>4. call'[s].pc = "move" /\ call'[s].req = r /\ call'[s].seen = u
        BY <1>2, <2>4 DEF GotoWith, Call
      <3>5. PairsOwn'
        BY <1>1, <1>3, <3>2, <3>3, <3>4 DEF OwnInv, PairsOwn
      <3> QED
        BY <1>6, <1>7, <2>2, <3>5
    <2> QED
      BY <1>15, <2>3, <2>4 DEF PairFinds
  <1>16. CASE PairMoves(s)
    <2>1. r.machine \in Machines /\ call[s].seen \in Owners
      BY <1>0, <1>2, <1>16, OnMachineTyped DEF PairMoves, At, Typed, CallsOK, CallOK
    <2>2. mistyped = {} => call[s].seen = Placeholder(BmcOf[r.machine])
      BY <1>16 DEF PairMoves, At, OwnInv, PairsOwn
    <2>3. Move(call[s].seen, r.machine) \/ cred' = cred
      BY <1>16 DEF PairMoves
    <2>4. PairsOwn'
      BY <1>2, <1>4, <1>16 DEF PairMoves, Done, Idle
    <2> QED
      BY <1>3, <1>7, <1>16, <2>1, <2>2, <2>3, <2>4, MovedOwn DEF PairMoves
  <1> QED
    BY <1>8, <1>9, <1>10, <1>12, <1>13, <1>14, <1>15, <1>16 DEF Fleet

LEMMA OwnStep == OwnInv /\ [Next]_vars => OwnInv'
  <1> SUFFICES ASSUME OwnInv, [Next]_vars PROVE OwnInv'
    OBVIOUS
  <1>1. Typed'
    BY TypedStep DEF OwnInv
  <1>2. CASE UNCHANGED vars
    BY <1>1, <1>2 DEF vars, fleet, credHistory, OwnInv, StubCreds, ReportsOwn, OwnBmc, PairsOwn
  <1>3. ASSUME NEW s \in Slots, (\E r \in workload : Request(s, r)) \/ Put(s) \/ Catalogs(s) PROVE OwnInv'
    <2>1. UNCHANGED <<cred, reported, mistyped>> /\ (call'[s].pc \in {"find", "move"} => call'[s].req.op # "pair")
          /\ \A t \in Slots : t # s => call'[t] = call[t]
      BY <1>3, NoCredentials DEF OwnInv, credHistory
    <2>2. PairsOwn'
      BY <2>1, PairsElsewhere DEF OwnInv
    <2> QED
      BY <1>1, <2>1, <2>2 DEF OwnInv, StubCreds, ReportsOwn, OwnBmc
  <1>4. ASSUME NEW s \in Slots, Register(s) \/ Fleet(s) PROVE OwnInv'
    BY <1>1, <1>4, RegisterOwn, FleetOwn DEF OwnInv
  <1> QED
    BY <1>2, <1>3, <1>4 DEF Next, Finished

(* A machine's credential is for its own BMC until an operator types       *)
(* another's: through placeholders, reports and pairings at once.          *)
THEOREM PowerIsOwn == Spec => []OwnBmc
  <1>1. Init => OwnInv
    <2> SUFFICES ASSUME Init PROVE OwnInv
      OBVIOUS
    <2>1. Typed
      BY TypedInit
    <2>2. StubCreds /\ ReportsOwn /\ OwnBmc
      BY Placeholders DEF Init, StubCreds, ReportsOwn, OwnBmc, Owners
    <2>3. PairsOwn
      BY DEF Init, PairsOwn, Idle
    <2> QED
      BY <2>1, <2>2, <2>3 DEF OwnInv
  <1>2. OwnInv => OwnBmc
    BY DEF OwnInv
  <1> QED
    BY <1>1, <1>2, OwnStep, PTL DEF Spec


-----------------------------------------------------------------------------
(* Registered addresses.                                                   *)
KeptInv == Typed /\ registered \subseteq Ips /\ RegistrationsKept

LEMMA GoneKept ==
  ASSUME KeptInv, NEW o \in Owners,
         \/ cred' = [cred EXCEPT ![o] = Nil] /\ registered' = registered \ {cred[o]}
         \/ UNCHANGED <<cred, registered>>
  PROVE  registered' \subseteq Ips /\ RegistrationsKept'
  <1>1. cred \in [Owners -> Ips \cup {Nil}]
    BY DEF KeptInv, Typed, RegistryTypeOK
  <1> QED
    BY <1>1 DEF KeptInv, RegistrationsKept, Holders

LEMMA MovedKept ==
  ASSUME KeptInv, NEW from \in Owners, NEW m \in Machines, m # from,
         (CanMove(from, m) /\ Move(from, m)) \/ cred' = cred, registered' = registered
  PROVE  registered' \subseteq Ips /\ RegistrationsKept'
  <1>1. cred \in [Owners -> Ips \cup {Nil}] /\ m \in Owners /\ Nil \notin registered
    BY Placeholders, RegistryConstants DEF KeptInv, Typed, RegistryTypeOK
  <1>2. CASE cred' = cred
    BY <1>2 DEF KeptInv, RegistrationsKept, Holders
  <1>3. CASE cred[m] = Nil /\ cred' = [cred EXCEPT ![m] = cred[from], ![from] = Nil]
    <2> SUFFICES ASSUME NEW ip \in registered PROVE \E o \in Owners : cred'[o] = ip
      BY <1>3 DEF KeptInv, RegistrationsKept, Holders
    <2>1. PICK o \in Owners : cred[o] = ip
      BY DEF KeptInv, RegistrationsKept, Holders
    <2>2. CASE o = from
      BY <1>1, <1>3, <2>1, <2>2
    <2>3. CASE o # from
      BY <1>1, <1>3, <2>1, <2>3
    <2> QED
      BY <2>2, <2>3
  <1> QED
    BY <1>2, <1>3 DEF CanMove, Move

LEMMA KeptStep == KeptInv /\ [Next]_vars => KeptInv'
  <1> SUFFICES ASSUME KeptInv, [Next]_vars PROVE KeptInv'
    OBVIOUS
  <1>0. Typed /\ Typed'
    BY TypedStep DEF KeptInv
  <1>1. CASE UNCHANGED <<cred, registered>>
    BY <1>0, <1>1 DEF KeptInv, RegistrationsKept, Holders
  <1>2. ASSUME NEW s \in Slots, Register(s) PROVE KeptInv'
    <2> DEFINE r == call[s].req
    <2>1. CASE RegisterWrite(s) /\ ~UNCHANGED <<cred, registered>>
      <3>1. r \in Requests /\ r.op = "register"
        BY <1>0, <2>1, Serving DEF RegisterWrite, At
      <3>2. r.owner \in Owners /\ r.ip \in Ips /\ cred \in [Owners -> Ips \cup {Nil}]
        BY <1>0, <3>1, RegisterTyped DEF Typed, RegistryTypeOK
      <3>3. cred' = [cred EXCEPT ![r.owner] = r.ip] /\ registered' = (registered \ {cred[r.owner]}) \cup {r.ip}
        BY <2>1 DEF RegisterWrite
      <3> HIDE DEF r
      <3> QED
        BY <1>0, <3>2, <3>3 DEF KeptInv, RegistrationsKept, Holders
    <2> QED
      BY <1>1, <1>2, <2>1 DEF Register, RegisterChecks, EnsureLooks, EnsureInserts, RegisterConflict, RegisterExists,
                              credHistory
  <1>3. ASSUME NEW s \in Slots, Fleet(s) PROVE KeptInv'
    <2> DEFINE r == call[s].req
    <2>1. r \in Requests /\ r.op \in FleetOps
      BY <1>0, <1>3, FleetCalls, Serving
    <2>2. CASE UnregisterCredential(s) \/ UnregisterStub(s)
      <3>1. r.owner \in Owners
        BY <2>1, <2>2, UnregisterTyped DEF UnregisterCredential, UnregisterStub, At
      <3> QED
        BY <1>0, <2>2, <3>1, GoneKept DEF UnregisterCredential, UnregisterStub, Cascade, KeptInv
    <2>3. CASE RetireMachine(s)
      <3>1. r.machine \in Owners
        BY <2>1, <2>3, OnMachineTyped, Placeholders DEF RetireMachine, At
      <3> QED
        BY <1>0, <2>3, <3>1, GoneKept DEF RetireMachine, Cascade, KeptInv
    <2>4. CASE ReportReconcile(s)
      <3>1. r.machine \in Machines /\ r.ip \in Ips
        BY <1>0, <2>1, <2>4, ReportTyped DEF ReportReconcile, At, Typed, CallsOK, CallOK
      <3>2. Placeholder(r.ip) \in Owners /\ Placeholder(r.ip) # r.machine
        BY <3>1, Placeholders
      <3> QED
        BY <1>0, <2>4, <3>1, <3>2, MovedKept DEF ReportReconcile, credHistory, KeptInv
    <2>5. CASE PairMoves(s)
      <3>1. r.machine \in Machines /\ call[s].seen \in Owners /\ call[s].seen # r.machine
        BY <1>0, <2>1, <2>5, OnMachineTyped DEF PairMoves, At, Typed, CallsOK, CallOK
      <3> QED
        BY <1>0, <2>5, <3>1, MovedKept DEF PairMoves, credHistory, KeptInv
    <2> QED
      BY <1>1, <1>3, <2>2, <2>3, <2>4, <2>5
      DEF Fleet, ReportSave, PairReads, PairFinds, RetireChecks, RetireBinding, Job, credHistory, bindingsOnly
  <1>4. ASSUME NEW s \in Slots, (\E r \in workload : Request(s, r)) \/ Put(s) \/ Catalogs(s) PROVE KeptInv'
    BY <1>0, <1>1, <1>4, NoCredentials DEF credHistory
  <1> QED
    BY <1>1, <1>2, <1>3, <1>4 DEF Next, Finished, vars, credHistory

(* An address that was registered stays in some credential, through        *)
(* whatever reports, pairings, retirements and registrations run at once,  *)
(* until it is replaced or its owner deleted.                              *)
THEOREM RegistrationsAreKept == Spec => []RegistrationsKept
  <1>1. Init => KeptInv
    BY TypedInit DEF Init, KeptInv, RegistrationsKept
  <1>2. KeptInv => RegistrationsKept
    BY DEF KeptInv
  <1> QED
    BY <1>1, <1>2, KeptStep, PTL DEF Spec

-----------------------------------------------------------------------------
(* Stubs.  Once a registration has made sure of its stub, only it answers  *)
(* for it; an unregistration, from the credential's deletion on.           *)
Answers(c, ip) ==
  /\ \/ c.req.op = "register" /\ c.pc \in {"conflict", "exists", "write"}
     \/ c.req.op = "unregister" /\ c.pc = "machine"
  /\ c.req.owner = Placeholder(ip)
Accounted ==
  \A ip \in Ips : Placeholder(ip) \in machines /\ cred[Placeholder(ip)] = Nil =>
    ip \in refused \/ \E s \in Slots : Answers(call[s], ip)
StubInv == Typed /\ Accounted

(* A step of s is safe for a stub it did not answer for, or still does.    *)
LEMMA StubsOf ==
  ASSUME StubInv, NEW s \in Slots, \A t \in Slots : t # s => call'[t] = call[t], refused \subseteq refused',
         NEW ip \in Ips, Placeholder(ip) \in machines', cred'[Placeholder(ip)] = Nil,
         Placeholder(ip) \in machines /\ cred[Placeholder(ip)] = Nil,
         Answers(call[s], ip) => Answers(call'[s], ip) \/ ip \in refused'
  PROVE  ip \in refused' \/ \E t \in Slots : Answers(call'[t], ip)
  <1>1. CASE ip \in refused
    BY <1>1
  <1>2. ASSUME NEW t \in Slots, Answers(call[t], ip) PROVE ip \in refused' \/ \E u \in Slots : Answers(call'[u], ip)
    <2>1. CASE t = s
      BY <1>2, <2>1
    <2>2. CASE t # s
      <3>1. Answers(call'[t], ip)
        BY <1>2, <2>2
      <3> QED
        BY <3>1
    <2> QED
      BY <2>1, <2>2
  <1> QED
    BY <1>1, <1>2 DEF StubInv, Accounted

LEMMA StubsElsewhere ==
  ASSUME StubInv, NEW s \in Slots, \A t \in Slots : t # s => call'[t] = call[t], refused \subseteq refused',
         \A ip \in Ips : Answers(call[s], ip) => Answers(call'[s], ip) \/ ip \in refused',
         \A ip \in Ips : Placeholder(ip) \in machines' /\ cred'[Placeholder(ip)] = Nil =>
                           Placeholder(ip) \in machines /\ cred[Placeholder(ip)] = Nil
  PROVE  Accounted'
  <1> SUFFICES ASSUME NEW ip \in Ips, Placeholder(ip) \in machines', cred'[Placeholder(ip)] = Nil
               PROVE  ip \in refused' \/ \E t \in Slots : Answers(call'[t], ip)
    BY DEF Accounted, Answers
  <1> QED
    BY StubsOf

LEMMA RegisterStubs == ASSUME StubInv, NEW s \in Slots, Register(s) PROVE Accounted'
  <1> DEFINE r == call[s].req
  <1>0. Typed
    BY DEF StubInv
  <1>1. /\ r.op = "register" /\ call[s].pc # "idle"
        /\ \A t \in Slots : t # s => call'[t] = call[t]
    BY <1>0, RegisterCalls
  <1>2. call[s] \in Call /\ r \in Requests /\ call \in [Slots -> Call] /\ r.owner \in Owners /\ r.ip \in Ips
    BY <1>0, <1>1, Serving, RegisterTyped DEF Typed, RegistryTypeOK
  <1>3. cred \in [Owners -> Ips \cup {Nil}] /\ Nil \notin Ips
    BY <1>0, RegistryConstants DEF Typed, RegistryTypeOK
  <1>4. call[s].pc # "start" => EncodesIp(r)
    BY <1>0, <1>1 DEF Typed, CallsOK, CallOK
  <1>5. Rejected(s) /\ call[s].pc # "start" =>
          refused \subseteq refused' /\ \A ip \in Ips : r.owner = Placeholder(ip) => ip \in refused'
    BY <1>2, <1>4, Placeholders DEF Rejected, StubOf, EncodesIp, IsStub
  <1>6. CASE RegisterChecks(s) \/ EnsureLooks(s)
    <2>1. \A ip \in Ips : ~Answers(call[s], ip)
      BY <1>1, <1>6 DEF RegisterChecks, EnsureLooks, At, Answers
    <2> QED
      BY <1>1, <1>6, <2>1, StubsElsewhere DEF RegisterChecks, EnsureLooks, fleet, credHistory
  <1>7. CASE EnsureInserts(s)
    <2>1. machines' = machines \cup {r.owner} /\ UNCHANGED <<cred, refused>> /\ \A ip \in Ips : ~Answers(call[s], ip)
      BY <1>1, <1>7 DEF EnsureInserts, StubKey, At, Answers, credHistory
    <2>2. CASE r.owner \in machines
      BY <1>1, <2>1, <2>2, StubsElsewhere
    <2>3. CASE r.owner \notin machines
      <3>1. call'[s].req = r /\ call'[s].pc = "conflict"
        BY <1>2, <1>7, <2>3 DEF EnsureInserts, GoOnIf, Goto, Call
      <3>2. \A ip \in Ips : Placeholder(ip) = r.owner => Answers(call'[s], ip)
        BY <1>1, <3>1 DEF Answers
      <3> SUFFICES ASSUME NEW ip \in Ips, Placeholder(ip) \in machines', cred'[Placeholder(ip)] = Nil
                   PROVE  ip \in refused' \/ \E t \in Slots : Answers(call'[t], ip)
        BY DEF Accounted, Answers
      <3>3. CASE Placeholder(ip) = r.owner
        BY <3>2, <3>3
      <3>4. CASE Placeholder(ip) # r.owner
        BY <1>1, <2>1, <3>4, StubsOf
      <3> QED
        BY <3>3, <3>4
    <2> QED
      BY <2>2, <2>3
  <1>8. CASE RegisterConflict(s) \/ RegisterExists(s)
    <2>1. UNCHANGED <<machines, cred>> /\ call[s].pc # "start"
      BY <1>8 DEF RegisterConflict, RegisterExists, At, fleet
    <2>2. CASE Rejected(s)
      BY <1>1, <1>5, <2>1, <2>2, StubsElsewhere DEF Answers
    <2>3. CASE (Goto(s, "exists") \/ Goto(s, "write")) /\ refused' = refused
      <3>1. call'[s].req = r /\ call'[s].pc \in {"exists", "write"}
        BY <1>2, <2>3 DEF Goto, Call
      <3>2. \A ip \in Ips : Answers(call[s], ip) => Answers(call'[s], ip)
        BY <1>1, <3>1 DEF Answers
      <3> QED
        BY <1>1, <2>1, <2>3, <3>2, StubsElsewhere
    <2> QED
      BY <1>8, <2>2, <2>3 DEF RegisterConflict, RegisterExists
  <1>9. CASE RegisterWrite(s)
    <2>1. UNCHANGED machines /\ call[s].pc # "start"
      BY <1>9 DEF RegisterWrite, At, fleet
    <2>2. CASE Rejected(s) /\ UNCHANGED cred
      BY <1>1, <1>5, <2>1, <2>2, StubsElsewhere DEF Answers
    <2>3. CASE cred' = [cred EXCEPT ![r.owner] = r.ip] /\ refused' = refused
      <3> SUFFICES ASSUME NEW ip \in Ips, Placeholder(ip) \in machines', cred'[Placeholder(ip)] = Nil
                   PROVE  ip \in refused' \/ \E t \in Slots : Answers(call'[t], ip)
        BY DEF Accounted, Answers
      <3>1. Placeholder(ip) # r.owner /\ cred[Placeholder(ip)] = Nil
        BY <1>2, <1>3, <2>3, Placeholders
      <3>2. ~Answers(call[s], ip)
        BY <3>1 DEF Answers
      <3> QED
        BY <1>1, <2>1, <2>3, <3>1, <3>2, StubsOf
    <2> QED
      BY <1>9, <2>2, <2>3 DEF RegisterWrite
  <1> QED
    BY <1>6, <1>7, <1>8, <1>9 DEF Register

LEMMA MovedStubs ==
  ASSUME StubInv, NEW from \in Owners, NEW m \in Machines, Move(from, m) \/ UNCHANGED <<cred, machines>>
  PROVE  \A ip \in Ips : Placeholder(ip) \in machines' /\ cred'[Placeholder(ip)] = Nil =>
                           Placeholder(ip) \in machines /\ cred[Placeholder(ip)] = Nil
  <1> SUFFICES ASSUME Move(from, m), NEW ip \in Ips, Placeholder(ip) \in machines', cred'[Placeholder(ip)] = Nil
               PROVE  Placeholder(ip) \in machines /\ cred[Placeholder(ip)] = Nil
    OBVIOUS
  <1>1. Placeholder(ip) \in Stubs /\ m \notin Stubs /\ Placeholder(ip) \in Owners
    BY Placeholders
  <1>2. Placeholder(ip) # from /\ Placeholder(ip) # m /\ Placeholder(ip) \in machines
    BY <1>1 DEF Move
  <1>3. cred'[Placeholder(ip)] = cred[Placeholder(ip)]
    BY <1>1, <1>2 DEF Move, StubInv, Typed, RegistryTypeOK
  <1> QED
    BY <1>2, <1>3

LEMMA FleetStubs == ASSUME StubInv, NEW s \in Slots, Fleet(s) PROVE Accounted'
  <1> DEFINE r == call[s].req
  <1>0. Typed /\ cred \in [Owners -> Ips \cup {Nil}]
    BY DEF StubInv, Typed, RegistryTypeOK
  <1>1. /\ r.op \in FleetOps /\ r \in Requests /\ call[s] \in Call /\ call \in [Slots -> Call]
        /\ \A t \in Slots : t # s => call'[t] = call[t]
    BY <1>0, FleetCalls, Serving DEF Typed, RegistryTypeOK
  <1>2. refused' = refused
    BY DEF Fleet, UnregisterCredential, UnregisterStub, ReportSave, ReportReconcile, PairReads, PairFinds, PairMoves,
           RetireChecks, RetireBinding, RetireMachine, Job, credHistory, bindingsOnly
  <1>3. call[s].pc # "machine" \/ r.op # "unregister" => \A ip \in Ips : ~Answers(call[s], ip)
    BY <1>1 DEF Answers, FleetOps
  <1>4. ASSUME call[s].pc # "machine" \/ r.op # "unregister",
               \A ip \in Ips : Placeholder(ip) \in machines' /\ cred'[Placeholder(ip)] = Nil =>
                                 Placeholder(ip) \in machines /\ cred[Placeholder(ip)] = Nil
        PROVE  Accounted'
    BY <1>1, <1>2, <1>3, <1>4, StubsElsewhere
  <1>5. CASE PairReads(s) \/ PairFinds(s) \/ RetireChecks(s) \/ RetireBinding(s) \/ Job(s)
    BY <1>4, <1>5 DEF PairReads, PairFinds, RetireChecks, RetireBinding, Job, At, fleet, bindingsOnly
  <1>6. CASE ReportSave(s)
    <2>1. r.machine \in Machines /\ machines' = machines \cup {r.machine} /\ UNCHANGED cred
      BY <1>1, <1>6, ReportTyped DEF ReportSave, At
    <2> QED
      BY <1>4, <1>6, <2>1, Placeholders DEF ReportSave, At
  <1>7. CASE ReportReconcile(s)
    <2>1. r.machine \in Machines /\ r.ip \in Ips
      BY <1>0, <1>1, <1>7, ReportTyped DEF ReportReconcile, At, Typed, CallsOK, CallOK
    <2>2. Placeholder(r.ip) \in Owners
      BY <2>1, Placeholders
    <2> QED
      BY <1>4, <1>7, <2>1, <2>2, MovedStubs DEF ReportReconcile, At
  <1>8. CASE PairMoves(s)
    <2>1. r.machine \in Machines /\ call[s].seen \in Owners
      BY <1>0, <1>1, <1>8, OnMachineTyped DEF PairMoves, At, Typed, CallsOK, CallOK
    <2> QED
      BY <1>4, <1>8, <2>1, MovedStubs DEF PairMoves, At
  <1>9. CASE RetireMachine(s)
    <2>1. /\ r.machine \in Machines /\ machines' \subseteq machines
          /\ cred' = cred \/ cred' = [cred EXCEPT ![r.machine] = Nil]
      BY <1>1, <1>9, OnMachineTyped DEF RetireMachine, At, Cascade, fleet
    <2>2. \A ip \in Ips : cred'[Placeholder(ip)] = cred[Placeholder(ip)]
      BY <1>0, <2>1, Placeholders
    <2> QED
      BY <1>4, <1>9, <2>1, <2>2 DEF RetireMachine, At
  <1>10. CASE UnregisterCredential(s)
    <2>1. r.owner \in Owners /\ cred' = [cred EXCEPT ![r.owner] = Nil] /\ UNCHANGED machines /\ call[s].pc = "start"
      BY <1>1, <1>10, UnregisterTyped DEF UnregisterCredential, At, fleet
    <2> SUFFICES ASSUME NEW ip \in Ips, Placeholder(ip) \in machines', cred'[Placeholder(ip)] = Nil
                 PROVE  ip \in refused' \/ \E t \in Slots : Answers(call'[t], ip)
      BY DEF Accounted, Answers
    <2>2. CASE Placeholder(ip) = r.owner /\ cred[r.owner] # Nil
      <3>1. call'[s].req = r /\ call'[s].pc = "machine" /\ r.op = "unregister"
        BY <1>1, <1>10, <2>2, Placeholders DEF UnregisterCredential, At, GoOnIf, Goto, IsStub, Call
      <3>2. Answers(call'[s], ip)
        BY <2>2, <3>1 DEF Answers
      <3> QED
        BY <3>2
    <2>3. CASE Placeholder(ip) # r.owner \/ cred[r.owner] = Nil
      <3>1. cred[Placeholder(ip)] = Nil
        BY <1>0, <2>1, <2>3, Placeholders
      <3> QED
        BY <1>1, <1>2, <1>3, <2>1, <3>1, StubsOf
    <2> QED
      BY <2>2, <2>3
  <1>11. CASE UnregisterStub(s)
    <2>1. /\ r.owner \in Owners /\ machines' = machines \ {r.owner}
          /\ cred' = cred \/ cred' = [cred EXCEPT ![r.owner] = Nil]
      BY <1>1, <1>11, UnregisterTyped DEF UnregisterStub, At, Cascade
    <2> SUFFICES ASSUME NEW ip \in Ips, Placeholder(ip) \in machines', cred'[Placeholder(ip)] = Nil
                 PROVE  ip \in refused' \/ \E t \in Slots : Answers(call'[t], ip)
      BY DEF Accounted, Answers
    <2>2. Placeholder(ip) # r.owner /\ cred[Placeholder(ip)] = Nil /\ Placeholder(ip) \in machines
      BY <1>0, <2>1, Placeholders
    <2>3. ~Answers(call[s], ip)
      BY <2>2 DEF Answers
    <2> QED
      BY <1>1, <1>2, <2>2, <2>3, StubsOf
  <1> QED
    BY <1>5, <1>6, <1>7, <1>8, <1>9, <1>10, <1>11 DEF Fleet

LEMMA StubStep == StubInv /\ [Next]_vars => StubInv'
  <1> SUFFICES ASSUME StubInv, [Next]_vars PROVE StubInv'
    OBVIOUS
  <1>1. Typed'
    BY TypedStep DEF StubInv
  <1>2. CASE UNCHANGED vars
    BY <1>1, <1>2 DEF vars, fleet, credHistory, StubInv, Accounted, Answers
  <1>3. ASSUME NEW s \in Slots, (\E r \in workload : Request(s, r)) \/ Put(s) \/ Catalogs(s) PROVE StubInv'
    <2>1. /\ UNCHANGED <<machines, cred, refused>> /\ \A t \in Slots : t # s => call'[t] = call[t]
          /\ call[s].pc = "idle" \/ call[s].req.op \notin {"pair", "register", "unregister"}
      BY <1>3, NoCredentials DEF StubInv, credHistory
    <2>2. \A ip \in Ips : ~Answers(call[s], ip)
      BY <2>1 DEF Answers
    <2> QED
      BY <1>1, <2>1, <2>2, StubsElsewhere DEF StubInv
  <1>4. ASSUME NEW s \in Slots, Register(s) \/ Fleet(s) PROVE StubInv'
    BY <1>1, <1>4, RegisterStubs, FleetStubs DEF StubInv
  <1> QED
    BY <1>2, <1>3, <1>4 DEF Next, Finished

(* Reconciliation and deletion leave no stub row behind: one without a     *)
(* credential belongs to a refused registration or to a call under way.    *)
THEOREM StubsAreAccounted == Spec => []StubsAccounted
  <1>1. Init => StubInv
    BY TypedInit DEF Init, StubInv, Accounted
  <1>2. StubInv => StubsAccounted
    BY DEF StubInv, Accounted, Answers, StubsAccounted, Touching
  <1> QED
    BY <1>1, <1>2, StubStep, PTL DEF Spec


-----------------------------------------------------------------------------
(* Choices.  Under the lock, what a PUT has read of a binding is what is   *)
(* there, unless the binding was deleted meanwhile; an update has read     *)
(* what is there, unless another update has written it meanwhile.          *)
ExpectedTyped == expected \in [binding : [Machines -> Binding \cup {Nil}], row : [Catalog -> Row]]
PutsRead ==
  \A s \in Slots : Writing(call[s]) /\ call[s].req.machine \notin overlapped =>
    call[s].seen = Existing(binding[call[s].req.machine])
Updating(c) == c.req.op = "update" /\ c.pc = "write"
UpdatesRead ==
  \A s \in Slots : Updating(call[s]) /\ call[s].req.id \notin overlapped => call[s].seen = row[call[s].req.id]
Faithful == ExpectedTyped /\ LastChoiceKept /\ PutsRead /\ UpdatesRead
ChoiceInv == BindInv /\ Faithful

LEMMA ChoicesElsewhere ==
  ASSUME ChoiceInv, NEW s \in Slots, \A t \in Slots : t # s => call'[t] = call[t],
         ~Writing(call'[s]), ~Updating(call'[s]), row' = row,
         UNCHANGED <<binding, choiceHistory>> \/ (\E ms \in SUBSET Machines : DeleteBindings(ms))
  PROVE  Faithful'
  <1> USE DEF ChoiceInv, Faithful
  <1>1. CASE UNCHANGED <<binding, choiceHistory>>
    BY <1>1 DEF choiceHistory, ExpectedTyped, LastChoiceKept, PutsRead, UpdatesRead
  <1>2. ASSUME NEW ms \in SUBSET Machines, DeleteBindings(ms) PROVE Faithful'
    <2>1. ExpectedTyped'
      BY <1>2 DEF ExpectedTyped, DeleteBindings
    <2>2. overlapped \subseteq overlapped' /\ expected'.row = expected.row
      BY <1>2 DEF DeleteBindings, ExpectedTyped
    <2>3. \A m \in Machines : /\ binding'[m] = IF m \in ms THEN Nil ELSE binding[m]
                              /\ expected'.binding[m] = IF m \in ms THEN Nil ELSE expected.binding[m]
      BY <1>2 DEF DeleteBindings, ExpectedTyped
    <2>4. LastChoiceKept'
      BY <2>2, <2>3 DEF LastChoiceKept
    <2>5. UpdatesRead'
      BY <2>2 DEF UpdatesRead
    <2>6. ASSUME NEW t \in Slots, Writing(call'[t]), call'[t].req.machine \notin overlapped'
          PROVE  call'[t].seen = Existing(binding'[call'[t].req.machine])
      <3> DEFINE m == call[t].req.machine
      <3>1. t # s /\ call'[t] = call[t] /\ Writing(call[t])
        BY <2>6
      <3>2. m \in Machines
        BY <3>1, Serving, PutTyped DEF Writing, BindInv
      <3>3. BeingPut(m)
        BY <3>1 DEF Writing, BeingPut
      <3>4. m \notin ms
        BY <1>2, <2>6, <3>1, <3>2, <3>3 DEF DeleteBindings
      <3> QED
        BY <2>2, <2>3, <2>6, <3>1, <3>2, <3>4 DEF PutsRead
    <2>7. PutsRead'
      BY <2>6 DEF PutsRead, Existing
    <2> QED
      BY <2>1, <2>4, <2>5, <2>7
  <1> QED
    BY <1>1, <1>2

LEMMA PutChoices == ASSUME ChoiceInv, NEW s \in Slots, Put(s) PROVE Faithful'
  <1> USE DEF ChoiceInv, Faithful
  <1> DEFINE r == call[s].req  m == call[s].req.machine
  <1>0. Typed
    BY DEF BindInv
  <1>1. /\ r.op = "put" /\ call[s].pc # "idle" /\ row' = row
        /\ \A t \in Slots : t # s => call'[t] = call[t]
    BY <1>0, PutCalls DEF catalogs
  <1>2. call[s] \in Call /\ call \in [Slots -> Call] /\ r \in Requests /\ m \in Machines
    BY <1>0, <1>1, Serving, PutTyped DEF Typed, RegistryTypeOK
  <1>3. ~Updating(call'[s])
    BY <1>0, <1>1, PutCalls DEF Updating, Idle
  (* s goes on, and nothing that is compared changes.                      *)
  <1>4. ASSUME UNCHANGED <<binding, choiceHistory>>,
               Writing(call'[s]) /\ call'[s].req.machine \notin overlapped =>
                 call'[s].seen = Existing(binding[call'[s].req.machine])
        PROVE  Faithful'
    <2>1. PutsRead'
      BY <1>1, <1>4 DEF PutsRead, choiceHistory, Existing
    <2>2. UpdatesRead'
      BY <1>1, <1>3, <1>4 DEF UpdatesRead, choiceHistory
    <2> QED
      BY <1>1, <1>4, <2>1, <2>2 DEF ExpectedTyped, LastChoiceKept, choiceHistory
  <1>5. CASE PutChecks(s) \/ PutLock(s)
    <2>1. call'[s] = Idle \/ call'[s].pc \in {"lock", "read"}
      BY <1>2, <1>5 DEF PutChecks, PutLock, GoOnIf, Done, Goto, Call
    <2>2. ~Writing(call'[s])
      BY <2>1, IdleNotCritical DEF Writing
    <2> QED
      BY <1>4, <1>5, <2>2 DEF PutChecks, PutLock
  <1>6. CASE PutReads(s)
    <2>1. Done(s) \/ GotoWith(s, "subnet", Existing(binding[m]))
      BY <1>6 DEF PutReads, Refuse
    <2>2. call'[s] = Idle \/ (call'[s].req = r /\ call'[s].seen = Existing(binding[m]))
      BY <1>2, <2>1 DEF Done, GotoWith, Call
    <2> QED
      BY <1>4, <1>6, <2>2, IdleNotCritical DEF PutReads
  <1>7. CASE PutSubnet(s) \/ PutSecret(s)
    <2>1. Writing(call[s]) /\ call[s].seen \in KeptFields /\ UNCHANGED <<binding, choiceHistory>>
      BY <1>0, <1>1, <1>7 DEF PutSubnet, PutSecret, At, Writing, Typed, CallsOK, CallOK
    <2>2. CASE Done(s)
      <3>1. call'[s] = Idle
        BY <1>2, <2>2 DEF Done
      <3> QED
        BY <1>4, <2>1, <3>1, IdleNotCritical
    <2>3. CASE Goto(s, "secret")
      <3>1. call'[s].req = r /\ call'[s].seen = call[s].seen
        BY <1>2, <2>3 DEF Goto, Call
      <3> QED
        BY <1>4, <2>1, <3>1 DEF PutsRead
    <2>4. CASE PutSecret(s)
      <3>1. call'[s].req = r /\ call'[s].seen = [call[s].seen EXCEPT !.secret = Existing(binding[m]).secret]
        BY <1>2, <2>4 DEF PutSecret, GotoWith, Call
      <3>2. m \notin overlapped => call'[s].seen = Existing(binding[m])
        <4>1. m \notin overlapped => call[s].seen = Existing(binding[m])
          BY <2>1 DEF PutsRead
        <4> QED
          BY <2>1, <3>1, <4>1 DEF KeptFields
      <3> QED
        BY <1>4, <2>1, <3>1, <3>2
    <2> QED
      BY <1>7, <2>2, <2>3, <2>4 DEF PutSubnet, Refuse
  <1>8. CASE PutWrite(s)
    <2> DEFINE chosen == Chosen(r, call[s].seen)
    <2>1. Writing(call[s]) /\ call[s].seen \in KeptFields /\ lock = s /\ call'[s] = Idle
      BY <1>0, <1>1, <1>2, <1>8
      DEF PutWrite, Refuse, Done, At, Writing, Typed, CallsOK, CallOK, BindInv, OneCritical, Critical
    <2>2. \A t \in Slots : ~Writing(call'[t])
      BY <1>1, <2>1, IdleNotCritical, WritingIsCritical DEF BindInv, OneCritical
    <2>3. PutsRead'
      BY <2>2 DEF PutsRead
    <2>4. overlapped' = overlapped
      BY <1>8 DEF PutWrite
    <2>5. UpdatesRead'
      BY <1>1, <1>3, <2>4 DEF UpdatesRead
    <2>6. CASE UNCHANGED <<binding, expected>>
      BY <1>1, <2>3, <2>4, <2>5, <2>6 DEF ExpectedTyped, LastChoiceKept
    <2>7. CASE /\ binding' = [binding EXCEPT ![m] = chosen]
               /\ expected' = [expected EXCEPT !.binding[m] = Chosen(r, Existing(@))]
      <3>1. expected.binding[m] \in Binding \cup {Nil}
        BY <1>2 DEF ExpectedTyped
      <3>2. Existing(expected.binding[m]) \in KeptFields
        BY <3>1, RegistryConstants DEF Existing, KeptFields, Binding, Values
      <3>3. Chosen(r, Existing(expected.binding[m])) \in Binding
        BY <1>1, <1>2, <3>2, ChosenTyped
      <3>4. /\ ExpectedTyped' /\ expected'.row = expected.row
            /\ expected'.binding = [expected.binding EXCEPT ![m] = Chosen(r, Existing(expected.binding[m]))]
        BY <2>7, <3>3 DEF ExpectedTyped
      <3>5. binding \in [Machines -> Binding \cup {Nil}] /\ expected.binding \in [Machines -> Binding \cup {Nil}]
        BY <1>0 DEF Typed, RegistryTypeOK, ExpectedTyped
      <3>6. m \notin overlapped => call[s].seen = Existing(binding[m]) /\ binding[m] = expected.binding[m]
        BY <1>2, <2>1 DEF PutsRead, LastChoiceKept
      <3>7. \A n \in Machines \ overlapped : binding'[n] = expected'.binding[n]
        BY <1>2, <2>7, <3>4, <3>5, <3>6 DEF LastChoiceKept
      <3>8. LastChoiceKept'
        BY <1>1, <2>4, <3>4, <3>7 DEF LastChoiceKept
      <3> QED
        BY <2>3, <2>5, <3>4, <3>8
    <2> QED
      BY <1>8, <2>6, <2>7 DEF PutWrite
  <1> QED
    BY <1>5, <1>6, <1>7, <1>8 DEF Put

LEMMA CatalogChoices == ASSUME ChoiceInv, NEW s \in Slots, Catalogs(s) PROVE Faithful'
  <1> USE DEF ChoiceInv, Faithful
  <1> DEFINE r == call[s].req
  <1>0. Typed
    BY DEF BindInv
  <1>1. /\ call[s].pc # "idle" /\ call[s] \in Call /\ call \in [Slots -> Call] /\ r \in Requests
        /\ \A t \in Slots : t # s => call'[t] = call[t]
        /\ ~Writing(call'[s])
        /\ r.op # "update" => ~Updating(call'[s])
    BY <1>0, CatalogCalls, IdleNotCritical DEF Writing, Updating, Idle
  <1>2. CASE Unbind(s) \/ DropProfileBindings(s)
    <2>1. \E ms \in SUBSET Machines : DeleteBindings(ms)
      BY <1>1, <1>2, OnMachineTyped DEF Unbind, DropProfileBindings, At, UsersOfProfile
    <2> QED
      BY <1>1, <1>2, <2>1, ChoicesElsewhere DEF Unbind, DropProfileBindings, At, catalogs
  <1>3. CASE DropKeyLock(s) \/ DropKeyCount(s) \/ DropKeyDelete(s) \/ DropSubnetCount(s) \/ DropSubnetDelete(s)
             \/ DropProfileJobs(s) \/ DropProfileDelete(s)
    BY <1>1, <1>3, ChoicesElsewhere
    DEF DropKeyLock, DropKeyCount, DropKeyDelete, DropSubnetCount, DropSubnetDelete, DropProfileJobs, DropProfileDelete,
        At, catalogs
  <1>4. ASSUME NEW table, Create(s, table) PROVE Faithful'
    BY <1>1, <1>4, ChoicesElsewhere DEF Create, At
  <1>5. ASSUME NEW table, UpdateReads(s, table) PROVE Faithful'
    <2>1. UNCHANGED <<row, binding, choiceHistory>>
      BY <1>5 DEF UpdateReads, catalogs
    <2>2. call'[s] = Idle \/ (call'[s].req = r /\ call'[s].seen = row[r.id])
      BY <1>1, <1>5 DEF UpdateReads, Done, GotoWith, Call
    <2>3. UpdatesRead'
      BY <1>1, <2>1, <2>2 DEF UpdatesRead, Updating, Idle, choiceHistory
    <2>4. PutsRead'
      BY <1>1, <2>1 DEF PutsRead, choiceHistory, Existing
    <2> QED
      BY <2>1, <2>3, <2>4 DEF ExpectedTyped, LastChoiceKept, choiceHistory
  <1>6. ASSUME NEW table, UpdateWrite(s, table) PROVE Faithful'
    <2>1. Updating(call[s]) /\ call[s].seen \in Row /\ r.id \in Catalog /\ r.field \in Fields /\ r.value \in Values
      BY <1>0, <1>1, <1>6, UpdateTyped DEF UpdateWrite, At, Updating, Typed, CallsOK, CallOK
    <2>2. call'[s] = Idle /\ binding' = binding
      BY <1>1, <1>6 DEF UpdateWrite, Done
    <2>3. overlapped \subseteq overlapped'
      BY <1>6 DEF UpdateWrite
    <2>4. PutsRead'
      BY <1>1, <2>2, <2>3 DEF PutsRead, Existing
    <2>5. CASE UNCHANGED <<row, expected, overlapped>>
      BY <1>1, <2>2, <2>4, <2>5 DEF UpdatesRead, Updating, Idle, ExpectedTyped, LastChoiceKept
    <2>6. CASE /\ row' = [row EXCEPT ![r.id] = [call[s].seen EXCEPT ![r.field] = r.value]]
               /\ expected' = [expected EXCEPT !.row[r.id][r.field] = r.value]
               /\ overlapped' = overlapped \cup
                    {id \in {r.id} : \E t \in Slots \ {s} : At(t, "update", "write") /\ call[t].req.id = id}
      <3>1. row \in [Catalog -> Row] /\ expected.row \in [Catalog -> Row]
        BY <1>0 DEF Typed, RegistryTypeOK, ExpectedTyped
      <3>2. expected'.binding = expected.binding
            /\ expected'.row = [expected.row EXCEPT ![r.id] = [expected.row[r.id] EXCEPT ![r.field] = r.value]]
        BY <2>6 DEF ExpectedTyped
      <3>3. [expected.row[r.id] EXCEPT ![r.field] = r.value] \in Row
        BY <2>1, <3>1 DEF Row
      <3>4. ExpectedTyped'
        BY <2>6, <3>1, <3>2, <3>3 DEF ExpectedTyped
      <3>5. r.id \notin overlapped => call[s].seen = row[r.id] /\ row[r.id] = expected.row[r.id]
        BY <2>1 DEF UpdatesRead, LastChoiceKept
      <3>6. LastChoiceKept'
        BY <2>1, <2>2, <2>3, <2>6, <3>1, <3>2, <3>5 DEF LastChoiceKept
      <3>7. ASSUME NEW t \in Slots, Updating(call'[t]), call'[t].req.id \notin overlapped'
            PROVE  call'[t].seen = row'[call'[t].req.id]
        <4>1. t # s /\ call'[t] = call[t] /\ Updating(call[t])
          BY <1>1, <2>2, <3>7 DEF Updating, Idle
        <4>2. call[t].req.id # r.id
          BY <2>6, <3>7, <4>1 DEF Updating, At
        <4>3. call[t].req.id \in Catalog
          BY <1>0, <4>1, Serving, UpdateTyped DEF Updating
        <4> QED
          BY <2>3, <2>6, <3>1, <3>7, <4>1, <4>2, <4>3 DEF UpdatesRead
      <3>8. UpdatesRead'
        BY <3>7 DEF UpdatesRead
      <3> QED
        BY <2>4, <3>4, <3>6, <3>8
    <2> QED
      BY <1>6, <2>5, <2>6 DEF UpdateWrite
  <1> QED
    BY <1>2, <1>3, <1>4, <1>5, <1>6
    DEF Catalogs, CreateKey, CreateSubnet, CreateProfile, UpdateKey, UpdateSubnet, UpdateProfile

LEMMA OtherChoices ==
  ASSUME ChoiceInv, NEW s \in Slots, (\E r \in workload : Request(s, r)) \/ Register(s) \/ Fleet(s) PROVE Faithful'
  <1>0. Typed
    BY DEF ChoiceInv, BindInv
  <1>1. ASSUME NEW r \in workload, Request(s, r) PROVE Faithful'
    <2>1. call'[s].pc = "start" /\ \A t \in Slots : t # s => call'[t] = call[t]
      BY <1>0, <1>1 DEF Request, Typed, RegistryTypeOK
    <2>2. ~Writing(call'[s]) /\ ~Updating(call'[s])
      BY <2>1 DEF Writing, Updating
    <2> QED
      BY <1>1, <2>1, <2>2, ChoicesElsewhere DEF Request, catalogs
  <1>2. CASE Register(s)
    <2>1. ~Writing(call'[s]) /\ ~Updating(call'[s])
      BY <1>0, <1>2, RegisterCalls DEF Writing, Updating, Idle
    <2> QED
      BY <1>0, <1>2, <2>1, RegisterCalls, ChoicesElsewhere DEF bmcOnly, catalogs
  <1>3. CASE Fleet(s)
    <2>1. ~Writing(call'[s]) /\ ~Updating(call'[s])
      BY <1>0, <1>3, FleetCalls DEF Writing, Updating, Idle, FleetOps
    <2>2. CASE RetireBinding(s)
      <3>1. call[s].req.machine \in Machines
        BY <1>0, <2>2, Serving, OnMachineTyped DEF RetireBinding, At
      <3>2. \E ms \in SUBSET Machines : DeleteBindings(ms)
        BY <2>2, <3>1 DEF RetireBinding
      <3> QED
        BY <1>0, <1>3, <2>1, <3>2, FleetCalls, ChoicesElsewhere DEF catalogs
    <2> QED
      BY <1>0, <1>3, <2>1, <2>2, FleetCalls, ChoicesElsewhere DEF catalogs
  <1> QED
    BY <1>1, <1>2, <1>3

(* A binding holds what its PUTs last chose, a catalog row what its        *)
(* updates did, except where a deletion or a second update overlapped.     *)
THEOREM ChoicesAreKept == Spec => []LastChoiceKept
  <1>1. Init => ChoiceInv
    <2> SUFFICES ASSUME Init PROVE ChoiceInv
      OBVIOUS
    <2>1. \A s \in Slots : ~Writing(call[s]) /\ ~Updating(call[s])
      BY DEF Init, Writing, Updating, Idle
    <2>2. BindInv
      BY BindInit
    <2>3. ExpectedTyped /\ LastChoiceKept
      BY <2>2 DEF Init, ExpectedTyped, LastChoiceKept, BindInv, Typed, RegistryTypeOK
    <2> QED
      BY <2>1, <2>2, <2>3 DEF ChoiceInv, Faithful, PutsRead, UpdatesRead
  <1>2. ChoiceInv /\ [Next]_vars => ChoiceInv'
    <2> SUFFICES ASSUME ChoiceInv, [Next]_vars PROVE ChoiceInv'
      OBVIOUS
    <2>1. BindInv'
      BY BindStep DEF ChoiceInv
    <2>2. CASE UNCHANGED vars
      BY <2>1, <2>2 DEF vars, catalogs, choiceHistory, ChoiceInv, Faithful, ExpectedTyped, LastChoiceKept, PutsRead,
                        UpdatesRead, Existing
    <2>3. ASSUME NEW s \in Slots, (\E r \in workload : Request(s, r)) \/ Put(s) \/ Catalogs(s) \/ Register(s) \/ Fleet(s)
          PROVE  ChoiceInv'
      BY <2>1, <2>3, OtherChoices, PutChoices, CatalogChoices DEF ChoiceInv
    <2> QED
      BY <2>2, <2>3 DEF Next, Finished
  <1>3. ChoiceInv => LastChoiceKept
    BY DEF ChoiceInv, Faithful
  <1> QED
    BY <1>1, <1>2, <1>3, PTL DEF Spec
=============================================================================
