---------------------------- MODULE AddressPlan -----------------------------
(***************************************************************************)
(* Who gets which address: the DHCP server of Leases, the settings and the *)
(* subnet catalog its pools are built from (internal/settings/api.go,      *)
(* internal/subnets, dhcpReloader in cmd/controller/main.go), and the      *)
(* static addresses of bindings (internal/bindings/store.go).  The four    *)
(* share one database, but no lock.                                        *)
(***************************************************************************)
EXTENDS Leases

CONSTANTS
  BootPlan,                  \* DHCP settings of config.yaml
  LocalPlans,                \* DHCP settings an operator may save
  SubnetIds,                 \* rows of the subnet catalog
  SegmentOf,                 \* [SubnetIds -> segment its CIDR covers]
  Hosts,                     \* [SubnetIds -> host addresses of its CIDR, without the gateway]
  RangePlans,                \* [SubnetIds -> DHCP ranges it may be given], as sequences
  Machines,                  \* machines with a static profile
  Admins,                    \* HTTP requests of operators served at the same time
  MaxEdits                   \* bound on operator requests and controller starts

ASSUME EditBound == MaxEdits \in Nat

VARIABLES
  saved,                     \* the dhcp.* rows of the settings table, Nil before the first PUT
  catalog,                   \* table subnets: per row its DHCP ranges
  edit,                      \* per request: the reload it is going through
  static,                    \* column bindings.static_address, and who chose it
  choice,                    \* the Upsert that holds bindings.Store.allocMu, and whether a
                             \* DHCP client could claim the address it chose
  exposed,                   \* history: machines whose address a DHCP client could claim
  settled,                   \* history: no two reloads overlapped and none failed
  edits

planVars == <<saved, catalog, edit, static, choice, exposed, settled>>
vars == <<leaseVars, planVars, edits>>

(* DHCP settings: mode, pool (in scan order) and excluded addresses.       *)
LocalPlan == [mode : {"proxy", "full"}, addrs : Seq(Addrs), exclude : SUBSET Addrs]
Edit == [pc : {"idle", "check", "build", "swap"}, local : LocalPlan \cup {Nil}, next : Policy \cup {Nil}]

ASSUME PlansTyped ==
  /\ LocalPlans \cup {BootPlan} \subseteq LocalPlan
  /\ \A p \in LocalPlans \cup {BootPlan} : p.mode = "full" => p.addrs # <<>>
  /\ Nil \notin LocalPlans
ASSUME SubnetsTyped ==
  /\ "local" \in Segments
  /\ \A s \in SubnetIds : SegmentOf[s] \in Segments /\ Hosts[s] \subseteq Addrs /\ RangePlans[s] \subseteq Seq(Addrs)

Static == [ip : Addrs, typed : BOOLEAN]
Choice == [machine : Machines, ip : Addrs, claimable : BOOLEAN]
Idle == [pc |-> "idle", local |-> Nil, next |-> Nil]

(* effectiveDHCP, and the merge at startup: a saved row wins over the file.*)
Effective == IF saved = Nil THEN BootPlan ELSE saved

(* A row without ranges serves static addresses only.                      *)
Serving(s) == catalog[s] # Nil /\ catalog[s] # <<>>

(* NewSubnetPools refuses selectors that overlap.                          *)
Assemblable == \A s, t \in SubnetIds :
  (s # t /\ Serving(s) /\ Serving(t)) => SegmentOf[s] # SegmentOf[t]

(* subnetsToPools: the local pool, and one per catalog row with ranges;    *)
(* only the local one has exclusions.                                      *)
RelayPool(seg) ==
  IF \E s \in SubnetIds : Serving(s) /\ SegmentOf[s] = seg
    THEN [addrs |-> catalog[CHOOSE s \in SubnetIds : Serving(s) /\ SegmentOf[s] = seg], exclude |-> {}]
    ELSE Nil
BuildPools(addrs, exclude) ==
  [mode |-> "full",
   pools |-> [seg \in Segments |->
     IF seg = "local" THEN [addrs |-> addrs, exclude |-> exclude] ELSE RelayPool(seg)]]
NoPools(mode) == [mode |-> mode, pools |-> [seg \in Segments |-> Nil]]

(* run(): the pool set is assembled from an input without the excluded     *)
(* addresses; a set that cannot be assembled ends the process.             *)
BootPolicy ==
  IF Effective.mode = "proxy" THEN NoPools("proxy")
  ELSE IF Assemblable THEN BuildPools(Effective.addrs, {}) ELSE NoPools("down")

PlanTypeOK ==
  /\ LeaseTypeOK
  /\ saved \in LocalPlans \cup {Nil}
  /\ catalog \in [SubnetIds -> Seq(Addrs) \cup {Nil}]
  /\ edit \in [Admins -> Edit]
  /\ static \in [Machines -> Static \cup {Nil}]
  /\ choice \in Choice \cup {Nil}
  /\ exposed \in SUBSET Machines
  /\ settled \in BOOLEAN
  /\ edits \in 0 .. MaxEdits

Init ==
  /\ saved = Nil
  /\ catalog = [s \in SubnetIds |-> Nil]
  /\ live = BootPolicy
  /\ LeaseInit
  /\ edit = [a \in Admins |-> Idle]
  /\ static = [x \in Machines |-> Nil]
  /\ choice = Nil /\ exposed = {} /\ settled = TRUE /\ edits = 0

Up == live.mode # "down"
Begin(a) == Up /\ edit[a] = Idle /\ edits < MaxEdits /\ edits' = edits + 1
Step(a, record) == edit' = [edit EXCEPT ![a] = record]
Alone(a) == \A b \in Admins \ {a} : edit[b] = Idle

-----------------------------------------------------------------------------
(* Settings and the subnet catalog; each write is followed by a reload.    *)

(* PUT /settings/dhcp: SetMany, then ReloadDHCP with the saved values.     *)
PutSettings(a, plan) ==
  /\ Begin(a)
  /\ saved' = plan
  /\ Step(a, [Idle EXCEPT !.pc = IF plan.mode = "full" THEN "build" ELSE "swap",
                          !.local = plan,
                          !.next = IF plan.mode = "full" THEN Nil ELSE NoPools("proxy")])
  /\ settled' = (settled /\ Alone(a))
  /\ UNCHANGED <<leaseVars, catalog, static, choice, exposed>>

DeleteQuietly(a, s, ranges) ==   \* wrong on purpose: a deletion does not reload the server
  /\ Begin(a)
  /\ catalog[s] # ranges
  /\ catalog' = [catalog EXCEPT ![s] = ranges]
  /\ Step(a, IF ranges = Nil THEN Idle ELSE [Idle EXCEPT !.pc = "check"])
  /\ settled' = (settled /\ Alone(a))
  /\ UNCHANGED <<leaseVars, saved, static, choice, exposed>>

(* POST, PUT and DELETE /subnets; a row a binding uses is not deleted (see *)
(* Registry for that check).                                              *)
PutSubnet(a, s, ranges) ==
  /\ Begin(a)
  /\ catalog[s] # ranges
  /\ catalog' = [catalog EXCEPT ![s] = ranges]
  /\ Step(a, [Idle EXCEPT !.pc = "check"])
  /\ settled' = (settled /\ Alone(a))
  /\ UNCHANGED <<leaseVars, saved, static, choice, exposed>>

(* reloadFromSubnets: nothing to do in proxy mode; the local pool is taken *)
(* from the effective settings.                                            *)
CheckMode(a) ==
  /\ edit[a].pc = "check"
  /\ IF live.mode = "full" /\ Effective.mode = "full"
       THEN Step(a, [Idle EXCEPT !.pc = "build", !.local = Effective])
       ELSE Step(a, Idle)
  /\ UNCHANGED <<leaseVars, saved, catalog, static, choice, exposed, settled, edits>>

SwapAnyway(a) ==           \* wrong on purpose: the error of buildPools is not looked at
  /\ edit[a].pc = "build"
  /\ Step(a, [edit[a] EXCEPT !.pc = "swap",
       !.next = IF Assemblable THEN BuildPools(edit[a].local.addrs, edit[a].local.exclude) ELSE Nil])
  /\ settled' = (settled /\ Assemblable)
  /\ UNCHANGED <<leaseVars, saved, catalog, static, choice, exposed, edits>>

(* buildPools lists the catalog.  A failure is logged, the row stays.      *)
Build(a) ==
  /\ edit[a].pc = "build"
  /\ IF Assemblable
       THEN Step(a, [edit[a] EXCEPT !.pc = "swap", !.next = BuildPools(edit[a].local.addrs, edit[a].local.exclude)])
       ELSE Step(a, Idle)
  /\ settled' = (settled /\ Assemblable)
  /\ UNCHANGED <<leaseVars, saved, catalog, static, choice, exposed, edits>>

(* Addresses some pool of the policy hands out or renews: a REQUEST does   *)
(* not look at the exclusions.                                             *)
Served(policy) ==
  IF policy.mode # "full" THEN {}
  ELSE {a \in Addrs : \E seg \in Segments : policy.pools[seg] # Nil /\ Contains(policy.pools[seg], a)}

(* A policy that serves an address somebody chose makes it claimable.      *)
Expose(policy) ==
  /\ exposed' = exposed \cup {x \in Machines : static[x] # Nil /\ static[x].ip \in Served(policy)}
  /\ choice' = IF choice # Nil /\ choice.ip \in Served(policy)
                 THEN [choice EXCEPT !.claimable = TRUE] ELSE choice

Swap(a) ==
  /\ edit[a].pc = "swap"
  /\ Reload(edit[a].next)
  /\ Step(a, Idle)
  /\ Expose(edit[a].next)
  /\ UNCHANGED <<saved, catalog, static, settled, edits>>

(* The controller stops and starts; nobody restarts one that cannot boot.  *)
Restart ==
  /\ Up /\ edits < MaxEdits /\ edits' = edits + 1
  /\ Reboot(BootPolicy)
  /\ edit' = [a \in Admins |-> Idle]
  /\ choice' = Nil
  /\ exposed' = exposed \cup {x \in Machines : static[x] # Nil /\ static[x].ip \in Served(BootPolicy)}
  /\ settled' = Assemblable
  /\ UNCHANGED <<saved, catalog, static>>

-----------------------------------------------------------------------------
(* Static addresses.                                                       *)

(* reservedIPs: other bindings, leases in force, and the pool of the DHCP  *)
(* rows when it starts in this subnet.  A pool that only config.yaml has   *)
(* is not seen, nor are the ranges of the catalog.                         *)
PoolReserved(s) ==
  IF saved # Nil /\ saved.mode = "full" /\ saved.addrs[1] \in Hosts[s]
    THEN {saved.addrs[i] : i \in DOMAIN saved.addrs} ELSE {}
LeaseReserved == {a \in Addrs : \E m \in Macs : HasAddr(lease[m], a) /\ lease[m].expires > now}
BindingReserved(x) == {static[y].ip : y \in {y \in Machines \ {x} : static[y] # Nil}}
OnlyPools(x, s) ==         \* wrong on purpose: leases still in force are not looked at
  PoolReserved(s) \cup BindingReserved(x)
ReservedIPs(x, s) == PoolReserved(s) \cup LeaseReserved \cup BindingReserved(x)

(* allocateIPFromSubnet: the machine's own address if it is in the subnet; *)
(* otherwise one that is not reserved.  The ARP probe may pass over any of *)
(* them.                                                                   *)
Candidates(x, s) ==
  IF static[x] # Nil /\ static[x].ip \in Hosts[s] THEN {static[x].ip}
  ELSE Hosts[s] \ ReservedIPs(x, s)

(* Addresses a client may get although no lease in force has them: served, *)
(* picked, or on a row past its deadline, which Confirm revives.           *)
Claimable == Served(live) \cup
  {a \in Addrs : \/ alloc # Nil /\ alloc.ip = a
                 \/ \E m \in Macs : HasAddr(lease[m], a) /\ lease[m].expires <= now}

(* Upsert takes allocMu, chooses and writes.  An address the operator      *)
(* typed only has to be a host address of the subnet.                      *)
StaticChoose(x, s) ==
  /\ Up /\ edits < MaxEdits /\ edits' = edits + 1
  /\ choice = Nil
  /\ catalog[s] # Nil
  /\ \E ip \in Candidates(x, s) :
       choice' = [machine |-> x, ip |-> ip, claimable |-> ip \in Claimable]
  /\ UNCHANGED <<leaseVars, saved, catalog, edit, static, exposed, settled>>

Keeps(x, ip) == static[x] # Nil /\ static[x].ip = ip
StaticWrite ==
  LET x == choice.machine IN
  /\ choice # Nil
  /\ static' = [static EXCEPT ![x] =
       [ip |-> choice.ip, typed |-> Keeps(x, choice.ip) /\ static[x].typed]]
  /\ exposed' = IF Keeps(x, choice.ip) THEN exposed
                ELSE IF choice.claimable THEN exposed \cup {x} ELSE exposed \ {x}
  /\ choice' = Nil
  /\ UNCHANGED <<leaseVars, saved, catalog, edit, settled, edits>>

StaticTyped(x, s, ip) ==
  /\ Up /\ edits < MaxEdits /\ edits' = edits + 1
  /\ choice = Nil
  /\ catalog[s] # Nil /\ ip \in Hosts[s]
  /\ static' = [static EXCEPT ![x] = [ip |-> ip, typed |-> TRUE]]
  /\ UNCHANGED <<leaseVars, saved, catalog, edit, choice, exposed, settled>>

Operator(a) ==
  \/ \E plan \in LocalPlans : PutSettings(a, plan)
  \/ \E s \in SubnetIds : \E ranges \in RangePlans[s] \cup {Nil} : PutSubnet(a, s, ranges)
  \/ CheckMode(a) \/ Build(a) \/ Swap(a)

Next ==
  \/ LeaseStep /\ UNCHANGED <<planVars, edits>>
  \/ \E a \in Admins : Operator(a)
  \/ \E x \in Machines, s \in SubnetIds :
       StaticChoose(x, s) \/ \E ip \in Addrs : StaticTyped(x, s, ip)
  \/ StaticWrite
  \/ Restart

Spec == Init /\ [][Next]_vars

-----------------------------------------------------------------------------
(* Properties.                                                             *)

(* The DHCP server under this management is the one of Leases, whatever    *)
(* reloads reach it.                                                       *)
LeasesImplemented == LeaseSpec

(* An address the controller chose is used by no DHCP client, unless it    *)
(* could be claimed when it was chosen, or has been in a pool since (see   *)
(* exposed), or the ACK is one of those OneClientPerAddress excepts.       *)
StaticNotLeased == \A x \in Machines, m \in Macs :
  (static[x] # Nil /\ ~static[x].typed /\ Uses(m, static[x].ip) /\ held[m].until > now)
    => x \in exposed \/ m \in overtaken

(* When every edit has run its course, one after another, the server hands *)
(* out exactly what settings and catalog say (excluded addresses aside).   *)
LiveFollowsSaved ==
  (Up /\ settled /\ \A a \in Admins : edit[a] = Idle) =>
    /\ live.mode = Effective.mode
    /\ live.mode = "full" => live.pools["local"].addrs = Effective.addrs
    /\ live.mode = "full" => \A seg \in Segments \ {"local"} : live.pools[seg] = RelayPool(seg)
=============================================================================
