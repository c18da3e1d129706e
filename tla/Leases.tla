------------------------------- MODULE Leases -------------------------------
(***************************************************************************)
(* Full-mode DHCP (internal/dhcp/server.go) on the lease table             *)
(* (internal/leases/store.go).  A goroutine serves each packet: Allocate   *)
(* runs under allocMu, Confirm, Release and GC do not, and all of them are *)
(* several SQL statements.  Each client is modelled by what it believes:   *)
(* the address it was last acknowledged, and until when.                   *)
(***************************************************************************)
EXTENDS Naturals, Sequences, FiniteSets

CONSTANTS
  Macs,                      \* clients
  Segments,                  \* network segments: "local" and those behind relays
  Link,                      \* [Macs -> Segments]
  Addrs,                     \* IPv4 addresses, as numbers
  OfferDur, LeaseDur, Keep,  \* a minute, the lease time, the grace of the GC
  MaxTime,                   \* bound on the clock
  Nil

ASSUME ClockConstants == {OfferDur, LeaseDur, Keep, MaxTime} \subseteq Nat

VARIABLES
  now,
  live,                      \* Server.mode and Server.pools
  lease,                     \* table leases, PRIMARY KEY mac
  alloc,                     \* the Allocate that holds allocMu: its client and its pick
  request,                   \* per client: the REQUEST being served
  held,                      \* per client: the address it uses, and until when
  overtaken                  \* history: clients whose last ACK did not find its row in force

leaseVars == <<now, live, lease, alloc, request, held, overtaken>>

Pool == [addrs : Seq(Addrs), exclude : SUBSET Addrs]
Policy == [mode : {"proxy", "full", "down"}, pools : [Segments -> Pool \cup {Nil}]]

Row == [ip : Addrs, state : {"offered", "active", "released"}, expires : Nat]
Claim == [ip : Addrs, until : Nat]
Request == [ip : Addrs, heard : BOOLEAN]
Pick == [mac : Macs, ip : Addrs]

ASSUME LinkTyped == Link \in [Macs -> Segments]
ASSUME NilIsNothing == Nil \notin Addrs /\ Nil \notin Row

LeaseTypeOK ==
  /\ now \in Nat
  /\ live \in Policy
  /\ lease \in [Macs -> Row \cup {Nil}]
  /\ alloc \in Pick \cup {Nil}
  /\ request \in [Macs -> Request \cup {Nil}]
  /\ held \in [Macs -> Claim \cup {Nil}]
  /\ overtaken \in SUBSET Macs

LeaseInit ==
  /\ now = 0
  /\ live \in Policy
  /\ lease = [m \in Macs |-> Nil]
  /\ alloc = Nil
  /\ request = [m \in Macs |-> Nil]
  /\ held = [m \in Macs |-> Nil]
  /\ overtaken = {}

-----------------------------------------------------------------------------
(* Server side.                                                            *)

(* SubnetPools.poolForRequest: by the relay's address, or the local pool.  *)
(* No pool, or proxy mode: no answer.                                      *)
PoolFor(m) == IF live.mode = "full" THEN live.pools[Link[m]] ELSE Nil

Contains(pool, ip) == \E i \in DOMAIN pool.addrs : pool.addrs[i] = ip
Usable(pool, ip) == Contains(pool, ip) /\ ip \notin pool.exclude

InForce(row) == row # Nil /\ row.state # "released" /\ row.expires >= now
HasAddr(row, ip) == row # Nil /\ row.ip = ip
TakenByOffers(table) ==    \* wrong on purpose: confirmed leases are forgotten
  {a \in Addrs : \E m \in Macs : HasAddr(table[m], a) /\ InForce(table[m]) /\ table[m].state = "offered"}
TakenSet(table) == {a \in Addrs : \E m \in Macs : HasAddr(table[m], a) /\ InForce(table[m])}

(* nextFreeRanges: the first address, in scan order, that is neither       *)
(* excluded nor taken.                                                     *)
Free(pool, taken) == {i \in DOMAIN pool.addrs : pool.addrs[i] \notin pool.exclude \cup taken}
IsNextFree(pool, taken, ip) ==
  \E i \in Free(pool, taken) : pool.addrs[i] = ip /\ \A j \in Free(pool, taken) : i <= j

Offered(ip) == [ip |-> ip, state |-> "offered", expires |-> now + OfferDur]

(* What a DISCOVER means for the client: it has (re)started and uses no    *)
(* address, or this is an old packet served late, and it goes on.          *)
Restarts(m) ==
  /\ held' = [held EXCEPT ![m] = Nil]
  /\ request' = IF request[m] = Nil THEN request ELSE [request EXCEPT ![m].heard = FALSE]
  /\ overtaken' = overtaken \ {m}
GoesOn(m) ==
  /\ held[m] # Nil \/ request[m] # Nil
  /\ overtaken' = overtaken \cup {m}
  /\ UNCHANGED <<held, request>>
Discovers(m) == Restarts(m) \/ GoesOn(m)

(* Allocate with a row that is still usable: the same address again, and   *)
(* its deadline becomes that of an offer.                                  *)
AllocateSticky(m) ==
  LET pool == PoolFor(m) IN
  /\ alloc = Nil
  /\ pool # Nil
  /\ lease[m] # Nil /\ Usable(pool, lease[m].ip)
  /\ lease' = [lease EXCEPT ![m] = Offered(lease[m].ip)]
  /\ Discovers(m)
  /\ UNCHANGED <<now, live, alloc>>

(* Otherwise the row is dropped and a free address picked; allocMu stays   *)
(* with this Allocate until it has written.                                *)
AllocatePick(m) ==
  LET pool == PoolFor(m)
      dropped == [lease EXCEPT ![m] = Nil] IN
  /\ alloc = Nil
  /\ pool # Nil
  /\ ~(lease[m] # Nil /\ Usable(pool, lease[m].ip))
  /\ lease' = dropped
  /\ \/ \E ip \in Addrs : IsNextFree(pool, TakenSet(dropped), ip) /\ alloc' = [mac |-> m, ip |-> ip]
     \/ Free(pool, TakenSet(dropped)) = {} /\ UNCHANGED alloc          \* ErrPoolEmpty
  /\ Discovers(m)
  /\ UNCHANGED <<now, live>>

(* Whoever else has a row for the address loses it: the row was not in     *)
(* force when the address was picked.                                      *)
AllocateWrite ==
  /\ alloc # Nil
  /\ lease' = [m \in Macs |->
       IF m = alloc.mac THEN Offered(alloc.ip)
       ELSE IF HasAddr(lease[m], alloc.ip) THEN Nil ELSE lease[m]]
  /\ alloc' = Nil
  /\ UNCHANGED <<now, live, request, held, overtaken>>

(* REQUEST, first half: an address outside the pool, one that is not the   *)
(* row's, or no row at all is answered with a NAK.  iPXE asks for no       *)
(* particular address (Nil).                                               *)
RequestRead(m, asked) ==
  LET pool == PoolFor(m)
      refused == \/ asked # Nil /\ ~Contains(pool, asked)
                 \/ lease[m] = Nil
                 \/ asked # Nil /\ ~HasAddr(lease[m], asked) IN
  /\ request[m] = Nil
  /\ pool # Nil
  /\ IF refused
       THEN held' = [held EXCEPT ![m] = Nil] /\ UNCHANGED request
       ELSE request' = [request EXCEPT ![m] = [ip |-> lease[m].ip, heard |-> TRUE]] /\ UNCHANGED held
  /\ UNCHANGED <<now, live, lease, alloc, overtaken>>

(* The row is as the client will believe it to be once it is acknowledged, *)
(* has not reached its deadline, and its address is nobody else's pick.    *)
Confirmable(m, ip) ==
  HasAddr(lease[m], ip) /\ InForce(lease[m]) /\ lease[m].expires > now /\ ~(alloc # Nil /\ alloc.mac # m /\ alloc.ip = ip)

(* An UPDATE of one row, or of none if it is gone.                         *)
Stamped(row, state, until) == [row EXCEPT !.state = state, !.expires = until]
UpdateRow(m, state, until) ==
  lease' = [lease EXCEPT ![m] = IF @ = Nil THEN Nil ELSE Stamped(@, state, until)]

(* Second half: the UPDATE, and the ACK for the address read before.       *)
RequestWrite(m) ==
  LET ip == request[m].ip  until == now + LeaseDur IN
  /\ request[m] # Nil
  /\ UpdateRow(m, "active", until)
  /\ IF request[m].heard
       THEN /\ held' = [held EXCEPT ![m] = [ip |-> ip, until |-> until]]
            /\ overtaken' = IF Confirmable(m, ip) THEN overtaken \ {m} ELSE overtaken \cup {m}
       ELSE UNCHANGED <<held, overtaken>>
  /\ request' = [request EXCEPT ![m] = Nil]
  /\ UNCHANGED <<now, live, alloc>>

(* RELEASE and DECLINE alike: the row stays, the address is free.          *)
Release(m) ==
  /\ PoolFor(m) # Nil
  /\ UpdateRow(m, "released", now)
  /\ Discovers(m)
  /\ UNCHANGED <<now, live, alloc>>

CollectAtDeadline ==       \* wrong on purpose: no grace period, and the deadline is part of it
  /\ lease' = [m \in Macs |-> IF lease[m] # Nil /\ lease[m].expires <= now THEN Nil ELSE lease[m]]
  /\ UNCHANGED <<now, live, alloc, request, held, overtaken>>

(* runLeaseGC.                                                             *)
GC ==
  /\ lease' = [m \in Macs |->
       IF lease[m] # Nil /\ lease[m].expires + Keep < now THEN Nil ELSE lease[m]]
  /\ UNCHANGED <<now, live, alloc, request, held, overtaken>>

(* Server.Reload: one swap of mode, pools and lease store.                 *)
Reload(policy) ==
  /\ live' = policy
  /\ UNCHANGED <<now, lease, alloc, request, held, overtaken>>

(* The controller starts again: the table is kept, the packets in progress *)
(* are not, and the pools are built anew.                                  *)
Reboot(policy) ==
  /\ live' = policy
  /\ alloc' = Nil
  /\ request' = [m \in Macs |-> Nil]
  /\ UNCHANGED <<now, lease, held, overtaken>>

Tick ==
  /\ now < MaxTime
  /\ now' = now + 1
  /\ UNCHANGED <<live, lease, alloc, request, held, overtaken>>

Serve(m) ==
  \/ AllocateSticky(m) \/ AllocatePick(m)
  \/ \E asked \in Addrs \cup {Nil} : RequestRead(m, asked)
  \/ RequestWrite(m)
  \/ Release(m)

LeaseStep == (\E m \in Macs : Serve(m)) \/ AllocateWrite \/ GC \/ Tick
LeaseNext == LeaseStep \/ \E policy \in Policy : Reload(policy) \/ Reboot(policy)

LeaseSpec == LeaseInit /\ [][LeaseNext]_leaseVars

-----------------------------------------------------------------------------
(* Properties.                                                             *)

Uses(m, ip) == held[m] # Nil /\ held[m].until >= now /\ held[m].ip = ip

(* No two clients use one address, unless one of them was acknowledged a   *)
(* row that was out of force or picked for another client, or a DISCOVER   *)
(* or RELEASE of it was served after a later packet: Confirm neither takes *)
(* allocMu nor looks at the row count of its UPDATE.                       *)
OneClientPerAddress == \A m1, m2 \in Macs : \A a \in Addrs :
  (m1 # m2 /\ Uses(m1, a) /\ Uses(m2, a)) => {m1, m2} \cap overtaken # {}

(* The promise of an ACK is on record to the end, over reloads, restarts   *)
(* and the GC: the row is active, names the address and lasts as long.     *)
AckOnRecord == \A m \in Macs : \A a \in Addrs :
  (Uses(m, a) /\ m \notin overtaken) =>
    HasAddr(lease[m], a) /\ lease[m].state = "active" /\ lease[m].expires >= held[m].until
=============================================================================
