-------------------------- MODULE AddressPlan_proofs --------------------------
(***************************************************************************)
(* Proofs about the DHCP server and its lease table, for any number of     *)
(* clients, addresses, segments and pools, and any durations, and then     *)
(* about the server under its settings, its subnet catalog and the static  *)
(* addresses of bindings, for any number of operators and subnets.  Every  *)
(* step of the second is a step of Leases or leaves the lease table alone, *)
(* so what the first part shows of the table holds in the second.          *)
(*                                                                         *)
(* Neither property of the table is inductive: allocMu and the statements  *)
(* of one Allocate leave facts behind on which its last statement relies.  *)
(***************************************************************************)
EXTENDS AddressPlan, TLAPS

(* An address is on at most one row: Upsert evicts whoever else had it.    *)
OneRow == \A x, y \in Macs :
  (x # y /\ lease[x] # Nil /\ lease[y] # Nil) => lease[x].ip # lease[y].ip

(* The holder of allocMu has deleted its client's row and nobody writes    *)
(* one for it meanwhile; the address it picked is used by no client whose  *)
(* lease is in order.                                                      *)
PickerHasNoRow == alloc # Nil => lease[alloc.mac] = Nil
PickUnused == alloc # Nil => \A m \in Macs : Uses(m, alloc.ip) => m \in overtaken

(* A client that started over while its REQUEST was served uses nothing.   *)
UnheardUsesNothing == \A m \in Macs :
  (request[m] # Nil /\ ~request[m].heard) => held[m] = Nil

LeaseInv ==
  /\ LeaseTypeOK
  /\ OneRow /\ PickerHasNoRow /\ PickUnused /\ UnheardUsesNothing
  /\ AckOnRecord

-----------------------------------------------------------------------------
(* A row of the table and what the statements write into one.              *)
LEMMA OfferIsRow ==
  ASSUME now \in Nat, NEW ip \in Addrs PROVE Offered(ip) \in Row
  BY ClockConstants DEF Offered, Row

LEMMA RowUpdated ==
  ASSUME NEW r \in Row, NEW s \in {"offered", "active", "released"}, NEW t \in Nat
  PROVE  /\ Stamped(r, s, t) \in Row /\ Stamped(r, s, t) # Nil
         /\ Stamped(r, s, t).ip = r.ip
         /\ Stamped(r, s, t).state = s
         /\ Stamped(r, s, t).expires = t
  BY NilIsNothing DEF Row, Stamped

LEMMA UpdateRowTyped ==
  ASSUME lease \in [Macs -> Row \cup {Nil}],
         NEW m \in Macs, NEW s \in {"offered", "active", "released"}, NEW t \in Nat, UpdateRow(m, s, t)
  PROVE  lease' \in [Macs -> Row \cup {Nil}]
  BY RowUpdated DEF UpdateRow

LEMMA UpdateRowKeeps ==
  ASSUME lease \in [Macs -> Row \cup {Nil}],
         NEW m \in Macs, NEW s \in {"offered", "active", "released"}, NEW t \in Nat, UpdateRow(m, s, t)
  PROVE  \A n \in Macs : lease'[n] # Nil => lease[n] # Nil /\ lease'[n].ip = lease[n].ip
  <1> SUFFICES ASSUME NEW n \in Macs, lease'[n] # Nil PROVE lease[n] # Nil /\ lease'[n].ip = lease[n].ip
    OBVIOUS
  <1>1. lease'[n] = IF n = m THEN (IF lease[m] = Nil THEN Nil ELSE Stamped(lease[m], s, t)) ELSE lease[n]
    BY DEF UpdateRow
  <1>2. lease[m] # Nil => Stamped(lease[m], s, t).ip = lease[m].ip
    BY DEF Stamped, Row
  <1> QED
    BY <1>1, <1>2

LEMMA TypeInit == LeaseInit => LeaseTypeOK
  BY DEF LeaseInit, LeaseTypeOK

(* What a DISCOVER or a RELEASE leaves of the client's beliefs.            *)
LEMMA DiscoversTyped ==
  ASSUME LeaseTypeOK, NEW m \in Macs, Discovers(m)
  PROVE  /\ request' \in [Macs -> Request \cup {Nil}]
         /\ held' \in [Macs -> Claim \cup {Nil}]
         /\ overtaken' \in SUBSET Macs
  <1>1. CASE Restarts(m)
    BY <1>1 DEF Restarts, LeaseTypeOK, Request
  <1>2. CASE GoesOn(m)
    BY <1>2 DEF GoesOn, LeaseTypeOK
  <1> QED
    BY <1>1, <1>2 DEF Discovers

(* Every packet, the collector, a reload and a start keep the columns      *)
(* within the schema.                                                      *)
LEMMA TypeStep == LeaseTypeOK /\ [LeaseNext]_leaseVars => LeaseTypeOK'
  <1> SUFFICES ASSUME LeaseTypeOK, [LeaseNext]_leaseVars PROVE LeaseTypeOK'
    OBVIOUS
  <1>1. ASSUME NEW m \in Macs, AllocateSticky(m) PROVE LeaseTypeOK'
    <2>1. lease[m] \in Row
      BY <1>1 DEF AllocateSticky, LeaseTypeOK
    <2>2. lease[m].ip \in Addrs /\ now \in Nat
      BY <2>1 DEF LeaseTypeOK, Row
    <2>3. Offered(lease[m].ip) \in Row
      BY <2>2, OfferIsRow
    <2>4. /\ lease' = [lease EXCEPT ![m] = Offered(lease[m].ip)]
          /\ Discovers(m)
          /\ UNCHANGED <<now, live, alloc>>
      BY <1>1 DEF AllocateSticky
    <2>5. lease' \in [Macs -> Row \cup {Nil}]
      BY <2>3, <2>4 DEF LeaseTypeOK
    <2> QED
      BY <2>4, <2>5, DiscoversTyped DEF LeaseTypeOK
  <1>2. ASSUME NEW m \in Macs, AllocatePick(m) PROVE LeaseTypeOK'
    <2>1. alloc' \in Pick \cup {Nil}
      BY <1>2 DEF AllocatePick, Pick, LeaseTypeOK
    <2>2. /\ lease' = [lease EXCEPT ![m] = Nil]
          /\ Discovers(m)
          /\ UNCHANGED <<now, live>>
      BY <1>2 DEF AllocatePick
    <2>3. lease' \in [Macs -> Row \cup {Nil}]
      BY <2>2 DEF LeaseTypeOK
    <2> QED
      BY <2>1, <2>2, <2>3, DiscoversTyped DEF LeaseTypeOK
  <1>3. ASSUME NEW m \in Macs, NEW asked, RequestRead(m, asked) PROVE LeaseTypeOK'
    <2>1. \/ held' = [held EXCEPT ![m] = Nil] /\ UNCHANGED request
          \/ /\ request' = [request EXCEPT ![m] = [ip |-> lease[m].ip, heard |-> TRUE]]
             /\ lease[m] # Nil
             /\ UNCHANGED held
      BY <1>3 DEF RequestRead
    <2>2. request' \in [Macs -> Request \cup {Nil}] /\ held' \in [Macs -> Claim \cup {Nil}]
      <3>1. lease[m] # Nil => lease[m].ip \in Addrs
        BY DEF LeaseTypeOK, Row
      <3>2. lease[m] # Nil => [ip |-> lease[m].ip, heard |-> TRUE] \in Request
        BY <3>1 DEF Request
      <3>3. CASE held' = [held EXCEPT ![m] = Nil] /\ UNCHANGED request
        BY <3>3 DEF LeaseTypeOK
      <3>4. CASE lease[m] # Nil /\ request' = [request EXCEPT ![m] = [ip |-> lease[m].ip, heard |-> TRUE]] /\ UNCHANGED held
        BY <3>2, <3>4 DEF LeaseTypeOK
      <3> QED
        BY <2>1, <3>3, <3>4
    <2> QED
      BY <1>3, <2>2 DEF RequestRead, LeaseTypeOK
  <1>4. ASSUME NEW m \in Macs, RequestWrite(m) PROVE LeaseTypeOK'
    <2>1. now + LeaseDur \in Nat /\ request[m].ip \in Addrs
      BY <1>4, ClockConstants DEF RequestWrite, LeaseTypeOK, Request
    <2>2. lease' \in [Macs -> Row \cup {Nil}]
      BY <1>4, <2>1, UpdateRowTyped DEF RequestWrite, LeaseTypeOK
    <2>3. held' \in [Macs -> Claim \cup {Nil}] /\ overtaken' \in SUBSET Macs
      BY <1>4, <2>1 DEF RequestWrite, LeaseTypeOK, Claim
    <2> QED
      BY <1>4, <2>2, <2>3 DEF RequestWrite, LeaseTypeOK
  <1>5. ASSUME NEW m \in Macs, Release(m) PROVE LeaseTypeOK'
    <2>1. lease' \in [Macs -> Row \cup {Nil}]
      BY <1>5, UpdateRowTyped DEF Release, LeaseTypeOK
    <2> QED
      BY <1>5, <2>1, DiscoversTyped DEF Release, LeaseTypeOK
  <1>6. ASSUME AllocateWrite PROVE LeaseTypeOK'
    <2>1. Offered(alloc.ip) \in Row
      BY <1>6, OfferIsRow DEF AllocateWrite, LeaseTypeOK, Pick
    <2> QED
      BY <1>6, <2>1 DEF AllocateWrite, LeaseTypeOK
  <1>7. ASSUME GC \/ Tick PROVE LeaseTypeOK'
    BY <1>7 DEF GC, Tick, LeaseTypeOK
  <1>8. ASSUME NEW policy \in Policy, Reload(policy) \/ Reboot(policy) PROVE LeaseTypeOK'
    BY <1>8 DEF Reload, Reboot, LeaseTypeOK
  <1>9. CASE UNCHANGED leaseVars
    BY <1>9 DEF leaseVars, LeaseTypeOK
  <1> QED
    BY <1>1, <1>2, <1>3, <1>4, <1>5, <1>6, <1>7, <1>8, <1>9 DEF LeaseNext, LeaseStep, Serve

-----------------------------------------------------------------------------
(* The invariant.                                                          *)

LEMMA InvInit == LeaseInit => LeaseInv
  BY TypeInit DEF LeaseInit, LeaseInv, OneRow, PickerHasNoRow, PickUnused,
                  UnheardUsesNothing, AckOnRecord, Uses

(* After a DISCOVER or RELEASE of m, its lease is no longer promised to    *)
(* last; the other clients notice nothing.                                 *)
LEMMA DiscoversEffect ==
  ASSUME LeaseTypeOK, UnheardUsesNothing, NEW m \in Macs, Discovers(m)
  PROVE  /\ held'[m] = Nil \/ m \in overtaken'
         /\ \A n \in Macs : n # m => held'[n] = held[n] /\ (n \in overtaken' <=> n \in overtaken)
         /\ UnheardUsesNothing'
  <1>1. CASE Restarts(m)
    <2>1. held'[m] = Nil /\ \A n \in Macs : n # m => held'[n] = held[n] /\ request'[n] = request[n]
      BY <1>1 DEF Restarts, LeaseTypeOK
    <2> QED
      BY <1>1, <2>1 DEF Restarts, LeaseTypeOK, UnheardUsesNothing
  <1>2. CASE GoesOn(m)
    BY <1>2 DEF GoesOn, LeaseTypeOK, UnheardUsesNothing
  <1> QED
    BY <1>1, <1>2 DEF Discovers

(* A client whose lease is in order keeps its address out of every pick.   *)
LEMMA InUseIsTaken ==
  ASSUME LeaseTypeOK, AckOnRecord, NEW m \in Macs, NEW n \in Macs, m # n,
         NEW ip \in Addrs, Uses(m, ip), m \notin overtaken
  PROVE  ip \in TakenSet([lease EXCEPT ![n] = Nil])
  <1>1. HasAddr(lease[m], ip) /\ lease[m].state = "active" /\ lease[m].expires >= held[m].until
    BY DEF AckOnRecord
  <1>2. lease[m].expires >= now
    BY <1>1 DEF Uses, LeaseTypeOK, Claim, Row, HasAddr
  <1> QED
    BY <1>1, <1>2 DEF TakenSet, InForce, HasAddr, LeaseTypeOK

(* The same address again: only its deadline moves, and the client has     *)
(* stopped using it.                                                       *)
LEMMA StickyStep ==
  ASSUME LeaseInv, NEW m \in Macs, AllocateSticky(m)
  PROVE  OneRow' /\ PickerHasNoRow' /\ PickUnused' /\ UnheardUsesNothing' /\ AckOnRecord'
  <1> USE DEF LeaseInv
  <1>1. /\ held'[m] = Nil \/ m \in overtaken'
        /\ \A n \in Macs : n # m => held'[n] = held[n] /\ (n \in overtaken' <=> n \in overtaken)
        /\ UnheardUsesNothing'
    BY DiscoversEffect DEF AllocateSticky
  <1>2. /\ lease'[m].ip = lease[m].ip /\ lease[m] # Nil
        /\ \A n \in Macs : n # m => lease'[n] = lease[n]
        /\ alloc = Nil /\ alloc' = Nil /\ now' = now
    BY DEF AllocateSticky, Offered, LeaseTypeOK
  <1>3. OneRow'
    BY <1>2 DEF OneRow
  <1>4. AckOnRecord'
    BY <1>1, <1>2 DEF AckOnRecord, Uses, HasAddr
  <1> QED
    BY <1>1, <1>2, <1>3, <1>4 DEF PickerHasNoRow, PickUnused

(* The pick avoids what is taken, so what is in use.                       *)
LEMMA PickStep ==
  ASSUME LeaseInv, NEW m \in Macs, AllocatePick(m)
  PROVE  OneRow' /\ PickerHasNoRow' /\ PickUnused' /\ UnheardUsesNothing' /\ AckOnRecord'
  <1> USE DEF LeaseInv
  <1>1. /\ held'[m] = Nil \/ m \in overtaken'
        /\ \A n \in Macs : n # m => held'[n] = held[n] /\ (n \in overtaken' <=> n \in overtaken)
        /\ UnheardUsesNothing'
    BY DiscoversEffect DEF AllocatePick
  <1>2. /\ lease' = [lease EXCEPT ![m] = Nil]
        /\ lease'[m] = Nil
        /\ \A n \in Macs : n # m => lease'[n] = lease[n]
        /\ now' = now
    BY DEF AllocatePick, LeaseTypeOK
  <1>3. OneRow' /\ AckOnRecord'
    BY <1>1, <1>2 DEF OneRow, AckOnRecord, Uses, HasAddr
  <1>4. alloc' # Nil => alloc'.mac = m /\ alloc'.ip \in Addrs /\ alloc'.ip \notin TakenSet([lease EXCEPT ![m] = Nil])
    <2> DEFINE taken == TakenSet([lease EXCEPT ![m] = Nil])
    <2>1. \/ alloc' = Nil
          \/ \E ip \in Addrs : IsNextFree(PoolFor(m), taken, ip) /\ alloc' = [mac |-> m, ip |-> ip]
      BY DEF AllocatePick
    <2>2. \A ip \in Addrs : IsNextFree(PoolFor(m), taken, ip) => ip \notin taken
      <3> HIDE DEF taken
      <3> QED
        BY DEF IsNextFree, Free
    <2>3. ASSUME NEW ip \in Addrs, IsNextFree(PoolFor(m), taken, ip), alloc' = [mac |-> m, ip |-> ip]
          PROVE  alloc'.mac = m /\ alloc'.ip \in Addrs /\ alloc'.ip \notin taken
      <3>1. ip \notin taken
        BY <2>2, <2>3
      <3> HIDE DEF taken
      <3> QED
        BY <2>3, <3>1
    <2> QED
      BY <2>1, <2>3
  <1>5. PickerHasNoRow'
    BY <1>2, <1>4 DEF PickerHasNoRow
  <1>6. ASSUME alloc' # Nil, NEW n \in Macs, Uses(n, alloc.ip)', n \notin overtaken' PROVE FALSE
    <2>1. n # m
      BY <1>1, <1>6 DEF Uses
    <2>2. Uses(n, alloc'.ip) /\ n \notin overtaken
      BY <1>1, <1>2, <1>6, <2>1 DEF Uses
    <2> QED
      BY <1>4, <1>6, <2>1, <2>2, InUseIsTaken
  <1> QED
    BY <1>1, <1>3, <1>5, <1>6 DEF PickUnused

(* Evicting the other rows of the address evicts nobody who uses it.       *)
LEMMA WriteStep ==
  ASSUME LeaseInv, AllocateWrite
  PROVE  OneRow' /\ PickerHasNoRow' /\ PickUnused' /\ UnheardUsesNothing' /\ AckOnRecord'
  <1> USE DEF LeaseInv
  <1>1. /\ alloc \in Pick /\ lease[alloc.mac] = Nil
        /\ alloc' = Nil
        /\ UNCHANGED <<now, request, held, overtaken>>
    BY DEF AllocateWrite, LeaseTypeOK, PickerHasNoRow
  <1>2. \A n \in Macs : lease'[n] = IF n = alloc.mac THEN Offered(alloc.ip)
                                    ELSE IF HasAddr(lease[n], alloc.ip) THEN Nil ELSE lease[n]
    BY DEF AllocateWrite
  <1>3. OneRow'
    BY <1>1, <1>2 DEF OneRow, HasAddr, Offered
  <1>4. ASSUME NEW n \in Macs, NEW a \in Addrs, Uses(n, a)', n \notin overtaken'
        PROVE  lease'[n] = lease[n] /\ Uses(n, a) /\ n \notin overtaken
    <2>1. Uses(n, a) /\ n \notin overtaken
      <3>1. held' = held /\ now' = now /\ overtaken' = overtaken
        BY <1>1
      <3> QED
        BY <1>4, <3>1 DEF Uses
    <2>2. HasAddr(lease[n], a) /\ a # alloc.ip
      BY <1>1, <2>1 DEF AckOnRecord, PickUnused, AllocateWrite
    <2> QED
      BY <1>1, <1>2, <2>1, <2>2 DEF HasAddr
  <1>5. AckOnRecord'
    BY <1>1, <1>4 DEF AckOnRecord
  <1> QED
    BY <1>1, <1>3, <1>5 DEF PickerHasNoRow, PickUnused, UnheardUsesNothing

LEMMA ReadStep ==
  ASSUME LeaseInv, NEW m \in Macs, NEW asked, RequestRead(m, asked)
  PROVE  OneRow' /\ PickerHasNoRow' /\ PickUnused' /\ UnheardUsesNothing' /\ AckOnRecord'
  <1> USE DEF LeaseInv
  <1>1. /\ \A n \in Macs : held'[n] = held[n] \/ held'[n] = Nil
        /\ UNCHANGED <<now, lease, alloc, overtaken>>
        /\ \A n \in Macs : request'[n] = request[n] \/ request'[n].heard
    BY DEF RequestRead, LeaseTypeOK
  <1> QED
    BY <1>1 DEF OneRow, PickerHasNoRow, PickUnused, UnheardUsesNothing, AckOnRecord, Uses

(* Confirm writes the row as it finds it: in order, or the client is       *)
(* counted as overtaken.                                                   *)
LEMMA ConfirmStep ==
  ASSUME LeaseInv, NEW m \in Macs, RequestWrite(m)
  PROVE  OneRow' /\ PickerHasNoRow' /\ PickUnused' /\ UnheardUsesNothing' /\ AckOnRecord'
  <1> USE DEF LeaseInv
  <1> DEFINE until == now + LeaseDur
  <1>1. until \in Nat /\ request[m] \in Request
    BY ClockConstants DEF RequestWrite, LeaseTypeOK
  <1>2. /\ \A n \in Macs : n # m => lease'[n] = lease[n]
        /\ lease'[m] = IF lease[m] = Nil THEN Nil ELSE Stamped(lease[m], "active", until)
        /\ request' = [request EXCEPT ![m] = Nil]
        /\ UNCHANGED <<now, alloc>>
    BY DEF RequestWrite, UpdateRow, LeaseTypeOK
  <1>3. lease[m] # Nil => /\ lease'[m] # Nil /\ lease'[m].ip = lease[m].ip
                          /\ lease'[m].state = "active" /\ lease'[m].expires = until
    <2> SUFFICES ASSUME lease[m] # Nil
                 PROVE  /\ lease'[m] # Nil /\ lease'[m].ip = lease[m].ip
                        /\ lease'[m].state = "active" /\ lease'[m].expires = until
      OBVIOUS
    <2>1. lease[m] \in Row /\ lease'[m] = Stamped(lease[m], "active", until)
      BY <1>2 DEF LeaseTypeOK
    <2> HIDE DEF until
    <2> QED
      BY <1>1, <2>1, RowUpdated
  <1>4. \A n \in Macs : n # m => held'[n] = held[n] /\ (n \in overtaken' <=> n \in overtaken)
    BY DEF RequestWrite, LeaseTypeOK
  <1>5. OneRow' /\ PickerHasNoRow'
    BY <1>2, <1>3 DEF OneRow, PickerHasNoRow, LeaseTypeOK, Pick
  <1>6. UnheardUsesNothing'
    BY <1>2, <1>4 DEF UnheardUsesNothing, LeaseTypeOK
  <1>7. CASE request[m].heard
    <2>1. held'[m] = [ip |-> request[m].ip, until |-> until]
      BY <1>7 DEF RequestWrite, LeaseTypeOK
    <2>2. m \notin overtaken' => Confirmable(m, request[m].ip)
      BY <1>7 DEF RequestWrite
    <2>3. AckOnRecord'
      BY <1>1, <1>2, <1>3, <1>4, <2>1, <2>2 DEF AckOnRecord, Uses, Confirmable, HasAddr
    <2>4. PickUnused'
      BY <1>2, <1>4, <2>1, <2>2 DEF PickUnused, PickerHasNoRow, Uses, Confirmable, HasAddr
    <2> QED
      BY <1>5, <1>6, <2>3, <2>4
  <1>8. CASE ~request[m].heard
    <2>1. held[m] = Nil /\ UNCHANGED <<held, overtaken>>
      BY <1>8 DEF RequestWrite, UnheardUsesNothing
    <2>2. AckOnRecord' /\ PickUnused'
      BY <1>2, <2>1 DEF AckOnRecord, PickUnused, Uses
    <2> QED
      BY <1>5, <1>6, <2>2
  <1> QED
    BY <1>7, <1>8

LEMMA ReleaseStep ==
  ASSUME LeaseInv, NEW m \in Macs, Release(m)
  PROVE  OneRow' /\ PickerHasNoRow' /\ PickUnused' /\ UnheardUsesNothing' /\ AckOnRecord'
  <1> USE DEF LeaseInv
  <1>1. /\ held'[m] = Nil \/ m \in overtaken'
        /\ \A n \in Macs : n # m => held'[n] = held[n] /\ (n \in overtaken' <=> n \in overtaken)
        /\ UnheardUsesNothing'
    BY DiscoversEffect DEF Release
  <1>2. /\ \A n \in Macs : n # m => lease'[n] = lease[n]
        /\ lease[m] = Nil => lease'[m] = Nil
        /\ lease[m] # Nil => lease'[m].ip = lease[m].ip
        /\ UNCHANGED <<now, alloc>>
    BY RowUpdated DEF Release, UpdateRow, LeaseTypeOK
  <1>3. OneRow' /\ PickerHasNoRow'
    BY <1>2 DEF OneRow, PickerHasNoRow, LeaseTypeOK, Pick
  <1>4. AckOnRecord' /\ PickUnused'
    BY <1>1, <1>2 DEF AckOnRecord, PickUnused, Uses, HasAddr
  <1> QED
    BY <1>1, <1>3, <1>4

(* The collector takes rows past their deadline only, and no promise       *)
(* outlives the deadline of its row.                                       *)
LEMMA CollectStep ==
  ASSUME LeaseInv, GC
  PROVE  OneRow' /\ PickerHasNoRow' /\ PickUnused' /\ UnheardUsesNothing' /\ AckOnRecord'
  <1> USE DEF LeaseInv
  <1>1. /\ UNCHANGED <<now, alloc, request, held, overtaken>>
        /\ \A n \in Macs : lease'[n] = IF lease[n] # Nil /\ lease[n].expires + Keep < now THEN Nil ELSE lease[n]
    BY DEF GC
  <1>2. ASSUME NEW n \in Macs, NEW a \in Addrs, Uses(n, a), n \notin overtaken PROVE lease'[n] = lease[n]
    <2>1. lease[n] \in Row /\ lease[n].expires >= held[n].until /\ held[n].until >= now /\ held[n] \in Claim
      BY <1>2 DEF AckOnRecord, HasAddr, Uses, LeaseTypeOK
    <2>2. ~(lease[n].expires + Keep < now)
      BY <2>1, ClockConstants DEF Row, Claim, LeaseTypeOK
    <2> QED
      BY <1>1, <2>2
  <1>3. AckOnRecord' /\ PickUnused'
    BY <1>1, <1>2 DEF AckOnRecord, PickUnused, Uses
  <1> QED
    BY <1>1, <1>3 DEF OneRow, PickerHasNoRow, UnheardUsesNothing, LeaseTypeOK, Pick

(* A second passes: promises end, none begins.                             *)
LEMMA TickStep ==
  ASSUME LeaseInv, Tick
  PROVE  OneRow' /\ PickerHasNoRow' /\ PickUnused' /\ UnheardUsesNothing' /\ AckOnRecord'
  <1> USE DEF LeaseInv
  <1>1. now' = now + 1 /\ UNCHANGED <<lease, alloc, request, held, overtaken>>
    BY DEF Tick
  <1>2. \A n \in Macs : \A a \in Addrs : Uses(n, a)' => Uses(n, a)
    BY <1>1 DEF Uses, LeaseTypeOK, Claim
  <1>3. AckOnRecord'
    BY <1>1, <1>2 DEF AckOnRecord
  <1>4. PickUnused'
    BY <1>1, <1>2 DEF PickUnused, LeaseTypeOK, Pick
  <1> QED
    BY <1>1, <1>3, <1>4 DEF OneRow, PickerHasNoRow, UnheardUsesNothing

(* A new policy touches no lease; a start forgets the packets in progress. *)
LEMMA PolicyStep ==
  ASSUME LeaseInv, NEW policy, Reload(policy) \/ Reboot(policy)
  PROVE  OneRow' /\ PickerHasNoRow' /\ PickUnused' /\ UnheardUsesNothing' /\ AckOnRecord'
  <1> USE DEF LeaseInv
  <1>1. UNCHANGED <<now, lease, held, overtaken>>
    BY DEF Reload, Reboot
  <1>2. OneRow' /\ AckOnRecord'
    BY <1>1 DEF OneRow, AckOnRecord, Uses
  <1>3. (alloc' = alloc /\ request' = request) \/ (alloc' = Nil /\ \A n \in Macs : request'[n] = Nil)
    BY DEF Reload, Reboot
  <1> QED
    BY <1>1, <1>2, <1>3 DEF PickerHasNoRow, PickUnused, UnheardUsesNothing, Uses

LEMMA InvStep == LeaseInv /\ [LeaseNext]_leaseVars => LeaseInv'
  <1> SUFFICES ASSUME LeaseInv, [LeaseNext]_leaseVars PROVE LeaseInv'
    OBVIOUS
  <1>1. LeaseTypeOK'
    BY TypeStep DEF LeaseInv
  <1>2. CASE UNCHANGED leaseVars
    BY <1>1, <1>2 DEF leaseVars, LeaseInv, OneRow, PickerHasNoRow, PickUnused,
                      UnheardUsesNothing, AckOnRecord, Uses
  <1>3. CASE LeaseNext
    <2>1. OneRow' /\ PickerHasNoRow' /\ PickUnused' /\ UnheardUsesNothing' /\ AckOnRecord'
      BY <1>3, StickyStep, PickStep, WriteStep, ReadStep, ConfirmStep, ReleaseStep,
         CollectStep, TickStep, PolicyStep DEF LeaseNext, LeaseStep, Serve
    <2> QED
      BY <1>1, <2>1 DEF LeaseInv
  <1> QED
    BY <1>2, <1>3

-----------------------------------------------------------------------------
(* The table and the clients' beliefs stay within their types.             *)
THEOREM LeaseTypeCorrect == LeaseSpec => []LeaseTypeOK
  BY TypeInit, TypeStep, PTL DEF LeaseSpec

(* What Confirm promised to a client whose row was in order stays in the   *)
(* table until the promise ends: no Allocate, collection, reload or start  *)
(* takes it away (store.go Allocate, GC; server.go Reload).                *)
THEOREM AcksAreKept == LeaseSpec => []AckOnRecord
  <1>1. LeaseInv => AckOnRecord
    BY DEF LeaseInv
  <1> QED
    BY <1>1, InvInit, InvStep, PTL DEF LeaseSpec

(* Two clients that use one address would both be on record for it, but    *)
(* the table has an address on one row.                                    *)
THEOREM NoAddressConflict == LeaseSpec => []OneClientPerAddress
  <1>1. LeaseInv => OneClientPerAddress
    BY DEF LeaseInv, OneClientPerAddress, AckOnRecord, OneRow, HasAddr
  <1> QED
    BY <1>1, InvInit, InvStep, PTL DEF LeaseSpec

-----------------------------------------------------------------------------
(* The server under its settings, its subnets and the static addresses.    *)

(* A reload in progress carries what its next step needs.                  *)
EditsComplete == \A a \in Admins :
  /\ edit[a].pc = "build" => edit[a].local \in LocalPlan
  /\ edit[a].pc = "swap" => edit[a].next \in Policy

PlanInv == PlanTypeOK /\ EditsComplete

-----------------------------------------------------------------------------
(* What the reloads and a start put into force is a policy.                *)
LEMMA RelayPoolTyped ==
  ASSUME PlanTypeOK, NEW seg \in Segments PROVE RelayPool(seg) \in Pool \cup {Nil}
  <1>1. ASSUME NEW s \in SubnetIds, Serving(s) PROVE catalog[s] \in Seq(Addrs)
    BY <1>1, SubnetsTyped DEF PlanTypeOK, Serving
  <1>2. CASE \E s \in SubnetIds : Serving(s) /\ SegmentOf[s] = seg
    <2> DEFINE t == CHOOSE s \in SubnetIds : Serving(s) /\ SegmentOf[s] = seg
    <2>1. t \in SubnetIds /\ Serving(t)
      BY <1>2
    <2>2. RelayPool(seg) = [addrs |-> catalog[t], exclude |-> {}]
      BY <1>2 DEF RelayPool
    <2> HIDE DEF t
    <2> QED
      BY <1>1, <2>1, <2>2 DEF Pool
  <1>3. CASE ~ \E s \in SubnetIds : Serving(s) /\ SegmentOf[s] = seg
    BY <1>3 DEF RelayPool
  <1> QED
    BY <1>2, <1>3

LEMMA BuildPoolsTyped ==
  ASSUME PlanTypeOK, NEW addrs \in Seq(Addrs), NEW exclude \in SUBSET Addrs
  PROVE  BuildPools(addrs, exclude) \in Policy
  <1>1. [addrs |-> addrs, exclude |-> exclude] \in Pool
    BY DEF Pool
  <1>2. [seg \in Segments |-> IF seg = "local" THEN [addrs |-> addrs, exclude |-> exclude] ELSE RelayPool(seg)]
          \in [Segments -> Pool \cup {Nil}]
    BY <1>1, RelayPoolTyped
  <1> QED
    BY <1>2 DEF BuildPools, Policy

LEMMA NoPoolsTyped == ASSUME NEW mode \in {"proxy", "full", "down"} PROVE NoPools(mode) \in Policy
  BY DEF NoPools, Policy

LEMMA EffectiveTyped == ASSUME PlanTypeOK PROVE Effective \in LocalPlan
  BY PlansTyped DEF PlanTypeOK, Effective

LEMMA BootPolicyTyped == ASSUME PlanTypeOK PROVE BootPolicy \in Policy
  <1>1. Effective.addrs \in Seq(Addrs)
    BY EffectiveTyped DEF LocalPlan
  <1> QED
    BY <1>1, BuildPoolsTyped, NoPoolsTyped DEF BootPolicy

-----------------------------------------------------------------------------
(* Every step of the plan is one of the lease table, or none.              *)
LEMMA ImplementsStep == PlanInv /\ [Next]_vars => [LeaseNext]_leaseVars
  <1> SUFFICES ASSUME PlanInv, [Next]_vars PROVE [LeaseNext]_leaseVars
    OBVIOUS
  <1>1. CASE LeaseStep /\ UNCHANGED <<planVars, edits>>
    BY <1>1 DEF LeaseNext
  <1>2. ASSUME NEW a \in Admins, Operator(a) PROVE [LeaseNext]_leaseVars
    <2>1. CASE Swap(a)
      <3>1. edit[a].next \in Policy /\ Reload(edit[a].next)
        BY <2>1 DEF Swap, PlanInv, EditsComplete
      <3> QED
        BY <3>1 DEF LeaseNext
    <2> QED
      BY <1>2, <2>1 DEF Operator, PutSettings, PutSubnet, CheckMode, Build
  <1>3. ASSUME NEW x, NEW s, NEW ip, StaticChoose(x, s) \/ StaticTyped(x, s, ip) \/ StaticWrite
        PROVE  UNCHANGED leaseVars
    BY <1>3 DEF StaticChoose, StaticTyped, StaticWrite
  <1>4. CASE Restart
    BY <1>4, BootPolicyTyped DEF Restart, PlanInv, LeaseNext
  <1>5. CASE UNCHANGED vars
    BY <1>5 DEF vars
  <1> QED
    BY <1>1, <1>2, <1>3, <1>4, <1>5 DEF Next

LEMMA PlanTypeInit == Init => PlanInv
  <1> SUFFICES ASSUME Init PROVE PlanInv
    OBVIOUS
  <1>1. Idle \in Edit
    BY DEF Idle, Edit
  <1>2. PlanTypeOK
    BY <1>1, EditBound, TypeInit DEF Init, PlanTypeOK
  <1>3. EditsComplete
    BY DEF Init, EditsComplete, Idle
  <1> QED
    BY <1>2, <1>3 DEF PlanInv

(* A request moves on to a record that says all its next step needs.       *)
LEMMA EditMoves ==
  ASSUME PlanInv, NEW a \in Admins, NEW r \in Edit, Step(a, r),
         r.pc = "build" => r.local \in LocalPlan,
         r.pc = "swap" => r.next \in Policy
  PROVE  edit' \in [Admins -> Edit] /\ EditsComplete'
  <1>1. edit' = [edit EXCEPT ![a] = r] /\ edit \in [Admins -> Edit]
    BY DEF Step, PlanInv, PlanTypeOK
  <1> QED
    BY <1>1 DEF PlanInv, EditsComplete

LEMMA OperatorTyped ==
  ASSUME PlanInv, NEW a \in Admins, Operator(a)
  PROVE  /\ saved' \in LocalPlans \cup {Nil}
         /\ catalog' \in [SubnetIds -> Seq(Addrs) \cup {Nil}]
         /\ edit' \in [Admins -> Edit] /\ EditsComplete'
         /\ static' = static /\ choice' \in Choice \cup {Nil}
         /\ exposed' \in SUBSET Machines /\ settled' \in BOOLEAN /\ edits' \in 0 .. MaxEdits
  <1> USE DEF PlanInv
  <1>0. Idle \in Edit /\ Idle.pc = "idle" /\ [Idle EXCEPT !.pc = "check"] \in Edit
        /\ edit[a] \in Edit /\ edit \in [Admins -> Edit]
    BY DEF Idle, Edit, PlanTypeOK
  <1>1. ASSUME NEW plan \in LocalPlans, PutSettings(a, plan)
        PROVE  edit' \in [Admins -> Edit] /\ EditsComplete'
    <2> DEFINE r == [Idle EXCEPT !.pc = IF plan.mode = "full" THEN "build" ELSE "swap",
                                 !.local = plan,
                                 !.next = IF plan.mode = "full" THEN Nil ELSE NoPools("proxy")]
    <2>1. plan \in LocalPlan /\ NoPools("proxy") \in Policy
      BY PlansTyped, NoPoolsTyped
    <2>2. r \in Edit /\ (r.pc = "swap" => r.next \in Policy) /\ r.local \in LocalPlan
      BY <2>1 DEF Edit, Idle
    <2>3. Step(a, r)
      BY <1>1 DEF PutSettings
    <2> HIDE DEF r
    <2> QED
      BY <2>2, <2>3, EditMoves
  <1>2. ASSUME NEW s \in SubnetIds, NEW ranges \in RangePlans[s] \cup {Nil}, PutSubnet(a, s, ranges)
        PROVE  edit' \in [Admins -> Edit] /\ EditsComplete'
    <2>1. Step(a, [Idle EXCEPT !.pc = "check"]) /\ [Idle EXCEPT !.pc = "check"].pc = "check"
      BY <1>2 DEF PutSubnet, Idle
    <2> QED
      BY <1>0, <2>1, EditMoves
  <1>3. ASSUME CheckMode(a) PROVE edit' \in [Admins -> Edit] /\ EditsComplete'
    <2> DEFINE r == [Idle EXCEPT !.pc = "build", !.local = Effective]
    <2>1. r \in Edit /\ r.pc = "build" /\ r.local \in LocalPlan
      BY EffectiveTyped DEF Edit, Idle
    <2>2. Step(a, r) \/ Step(a, Idle)
      BY <1>3 DEF CheckMode
    <2> HIDE DEF r
    <2> QED
      BY <1>0, <2>1, <2>2, EditMoves
  <1>4. ASSUME Build(a) PROVE edit' \in [Admins -> Edit] /\ EditsComplete'
    <2> DEFINE p == BuildPools(edit[a].local.addrs, edit[a].local.exclude)
               r == [edit[a] EXCEPT !.pc = "swap", !.next = p]
    <2>1. p \in Policy
      <3>1. edit[a].local \in LocalPlan
        BY <1>4 DEF Build, EditsComplete
      <3>2. edit[a].local.addrs \in Seq(Addrs) /\ edit[a].local.exclude \in SUBSET Addrs
        BY <3>1 DEF LocalPlan
      <3> QED
        BY <3>2, BuildPoolsTyped
    <2> HIDE DEF p
    <2>2. r \in Edit /\ r.pc = "swap" /\ r.next = p
      BY <1>0, <2>1 DEF Edit
    <2>3. Step(a, r) \/ Step(a, Idle)
      BY <1>4 DEF Build, p
    <2> HIDE DEF r
    <2> QED
      BY <1>0, <2>1, <2>2, <2>3, EditMoves
  <1>5. ASSUME Swap(a) PROVE edit' \in [Admins -> Edit] /\ EditsComplete' /\ choice' \in Choice \cup {Nil}
    <2>1. edit' \in [Admins -> Edit] /\ EditsComplete'
      BY <1>0, <1>5, EditMoves DEF Swap
    <2>2. choice' \in Choice \cup {Nil}
      BY <1>5 DEF Swap, Expose, PlanTypeOK, Choice
    <2> QED
      BY <2>1, <2>2
  <1>6. edit' \in [Admins -> Edit] /\ EditsComplete'
    BY <1>1, <1>2, <1>3, <1>4, <1>5 DEF Operator
  <1>7. edits' \in 0 .. MaxEdits
    <2>1. edits' = edits \/ (edits < MaxEdits /\ edits' = edits + 1)
      BY DEF Operator, PutSettings, PutSubnet, CheckMode, Build, Swap, Begin
    <2> QED
      BY <2>1, EditBound DEF PlanTypeOK
  <1>8. saved' \in LocalPlans \cup {Nil} /\ static' = static /\ settled' \in BOOLEAN
    BY DEF Operator, PutSettings, PutSubnet, CheckMode, Build, Swap, PlanTypeOK, Alone, Assemblable
  <1>9. catalog' \in [SubnetIds -> Seq(Addrs) \cup {Nil}]
    <2>1. \A s \in SubnetIds : RangePlans[s] \subseteq Seq(Addrs)
      BY SubnetsTyped
    <2> QED
      BY <2>1 DEF Operator, PutSettings, PutSubnet, CheckMode, Build, Swap, PlanTypeOK
  <1>10. exposed' \in SUBSET Machines
    BY DEF Operator, PutSettings, PutSubnet, CheckMode, Build, Swap, PlanTypeOK, Expose
  <1>11. choice' \in Choice \cup {Nil}
    BY <1>5 DEF Operator, PutSettings, PutSubnet, CheckMode, Build, PlanTypeOK
  <1> QED
    BY <1>6, <1>7, <1>8, <1>9, <1>10, <1>11

LEMMA PlanTypeStep == PlanInv /\ [Next]_vars => PlanInv'
  <1> SUFFICES ASSUME PlanInv, [Next]_vars PROVE PlanInv'
    OBVIOUS
  <1>1. LeaseTypeOK'
    BY ImplementsStep, TypeStep DEF PlanInv, PlanTypeOK
  <1>2. CASE LeaseStep /\ UNCHANGED <<planVars, edits>>
    BY <1>1, <1>2 DEF PlanInv, PlanTypeOK, EditsComplete, planVars
  <1>3. ASSUME NEW a \in Admins, Operator(a) PROVE PlanInv'
    BY <1>1, <1>3, OperatorTyped DEF PlanInv, PlanTypeOK
  <1>4. ASSUME NEW x \in Machines, NEW s \in SubnetIds, StaticChoose(x, s) PROVE PlanInv'
    <2>1. \A ip \in Candidates(x, s) : ip \in Addrs
      BY SubnetsTyped DEF Candidates, PlanInv, PlanTypeOK, Static
    <2>2. choice' \in Choice
      BY <1>4, <2>1 DEF StaticChoose, Choice
    <2>3. edits' \in 0 .. MaxEdits
      BY <1>4, EditBound DEF StaticChoose, PlanInv, PlanTypeOK
    <2> QED
      BY <1>1, <1>4, <2>2, <2>3 DEF StaticChoose, PlanInv, PlanTypeOK, EditsComplete
  <1>5. ASSUME NEW x \in Machines, NEW s \in SubnetIds, NEW ip \in Addrs, StaticTyped(x, s, ip) PROVE PlanInv'
    <2>1. static' \in [Machines -> Static \cup {Nil}]
      BY <1>5 DEF StaticTyped, Static, PlanInv, PlanTypeOK
    <2>2. edits' \in 0 .. MaxEdits
      BY <1>5, EditBound DEF StaticTyped, PlanInv, PlanTypeOK
    <2> QED
      BY <1>1, <1>5, <2>1, <2>2 DEF StaticTyped, PlanInv, PlanTypeOK, EditsComplete
  <1>6. CASE StaticWrite
    <2>1. choice \in Choice
      BY <1>6 DEF StaticWrite, PlanInv, PlanTypeOK
    <2>2. [ip |-> choice.ip, typed |-> Keeps(choice.machine, choice.ip) /\ static[choice.machine].typed] \in Static
      BY <2>1 DEF Choice, Static, Keeps, PlanInv, PlanTypeOK
    <2>3. static' \in [Machines -> Static \cup {Nil}]
      BY <1>6, <2>2 DEF StaticWrite, PlanInv, PlanTypeOK
    <2>4. exposed' \in SUBSET Machines
      BY <1>6, <2>1 DEF StaticWrite, Choice, PlanInv, PlanTypeOK
    <2> QED
      BY <1>1, <1>6, <2>3, <2>4 DEF StaticWrite, PlanInv, PlanTypeOK, EditsComplete
  <1>7. CASE Restart
    <2>1. edit' = [a \in Admins |-> Idle] /\ Idle \in Edit
      BY <1>7 DEF Restart, Idle, Edit
    <2>2. edits' \in 0 .. MaxEdits /\ settled' \in BOOLEAN /\ choice' = Nil
      BY <1>7, EditBound DEF Restart, PlanInv, PlanTypeOK, Assemblable
    <2>3. exposed' \in SUBSET Machines
      BY <1>7 DEF Restart, PlanInv, PlanTypeOK
    <2>4. EditsComplete'
      BY <2>1 DEF EditsComplete, Idle
    <2> QED
      BY <1>1, <1>7, <2>1, <2>2, <2>3, <2>4 DEF Restart, PlanInv, PlanTypeOK
  <1>8. CASE UNCHANGED vars
    BY <1>1, <1>8 DEF vars, planVars, PlanInv, PlanTypeOK, EditsComplete
  <1> QED
    BY <1>2, <1>3, <1>4, <1>5, <1>6, <1>7, <1>8 DEF Next

-----------------------------------------------------------------------------
(* Settings, catalog, leases and static addresses stay within their types. *)
THEOREM PlanTypeCorrect == Spec => []PlanTypeOK
  <1>1. PlanInv => PlanTypeOK
    BY DEF PlanInv
  <1> QED
    BY <1>1, PlanTypeInit, PlanTypeStep, PTL DEF Spec

(* The server that operators reload, and that restarts, is the server of   *)
(* Leases: it only ever changes its policy, and the table survives.        *)
THEOREM RefinesLeases == Spec => LeasesImplemented
  <1>1. Init => LeaseInit
    BY DEF Init
  <1> QED
    BY <1>1, PlanTypeInit, PlanTypeStep, ImplementsStep, PTL DEF Spec, LeasesImplemented, LeaseSpec

(* No client loses an address it was acknowledged, and no two use one,     *)
(* whatever operators do to pools, subnets and static addresses meanwhile. *)
THEOREM PlanAcksAreKept == Spec => []AckOnRecord
  BY RefinesLeases, AcksAreKept DEF LeasesImplemented

THEOREM PlanNoAddressConflict == Spec => []OneClientPerAddress
  BY RefinesLeases, NoAddressConflict DEF LeasesImplemented

-----------------------------------------------------------------------------
(* Static addresses.  One that no DHCP client could claim when it was      *)
(* chosen is out of reach of the server: no pool serves it, no Allocate    *)
(* has picked it and no row names it.                                      *)
Apart(ip) ==
  /\ ip \notin Served(live)
  /\ alloc # Nil => alloc.ip # ip
  /\ \A m \in Macs : lease[m] # Nil => lease[m].ip # ip

StaticsApart == \A x \in Machines :
  (static[x] # Nil /\ ~static[x].typed /\ x \notin exposed) => Apart(static[x].ip)
ChoiceApart ==
  (choice # Nil /\ ~choice.claimable /\ ~Keeps(choice.machine, choice.ip)) => Apart(choice.ip)

StaticInv == PlanInv /\ LeaseInv /\ StaticsApart /\ ChoiceApart

(* Serving packets never reaches for an address outside the pools.         *)
LEMMA ApartFromPackets ==
  ASSUME PlanInv, LeaseStep, NEW ip \in Addrs, Apart(ip) PROVE Apart(ip)'
  <1> USE DEF PlanInv, PlanTypeOK, LeaseTypeOK
  <1>0. live' = live
    BY DEF LeaseStep, Serve, AllocateSticky, AllocatePick, RequestRead, RequestWrite, Release, AllocateWrite, GC, Tick
  <1>1. ASSUME NEW m \in Macs, AllocateSticky(m) PROVE Apart(ip)'
    <2>1. alloc' = alloc /\ \A n \in Macs : lease'[n] # Nil => lease[n] # Nil /\ lease'[n].ip = lease[n].ip
      BY <1>1 DEF AllocateSticky, Offered
    <2> QED
      BY <1>0, <2>1 DEF Apart
  <1>2. ASSUME NEW m \in Macs, AllocatePick(m) PROVE Apart(ip)'
    <2>1. \A n \in Macs : lease'[n] # Nil => lease'[n] = lease[n]
      BY <1>2 DEF AllocatePick
    <2>2. alloc' = Nil \/ Contains(PoolFor(m), alloc'.ip)
      <3>1. ASSUME NEW a \in Addrs, NEW taken, IsNextFree(PoolFor(m), taken, a) PROVE Contains(PoolFor(m), a)
        BY <3>1 DEF IsNextFree, Free, Contains
      <3>2. alloc' = Nil \/ \E a \in Addrs : IsNextFree(PoolFor(m), TakenSet([lease EXCEPT ![m] = Nil]), a) /\ alloc' = [mac |-> m, ip |-> a]
        BY <1>2 DEF AllocatePick
      <3> QED
        BY <3>1, <3>2
    <2>3. \A a \in Addrs : Contains(PoolFor(m), a) => a \in Served(live)
      <3>1. (live.mode = "full" /\ PoolFor(m) = live.pools[Link[m]] /\ PoolFor(m) # Nil) \/ PoolFor(m) = Nil
        BY DEF PoolFor
      <3>2. PoolFor(m) # Nil /\ Link[m] \in Segments
        BY <1>2, LinkTyped DEF AllocatePick
      <3> QED
        BY <3>1, <3>2 DEF Served
    <2>4. alloc' # Nil => alloc'.ip # ip
      BY <2>2, <2>3 DEF Apart
    <2> QED
      BY <1>0, <2>1, <2>4 DEF Apart
  <1>3. ASSUME NEW m \in Macs, RequestWrite(m) \/ Release(m) PROVE Apart(ip)'
    <2>1. now \in Nat /\ now + LeaseDur \in Nat
      BY ClockConstants
    <2>2. UpdateRow(m, "active", now + LeaseDur) \/ UpdateRow(m, "released", now)
      BY <1>3 DEF RequestWrite, Release
    <2>3. ASSUME NEW st \in {"offered", "active", "released"}, NEW t \in Nat, UpdateRow(m, st, t), NEW n \in Macs, lease'[n] # Nil
          PROVE  lease[n] # Nil /\ lease'[n].ip = lease[n].ip
      BY <2>3, UpdateRowKeeps
    <2>4. alloc' = alloc
      BY <1>3 DEF RequestWrite, Release
    <2> QED
      BY <1>0, <2>1, <2>2, <2>3, <2>4 DEF Apart
  <1>4. ASSUME NEW m \in Macs, NEW asked, RequestRead(m, asked) PROVE Apart(ip)'
    BY <1>0, <1>4 DEF RequestRead, Apart
  <1>5. CASE AllocateWrite
    BY <1>0, <1>5 DEF AllocateWrite, Apart, Offered
  <1>6. CASE GC \/ Tick
    BY <1>0, <1>6 DEF GC, Tick, Apart
  <1> QED
    BY <1>1, <1>2, <1>3, <1>4, <1>5, <1>6 DEF LeaseStep, Serve

(* A policy that does not serve the address leaves it apart.               *)
LEMMA ApartFromPolicies ==
  ASSUME NEW policy, NEW ip, Apart(ip), ip \notin Served(policy), Reload(policy) \/ Reboot(policy)
  PROVE  Apart(ip)'
  BY DEF Reload, Reboot, Apart

LEMMA StaticInit == Init => StaticInv
  <1>1. Init => LeaseInit
    BY DEF Init
  <1> QED
    BY <1>1, PlanTypeInit, InvInit DEF StaticInv, StaticsApart, ChoiceApart, Init

LEMMA SwapApart ==
  ASSUME StaticInv, NEW a \in Admins, Swap(a) PROVE StaticsApart' /\ ChoiceApart'
  <1> DEFINE policy == edit[a].next
  <1>1. /\ Reload(policy) /\ static' = static
        /\ exposed' = exposed \cup {x \in Machines : static[x] # Nil /\ static[x].ip \in Served(policy)}
        /\ choice' = IF choice # Nil /\ choice.ip \in Served(policy)
                       THEN [choice EXCEPT !.claimable = TRUE] ELSE choice
    BY DEF Swap, Expose
  <1> HIDE DEF policy
  <1>2. StaticsApart'
    BY <1>1, ApartFromPolicies DEF StaticInv, StaticsApart
  <1>3. ChoiceApart'
    <2>1. choice \in Choice \cup {Nil}
      BY DEF StaticInv, PlanInv, PlanTypeOK
    <2>2. CASE choice # Nil /\ choice.ip \in Served(policy)
      BY <1>1, <2>1, <2>2 DEF ChoiceApart, Choice
    <2>3. CASE ~(choice # Nil /\ choice.ip \in Served(policy))
      BY <1>1, <2>3, ApartFromPolicies DEF StaticInv, ChoiceApart, Keeps
    <2> QED
      BY <2>2, <2>3
  <1> QED
    BY <1>2, <1>3

(* Whatever is neither reserved nor claimable is apart.                    *)
LEMMA CandidateApart ==
  ASSUME PlanInv, NEW x \in Machines, NEW s \in SubnetIds, NEW ip \in Candidates(x, s),
         ~Keeps(x, ip), ip \notin Claimable
  PROVE  Apart(ip)
  <1> USE DEF PlanInv, PlanTypeOK, LeaseTypeOK
  <1>1. ip \in Addrs /\ ip \notin ReservedIPs(x, s)
    BY SubnetsTyped DEF Candidates, Keeps
  <1>2. ASSUME NEW m \in Macs, lease[m] # Nil, lease[m].ip = ip PROVE FALSE
    <2>1. lease[m].expires > now \/ lease[m].expires <= now
      BY <1>2 DEF Row
    <2>2. HasAddr(lease[m], ip)
      BY <1>2 DEF HasAddr
    <2>3. CASE lease[m].expires > now
      BY <1>1, <2>2, <2>3 DEF ReservedIPs, LeaseReserved
    <2>4. CASE lease[m].expires <= now
      BY <1>1, <2>2, <2>4 DEF Claimable
    <2> QED
      BY <2>1, <2>3, <2>4
  <1>3. ip \notin Served(live) /\ (alloc # Nil => alloc.ip # ip)
    BY <1>1 DEF Claimable
  <1> QED
    BY <1>2, <1>3 DEF Apart

LEMMA ChooseApart ==
  ASSUME StaticInv, NEW x \in Machines, NEW s \in SubnetIds, StaticChoose(x, s)
  PROVE  StaticsApart' /\ ChoiceApart'
  <1> USE DEF StaticInv
  <1>1. UNCHANGED <<leaseVars, static, exposed>>
    BY DEF StaticChoose
  <1>2. StaticsApart'
    BY <1>1 DEF StaticsApart, Apart, leaseVars
  <1>3. PICK ip \in Candidates(x, s) : choice' = [machine |-> x, ip |-> ip, claimable |-> ip \in Claimable]
    BY DEF StaticChoose
  <1>4. choice'.machine = x /\ choice'.ip = ip /\ (choice'.claimable <=> ip \in Claimable)
    BY <1>3
  <1>5. CASE ip \in Claimable
    BY <1>2, <1>4, <1>5 DEF ChoiceApart
  <1>6. Keeps(choice.machine, choice.ip)' <=> Keeps(x, ip)
    BY <1>1, <1>4 DEF Keeps
  <1>7. CASE Keeps(x, ip)
    BY <1>2, <1>6, <1>7 DEF ChoiceApart
  <1>8. CASE ip \notin Claimable /\ ~Keeps(x, ip)
    <2>1. Apart(ip)
      BY <1>8, CandidateApart
    <2>2. Apart(choice.ip)'
      BY <1>1, <1>4, <2>1 DEF Apart, leaseVars
    <2> QED
      BY <1>2, <2>2 DEF ChoiceApart
  <1> QED
    BY <1>2, <1>5, <1>7, <1>8

LEMMA WriteApart == ASSUME StaticInv, StaticWrite PROVE StaticsApart' /\ ChoiceApart'
  <1> USE DEF StaticInv
  <1> DEFINE x == choice.machine
  <1>1. /\ choice \in Choice /\ x \in Machines
        /\ UNCHANGED leaseVars /\ choice' = Nil
        /\ \A y \in Machines : y # x => static'[y] = static[y] /\ (y \in exposed' <=> y \in exposed)
        /\ static'[x].ip = choice.ip
        /\ static'[x].typed <=> Keeps(x, choice.ip) /\ static[x].typed
    BY DEF StaticWrite, PlanInv, PlanTypeOK, Choice
  <1>2. CASE Keeps(x, choice.ip)
    <2>1. exposed' = exposed /\ static[x].ip = choice.ip /\ static[x] # Nil
      BY <1>2 DEF StaticWrite, Keeps
    <2> QED
      BY <1>1, <1>2, <2>1 DEF StaticsApart, ChoiceApart, Apart, leaseVars
  <1>3. CASE ~Keeps(x, choice.ip)
    <2>1. x \in exposed' \/ ~choice.claimable
      <3>1. exposed' = IF choice.claimable THEN exposed \cup {x} ELSE exposed \ {x}
        BY <1>3 DEF StaticWrite
      <3> QED
        BY <3>1
    <2>2. x \in exposed' \/ Apart(choice.ip)
      <3>1. choice # Nil
        BY DEF StaticWrite
      <3> QED
        BY <1>3, <2>1, <3>1 DEF ChoiceApart
    <2> QED
      BY <1>1, <2>2 DEF StaticsApart, ChoiceApart, Apart, leaseVars
  <1> QED
    BY <1>2, <1>3

LEMMA StaticStep == StaticInv /\ [Next]_vars => StaticInv'
  <1> SUFFICES ASSUME StaticInv, [Next]_vars PROVE StaticInv'
    OBVIOUS
  <1>1. PlanInv' /\ LeaseInv'
    BY PlanTypeStep, ImplementsStep, InvStep DEF StaticInv
  <1> SUFFICES StaticsApart' /\ ChoiceApart'
    BY <1>1 DEF StaticInv
  <1>2. CASE LeaseStep /\ UNCHANGED <<planVars, edits>>
    <2>1. UNCHANGED <<static, choice, exposed>>
      BY <1>2 DEF planVars
    <2>2. \A x \in Machines : static[x] # Nil => static[x].ip \in Addrs
      BY DEF StaticInv, PlanInv, PlanTypeOK, Static
    <2>3. choice # Nil => choice.ip \in Addrs
      BY DEF StaticInv, PlanInv, PlanTypeOK, Choice
    <2>4. StaticsApart'
      BY <1>2, <2>1, <2>2, ApartFromPackets DEF StaticInv, StaticsApart
    <2>5. ChoiceApart'
      BY <1>2, <2>1, <2>3, ApartFromPackets DEF StaticInv, ChoiceApart, Keeps
    <2> QED
      BY <2>4, <2>5
  <1>3. ASSUME UNCHANGED <<leaseVars, static, choice, exposed>> PROVE StaticsApart' /\ ChoiceApart'
    BY <1>3 DEF StaticInv, StaticsApart, ChoiceApart, Apart, leaseVars, Keeps
  <1>4. ASSUME NEW a \in Admins, Operator(a) PROVE StaticsApart' /\ ChoiceApart'
    BY <1>3, <1>4, SwapApart DEF Operator, PutSettings, PutSubnet, CheckMode, Build
  <1>5. ASSUME NEW x \in Machines, NEW s \in SubnetIds, NEW ip \in Addrs, StaticTyped(x, s, ip)
        PROVE  StaticsApart' /\ ChoiceApart'
    <2>1. /\ UNCHANGED <<leaseVars, exposed, choice>> /\ choice = Nil
          /\ static'[x].typed
          /\ \A y \in Machines : y # x => static'[y] = static[y]
      BY <1>5 DEF StaticTyped, StaticInv, PlanInv, PlanTypeOK
    <2> QED
      BY <2>1 DEF StaticInv, StaticsApart, ChoiceApart, Apart, leaseVars
  <1>6. CASE Restart
    <2>1. /\ Reboot(BootPolicy) /\ choice' = Nil /\ static' = static
          /\ exposed' = exposed \cup {x \in Machines : static[x] # Nil /\ static[x].ip \in Served(BootPolicy)}
      BY <1>6 DEF Restart
    <2>2. StaticsApart'
      BY <2>1, ApartFromPolicies DEF StaticInv, StaticsApart
    <2> QED
      BY <2>1, <2>2 DEF ChoiceApart
  <1>7. CASE UNCHANGED vars
    BY <1>3, <1>7 DEF vars, planVars
  <1> QED
    BY <1>2, <1>4, <1>5, <1>6, <1>7, ChooseApart, WriteApart DEF Next

(* An address the controller chose for a machine never turns up at a DHCP  *)
(* client, except as StaticNotLeased says (bindings/store.go reservedIPs). *)
THEOREM StaticsStayApart == Spec => []StaticNotLeased
  <1>1. StaticInv => StaticNotLeased
    BY DEF StaticInv, StaticsApart, StaticNotLeased, Apart, LeaseInv, AckOnRecord, HasAddr,
           PlanInv, PlanTypeOK, Static
  <1> QED
    BY <1>1, StaticInit, StaticStep, PTL DEF Spec

-----------------------------------------------------------------------------
(* The policy in force.  Between the write of an operator and the swap,    *)
(* the reload carries what settings and catalog say, as long as no other   *)
(* request writes them.                                                    *)
LocalFollows(policy) ==
  /\ policy.mode = Effective.mode
  /\ policy.mode = "full" => policy.pools["local"].addrs = Effective.addrs
RelaysFollow(policy) ==
  policy.mode = "full" => \A seg \in Segments \ {"local"} : policy.pools[seg] = RelayPool(seg)

EditFollows(a) ==
  /\ edit[a].pc = "idle" => edit[a] = Idle
  /\ edit[a].pc = "check" => LocalFollows(live)
  /\ edit[a].pc = "build" => edit[a].local = Effective /\ Effective.mode = "full"
  /\ edit[a].pc = "swap" => LocalFollows(edit[a].next) /\ RelaysFollow(edit[a].next)

OneEdit == \A a, b \in Admins : a # b => edit[a] = Idle \/ edit[b] = Idle
DownIsIdle ==
  /\ ~Up => \A a \in Admins : edit[a] = Idle
  /\ \A a \in Admins : edit[a].pc = "swap" => edit[a].next.mode # "down"
Following ==
  (Up /\ settled) => /\ OneEdit
                     /\ \A a \in Admins : EditFollows(a)
                     /\ (\A a \in Admins : edit[a] = Idle) => LocalFollows(live) /\ RelaysFollow(live)
FollowInv == PlanInv /\ DownIsIdle /\ Following

(* What the database says stays said while nobody writes to it.            *)
LEMMA DatabaseKept ==
  ASSUME UNCHANGED <<saved, catalog>>
  PROVE  Effective' = Effective /\ \A seg \in Segments : RelayPool(seg)' = RelayPool(seg)
  <1>1. Effective' = Effective
    BY DEF Effective
  <1>2. \A seg \in Segments : RelayPool(seg)' = RelayPool(seg)
    BY DEF RelayPool, Serving
  <1> QED
    BY <1>1, <1>2

LEMMA BuiltFollows ==
  ASSUME PlanInv, NEW exclude, Effective.mode = "full"
  PROVE  LocalFollows(BuildPools(Effective.addrs, exclude)) /\ RelaysFollow(BuildPools(Effective.addrs, exclude))
  BY SubnetsTyped DEF BuildPools, LocalFollows, RelaysFollow

LEMMA BootFollows ==
  ASSUME PlanInv, BootPolicy.mode # "down" PROVE LocalFollows(BootPolicy) /\ RelaysFollow(BootPolicy)
  <1>1. Effective.mode \in {"proxy", "full"}
    BY EffectiveTyped DEF PlanInv, LocalPlan
  <1>2. CASE Effective.mode = "proxy"
    BY <1>2 DEF BootPolicy, NoPools, LocalFollows, RelaysFollow
  <1>3. CASE Effective.mode = "full"
    <2>1. BootPolicy = BuildPools(Effective.addrs, {})
      BY <1>3 DEF BootPolicy, NoPools
    <2> QED
      BY <1>3, <2>1, BuiltFollows
  <1> QED
    BY <1>1, <1>2, <1>3

LEMMA FollowInit == Init => FollowInv
  <1> SUFFICES ASSUME Init PROVE FollowInv
    OBVIOUS
  <1>1. PlanInv
    BY PlanTypeInit
  <1>2. live = BootPolicy /\ \A a \in Admins : edit[a] = Idle
    BY DEF Init
  <1>3. \A a \in Admins : edit[a].pc = "idle"
    BY <1>2 DEF Idle
  <1> QED
    BY <1>1, <1>2, <1>3, BootFollows DEF FollowInv, DownIsIdle, Following, OneEdit, EditFollows, Up

(* Steps that touch neither the database nor a reload.                     *)
LEMMA QuietFollows ==
  ASSUME FollowInv, UNCHANGED <<live, saved, catalog, edit, settled>>
  PROVE  DownIsIdle' /\ Following'
  <1>1. Effective' = Effective /\ \A seg \in Segments : RelayPool(seg)' = RelayPool(seg)
    BY DatabaseKept
  <1> QED
    BY <1>1 DEF FollowInv, DownIsIdle, Following, OneEdit, EditFollows, LocalFollows, RelaysFollow, Up

(* The operator's request runs alone: the others' are idle, before and     *)
(* after, and what is to be shown concerns only this one.                  *)
LEMMA AloneFollows ==
  ASSUME FollowInv, NEW a \in Admins, NEW r \in Edit, Step(a, r),
         r.pc = "swap" => r.next.mode # "down",
         ~Up' => r = Idle /\ \A b \in Admins : edit[b] = Idle,
         (Up /\ settled)' => /\ \A b \in Admins \ {a} : edit[b] = Idle
                             /\ r.pc = "idle" => r = Idle
                             /\ r.pc = "check" => LocalFollows(live)'
                             /\ r.pc = "build" => r.local = Effective' /\ Effective'.mode = "full"
                             /\ r.pc = "swap" => (LocalFollows(edit[a].next) /\ RelaysFollow(edit[a].next))'
                             /\ r = Idle => (LocalFollows(live) /\ RelaysFollow(live))'
  PROVE  DownIsIdle' /\ Following'
  <1>1. /\ edit'[a] = r
        /\ \A b \in Admins : b # a => edit'[b] = edit[b]
    BY DEF Step, FollowInv, PlanInv, PlanTypeOK
  <1>2. Idle.pc = "idle"
    BY DEF Idle
  <1>3. DownIsIdle'
    BY <1>1 DEF FollowInv, DownIsIdle
  <1>4. ASSUME (Up /\ settled)' PROVE OneEdit' /\ (\A b \in Admins : EditFollows(b))'
    <2>1. OneEdit'
      BY <1>1, <1>4 DEF OneEdit
    <2>2. \A b \in Admins \ {a} : EditFollows(b)'
      BY <1>1, <1>2, <1>4 DEF EditFollows
    <2>3. EditFollows(a)'
      BY <1>1, <1>4 DEF EditFollows
    <2> QED
      BY <2>1, <2>2, <2>3
  <1>5. ASSUME (Up /\ settled)', (\A b \in Admins : edit[b] = Idle)' PROVE (LocalFollows(live) /\ RelaysFollow(live))'
    BY <1>1, <1>5
  <1> QED
    BY <1>3, <1>4, <1>5 DEF Following

(* When an edit has been waiting alone, everything was in order.           *)
LEMMA PutFollows ==
  ASSUME FollowInv, NEW a \in Admins,
         \/ \E plan \in LocalPlans : PutSettings(a, plan)
         \/ \E s \in SubnetIds : \E ranges \in RangePlans[s] \cup {Nil} : PutSubnet(a, s, ranges)
  PROVE  DownIsIdle' /\ Following'
  <1>0. Up /\ live' = live /\ edit[a] = Idle /\ (settled' => settled /\ \A b \in Admins \ {a} : edit[b] = Idle)
    BY DEF PutSettings, PutSubnet, Begin, Alone, leaseVars
  <1>1. Up' /\ (settled' => LocalFollows(live) /\ RelaysFollow(live))
    BY <1>0 DEF FollowInv, Following, Up
  <1>2. ASSUME NEW plan \in LocalPlans, PutSettings(a, plan) PROVE DownIsIdle' /\ Following'
    <2> DEFINE r == [Idle EXCEPT !.pc = IF plan.mode = "full" THEN "build" ELSE "swap",
                                 !.local = plan,
                                 !.next = IF plan.mode = "full" THEN Nil ELSE NoPools("proxy")]
    <2>1. plan \in LocalPlan /\ NoPools("proxy") \in Policy /\ plan # Nil
      BY PlansTyped, NoPoolsTyped
    <2>2. /\ r \in Edit
          /\ r.pc = IF plan.mode = "full" THEN "build" ELSE "swap"
          /\ r.local = plan
          /\ r.pc = "swap" => r.next = NoPools("proxy") /\ plan.mode = "proxy"
          /\ r # Idle
      BY <2>1 DEF Edit, Idle, LocalPlan
    <2>3. Step(a, r) /\ saved' = plan
      BY <1>2 DEF PutSettings
    <2> HIDE DEF r
    <2>4. Effective' = plan
      BY <2>1, <2>3 DEF Effective
    <2>5. edit'[a] = r
      BY <2>3 DEF Step, FollowInv, PlanInv, PlanTypeOK
    <2>6. r.pc = "swap" => (LocalFollows(edit[a].next) /\ RelaysFollow(edit[a].next))'
      BY <2>2, <2>4, <2>5 DEF LocalFollows, RelaysFollow, NoPools
    <2>7. NoPools("proxy").mode = "proxy"
      BY DEF NoPools
    <2> QED
      BY <1>0, <1>1, <2>2, <2>3, <2>4, <2>6, <2>7, AloneFollows
  <1>3. ASSUME NEW s \in SubnetIds, NEW ranges, PutSubnet(a, s, ranges) PROVE DownIsIdle' /\ Following'
    <2> DEFINE r == [Idle EXCEPT !.pc = "check"]
    <2>1. Step(a, r) /\ saved' = saved
      BY <1>3 DEF PutSubnet
    <2>2. r \in Edit /\ r.pc = "check" /\ r # Idle
      BY DEF Edit, Idle
    <2> HIDE DEF r
    <2>3. settled' => LocalFollows(live)'
      BY <1>0, <1>1, <2>1 DEF LocalFollows, Effective
    <2> QED
      BY <1>0, <1>1, <2>1, <2>2, <2>3, AloneFollows
  <1> QED
    BY <1>2, <1>3

(* The reload carries on with the settings in force.                       *)
LEMMA ReloadFollows ==
  ASSUME FollowInv, NEW a \in Admins, CheckMode(a) \/ Build(a)
  PROVE  DownIsIdle' /\ Following'
  <1> USE DEF FollowInv
  <1>0. /\ UNCHANGED <<saved, catalog, live>>
        /\ Effective' = Effective /\ \A seg \in Segments : RelayPool(seg)' = RelayPool(seg)
        /\ edit[a].pc # "idle" /\ edit[a] # Idle /\ edit[a] \in Edit
        /\ settled' => settled
        /\ edit \in [Admins -> Edit] /\ Idle \in Edit /\ Idle.pc = "idle"
    BY DatabaseKept DEF CheckMode, Build, leaseVars, Idle, PlanInv, PlanTypeOK, Edit
  <1>1. Up /\ Up'
    BY <1>0 DEF DownIsIdle, Up
  <1>2. settled' => /\ \A b \in Admins \ {a} : edit[b] = Idle
                    /\ EditFollows(a)
    BY <1>0, <1>1 DEF Following, OneEdit
  <1>3. CASE CheckMode(a)
    <2> DEFINE r == [Idle EXCEPT !.pc = "build", !.local = Effective]
    <2>1. r \in Edit /\ r.pc = "build" /\ r # Idle /\ r.local = Effective
      <3>1. Effective \in LocalPlan
        BY EffectiveTyped DEF PlanInv
      <3> QED
        BY <3>1 DEF Edit, Idle
    <2>2. settled' => LocalFollows(live)
      BY <1>2, <1>3 DEF CheckMode, EditFollows
    <2>3. CASE live.mode = "full" /\ Effective.mode = "full"
      <3>1. Step(a, r)
        BY <1>3, <2>3 DEF CheckMode
      <3> HIDE DEF r
      <3> QED
        BY <1>0, <1>1, <1>2, <2>1, <2>3, <3>1, AloneFollows
    <2>4. CASE ~(live.mode = "full" /\ Effective.mode = "full")
      <3>1. Step(a, Idle)
        BY <1>3, <2>4 DEF CheckMode
      <3>2. settled' => (LocalFollows(live) /\ RelaysFollow(live))'
        BY <1>0, <2>2, <2>4 DEF LocalFollows, RelaysFollow
      <3> QED
        BY <1>0, <1>1, <1>2, <3>1, <3>2, AloneFollows
    <2> QED
      BY <2>3, <2>4
  <1>4. CASE Build(a)
    <2> DEFINE p == BuildPools(edit[a].local.addrs, edit[a].local.exclude)
               r == [edit[a] EXCEPT !.pc = "swap", !.next = p]
    <2>1. p \in Policy /\ p.mode = "full"
      <3>1. edit[a].local \in LocalPlan
        BY <1>4 DEF Build, EditsComplete, PlanInv
      <3>2. edit[a].local.addrs \in Seq(Addrs) /\ edit[a].local.exclude \in SUBSET Addrs
        BY <3>1 DEF LocalPlan
      <3> QED
        BY <3>2, BuildPoolsTyped DEF PlanInv, BuildPools
    <2>2. settled' => LocalFollows(p) /\ RelaysFollow(p)
      <3>1. settled' => edit[a].local = Effective /\ Effective.mode = "full"
        BY <1>2, <1>4 DEF Build, EditFollows
      <3> QED
        BY <3>1, BuiltFollows
    <2>3. CASE Assemblable
      <3>1. Step(a, r)
        BY <1>4, <2>3 DEF Build
      <3> HIDE DEF p
      <3>2. r \in Edit /\ r.pc = "swap" /\ r.next = p /\ r # Idle
        BY <1>0, <2>1 DEF Edit, Idle
      <3> HIDE DEF r
      <3>3. edit'[a].next = p
        BY <1>0, <3>1, <3>2 DEF Step
      <3>4. settled' => (LocalFollows(edit[a].next) /\ RelaysFollow(edit[a].next))'
        BY <1>0, <2>2, <3>3 DEF LocalFollows, RelaysFollow
      <3> QED
        BY <1>0, <1>1, <1>2, <2>1, <3>1, <3>2, <3>4, AloneFollows
    <2>4. CASE ~Assemblable
      <3>1. Step(a, Idle) /\ ~settled'
        BY <1>4, <2>4 DEF Build
      <3> QED
        BY <1>0, <1>1, <3>1, AloneFollows
    <2> QED
      BY <2>3, <2>4
  <1> QED
    BY <1>3, <1>4

LEMMA SwapFollows ==
  ASSUME FollowInv, NEW a \in Admins, Swap(a) PROVE DownIsIdle' /\ Following'
  <1> USE DEF FollowInv
  <1>0. /\ UNCHANGED <<saved, catalog, settled>> /\ live' = edit[a].next
        /\ edit[a].pc = "swap" /\ edit[a] # Idle
        /\ edit \in [Admins -> Edit] /\ Idle \in Edit /\ Idle.pc = "idle"
        /\ Step(a, Idle)
    BY DEF Swap, Reload, Idle, PlanInv, PlanTypeOK, Edit
  <1>1. Up /\ Up'
    BY <1>0 DEF DownIsIdle, Up
  <1>2. settled' => /\ \A b \in Admins \ {a} : edit[b] = Idle
                    /\ LocalFollows(edit[a].next) /\ RelaysFollow(edit[a].next)
    BY <1>0, <1>1 DEF Following, OneEdit, EditFollows
  <1>3. settled' => (LocalFollows(live) /\ RelaysFollow(live))'
    BY <1>0, <1>2, DatabaseKept DEF LocalFollows, RelaysFollow
  <1> QED
    BY <1>0, <1>1, <1>2, <1>3, AloneFollows

LEMMA RestartFollows == ASSUME FollowInv, Restart PROVE DownIsIdle' /\ Following'
  <1>1. /\ UNCHANGED <<saved, catalog>> /\ live' = BootPolicy
        /\ \A a \in Admins : edit'[a] = Idle
    BY DEF Restart, Reboot
  <1>2. Idle.pc = "idle"
    BY DEF Idle
  <1>3. Up' => LocalFollows(BootPolicy) /\ RelaysFollow(BootPolicy)
    BY <1>1, BootFollows DEF Up, FollowInv
  <1>4. Up' => (LocalFollows(live) /\ RelaysFollow(live))'
    BY <1>1, <1>3, DatabaseKept DEF LocalFollows, RelaysFollow
  <1> QED
    BY <1>1, <1>2, <1>4 DEF DownIsIdle, Following, OneEdit, EditFollows

LEMMA FollowStep == FollowInv /\ [Next]_vars => FollowInv'
  <1> SUFFICES ASSUME FollowInv, [Next]_vars PROVE DownIsIdle' /\ Following'
    BY PlanTypeStep DEF FollowInv
  <1>1. CASE LeaseStep /\ UNCHANGED <<planVars, edits>>
    <2>1. live' = live
      BY <1>1 DEF LeaseStep, Serve, AllocateSticky, AllocatePick, RequestRead, RequestWrite,
                  Release, AllocateWrite, GC, Tick, Discovers, Restarts, GoesOn
    <2> QED
      BY <1>1, <2>1, QuietFollows DEF planVars
  <1>2. ASSUME NEW a \in Admins, Operator(a) PROVE DownIsIdle' /\ Following'
    BY <1>2, PutFollows, ReloadFollows, SwapFollows DEF Operator
  <1>3. ASSUME NEW x, NEW s, NEW ip, StaticChoose(x, s) \/ StaticTyped(x, s, ip) \/ StaticWrite
        PROVE  DownIsIdle' /\ Following'
    BY <1>3, QuietFollows DEF StaticChoose, StaticTyped, StaticWrite, leaseVars
  <1>4. CASE Restart
    BY <1>4, RestartFollows
  <1>5. CASE UNCHANGED vars
    BY <1>5, QuietFollows DEF vars, leaseVars, planVars
  <1> QED
    BY <1>1, <1>2, <1>3, <1>4, <1>5 DEF Next

(* When the edits of operators have run their course, one after another,   *)
(* the server hands out what settings and catalog say (main.go ReloadDHCP  *)
(* and reloadFromSubnets), also after a start.                             *)
THEOREM ReloadsFollow == Spec => []LiveFollowsSaved
  <1>1. FollowInv => LiveFollowsSaved
    BY DEF FollowInv, Following, LiveFollowsSaved, LocalFollows, RelaysFollow
  <1> QED
    BY <1>1, FollowInit, FollowStep, PTL DEF Spec
=============================================================================
