--------------------------- MODULE MCAddressPlan ----------------------------
(* AddressPlan on a small instance.  Addresses 1 and 2 are on the local    *)
(* segment, 3 is behind a relay; "east" and "west" are catalog rows for    *)
(* the same relayed segment, "here" is one for the local segment.          *)
EXTENDS AddressPlan, TLC

CONSTANTS m1, m2

MCLink == (m1 :> "local") @@ (m2 :> "local")
Full(addrs, exclude) == [mode |-> "full", addrs |-> addrs, exclude |-> exclude]
MCBootPlan == Full(<<1, 2>>, {1})
MCLocalPlans == {[mode |-> "proxy", addrs |-> <<>>, exclude |-> {}], Full(<<1>>, {})}
MCSegmentOf == [s \in SubnetIds |-> IF s = "here" THEN "local" ELSE "relay"]
MCHosts == [s \in SubnetIds |-> IF s = "here" THEN {1, 2} ELSE {3}]
MCRangePlans == [s \in SubnetIds |-> IF s = "here" THEN {<<>>} ELSE {<<3>>}]

(* The second client is there as long as the operators have done little,   *)
(* and the clock is short when they have done much.                        *)
Idling(m) == lease[m] = Nil /\ held[m] = Nil /\ request[m] = Nil /\ m \notin overtaken
Focus ==
  /\ edits > 0 => Idling(m2) \/ (edits = 1 /\ \A s \in SubnetIds : catalog[s] = Nil)
  /\ edits > 1 => now < MaxTime
=============================================================================
