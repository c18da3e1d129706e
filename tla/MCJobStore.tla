----------------------------- MODULE MCJobStore -----------------------------
(* JobStore on a small instance: two machines, two catalog entries, three  *)
(* ids, one stage marker, a clock of two seconds.  Machines and catalog    *)
(* entries are interchangeable; no property is a liveness property.        *)
EXTENDS JobStore, TLC

MCStages == {"write"}
MCSymmetry == Permutations(Machines) \cup Permutations(Images)
=============================================================================
