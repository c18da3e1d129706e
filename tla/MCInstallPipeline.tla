------------------------- MODULE MCInstallPipeline -------------------------
(* InstallPipeline on small instances: two of the ten installer stages,    *)
(* the first of which already touches the disk, or one that does all the   *)
(* work where the state space is large otherwise.  Machines and images are *)
(* interchangeable; the symmetry is used for safety only.                  *)
EXTENDS InstallPipeline, TLC

MCStages == <<"disk-pick", "umount">>
MCOneStage == <<"umount">>
MCSymmetry == Permutations(Machines) \cup Permutations(Images)
=============================================================================
