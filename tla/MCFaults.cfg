CONSTANTS
  Machines = {m1}
  Images = {i1, i2}
  Nil = Nil
  InstallStages <- MCStages
  WipeAt = 1
  LiveFreshness = 0
  HasIPMI = TRUE
  MaxJobs = 2
  MaxTime = 2
  MaxPuts = 3
  Housekeeping = FALSE
  MaxFaults = 1
  MaxCrashes = 1
  MaxResets = 0
SPECIFICATION Spec
INVARIANTS TypeOK FinalizeBootsInstalledDisk FinalizationsAccounted
SYMMETRY MCSymmetry
