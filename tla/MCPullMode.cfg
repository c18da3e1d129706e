CONSTANTS
  Machines = {m1}
  Images = {i1}
  Nil = Nil
  InstallStages <- MCOneStage
  WipeAt = 1
  LiveFreshness = 0
  HasIPMI = FALSE
  MaxJobs = 2
  MaxTime = 2
  MaxPuts = 2
  Housekeeping = TRUE
  MaxFaults = 1
  MaxCrashes = 1
  MaxResets = 0
SPECIFICATION FairSpec
INVARIANTS OneJobPerRevision NoDanglingImage
PROPERTIES ServedByAgent
