CONSTANTS
  Machines = {m1}
  Images = {i1}
  Nil = Nil
  InstallStages <- MCStages
  WipeAt = 1
  LiveFreshness = 0
  HasIPMI = TRUE
  MaxJobs = 2
  MaxTime = 2
  MaxPuts = 2
  Housekeeping = FALSE
  MaxFaults = 0
  MaxCrashes = 0
  MaxResets = 0
SPECIFICATION FairSpec
PROPERTIES LiveJobPickedUp
