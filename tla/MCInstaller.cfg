CONSTANTS
  Hosts <- MCHosts
  Images <- MCImages
  MaxFaults = 2
  MaxRuns = 2
  Nil = Nil
  Plans <- MCPlans
  PortMacs <- MCMacs
  PortNames <- MCNames
  Globbed <- MCGlobbed
  SeedFaults = 2
  Installs <- MCInstalls
  DiskFaultPlans <- MCDiskFaultPlans
SPECIFICATION Spec
INVARIANTS RunTypeOK BootsUnlessBlamed CleanRunSucceeds NothingLeftMounted StaleEntriesGone
  NetworkBindsAsMeant LoginLabelled
CHECK_DEADLOCK FALSE
