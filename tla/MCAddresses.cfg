CONSTANTS
  m1 = m1
  m2 = m2
  Macs = {m1, m2}
  Segments = {"local", "relay"}
  Link <- MCLink
  Addrs = {1, 2, 3}
  OfferDur = 1
  LeaseDur = 1
  Keep = 0
  MaxTime = 2
  Nil = Nil
  BootPlan <- MCBootPlan
  LocalPlans <- MCLocalPlans
  SubnetIds = {"here", "east", "west"}
  SegmentOf <- MCSegmentOf
  Hosts <- MCHosts
  RangePlans <- MCRangePlans
  Machines = {x1}
  Admins = {p1}
  MaxEdits = 3
SPECIFICATION Spec
INVARIANTS PlanTypeOK OneClientPerAddress AckOnRecord StaticNotLeased LiveFollowsSaved
CONSTRAINT Focus
CHECK_DEADLOCK FALSE
