SPECIFICATION Spec
CONSTANTS
  m1 = m1  m2 = m2  ip1 = ip1  ip2 = ip2  p1 = p1  p2 = p2  p3 = p3  n1 = n1  n2 = n2  k1 = k1  k2 = k2
  s1 = s1  s2 = s2  s3 = s3
  Machines = {m1, m2}  Ips = {ip1, ip2}
  Profiles = {p1, p2, p3}  StaticProfiles = {p1}  Subnets = {n1, n2}  Keys = {k1, k2}
  Fresh = {k2, n2, p3}
  Slots = {s1}  MaxCalls = 3
  Keep = Keep  Nil = Nil
  BmcOf <- MCBmcOf
  Workloads <- MCWorkloads
INVARIANTS CredentialsHaveMachines
