\* A process of the source, the proxy worker and an administrator, one fault.
SPECIFICATION FairSpec
CONSTANTS
  p1 = p1
  p2 = p2
  Proxies = {p1, p2}
  Lists <- SomeLists
  Users = {u1}
  Checks = {c1}
  None = None
  MaxVersion = 2
  MaxFaults = 1
INVARIANTS UsedProxyExists
PROPERTIES ForwardOnly ChecksSettle
