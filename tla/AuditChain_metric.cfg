SPECIFICATION Spec
CONSTANTS
  a1 = a1
  a2 = a2
  h1 = h1
  h2 = h2
  None = None
  Api = {a1}
  Handler = {h1, h2}
  HomeOf <- HomeSame
  SeedOrder <- OneUser
  Payload = {"decision"}
  MaxRequests = 3
  MaxStarts = 1
  MaxFaults = 0
CHECK_DEADLOCK FALSE
INVARIANT
  MetricIsLatestRow
