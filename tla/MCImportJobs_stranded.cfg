SPECIFICATION FairSpec
CONSTANTS
  j1 = j1 j2 = j2 c1 = c1 k1 = k1 k2 = k2 p1 = p1 p2 = p2 bad = bad s1 = s1 s2 = s2
  Jobs = {j1}
  Tenants = {c1}
  TenantOf <- OneTenant
  Keys = {k1}
  Snapshots = {p1, bad}
  Invalid = {bad}
  Workers = {s1, s2}
  Slots = {s1, s2}
  WorkerOf <- OneSlotEach
  Mortal = {s1}
  Flaky = {s1}
  Abandoned = {}
  MaxAttempts = 2
  NoWorker = NoWorker
  NoJob = NoJob

PROPERTIES ApprovedJobSettles
CHECK_DEADLOCK FALSE

