SPECIFICATION Spec
CONSTANTS
  j1 = j1 j2 = j2 c1 = c1 k1 = k1 k2 = k2 p1 = p1 p2 = p2 bad = bad s1 = s1 s2 = s2
  Jobs = {j1, j2}
  Tenants = {c1}
  TenantOf <- OneTenant
  Keys = {k1, k2}
  Snapshots = {p1, p2, bad}
  Invalid = {bad}
  Workers = {s1, s2}
  Slots = {s1, s2}
  WorkerOf <- OneSlotEach
  Mortal = {}
  Flaky = {}
  Abandoned = {}
  MaxAttempts = 3
  NoWorker = NoWorker
  NoJob = NoJob
INVARIANTS OneSnapshotPerTenant OneBatchPerSnapshot
PROPERTIES ImplementsCatalog
CHECK_DEADLOCK FALSE
SYMMETRY Symmetry
