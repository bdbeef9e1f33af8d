SPECIFICATION Spec
CONSTANTS
  Events = {"raw", "half", "left", "right"}
  NoEvent = "none"
  Inputs = {1, 2, 3, 4}
  Purchases = {"raw"}
  Finished = {"left", "right"}
  Payloads <- SmallPayloads
INVARIANT SnapshotConserves
