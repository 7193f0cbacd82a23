SPECIFICATION Spec
CONSTANTS
  Sparse = {s1}
  Raw = {}
  Devices = {}
  Faults = {"class"}
  MaxFaults = 1
INVARIANT RemovedLeavesNothing
CHECK_DEADLOCK FALSE
