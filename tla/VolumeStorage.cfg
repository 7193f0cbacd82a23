SPECIFICATION LiveSpec
CONSTANTS
  Sparse = {s1}
  Raw = {r1, r2}
  Devices = {d1}
  Faults = {"kill", "restart", "reboot", "command", "class"}
  MaxFaults = 2
INVARIANTS OneVolumePerDevice LoopHasFile
PROPERTIES DeletedIsForgotten PreparedIsReady ContentKept
CHECK_DEADLOCK FALSE
