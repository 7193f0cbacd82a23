SPECIFICATION Spec
CONSTANTS
  Volumes = {v1}
  Jids = {"j1", "j2"}
  MaxUid = 1
  LagVolume = FALSE
  LagPv = TRUE
  Users = {}
  Faults = {}
  MaxFaults = 0
PROPERTY DestroyedOnlyWhenUnused
CHECK_DEADLOCK FALSE
