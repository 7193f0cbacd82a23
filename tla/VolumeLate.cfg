SPECIFICATION Spec
CONSTANTS
  Volumes = {v1}
  Jids = {"j1", "j2"}
  MaxUid = 2
  LagVolume = TRUE
  LagPv = TRUE
  Users = {"foreign", "deletePv"}
  Faults = {"crash"}
  MaxFaults = 1
INVARIANT NothingLeftBehind
PROPERTY ForeignPvUntouched
CHECK_DEADLOCK FALSE
