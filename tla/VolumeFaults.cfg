SPECIFICATION Spec
CONSTANTS
  Volumes = {v1}
  Jids = {"j1", "j2", "j3"}
  MaxUid = 1
  LagVolume = FALSE
  LagPv = FALSE
  Users = {"invalid", "foreign", "deletePv"}
  Faults = {"crash", "call", "answer", "lost", "master", "job", "disk"}
  MaxFaults = 2
INVARIANTS TypeOK StorageBehindPv VolumeOutlivesPv NothingLeftBehind
           DoneMeansQuiet
PROPERTIES DestroyedOnlyWhenUnused LifecycleSpec
CHECK_DEADLOCK FALSE
