SPECIFICATION LiveSpec
CONSTANTS
  Volumes = {v1}
  Jids = {"j1", "j2"}
  MaxUid = 1
  LagVolume = FALSE
  LagPv = FALSE
  Users = {"invalid", "foreign", "deletePv"}
  Faults = {"crash", "call", "answer", "master", "job", "disk"}
  MaxFaults = 1
PROPERTIES DeletedIsCollected PendingSettles HealthIsReported
CHECK_DEADLOCK FALSE
