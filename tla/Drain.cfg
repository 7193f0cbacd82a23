SPECIFICATION LiveSpec
CONSTANTS
  Pods = {p1, p2}
  Kinds = {"managed", "orphan", "daemon", "daemonOrphan", "alien", "mirror", "bare"}
  MaxUid = 2
  MinAvailable = 1
  Users = {"delete", "uncordon"}
  MaxFaults = 1
INVARIANTS DrainedMeansEmpty AllOrNothing
PROPERTY DrainEnds
CHECK_DEADLOCK FALSE
