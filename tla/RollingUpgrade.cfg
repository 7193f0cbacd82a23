SPECIFICATION LiveSpec
CONSTANTS
  ControlPlane = {1, 2}
  Others = {3}
  Etcd = {1, 2, 3}
  Bootstrap = 1
  MaxVersion = 3
  MaxRuns = 2
  MaxFaults = 2
INVARIANTS WorkersNeverAhead EtcdNeverBehind OneNodeAtATime QuorumKept
PROPERTIES ChangedWhenDrained Converges
CHECK_DEADLOCK FALSE
