SPECIFICATION Spec
CONSTANTS
  ControlPlane = {1}
  Others = {2}
  Etcd = {1}
  Bootstrap = 1
  MaxVersion = 3
  MaxRuns = 2
  MaxFaults = 1
PROPERTIES OneMinorAtATime
CHECK_DEADLOCK FALSE
