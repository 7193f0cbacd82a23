SPECIFICATION Spec
CONSTANTS
  None = None
  Objects = {"account", "role", "binding", "opConfig", "operator", "ui", "configMap", "crd"}
  Writers = {a1, a2}
  Versions = {1, 2}
  Faults = {"kill", "call", "list", "mount", "master"}
  MaxCommands = 5
  MaxTogether = 3
  MaxFaults = 1
SYMMETRY WriterSymmetry
INVARIANTS OneActiveVersion ActiveIsMounted ImportedStays SuccessIsReal ManifestsConverted
PROPERTY OperatorBehindRights
CHECK_DEADLOCK FALSE
