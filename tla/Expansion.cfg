SPECIFICATION Spec
CONSTANTS
  Boot = "bootstrap"
  New = {"node1", "node2"}
  MaxFaults = 2
INVARIANTS DoneIsMember NeverAlone
PROPERTIES QuorumComesBack EveryoneJoins
CHECK_DEADLOCK FALSE
