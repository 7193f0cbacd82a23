SPECIFICATION LoginSpec
CONSTANTS
  Ttl = 2
  MaxTime = 4
  MaxFaults = 3
  MaxSkew = 2
INVARIANT RefusedOnlyIfShaken
PROPERTIES CallSpec CallsRecover TokenIsVouched
