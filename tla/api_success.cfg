SPECIFICATION Spec
CONSTANTS
  Workers = {w1}
  Users = {alice}
  ip1 = ip1
  ip2 = ip2
  Loads <- SingleLoad
  Points = 1
  Duration = 1
  MaxCount = 1
  MaxTime = 1
INVARIANT SufficientIsAccepted
CHECK_DEADLOCK FALSE
