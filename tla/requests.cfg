SPECIFICATION Spec
CONSTANTS
  Workers = {w1, w2}
  ip1 = ip1
  ip2 = ip2
  Users = {alice}
  Loads <- BothLoads
  Points = 1
  Duration = 2
  MaxCount = 3
  MaxTime = 2
INVARIANTS WindowBounded UndisturbedRunsOut HandlersAreGuarded AnswersAreDocumented
SYMMETRY Symmetry
CHECK_DEADLOCK FALSE
