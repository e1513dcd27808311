SPECIFICATION MCSpec
CONSTANTS
  Workers = {w1, w2, w3}
  Secrets = {s1, s2}
  NoSecret = NoSecret
  Ops <- Operations
  MaxTokensPerUser = 2
  MaxRequests = 6
  MaxOverlapping = 3
  MaxSeconds = 3
  MaxRows = 6
SYMMETRY Symmetry
INVARIANTS RedeemedStaysDead
PROPERTIES SecretKept RefinesSessionBook
CHECK_DEADLOCK FALSE
