SPECIFICATION Spec
CONSTANTS
  Workers = {w1, w2, w3}
  Users = {ann, bob}
  Names <- Sent
  Upper <- ToUpper
  Texts = {}
  Unset = Unset
  Ops <- Operations
  MaxPortfolios = 4
  MaxRequests = 4
SYMMETRY WorkerSymmetry
INVARIANTS OnePrimary
PROPERTIES PrimaryHandedOver OwnersOnly
CHECK_DEADLOCK FALSE
