SPECIFICATION Spec
CONSTANTS
  Workers = {w1, w2, w3}
  Users = {u1, u2}
  NoUser = NoUser
  Names = {n1}
  NoName = NoName
  Exchanges = {e1, e2}
  NoExchange = NoExchange
  MaxRequests = 4
  MaxIds = 2
  MaxSyncs = 2
SYMMETRY Symmetry
INVARIANTS DuplicatesOnlyIfRaced SyncsWithOwnKeys KeysForgotten
PROPERTY RemovedStaysRemoved
CHECK_DEADLOCK FALSE
