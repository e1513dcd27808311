SPECIFICATION Spec
CONSTANTS
  MaxReconnectAttempts = 3
  ReconnectAttempts = 0
  MaxErrors = 3
  MaxPings = 4
INVARIANTS OneConnectionPerError StateIsCurrentUntilError KeepsTrying
PROPERTY Recovers
CHECK_DEADLOCK FALSE
