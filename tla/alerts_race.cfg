SPECIFICATION Spec
CONSTANTS
  Runs = {r1, r2}
  Prices = {1, 2}
  MaxAlerts = 2
  MaxActivations = 2
INVARIANTS MailsAreJustified MailsPerActivation
PROPERTY NoAlertStarves
CHECK_DEADLOCK FALSE
