SPECIFICATION Spec
CONSTANTS
  host = host
  browser = browser
  rival = rival
  c1 = c1
  c2 = c2
  Process <- MCProcess
  Controller <- MCController
  CtlOf <- MCCtlOf
  NoController = NoController
  Expiry = 2
  MaxDelay = 1
  MaxClock = 3
SYMMETRY MCSymmetry
INVARIANTS
  GrantHonoured
  LookupTruthful
PROPERTY
  ImplementsSingleWriter
CHECK_DEADLOCK FALSE
