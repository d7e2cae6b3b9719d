CONSTANTS
  c1 = c1
  c2 = c2
  Clients <- MCClients
  Asserts = TRUE
  MaxInput = 2
  FdLimit = 5
SPECIFICATION Spec
SYMMETRY Symmetry
INVARIANTS TypeOK NoDeadMember SessionsTimed HandshakesTimed StreamTimedIffPending AuthEndsOnce NoLeak TimerArmed AssertionsHold
CHECK_DEADLOCK FALSE
