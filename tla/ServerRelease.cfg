CONSTANTS
  c1 = c1
  c2 = c2
  Clients <- MCClients
  Asserts = FALSE
  MaxInput = 1
  FdLimit = 4
SPECIFICATION FairSpec
PROPERTIES SecondInterruptStops DrainedExits
CHECK_DEADLOCK FALSE
