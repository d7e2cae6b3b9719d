CONSTANTS
  c1 = c1
  c2 = c2
  Clients <- MCClients
  Asserts = TRUE
  MaxInput = 1
  FdLimit = 5
SPECIFICATION Spec
SYMMETRY Symmetry
INVARIANTS ClientsAssertionsHold
CHECK_DEADLOCK FALSE
