CONSTANTS
  c1 = c1
  c2 = c2
  Clients <- MCClients
  Timeout <- MCTimeout
  Lag = 1
  MaxTime = 7
SPECIFICATION Spec
SYMMETRY Symmetry
INVARIANTS TypeOK EndsInTime TimerInTime
PROPERTIES EndedForCause
CHECK_DEADLOCK FALSE
