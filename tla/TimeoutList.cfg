CONSTANTS
  o1 = o1
  o2 = o2
  o3 = o3
  o4 = o4
  Objs <- MCObjs
  Sentry = sentry
  Timeout = 2
  MaxTime = 4
SPECIFICATION Spec
INVARIANTS ListOK
PROPERTIES ImplementsQueue
CHECK_DEADLOCK FALSE
