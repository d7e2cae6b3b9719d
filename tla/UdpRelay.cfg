CONSTANTS
  Fds <- MCFds
  Foreign <- MCForeign
  Candidates <- MCCandidates
  Traffic <- MCTraffic
  ClientIps <- MCClientIps
  HostIp <- MCHostIp
  LocalPort <- MCLocalPort
  MaxRecv = 3
  MaxData = 30
  SignedChar = TRUE
  Asserts = TRUE
SPECIFICATION Spec
INVARIANTS TypeOK Owns AsAsked AsReceived AbortsOnEmpty
CHECK_DEADLOCK FALSE
