CONSTANTS
  Streams <- MCStreams
  Users <- MCUsers
  SignedChar = TRUE
SPECIFICATION Spec
INVARIANTS TypeOK Framed Prompt PortDecoded
PROPERTIES ImplementsDialogue
CHECK_DEADLOCK FALSE
