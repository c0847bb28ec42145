SPECIFICATION Spec
CONSTANTS
  bob = bob
  carol = carol
  Users <- MCUsers
  NoUser = NoUser
  Tickets <- MCTickets
  MaxLines = 2
INVARIANTS
  BusyMeansWorking
  GateExact
  ComposedForRecipient
PROPERTY
  GateReopens
CHECK_DEADLOCK FALSE
