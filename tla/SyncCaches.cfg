SPECIFICATION Spec
CONSTANTS
  alice = alice
  bob = bob
  Users <- MCUsers
  NoUser = NoUser
  Slots = {1}
  PageSize = 1
  ShownSize = 1
  SavesFail = TRUE
  MaxMessages = 2
CONSTRAINT Followed
SYMMETRY MCSymmetry
INVARIANTS
  HiddenIsHidden
  OwnMessagesOnly
PROPERTIES
  SyncExact
  KeptForever
CHECK_DEADLOCK FALSE
