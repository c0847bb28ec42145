SPECIFICATION Spec
CONSTANTS
  alice = alice
  bob = bob
  Users <- MCUsers
  Accounts <- MCUsers
  NoUser = NoUser
  NoText = NoText
  NoValue = NoValue
  Text = Text
  Slots <- MCSlots
  MaxMaterial = 3
  MaxPosts = 1
SYMMETRY Symmetry
CONSTRAINT Followed
INVARIANTS
  SealedForPinned
  PublishedStored
  OpensForRecipient
  CopyOpens
PROPERTIES
  PinsKept
CHECK_DEADLOCK FALSE
