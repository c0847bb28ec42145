SPECIFICATION Spec
CONSTANTS
  Users = {alice, bob}
  NoUser = NoUser
  NoTokens = NoTokens
  NoSession = NoSession
  Slots = {s1, s2}
  MaxTokens = 3
SYMMETRY Symmetry
INVARIANTS
  ActsAsShown
  CopiesAgree
  ServerAgrees
  RetriedOnce
CONSTRAINT NoOverlap
