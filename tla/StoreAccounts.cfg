SPECIFICATION Spec
CONSTANTS
  Users = {alice, bob}
  NoUser = NoUser
  Salts = {salt}
  NoSalt = NoSalt
  StoredKinds = {"device", "pin"}
  MaxValues = 2
SYMMETRY Symmetry
CONSTRAINT NoMishap
INVARIANTS
  DiskCurrent
  SecretsSealed
  OwnItemsOnly
  KeysSurviveLogins
