\* Two requests of three users over one message and a second one.
SPECIFICATION Spec
CONSTANTS
    Users = {alice, bob, carol}
    Requests = {r1, r2}
    MaxMessages = 2
SYMMETRY Symmetry
INVARIANTS
    VisibilityExplained
PROPERTY RevocationStopsForwards
CHECK_DEADLOCK FALSE
