\* Three requests over three sessions and one database error.
SPECIFICATION Spec
CONSTANTS
    Requests = {r1, r2, r3}
    MaxSessions = 3
    MaxErrors = 1
SYMMETRY Symmetry
INVARIANTS
    ExchangedOnce
    OneValidToken
    LogoutEndsLineage
PROPERTY ImplementsLineage
CHECK_DEADLOCK FALSE
