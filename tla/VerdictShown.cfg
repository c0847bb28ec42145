\* Two messages, two files, duplicate rows, two workers.
SPECIFICATION VerdictSpec
CONSTANTS
    None = None
    Messages = {m1, m2}
    Legacy = {m1}
    Workers = {w1, w2}
    Requests = {r1, r2}
    MarkFailed = TRUE
    MaxRows = 3
    MaxFaults = 1
    Files = {f1, f2}
    Slots = {1}
SYMMETRY Symmetry
CONSTRAINT Followed
INVARIANTS
    VerifiedIsRecorded
    KeptWithMessage
    NoFalseMismatch
CHECK_DEADLOCK FALSE
