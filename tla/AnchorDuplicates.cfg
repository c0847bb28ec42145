\* Two workers, two concurrent API requests, failures recorded: duplicate rows.
SPECIFICATION FairSpec
CONSTANTS
    None = None
    Messages = {m1, m2}
    Legacy = {}
    Workers = {w1, w2}
    Requests = {r1, r2}
    MarkFailed = TRUE
    MaxRows = 4
    MaxFaults = 2
INVARIANTS
    IInv
    ConfirmedByOwnTransaction
    DuplicatesFollowFailure
PROPERTIES
    ConfirmedIsFinal
    ImplementsEvidence
    EveryPendingSettles
CHECK_DEADLOCK FALSE
