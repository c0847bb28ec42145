\* Default settings, one worker, two requests: lost submissions are retried.
SPECIFICATION FairSpec
CONSTANTS
    None = None
    Messages = {m1, m2}
    Legacy = {m1}
    Workers = {w1}
    Requests = {r1, r2}
    MarkFailed = FALSE
    MaxRows = 4
    MaxFaults = 2
PROPERTY HeadReachesChain
CHECK_DEADLOCK FALSE
