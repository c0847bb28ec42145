\* Default settings: one outage leaves a row pending for ever.
SPECIFICATION FairSpec
CONSTANTS
    None = None
    Messages = {m1, m2}
    Legacy = {}
    Workers = {w1}
    Requests = {r1}
    MarkFailed = FALSE
    MaxRows = 3
    MaxFaults = 1

PROPERTY OutagesOnlyDelay
CHECK_DEADLOCK FALSE
