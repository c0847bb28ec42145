\* Two clients, two uploads and two bundle requests at a time.
SPECIFICATION KeySpec
CONSTANTS
    None = None
    Clients = {c1, c2}
    Fetches = {f1, f2}
    Uploads = {u1, u2}
    Batches = {{1}, {2}, {1, 2}}
    MaxPreKeys = 2
    MaxBundles = 3
SYMMETRY Symmetry
INVARIANTS
    HandedOutOnce
    BundleSendable
    UploadsWhole
CHECK_DEADLOCK FALSE
