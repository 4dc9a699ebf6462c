\* One load, and two setups that may delete and recreate the database.
SPECIFICATION SystemSpec
CONSTANTS
    e1 = e1  e1b = e1b  e2 = e2  s1 = s1  x1 = x1
    i1 = i1  i2 = i2  j1 = j1
    Query = {e1, e1b, e2, s1, x1}
    KeyValue = {i1, i2, j1}
    Keys <- MCKeys
    Needs <- MCNeeds
    Refused = {}
    Loader = {l1}
    Setup = {a1, a2}
    BatchSize = 2
    Bundles <- MCBundles
    MaxFaults = 0
INVARIANTS SystemTypeOK LoadComplete IncompleteExplained LockIsOwned
PROPERTIES LoadResumes LoadAlwaysEnds ResetRepairs
CHECK_DEADLOCK FALSE
