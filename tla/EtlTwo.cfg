\* Two commands at once, on one database, perhaps in the same local file.
SPECIFICATION EtlSpec
CONSTANTS
    e1 = e1  e2 = e2  e2b = e2b  x1 = x1  i1 = i1  i2 = i2
    srcA = srcA  srcB = srcB  srcBad = srcBad
    Garbled = Garbled
    Query = {e1, e2, e2b, x1}
    KeyValue = {i1, i2}
    Keys <- MCKeys
    Needs <- MCNeeds
    Refused = {}
    Loader = {l1, l2}
    Setup = {}
    BatchSize = 2
    Bundles <- MCBundles
    MaxFaults = 0
    File = {f1, f2}
    Source = {srcA, srcB}
    Reading <- MCReading
    BundleOf <- MCBundleOf
INVARIANTS EtlTypeOK LoadsOwnSource ReportCoversLoad
CHECK_DEADLOCK FALSE
