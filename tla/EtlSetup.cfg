\* One command, with failures of the connection, beside a setup.
SPECIFICATION EtlSpec
CONSTANTS
    e1 = e1  e2 = e2  e2b = e2b  x1 = x1  i1 = i1  i2 = i2
    srcA = srcA  srcB = srcB  srcBad = srcBad
    Garbled = Garbled
    Query = {e1, e2, e2b, x1}
    KeyValue = {i1, i2}
    Keys <- MCKeys
    Needs <- MCNeeds
    Refused = {}
    Loader = {l1}
    Setup = {a1}
    BatchSize = 2
    Bundles <- MCBundles
    MaxFaults = 1
    File = {f1}
    Source = {srcA, srcBad}
    Reading <- MCReading
    BundleOf <- MCBundleOf
INVARIANTS ReportedRunIsLoaded
PROPERTIES CommandEnds
CHECK_DEADLOCK FALSE
