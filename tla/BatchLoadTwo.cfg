\* Two processes loading overlapping bundles at the same time.
SPECIFICATION Spec
CONSTANTS
    e1 = e1  e1b = e1b  e2 = e2  e3 = e3  e4 = e4  e5 = e5
    s1 = s1  s2 = s2  x1 = x1  x2 = x2  x3 = x3
    i1 = i1  i2 = i2  i3 = i3  i4 = i4  i5 = i5  n1 = n1  j1 = j1  j2 = j2
    l1 = l1  l2 = l2
    Query = {e1, e1b, e2, e3, e4, e5, s1, s2, x1, x2, x3}
    KeyValue = {i1, i2, i3, i4, i5, n1, j1, j2}
    Keys <- MCKeys
    Needs <- MCNeeds
    Refused <- MCRefused
    Loader = {l1, l2}
    BatchSize = 2
    Bundles <- TwoLoaderBundles
    MaxFaults = 1
INVARIANTS RefusedForCause LoadComplete CopiesAccounted
PROPERTIES ImplementsContract
CHECK_DEADLOCK FALSE
