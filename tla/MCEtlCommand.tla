---------------------------- MODULE MCEtlCommand ----------------------------
(* Instances of EtlCommand: two readable sources (the second one repeats   *)
(* an object of the first), and sources that cannot be processed.          *)
EXTENDS EtlCommand, TLC

CONSTANTS e1, e2, e2b, x1, i1, i2, srcA, srcB, srcBad

MCKeys == (e1 :> {i1}) @@ (e2 :> {i2}) @@ (e2b :> {i2}) @@ (x1 :> {})
MCNeeds == (e1 :> {}) @@ (e2 :> {}) @@ (e2b :> {}) @@ (x1 :> {i1, i2})
MCBundleOf == [s \in Source |->
    IF s = srcA THEN <<<<e1, e2>>, <<>>, <<x1>>>>
    ELSE IF s = srcB THEN <<<<e2b>>, <<>>, <<>>>> ELSE <<<<>>, <<>>, <<>>>>]
MCBundles == {MCBundleOf[s] : s \in Source}
MCReading == [s \in Source |-> IF s = srcBad THEN "badTimestamp" ELSE "stix"]
NoObjectsReading == [s \in Source |-> IF s = srcBad THEN "noObjects" ELSE "stix"]
=============================================================================
