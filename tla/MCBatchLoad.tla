---------------------------- MODULE MCBatchLoad ----------------------------
(* Instances of BatchLoad.  The queries describe this STIX content:        *)
(*   e1, e1b  two objects with the same identifier (test-repeated-ids)     *)
(*   e2, e3   objects; e3 is rejected by TypeDB                            *)
(*   e4, e5   two malware families with the same name                      *)
(*   s1, s2   relationships e1 -> e2 and e1 -> e3                          *)
(*   x1, x2   embedded relations of e1 to e2 and of s1 to e3               *)
(*   x3       an embedded relation of e1 to e5                             *)
EXTENDS BatchLoad, TLC

CONSTANTS e1, e1b, e2, e3, e4, e5, s1, s2, x1, x2, x3,
          i1, i2, i3, i4, i5, n1, j1, j2, l1, l2

MCKeys == (e1 :> {i1}) @@ (e1b :> {i1}) @@ (e2 :> {i2}) @@ (e3 :> {i3})
         @@ (e4 :> {i4, n1}) @@ (e5 :> {i5, n1})
         @@ (s1 :> {j1}) @@ (s2 :> {j2}) @@ (x1 :> {}) @@ (x2 :> {}) @@ (x3 :> {})
MCNeeds == (e1 :> {}) @@ (e1b :> {}) @@ (e2 :> {}) @@ (e3 :> {}) @@ (e4 :> {}) @@ (e5 :> {})
         @@ (s1 :> {i1, i2}) @@ (s2 :> {i1, i3})
         @@ (x1 :> {i1, i2}) @@ (x2 :> {j1, i3}) @@ (x3 :> {i1, i5})
MCRefused == {e3}

(* Every interesting order of one bundle, for a single process. *)
OneLoaderBundles ==
    { <<ents, rels, embs>> :
        ents \in {<<e1, e1b, e2>>, <<e2, e1, e1b>>, <<e3, e1, e2>>, <<e1, e2, e3>>},
        rels \in {<<s1, s2>>, <<s2, s1>>},
        embs \in {<<x1, x2>>, <<x2, x1>>, <<x1>>} }
    \cup { <<<<e4, e1, e5, e2>>, <<s1>>, <<x3, x1>>>>, <<<<e1, e5, e4>>, <<>>, <<x3>>>> }

(* Bundles of which two processes may load the same, or two that overlap.  *)
TwoLoaderBundles == { <<<<e1, e2>>, <<s1>>, <<x1>>>>, <<<<e2, e1b>>, <<>>, <<x1>>>>, <<<<e1>>, <<>>, <<>>>> }
=============================================================================
