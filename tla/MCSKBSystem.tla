---------------------------- MODULE MCSKBSystem ----------------------------
(* Instances of SKBSystem: two entities, a relationship between them, an   *)
(* embedded relation, and one object with the identifier of another.       *)
EXTENDS SKBSystem, TLC

CONSTANTS e1, e1b, e2, s1, x1, i1, i2, j1

MCKeys == (e1 :> {i1}) @@ (e1b :> {i1}) @@ (e2 :> {i2}) @@ (s1 :> {j1}) @@ (x1 :> {})
MCNeeds == (e1 :> {}) @@ (e1b :> {}) @@ (e2 :> {})
           @@ (s1 :> {i1, i2}) @@ (x1 :> {i1, i2})
MCBundles == { <<<<e1, e2>>, <<s1>>, <<x1>>>>, <<<<e1b, e1, e2>>, <<>>, <<x1>>>> }
=============================================================================
