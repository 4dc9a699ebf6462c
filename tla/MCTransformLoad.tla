-------------------------- MODULE MCTransformLoad --------------------------
(* Instances of TransformLoad: files of objects out of                     *)
(*   a, a2  two versions of one domain object, with different references;  *)
(*          one attribute of a is invalid                                  *)
(*   g      refers to the observable c, to a and to the relationship r     *)
(*   c, d   observables: c has a custom and a predefined extension, d has  *)
(*          two predefined ones                                            *)
(*   x      an observable whose extension has a value that is rejected     *)
(*   y      an observable with a value that raises TypeError               *)
(*   k      a certificate (inline extension) with a reference in it, and a *)
(*          list of references of which one names a custom type            *)
(*   e      refers to c and to the incident u                              *)
(*   u      an incident: its STIX type has a TypeDB type, but the          *)
(*          transformation takes it for a custom object                    *)
(*   fa, fb malware families with the same name; fb refers to a            *)
(*   b      has a value that the schema rejects, and refers to a           *)
(*   r, v   relationships: a to c, created by g; a to an object of a       *)
(*          custom type                                                    *)
(*   n, t   without id or type; of an unmapped subtype                     *)
(*   w      a marking definition the extractor cannot adapt                *)
EXTENDS TransformLoad, TLC

CONSTANTS a, a2, b, c, d, e, fa, fb, g, k, n, r, t, u, v, w, x, y,
          ia, ib, ic, id, ie, ig, ik, im, in, io, ip, ir, it, iu, iv, iw, ix, iy,
          family, loader, MaxLength

val == ia   \* any value but Invalid and Fatal
Att(s) == [kind |-> "attribute", elems |-> s]
Str(s) == [kind |-> "structured", elems |-> s]
Ref(s) == [kind |-> "reference", elems |-> s]
Role(i) == [kind |-> "role", elems |-> <<i>>]
Ign == [kind |-> "ignored", elems |-> <<>>]

Make(i, kind, properties) ==
    [id |-> i, read |-> "ok", class |-> kind, typed |-> TRUE, props |-> properties,
     inline |-> <<>>, extensions |-> <<>>]
Ext(defined, properties) == [defined |-> defined, props |-> properties]

MCContent ==
    (a :> Make(ia, "SDO", <<Att(<<val>>), Att(<<val, Invalid>>), Str(<<val>>), Ref(<<ic>>)>>)) @@
    (a2 :> Make(ia, "SDO", <<Ref(<<ig>>), Att(<<val>>)>>)) @@
    (b :> Make(ib, "SDO", <<Att(<<val>>), Ref(<<ia>>)>>)) @@
    (c :> [Make(ic, "SCO", <<Att(<<val>>), Ign>>) EXCEPT
            !.extensions = <<Ext(FALSE, <<Ref(<<ia>>)>>), Ext(TRUE, <<Str(<<val>>)>>)>>]) @@
    (d :> [Make(id, "SCO", <<Att(<<val>>)>>) EXCEPT
            !.extensions = <<Ext(TRUE, <<Att(<<val>>)>>), Ext(TRUE, <<>>)>>]) @@
    (e :> Make(ie, "SDO", <<Ref(<<ic, iu>>)>>)) @@
    (fa :> Make(im, "SDO", <<Att(<<val>>)>>)) @@
    (fb :> Make(ip, "SDO", <<Att(<<val>>), Ref(<<ia>>)>>)) @@
    (g :> Make(ig, "SDO", <<Ref(<<ic, ir>>), Ref(<<ia>>)>>)) @@
    (k :> [Make(ik, "SCO", <<Att(<<>>), Ref(<<ia, io>>)>>) EXCEPT
            !.inline = <<Att(<<val>>), Ref(<<ia>>)>>, !.extensions = <<Ext(TRUE, <<Att(<<Invalid>>)>>)>>]) @@
    (n :> Make(in, "none", <<Att(<<val>>)>>)) @@
    (r :> Make(ir, "SRO", <<Role(ia), Role(ic), Str(<<val>>), Ref(<<ig>>)>>)) @@
    (t :> [Make(it, "SDO", <<Ref(<<ia>>)>>) EXCEPT !.typed = FALSE]) @@
    (u :> Make(iu, "custom", <<Att(<<val>>)>>)) @@
    (v :> Make(iv, "SRO", <<Role(ia), Role(io), Ref(<<ia>>)>>)) @@
    (w :> [Make(iw, "SMO", <<>>) EXCEPT !.read = "badMarking"]) @@
    (x :> [Make(ix, "SCO", <<Att(<<val>>), Ref(<<ia>>)>>) EXCEPT
            !.extensions = <<Ext(TRUE, <<Att(<<val>>), Str(<<Invalid>>)>>)>>]) @@
    (y :> Make(iy, "SCO", <<Ref(<<ia>>), Str(<<val, Fatal, Invalid>>), Str(<<Invalid, Fatal>>)>>))

MCNameKeys == [o \in Object |-> IF o \in {fa, fb} THEN {family} ELSE {}]

FilesOf(objects, length) ==
    {f \in UNION {[1..i -> objects] : i \in 0..length} : \A i, j \in DOMAIN f : f[i] = f[j] => i = j}
MCFiles ==
    FilesOf(Object \ {d, n, t}, MaxLength) \cup FilesOf(Object, MaxLength - 1)
    \cup {<<g, r, c, a>>, <<r, a2, g, c, a>>, <<b, fb, a, fa, c>>, <<e, u, c, a, r, g>>}

VersionFiles == {<<a, c, a2, g>>, <<c, g, a2, a>>, <<a, b, c>>, <<g, r, a, c>>}

(* Objects that the extractor reads, one of them with a failing extension. *)
ExtensionFiles == {<<c>>, <<c, x>>, <<x, a, k>>, <<a, g, c>>}
=============================================================================
