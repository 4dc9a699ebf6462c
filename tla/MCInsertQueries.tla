-------------------------- MODULE MCInsertQueries --------------------------
(* Instances of InsertQueries: files of objects out of                     *)
(*   a      values of every kind, nested and in lists                      *)
(*   b      the same kinds, each with a failing element after good ones    *)
(*   c      an observable with a dictionary property for every item of at  *)
(*          most two JSON values that does not raise TypeError             *)
(*   d, e   observables with an item that does: in a property after good   *)
(*          values; behind an item that raises ValueError, and in a        *)
(*          property of the extension                                      *)
(*   k      a certificate: inline extension with a composite value and a   *)
(*          reference                                                      *)
(*   x      an observable whose extension fails in a composite value       *)
(*   r, v   relationships: with one and with two role players in a role;   *)
(*          with a role player of a custom type behind another one         *)
(*   n, t, u, w  without id or type; of an unmapped subtype; of a custom   *)
(*          type; not adaptable                                            *)
EXTENDS InsertQueries, SequencesExt

CONSTANTS a, b, c, d, e, k, n, r, t, u, v, w, x,
          ia, ib, ic, id, ie, ik, in, ir, it, iu, iv, iw, ix, MaxLength

Att(s) == [kind |-> "attribute", elems |-> s]
Pairs(s) == [kind |-> "pairs", elems |-> s]
Comp(s) == [kind |-> "composite", elems |-> s]
Dict(s) == [kind |-> "dictionary", elems |-> s]
Ref(s) == [kind |-> "reference", elems |-> s]
Role(s) == [kind |-> "role", elems |-> s]
Ign == [kind |-> "ignored", elems |-> <<>>]
Val(p) == [kind |-> "value", value |-> p]
Hash(p) == [kind |-> "pair", value |-> p]
One(j) == [list |-> FALSE, values |-> <<j>>]
List(s) == [list |-> TRUE, values |-> s]

Make(i, class, properties) ==
    [id |-> i, read |-> "ok", class |-> class, typed |-> TRUE, props |-> properties,
     inline |-> <<>>, extensions |-> <<>>]
Ext(defined, properties) == [defined |-> defined, props |-> properties]

Items == {One(j) : j \in JSON} \cup {List(s) : s \in UNION {[1..i -> JSON] : i \in 0..2}}
Quiet == FoldSet(LAMBDA i, s : Append(s, i), <<>>, {j \in Items : ItemOutcome(j) # "fatal"})

References == Comp(<<<<Val("ok"), Hash("ok"), Hash("ok"), Val("ok")>>, <<Hash("ok")>>>>)
MCContent == [o \in Object |->
    CASE o = a -> Make(ia, "SDO", <<Att(<<"ok">>), References, Att(<<"ok", "ok">>), Pairs(<<"ok", "ok">>),
                        Dict(<<One("int"), List(<<"text", "digits">>)>>), Ref(<<ic, ir>>), Ign, Ref(<<ic>>)>>)
      [] o = b -> Make(ib, "SDO", <<Att(<<"ok", "invalid">>),
                        Comp(<<<<Val("ok")>>, <<Hash("ok"), Val("invalid"), Hash("ok")>>>>),
                        Comp(<<<<Hash("ok"), Hash("invalid")>>>>),
                        Pairs(<<"ok", "invalid">>), Dict(<<One("text"), One("float")>>),
                        Ref(<<ia, iu>>), Ref(<<ib>>)>>)
      [] o = c -> Make(ic, "SCO", [i \in 1..Len(Quiet) |-> Dict(<<Quiet[i], One("text")>>)])
      [] o = d -> Make(id, "SCO", <<Comp(<<<<Hash("ok")>>>>), Ref(<<ia>>),
                        Dict(<<One("int"), List(<<"int", "null", "text">>)>>), Att(<<"ok">>)>>)
      [] o = e -> [Make(ie, "SCO", <<Dict(<<One("null"), List(<<"timestamp", "int">>)>>)>>) EXCEPT
                    !.extensions = <<Ext(TRUE, <<Dict(<<List(<<"float", "text", "null">>)>>)>>)>>]
      [] o = k -> [Make(ik, "SCO", <<Pairs(<<"ok">>)>>) EXCEPT
                    !.inline = <<Comp(<<<<Val("ok"), Hash("ok")>>>>), Att(<<"ok">>), Ref(<<ia>>)>>,
                    !.extensions = <<Ext(TRUE, <<Att(<<"invalid">>)>>)>>]
      [] o = x -> [Make(ix, "SCO", <<Comp(<<<<>>>>), Ref(<<ia>>)>>) EXCEPT
                    !.extensions = <<Ext(FALSE, <<>>), Ext(TRUE, <<References, Comp(<<<<Hash("invalid")>>>>)>>)>>]
      [] o = r -> Make(ir, "SRO", <<Role(<<ia>>), Att(<<"ok">>), Role(<<ib, ic>>), References, Ref(<<ia, ia>>)>>)
      [] o = v -> Make(iv, "SRO", <<Role(<<ia, iu>>), Role(<<ib>>), Ref(<<ia>>)>>)
      [] o = n -> Make(in, "none", <<Att(<<"ok">>)>>)
      [] o = t -> [Make(it, "SDO", <<Ref(<<ia>>)>>) EXCEPT !.typed = FALSE]
      [] o = u -> Make(iu, "custom", <<Ref(<<ia>>)>>)
      [] o = w -> [Make(iw, "SMO", <<>>) EXCEPT !.read = "badMarking"]]

MCFiles == {f \in UNION {[1..i -> Object] : i \in 0..MaxLength} :
                \A i, j \in DOMAIN f : f[i] = f[j] => i = j}
           \cup {<<d, a, b, r>>, <<v, k, x, c>>, <<e, n, u, a, w>>}
=============================================================================
