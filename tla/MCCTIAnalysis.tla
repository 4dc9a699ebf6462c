--------------------------- MODULE MCCTIAnalysis ---------------------------
(* An instance of CTIAnalysis.  The content of the database is any part of *)
(*   g, h  groups; h uses u, and k, a campaign attributed to h, uses t    *)
(*   m     a malware without a name, used by g, which uses u               *)
(*   s     a tool, used by g, which uses t                                 *)
(*   t, u  techniques; v is a revoked version of t with the same id        *)
(*   c     a course of action that mitigates t                             *)
(*   p     the identity that created t and v                               *)
EXTENDS CTIAnalysis, TLC

CONSTANTS g, h, k, m, s, t, u, v, c, p, idG, idH, idT, idU, ng, nh, nk, ns, nt, nu, nv, nc, np

MCClass == (g :> "intrusion-set") @@ (h :> "intrusion-set") @@ (k :> "campaign")
    @@ (m :> "malware") @@ (s :> "tool") @@ (c :> "course-of-action") @@ (p :> "identity")
    @@ (t :> "attack-pattern") @@ (u :> "attack-pattern") @@ (v :> "attack-pattern")
MCNameOf == (g :> ng) @@ (h :> nh) @@ (k :> nk) @@ (s :> ns) @@ (t :> nt) @@ (u :> nu)
    @@ (v :> nv) @@ (c :> nc) @@ (p :> np)
MCIds == [o \in Object |-> IF o = g THEN {idG} ELSE IF o = h THEN {idH}
    ELSE IF o \in {t, v} THEN {idT} ELSE IF o = u THEN {idU} ELSE {}]
MCTypesOf == (idG :> {"intrusion-set"}) @@ (idH :> {"intrusion-set"})
    @@ (idT :> {"attack-pattern"}) @@ (idU :> {"attack-pattern"})

Rel(x, type, y) == [type |-> type, source |-> x, target |-> y]
MCRelations == {
    {Rel(g, "uses", s), Rel(s, "uses", t)}, {Rel(k, "uses", t)}, {Rel(k, "attributed-to", h)},
    {Rel(g, "uses", m), Rel(m, "uses", u)}, {Rel(h, "uses", v), Rel(h, "uses", u)},
    {Rel(c, "mitigates", t), Rel(t, "created-by-ref", p), Rel(v, "created-by-ref", p)}}
MCRelation == UNION MCRelations

UsageCall(min, max, sort, limit, infer) ==
    [call |-> "usage", min |-> min, max |-> max, sort |-> sort, limit |-> limit,
     infer |-> infer, norevoked |-> sort = "desc"]
UsageCalls == {UsageCall(0, 0, "desc", 1, TRUE), UsageCall(0, 1, "desc", 1, TRUE),
    UsageCall(2, 0, "asc", -1, TRUE), UsageCall(0, 1, "asc", 0, FALSE)}
MCArguments == UsageCalls
    \cup {[call |-> "related", id |-> i, name |-> n] : <<i, n>> \in {<<idH, NoName>>, <<NoName, nh>>, <<NoName, NoName>>}}
    \cup {[call |-> "explain", id |-> i, mitigation |-> c] : i \in {idH, idT}}
    \cup {[call |-> "via", id |-> idT, name |-> ng], [call |-> "info", id |-> idT]}
    \cup {[call |-> "object", object |-> t], [call |-> "against", object |-> t]}
    \cup {[call |-> "used", id |-> idG, infer |-> TRUE], [call |-> "why", id |-> idH]}
    \cup {[call |-> "all", object |-> t], [call |-> "stats"]}
MCBatches == {{g, h, m, s, t}, {c, k, u, v, p}}
=============================================================================
