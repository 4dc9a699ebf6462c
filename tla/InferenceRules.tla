--------------------------- MODULE InferenceRules ---------------------------
(***************************************************************************)
(* The rules of cti-skb-rules.tql over the relations of the CTI SKB, and   *)
(* what TypeDB derives with them: the least set of relations that contains *)
(* the stored ones and that no rule extends.  A relation is kept with the  *)
(* objects in its source role and in its target role.                      *)
(***************************************************************************)
EXTENDS Naturals, FiniteSets

CONSTANTS
    Object,     \* STIX domain objects
    Class,      \* Class[o]: the type of o
    Named,      \* the objects with a name, which a malware need not have
    Relation    \* the relationship objects that may be stored

RelationType == {"uses", "attributed-to", "mitigates", "created-by-ref"}

ASSUME InferenceAssumption ==
    /\ IsFiniteSet(Object)
    /\ Class \in [Object -> STRING]
    /\ Named \subseteq Object
    /\ Relation \subseteq [type : RelationType, source : Object, target : Object]

Of(class) == {o \in Object : Class[o] = class}

(* The stored pairs of a type: <<user, used>>, <<attribution, attributee>>,*)
(* <<mitigation, mitigated>>, <<object-created, creator>>.                 *)
Pairs(R, type) == {<<r.source, r.target>> : r \in {s \in R : s.type = type}}

(* rule transitive-use *)
TransitiveUse(U) ==
    {<<q[1][1], q[2][2]>> : q \in {p \in U \X U :
        /\ p[1][2] = p[2][1]
        /\ p[1][1] # p[2][2]
        /\ {p[1][1], p[1][2], p[2][2]} \subseteq Named}}

(* rule usage-via-attribution *)
(* Mutant: the roles of attribution are swapped.                           *)
UsageOfAttributee(A, U) == {<<q[1][1], q[2][2]>> : q \in {p \in A \X U : p[1][2] = p[2][1]}}
UsageViaAttribution(A, U) ==
    {<<q[1][2], q[2][2]>> : q \in {p \in A \X U : p[1][1] = p[2][1]}}

(* "uses", with what the rules add to it (indirectly-uses is a subtype).   *)
Derive(R, U) ==
    U \cup TransitiveUse(U) \cup UsageViaAttribution(Pairs(R, "attributed-to"), U)
InferredUses(R) ==
    LET Closed[U \in SUBSET (Object \X Object)] ==
            IF Derive(R, U) = U THEN U ELSE Closed[Derive(R, U)]
    IN  Closed[Pairs(R, "uses")]

(* The uses that a rule concludes, and explanations are given for.         *)
DerivedUses(R) ==
    TransitiveUse(InferredUses(R)) \cup UsageViaAttribution(Pairs(R, "attributed-to"), InferredUses(R))

(* rule course-of-action-for-intrusion-set *)
RelatedTo(R) ==
    {<<q[1][1], q[2][1]>> : q \in {p \in Pairs(R, "mitigates") \X InferredUses(R) :
        /\ Class[p[1][1]] = "course-of-action"
        /\ Class[p[2][1]] = "intrusion-set"
        /\ p[1][2] = p[2][2] /\ p[1][2] \in Named}}
----------------------------------------------------------------------------
(* What the rules are meant to derive, without rules: x uses z if a chain  *)
(* leads from x to z, each link of which goes from a user to what it uses, *)
(* or from somebody to what is attributed to him, and ends with a use.     *)
Links(R) == Pairs(R, "uses") \cup {<<a[2], a[1]>> : a \in Pairs(R, "attributed-to")}
Chains(R, S) ==
    LET next(T) == T \cup {k[2] : k \in {l \in Links(R) : l[1] \in T /\ l[2] \in S}}
        Reached[T \in SUBSET Object] == IF next(T) = T THEN T ELSE Reached[next(T)]
    IN  UNION {{x} \X {u[2] : u \in {v \in Pairs(R, "uses") : v[1] \in Reached[{x}] /\ v[2] \in S}} :
                x \in S}
=============================================================================
