---------------------------- MODULE CTIAnalysis ----------------------------
(***************************************************************************)
(* The analysis toolbox (CTIanalysisToolbox) on the CTI engine (CTIEngine) *)
(* and its handler (TypeDBHandler).  A call opens a driver and a session,  *)
(* runs its queries, each in a read transaction of its own, and closes     *)
(* the session and then the driver.  Between any two of these other        *)
(* processes load objects and relations, or "satrap setup -d" deletes the  *)
(* database and creates it again; and any of them may raise.               *)
(*                                                                         *)
(* The calls are, with their further queries after a comma:                *)
(*   usage    techniques_usage: counts per technique, names                *)
(*   related  related_mitigations: the name of the group_id, mitigations   *)
(*   info     get_attck_concept_info: the objects with an ATT&CK id, for   *)
(*            each of them its attributes, its creator and its sources     *)
(*   object   search_stix_object: an object, then as for info              *)
(*   explain  explain_if_related_mitigation: as info, then explanations    *)
(*            for the first object and a mitigation                        *)
(*   via      explain_related_techniques: as info, then explanations for a *)
(*            group and the first object                                   *)
(*   used     techniques_used_by_group                                     *)
(*   why      explain_techniques_used_by_group                             *)
(*   against  mitigations_for_technique                                    *)
(*   all      mitre_attack_techniques, mitre_attack_mitigations            *)
(*   stats    get_sdo_stats                                                *)
(***************************************************************************)
EXTENDS InferenceRules, Integers, SequencesExt

CONSTANTS
    AttckId,    \* MITRE ATT&CK ids
    TypesOf,    \* TypesOf[i]: the types the format of i stands for, {} if none
    Ids,        \* Ids[o]: the ATT&CK ids that o references
    NameOf,     \* NameOf[o]: the name of a named object
    Revoked,    \* the objects with "revoked true"
    Arguments,  \* the calls with their arguments
    NoName,     \* None, for a name that is not found or not given
    Batches,    \* the objects a load commits together
    Relations,  \* the relations a load commits together
    MaxGen,     \* bound on how often the database is created
    MaxDrivers  \* bound on the drivers that are open

ASSUME AnalysisAssumption ==
    /\ IsFiniteSet(AttckId)
    /\ TypesOf \in [AttckId -> SUBSET STRING]
    /\ Ids \in [Object -> SUBSET AttckId]
    /\ Named = DOMAIN NameOf
    /\ \A o \in Named : NameOf[o] # NoName
    /\ Revoked \subseteq Object
    /\ \A a \in Arguments : a.call = "usage" => a.limit \in Int
    /\ Batches \subseteq SUBSET Object
    /\ Relations \subseteq SUBSET Relation
    /\ {MaxGen, MaxDrivers} \subseteq Nat

VARIABLES
    exists, gen, objs, rels,    \* the database: how often created, contents
    at,         \* idle, or what the call does next
    args,       \* the call with its arguments
    session,    \* db_manager.session: the database it is open on, as a set
    drivers,    \* drivers that are open
    sets_count, \* the count of each technique, as the first query gave it
    data,       \* the techniques selected, in order
    found,      \* the objects the first query found, in order
    related,    \* what the queries so far have told of each of them
    outcome,    \* none, returned, or the exception raised
    answer,     \* what the call returns
    aux_before  \* drivers that were open when the call began (history)

skb == <<exists, gen, objs, rels>>
results == <<sets_count, data, found, related>>
analysisVars ==
    <<skb, at, args, session, drivers, results, outcome, answer, aux_before>>

NoAnswer == [rows |-> <<>>, set |-> {}]
Technique == {i \in AttckId : TypesOf[i] = {"attack-pattern"}}
Searching == {"info", "object", "explain", "via"}
Queries == {"counts", "names", "name", "mitigations", "search", "attributes", "creator", "sources",
            "explain", "single"}

AnalysisTypeOK ==
    /\ exists \in BOOLEAN /\ gen \in 0..MaxGen
    /\ objs \subseteq Object /\ rels \subseteq Relation
    /\ at \in {"idle", "driver", "session", "close", "closed"} \cup Queries
    /\ args \in Arguments
    /\ session \subseteq 0..MaxGen
    /\ drivers \in 0..MaxDrivers /\ aux_before \in 0..MaxDrivers
    /\ DOMAIN sets_count \subseteq Technique
    /\ ToSet(data) \subseteq DOMAIN sets_count
    /\ ToSet(found) \subseteq Object
    /\ Len(related) <= Len(found)
    /\ outcome \in {"none", "returned", "SatrapError", "ValueError", "TypeDBDriverException"}
    /\ session # {} <=> at \in Queries \cup {"close"}
----------------------------------------------------------------------------
(* What the queries of the engine match in the database.                   *)
WithId(i) == {o \in objs : i \in Ids[o]}
NamesOf(i) == {NameOf[o] : o \in WithId(i) \cap Named}
Uses == IF args.infer THEN InferredUses(rels) ELSE Pairs(rels, "uses")

(* get_intrusion_sets_per_technique: the answers for a technique are pairs *)
(* of names, of an attack pattern with its id and of a group that uses it. *)
Usage(i) ==
    {<<NameOf[u[2]], NameOf[u[1]]>> : u \in {v \in Uses :
        /\ {v[1], v[2]} \subseteq Named
        /\ v[2] \in WithId(i) \cap Of("attack-pattern")
        /\ args.norevoked => v[2] \notin Revoked
        /\ v[1] \in Of("intrusion-set")}}
Counts == [i \in {j \in Technique : Usage(j) # {}} |-> Cardinality(Usage(i))]

(* techniques_usage: filter by the bounds, where 0 is no bound; sort; cut. *)
Within(n) == (args.min # 0 => n >= args.min) /\ (args.max # 0 => n <= args.max)
Before(m, n) == IF args.sort = "desc" THEN m >= n ELSE m <= n
Sorted(S, count) ==
    {s \in SetToSeqs(S) : \A i \in 1..(Len(s) - 1) : Before(count[s[i]], count[s[i + 1]])}
Cut(s) == IF args.limit >= 0 /\ args.limit < Len(s) THEN SubSeq(s, 1, args.limit) ELSE s

(* Mutant: the result is cut before it is filtered.                        *)
CutFirst(count) ==
    {SelectSeq(Cut(s), LAMBDA i : Within(count[i])) : s \in Sorted(DOMAIN count, count)}
Selections(count) ==
    {Cut(s) : s \in Sorted({i \in DOMAIN count : Within(count[i])}, count)}
----------------------------------------------------------------------------
(* The local variables of a call.                                          *)
NoResults == sets_count' = <<>> /\ data' = <<>> /\ found' = <<>> /\ related' = <<>>

Call(a) ==
    /\ at = "idle"
    /\ drivers < MaxDrivers
    /\ at' = "driver"
    /\ args' = a
    /\ NoResults
    /\ outcome' = "none" /\ answer' = NoAnswer
    /\ aux_before' = drivers
    /\ UNCHANGED <<skb, session, drivers>>

(* TypeDBHandler.__init__: the driver; TypeDB.core_driver raises.          *)
OpenDriver ==
    /\ at = "driver"
    /\ drivers' = drivers + 1
    /\ at' = "session"
    /\ UNCHANGED <<skb, args, session, results, outcome, answer, aux_before>>

OpenDriverRaises ==
    /\ at = "driver"
    /\ outcome' = "SatrapError"
    /\ at' = "idle"
    /\ UNCHANGED <<skb, args, session, drivers, results, answer, aux_before>>

First ==
    CASE args.call = "usage" -> "counts"
      [] args.call = "related" -> IF args.id = NoName THEN "mitigations" ELSE "name"
      [] args.call \in Searching -> "search"
      [] OTHER -> "single"

OpenSession ==
    /\ at = "session"
    /\ exists
    /\ session' = {gen}
    /\ at' = First
    /\ UNCHANGED <<skb, args, drivers, results, outcome, answer, aux_before>>

(* driver.session raises, as there is no such database or no connection,   *)
(* outside the try: nobody closes the driver, as __exit__ is not called    *)
(* for an __enter__ that raised.                                           *)
OpenSessionRaises ==
    /\ at = "session"
    /\ outcome' = "TypeDBDriverException"
    /\ at' = "idle"
    /\ UNCHANGED <<skb, args, session, drivers, results, answer, aux_before>>

(* The body of the call ends, with a result or with an exception, and      *)
(* CTIEngine.__exit__ begins.                                              *)
(* Mutant: after an exception nothing is closed.                           *)
ExitOnReturn(o) ==
    /\ outcome' = o
    /\ IF o = "returned" THEN at' = "close" /\ UNCHANGED session
       ELSE at' = "idle" /\ session' = {}
    /\ UNCHANGED drivers
Exit(o) ==
    /\ outcome' = o
    /\ at' = "close"
    /\ UNCHANGED <<session, drivers>>

(* TypeDBHandler.close: session.close(), then driver.close().  If one of   *)
(* them raises, its exception takes the place of the result or of the      *)
(* exception there was; after the first, the driver is not closed at all.  *)
(* Mutant: only the driver is closed.                                      *)
SessionKept ==
    /\ at = "close"
    /\ at' = "closed"
    /\ UNCHANGED <<skb, args, session, drivers, results, outcome, answer, aux_before>>
CloseSession ==
    /\ at = "close"
    /\ session' = {}
    /\ at' = "closed"
    /\ UNCHANGED <<skb, args, drivers, results, outcome, answer, aux_before>>

CloseSessionRaises ==
    /\ at = "close"
    /\ session' = {}
    /\ outcome' = "TypeDBDriverException" /\ answer' = NoAnswer
    /\ at' = "idle"
    /\ NoResults
    /\ UNCHANGED <<skb, args, drivers, aux_before>>

CloseDriver ==
    /\ at = "closed"
    /\ drivers' = drivers - 1
    /\ at' = "idle"
    /\ NoResults
    /\ UNCHANGED <<skb, args, session, outcome, answer, aux_before>>

CloseDriverRaises ==
    /\ at = "closed"
    /\ drivers' \in {drivers - 1, drivers}
    /\ outcome' = "TypeDBDriverException" /\ answer' = NoAnswer
    /\ at' = "idle"
    /\ NoResults
    /\ UNCHANGED <<skb, args, session, aux_before>>

ReturnRows(r) == Exit("returned") /\ answer' = [answer EXCEPT !.rows = r]
ReturnSet(S) == Exit("returned") /\ answer' = [answer EXCEPT !.set = S]
Throw(e) == Exit(e) /\ UNCHANGED answer
Continue(q) == at' = q /\ UNCHANGED <<session, drivers, outcome, answer>>

(* A transaction can be opened: the database is the one of the session.    *)
(* Mutant: every query opens a session on the database there is.           *)
AnyDatabase == exists
SessionOpen == exists /\ gen \in session
Ask(q) == at = q /\ SessionOpen
Same == UNCHANGED <<skb, args, aux_before>>

(* get_mitig_rel_tech: the names of the group, NoName if it is given none. *)
GroupNames == IF args.id = NoName THEN {args.name} ELSE {NameOf[o] : o \in ToSet(found)}
NoGroup == at = "mitigations" /\ GroupNames = {NoName}

(* The session is closed under the call, or the server does not answer.    *)
QueryRaises ==
    /\ at \in Queries
    /\ ~NoGroup
    /\ Throw("TypeDBDriverException")
    /\ UNCHANGED results
    /\ Same

AskCounts ==
    /\ Ask("counts")
    /\ sets_count' = Counts
    /\ data' \in Selections(Counts)
    /\ IF Counts = <<>> THEN ReturnRows(<<>>) ELSE Continue("names")
    /\ UNCHANGED <<found, related>>
    /\ Same

(* get_names_of_mitre_ids; dict_from_answers keeps one of the names of an  *)
(* id, and get gives None for an id without a name.                        *)
NameChoices(S) ==
    {n \in [S -> UNION {NamesOf(i) : i \in S} \cup {NoName}] :
        \A i \in S : IF NamesOf(i) = {} THEN n[i] = NoName ELSE n[i] \in NamesOf(i)}

AskNames ==
    /\ Ask("names")
    /\ data # <<>>
    /\ \E n \in NameChoices(ToSet(data)) :
            ReturnRows([k \in 1..Len(data) |-> <<data[k], n[data[k]], sets_count[data[k]]>>])
    /\ UNCHANGED results
    /\ Same

(* Without an id the pattern of the query is empty: TypeQL rejects it.     *)
(* Mutant: the query is tried again.                                       *)
AskNamesAgain ==
    /\ Ask("names")
    /\ data = <<>>
    /\ Continue("names")
    /\ UNCHANGED results
    /\ Same
AskNamesRaises ==
    /\ Ask("names")
    /\ data = <<>>
    /\ Throw("TypeDBDriverException")
    /\ UNCHANGED results
    /\ Same

(* get_mitig_rel_tech: the name of the group, if any, stands for its id.   *)
AskName ==
    /\ Ask("name")
    /\ \/ \E o \in WithId(args.id) \cap Named : found' = <<o>>
       \/ WithId(args.id) \cap Named = {} /\ found' = <<>>
    /\ Continue("mitigations")
    /\ UNCHANGED <<sets_count, data, related>>
    /\ Same

AskMitigations ==
    /\ Ask("mitigations")
    /\ ~NoGroup
    /\ ReturnSet({r[1] : r \in {q \in RelatedTo(rels) :
                    {q[1], q[2]} \subseteq Named /\ NameOf[q[2]] \in GroupNames}})
    /\ UNCHANGED results
    /\ Same

(* Neither an id nor a name is given: the ValueError is printed.           *)
NoGroupGiven ==
    /\ NoGroup
    /\ Exit("returned")
    /\ UNCHANGED <<answer, results>>
    /\ Same

(* search_by_attck_id: objects of the types the format stands for;         *)
(* search_by_stix_id.                                                      *)
Known == IF args.call = "object" THEN {args.object} \cap objs
         ELSE {o \in WithId(args.id) : Class[o] \in TypesOf[args.id]}
Search ==
    /\ Ask("search")
    /\ Known # {}
    /\ found' \in SetToSeqs(Known)
    /\ Continue("attributes")
    /\ UNCHANGED <<sets_count, data, related>>
    /\ Same

SearchRaises ==
    /\ Ask("search")
    /\ Known = {}
    /\ Throw("ValueError")
    /\ UNCHANGED results
    /\ Same

(* _get_common_properties_of, of every object found: get_attributes_of,    *)
(* get_creator, get_external_references_src.                               *)
stix_obj == found[Len(related) + 1]
CreatorsOf(o) == {NameOf[p[2]] : p \in {q \in Pairs(rels, "created-by-ref") :
                    q[1] = o /\ q[2] \in Of("identity") \cap Named}}

AskAttributes ==
    /\ Ask("attributes")
    /\ Continue("creator")
    /\ UNCHANGED results
    /\ Same

AskCreator ==
    /\ Ask("creator")
    /\ \/ \E n \in CreatorsOf(stix_obj) : related' = Append(related, <<stix_obj, n>>)
       \/ CreatorsOf(stix_obj) = {} /\ related' = Append(related, <<stix_obj, NoName>>)
    /\ Continue("sources")
    /\ UNCHANGED <<sets_count, data, found>>
    /\ Same

AskSources ==
    /\ Ask("sources")
    /\ IF Len(related) < Len(found) THEN Continue("attributes")
       ELSE IF args.call \in {"info", "object"} THEN ReturnRows(related)
       ELSE Continue("explain")
    /\ UNCHANGED results
    /\ Same

(* The first object found is the one explained, whatever the others are:   *)
(* explain_group_rel_mitig(its stix-id, mitigation_stix_id),               *)
(* explain_mitig_rel_tech(group_name, its stix-id).                        *)
Explained(r) ==
    IF args.call = "explain" THEN r = <<args.mitigation, found[1]>>
    ELSE /\ r[2] \in Of("intrusion-set") /\ NameOf[r[2]] = args.name
         /\ found[1] \in Named /\ <<r[1], found[1]>> \in Pairs(rels, "mitigates")
Explain ==
    /\ Ask("explain")
    /\ ReturnSet({r \in RelatedTo(rels) : {r[1], r[2]} \subseteq Named /\ Explained(r)})
    /\ UNCHANGED results
    /\ Same

(* The calls with one query.                                               *)
UsedBy(uses) == {u \in uses :
    /\ u[1] \in (WithId(args.id) \cap Of("intrusion-set")) \ Revoked
    /\ u[2] \in Of("attack-pattern") \cap Named}
Current(class) == (objs \cap Of(class)) \ Revoked
(* get_all_techniques, get_all_mitigations: the ids of the class.          *)
AllIds(class) == {i \in AttckId : class \in TypesOf[i] /\ WithId(i) \cap Current(class) \cap Named # {}}
SingleAnswer ==
    CASE args.call = "used" -> UsedBy(Uses)
      [] args.call = "why" -> UsedBy(DerivedUses(rels))
      [] args.call = "against" ->
            {m \in Pairs(rels, "mitigates") : m[2] = args.object /\ {m[1], m[2]} \subseteq Named}
      [] args.call = "all" -> AllIds(Class[args.object])
      [] args.call = "stats" ->
            {<<Class[o], Cardinality(Current(Class[o]))>> : o \in objs \ Revoked}
AskSingle ==
    /\ Ask("single")
    /\ ReturnSet(SingleAnswer)
    /\ UNCHANGED results
    /\ Same
----------------------------------------------------------------------------
(* Other processes: a batch of objects is committed; a batch of relations, *)
(* those between objects that are stored; setup -d deletes and creates the *)
(* database.                                                               *)
Others == UNCHANGED <<at, args, session, drivers, results, outcome, answer, aux_before>>

LoadObjects ==
    /\ exists
    /\ \E b \in Batches : objs' = objs \cup b
    /\ UNCHANGED <<exists, gen, rels>>
    /\ Others

LoadRelations ==
    /\ exists
    /\ \E b \in Relations :
            rels' = rels \cup {r \in b : {r.source, r.target} \subseteq objs}
    /\ UNCHANGED <<exists, gen, objs>>
    /\ Others

Delete ==
    /\ exists
    /\ exists' = FALSE
    /\ objs' = {} /\ rels' = {}
    /\ UNCHANGED gen
    /\ Others

Create ==
    /\ ~exists
    /\ gen < MaxGen
    /\ exists' = TRUE
    /\ gen' = gen + 1
    /\ UNCHANGED <<objs, rels>>
    /\ Others
----------------------------------------------------------------------------
AnalysisInit ==
    /\ exists = TRUE /\ gen = 0 /\ objs = {} /\ rels = {}
    /\ at = "idle"
    /\ args \in Arguments
    /\ session = {} /\ drivers = 0 /\ aux_before = 0
    /\ sets_count = <<>> /\ data = <<>> /\ found = <<>> /\ related = <<>>
    /\ outcome = "none" /\ answer = NoAnswer

AnalysisStep ==
    \/ OpenDriver
    \/ OpenSession
    \/ OpenSessionRaises /\ ~exists
    \/ AskCounts
    \/ AskNames
    \/ AskNamesRaises
    \/ AskName
    \/ AskMitigations
    \/ NoGroupGiven
    \/ Search
    \/ SearchRaises
    \/ AskAttributes
    \/ AskCreator
    \/ AskSources
    \/ Explain
    \/ AskSingle
    \/ QueryRaises /\ ~SessionOpen
    \/ CloseSession
    \/ CloseDriver

AnalysisNext ==
    \/ \E a \in Arguments : Call(a)
    \/ AnalysisStep
    \/ OpenDriverRaises
    \/ OpenSessionRaises
    \/ QueryRaises
    \/ CloseSessionRaises
    \/ CloseDriverRaises
    \/ LoadObjects
    \/ LoadRelations
    \/ Delete
    \/ Create

AnalysisSpec ==
    AnalysisInit /\ [][AnalysisNext]_analysisVars /\ WF_analysisVars(AnalysisStep)
----------------------------------------------------------------------------
(* The rules derive that x uses z exactly if a chain says so.  An object   *)
(* without a name may break a chain, as the rules ask for names.           *)
Distinct(pairs) == {p \in pairs : p[1] # p[2]}
InferredUsesAreChains ==
    /\ InferredUses(rels) \subseteq Chains(rels, Object)
    /\ Distinct(Chains(rels, Named)) \subseteq InferredUses(rels)

(* What techniques_usage selects and returns is sorted and within the      *)
(* bounds, and a technique within the bounds is missing only if the limit  *)
(* is reached and no technique that was selected comes after it.           *)
RowsSelected ==
    args.call = "usage" /\ (at = "names" \/ (at = "close" /\ outcome = "returned")) =>
        /\ \A k \in 1..Len(data) : Within(sets_count[data[k]])
        /\ \A j, k \in 1..Len(data) : j < k => Before(sets_count[data[j]], sets_count[data[k]])
        /\ \A i \in DOMAIN sets_count \ ToSet(data) : Within(sets_count[i]) =>
                /\ Len(data) = args.limit
                /\ \A k \in 1..Len(data) : Before(sets_count[data[k]], sets_count[i])
        /\ outcome = "returned" => data = [k \in 1..Len(answer.rows) |-> answer.rows[k][1]]

(* An answer that is composed of the answers of several queries is true of *)
(* the database at the time of the last of them, when the call has what it *)
(* is to return, though the database changes between the queries.  A       *)
(* technique has the name of an object with its id, and objects with its   *)
(* id are used by groups, by themselves or by a chain, at least as often   *)
(* as its count says; the mitigations of a group are those of what a group *)
(* of that name uses, and an explanation is given for such a mitigation    *)
(* only; an object is stored, and its creator is one of those it has.      *)
UsesOf(i) == {c \in Chains(rels, Object) : c[1] \in Of("intrusion-set") /\ c[2] \in WithId(i)}
Mitigated(c, g) == \E d \in objs :
    <<c, d>> \in Pairs(rels, "mitigates") /\ <<g, d>> \in Chains(rels, Object)
TrueNow ==
    CASE args.call = "usage" ->
            \A k \in 1..Len(answer.rows) :
                /\ answer.rows[k][2] \in NamesOf(answer.rows[k][1])
                /\ answer.rows[k][3] <= Cardinality(UsesOf(answer.rows[k][1]))
      [] args.call = "related" ->
            \A c \in answer.set : \E g \in Of("intrusion-set") :
                /\ Mitigated(c, g)
                /\ NameOf[g] \in IF args.id = NoName THEN {args.name} ELSE NamesOf(args.id)
      [] args.call = "explain" ->
            \A r \in answer.set : r[2] \in WithId(args.id) /\ Mitigated(r[1], r[2])
      [] args.call = "via" ->
            \A r \in answer.set :
                /\ Mitigated(r[1], r[2]) /\ NameOf[r[2]] = args.name
                /\ \E d \in WithId(args.id) : <<r[1], d>> \in Pairs(rels, "mitigates")
      [] args.call \in {"info", "object"} ->
            \A k \in 1..Len(answer.rows) :
                /\ answer.rows[k][1] \in objs
                /\ answer.rows[k][2] \in CreatorsOf(answer.rows[k][1]) \cup {NoName}
      [] args.call \in {"used", "why"} -> answer.set \subseteq Chains(rels, Object)
      [] OTHER -> TRUE
AnswersTrueOnReturn ==
    [][outcome = "none" /\ outcome' = "returned" => TrueNow']_analysisVars

(* A call leaves no driver open when it returns, when it finds nothing,    *)
(* and when it cannot connect: only a call that ends with an exception of  *)
(* the driver may, in __enter__ or in the middle of __exit__, and then     *)
(* only its own.                                                           *)
DriversAccounted ==
    at = "idle" => drivers - aux_before \in
        IF outcome = "TypeDBDriverException" THEN {0, 1} ELSE {0}

(* Every call ends, by returning or by an exception.                       *)
CallEnds == at # "idle" ~> at = "idle"
=============================================================================
