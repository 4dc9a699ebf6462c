----------------------------- MODULE Transform -----------------------------
(***************************************************************************)
(* ETLOrchestrator.transform: the objects of a STIX file are read, adapted *)
(* (STIXExtractor) and converted one after the other (STIXObjectConverter, *)
(* ValueConverter) into a QueryBundle, whose parts are appended to the     *)
(* three lists of insert queries that load is given.                       *)
(*                                                                         *)
(* What differs between the places where something can go wrong is how     *)
(* much is lost: a value, a property, an object, or the whole file.        *)
(***************************************************************************)
EXTENDS Naturals, Sequences

CONSTANTS
    Object,     \* the objects a STIX file can hold
    Id,         \* STIX identifiers
    Known,      \* the identifiers whose STIX type has a TypeDB type
    Invalid,    \* a value that its ValueConverter rejects
    Fatal,      \* a value for which it raises TypeError
    Content,    \* Content[o]: what the transformation depends on of object o
    Files       \* the files: sequences of objects

(* A property with the conversion its mapping prescribes, and its values:  *)
(* one, or those of a list.  The values of a reference or a role are ids.  *)
(* "ignored": custom, not in the mapping, or mapped to an empty value.     *)
Kind == {"attribute", "structured", "reference", "role", "ignored"}
Property == [kind : Kind, elems : Seq(Id \cup {Invalid, Fatal})]
Extension == [defined : BOOLEAN, props : Seq(Property)]

STIXObject == [
    id : Id,
    read : {"ok", "badTimestamp", "badMarking"},  \* adapt_*_object
    class : {"none", "custom", "SDO", "SCO", "SMO", "SRO"},
    typed : BOOLEAN,            \* its subtype, if it has any, is in the mapping
    props : Seq(Property),
    inline : Seq(Property),     \* x509_v3_extensions or definition
    extensions : Seq(Extension)]

ASSUME TransformAssumption ==
    /\ Known \subseteq Id
    /\ {Invalid, Fatal} \cap Id = {}
    /\ Content \in [Object -> STIXObject]
    /\ Files \subseteq Seq(Object)
    /\ \A f \in Files : \A i, j \in 1..Len(f) : f[i] = f[j] => i = j

VARIABLES
    file,       \* the objects of the file
    next,       \* the object being converted
    stage,      \* what happens to it next
    prop,       \* the next property to convert
    bundle,     \* its QueryBundle, and the attributes of its main object
    lists       \* entity, SRO and embedded relation queries

transformVars == <<file, next, stage, prop, bundle, lists>>

Position == {"props", "ext"} \X (Nat \ {0})
Part == {"entity", "relation", "embedded"}
InsertQuery == [obj : Object, part : Part, holds : SUBSET Position, needs : SUBSET Id]
Bundle == [marking : {"", "entity", "relation"},    \* main_object_type
           has : SUBSET Position,                   \* attributes of the main object
           match : SUBSET Id,                       \* its match clause
           attributes : SUBSET Position,            \* structured attributes
           links : SUBSET (Position \X Id)]         \* embedded relations
EmptyBundle == [marking |-> "", has |-> {}, match |-> {}, attributes |-> {}, links |-> {}]

TransformTypeOK ==
    /\ file \in Files
    /\ next \in 1..(Len(file) + 1)
    /\ stage \in {"read", "create", "main", "props", "ext", "order", "done", "raised"}
    /\ prop \in Nat \ {0}
    /\ bundle \in Bundle
    /\ lists \in [1..3 -> Seq(InsertQuery)]
----------------------------------------------------------------------------
Current == file[next]
stix == Content[Current]
Elements(p) == {p.elems[i] : i \in 1..Len(p.elems)}

(* The certificate's extensions and the marking's definition replace the   *)
(* "extensions" of the object.                                             *)
Extensions(o) ==
    IF Content[o].inline # <<>>
    THEN <<[defined |-> TRUE, props |-> Content[o].inline]>>
    ELSE Content[o].extensions
DefinedIn(extensions) == {i \in 1..Len(extensions) : extensions[i].defined}
Predefined(o) == DefinedIn(Extensions(o))

Lowest(S) == CHOOSE i \in S : \A j \in S : i <= j
FirstPredefined(o) == Lowest(Predefined(o))

(* get_relevant_extension *)
RelevantProps(o) == IF Predefined(o) = {} THEN <<>> ELSE Extensions(o)[FirstPredefined(o)].props

(* determine_typedb_name *)
TypeFound(o) == Content[o].typed /\ \A i, j \in Predefined(o) : i = j

Roles(o) == {i \in 1..Len(Content[o].props) : Content[o].props[i].kind = "role"}
RolePlayers(o) == UNION {Elements(Content[o].props[i]) : i \in Roles(o)}
RolesFound(o) == /\ RolePlayers(o) \subseteq Known
                 /\ \A i \in Roles(o) : Content[o].props[i].elems # <<>>

(* The conversion of a property raises: one bad element is enough, and the *)
(* first decides on the exception.                                         *)
Bad(p, i) ==
    \/ p.kind \in {"attribute", "structured"} /\ p.elems[i] \in {Invalid, Fatal}
    \/ p.kind = "reference" /\ p.elems[i] \notin Known
Fails(p) == \E i \in 1..Len(p.elems) : Bad(p, i)
Aborts(p) == \E i \in 1..Len(p.elems) :
    Bad(p, i) /\ p.elems[i] = Fatal /\ \A j \in 1..(i - 1) : ~Bad(p, j)

(* What a converted property adds to the bundle.                           *)
Extend(b, pos, p) ==
    CASE p.kind = "attribute" /\ p.elems # <<>> -> [b EXCEPT !.has = @ \cup {pos}]
      [] p.kind = "structured" /\ p.elems # <<>> -> [b EXCEPT !.attributes = @ \cup {pos}]
      [] p.kind = "reference" -> [b EXCEPT !.links = @ \cup ({pos} \X Elements(p))]
      [] OTHER -> b

(* transformer.transform returns None: the object is skipped.              *)
(* Mutants: one QueryBundle serves all objects; the next object is skipped *)
(* too.                                                                    *)
SkipKeepsBundle ==
    /\ next' = next + 1
    /\ stage' = "read"
    /\ prop' = 1
    /\ UNCHANGED <<file, lists, bundle>>
SkipsTwo ==
    /\ next' = next + 2
    /\ stage' = "read"
    /\ prop' = 1
    /\ bundle' = EmptyBundle
    /\ UNCHANGED <<file, lists>>
Skip ==
    /\ next' = next + 1
    /\ stage' = "read"
    /\ prop' = 1
    /\ bundle' = EmptyBundle
    /\ UNCHANGED <<file, lists>>

Enter(s) == stage' = s /\ prop' = 1
----------------------------------------------------------------------------
(* The generator of fetch yields the next object, adapted.                 *)
Read ==
    /\ stage = "read"
    /\ next <= Len(file)
    /\ stix.read = "ok"
    /\ Enter("create")
    /\ UNCHANGED <<file, next, bundle, lists>>

(* It raises: ValueError, or STIXParsingError.  Nothing is loaded.         *)
ReadRaises ==
    /\ stage = "read"
    /\ next <= Len(file)
    /\ stix.read # "ok"
    /\ Enter("raised")
    /\ UNCHANGED <<file, next, bundle, lists>>

Finish ==
    /\ stage = "read"
    /\ next > Len(file)
    /\ Enter("done")
    /\ UNCHANGED <<file, next, bundle, lists>>

(* A custom object gets an empty bundle. *)
Create ==
    /\ stage = "create"
    /\ stix.class # "none"
    /\ Enter(IF stix.class = "custom" THEN "order" ELSE "main")
    /\ UNCHANGED <<file, next, bundle, lists>>

CreateRaises == stage = "create" /\ stix.class = "none" /\ Skip

AddMainEntity ==
    /\ stage = "main"
    /\ TypeFound(Current)
    /\ stix.class # "SRO"
    /\ bundle' = [bundle EXCEPT !.marking = "entity"]
    /\ Enter("props")
    /\ UNCHANGED <<file, next, lists>>

AddMainRelation ==
    /\ stage = "main"
    /\ TypeFound(Current)
    /\ stix.class = "SRO"
    /\ RolesFound(Current)
    /\ bundle' = [bundle EXCEPT !.marking = "relation", !.match = RolePlayers(Current)]
    /\ Enter("props")
    /\ UNCHANGED <<file, next, lists>>

(* Mutant: the exception is not caught by transformer.transform.           *)
AddMainEscapes ==
    /\ stage = "main"
    /\ TypeFound(Current) => stix.class = "SRO" /\ ~RolesFound(Current)
    /\ Enter("raised")
    /\ UNCHANGED <<file, next, bundle, lists>>
AddMainRaises ==
    /\ stage = "main"
    /\ TypeFound(Current) => stix.class = "SRO" /\ ~RolesFound(Current)
    /\ Skip

(* A property whose conversion raises is logged and left out.              *)
ConvertProperty ==
    /\ stage = "props"
    /\ prop <= Len(stix.props)
    /\ ~Aborts(stix.props[prop])
    /\ bundle' = IF Fails(stix.props[prop]) THEN bundle
                 ELSE Extend(bundle, <<"props", prop>>, stix.props[prop])
    /\ prop' = prop + 1
    /\ UNCHANGED <<file, next, stage, lists>>

(* TypeError is neither a ValueError nor a MappingException: it leaves     *)
(* create_typeql_property.                                                 *)
ConvertPropertyRaises ==
    /\ stage = "props"
    /\ prop <= Len(stix.props)
    /\ Aborts(stix.props[prop])
    /\ Skip

PropertiesDone ==
    /\ stage = "props"
    /\ prop > Len(stix.props)
    /\ Enter("ext")
    /\ UNCHANGED <<file, next, bundle, lists>>

(* In an extension the exception is not caught, or its handler raises a    *)
(* KeyError: the message CONVERSION_FAILED has fields it does not supply.  *)
ConvertExtensionProperty ==
    /\ stage = "ext"
    /\ prop <= Len(RelevantProps(Current))
    /\ ~Fails(RelevantProps(Current)[prop])
    /\ bundle' = Extend(bundle, <<"ext", prop>>, RelevantProps(Current)[prop])
    /\ prop' = prop + 1
    /\ UNCHANGED <<file, next, stage, lists>>

ConvertExtensionPropertyRaises ==
    /\ stage = "ext"
    /\ prop <= Len(RelevantProps(Current))
    /\ Fails(RelevantProps(Current)[prop])
    /\ Skip

ExtensionDone ==
    /\ stage = "ext"
    /\ prop > Len(RelevantProps(Current))
    /\ Enter("order")
    /\ UNCHANGED <<file, next, bundle, lists>>

(* QueryBundle.order_bundle: one query inserts the main object and its     *)
(* structured attributes; one matches on all the ends of the embedded      *)
(* relations and inserts them all.                                         *)
MainQuery(part) ==
    [obj |-> Current, part |-> part,
     holds |-> bundle.has \cup bundle.attributes, needs |-> bundle.match]
(* Mutant: the query of the embedded relations matches on the targets only. *)
TargetsOnly ==
    [obj |-> Current, part |-> "embedded",
     holds |-> {k[1] : k \in bundle.links}, needs |-> {k[2] : k \in bundle.links}]
EmbeddedQuery ==
    [obj |-> Current, part |-> "embedded",
     holds |-> {k[1] : k \in bundle.links},
     needs |-> {stix.id} \cup {k[2] : k \in bundle.links}]

AppendIf(b, s, q) == IF b THEN Append(s, q) ELSE s

Order ==
    /\ stage = "order"
    /\ lists' = <<AppendIf(bundle.marking = "entity", lists[1], MainQuery("entity")),
                  AppendIf(bundle.marking = "relation", lists[2], MainQuery("relation")),
                  AppendIf(bundle.links # {}, lists[3], EmbeddedQuery)>>
    /\ next' = next + 1
    /\ Enter("read")
    /\ bundle' = EmptyBundle
    /\ UNCHANGED file
----------------------------------------------------------------------------
TransformInit ==
    /\ file \in Files
    /\ next = 1
    /\ stage = "read"
    /\ prop = 1
    /\ bundle = EmptyBundle
    /\ lists = <<<<>>, <<>>, <<>>>>

TransformNext ==
    \/ Read
    \/ ReadRaises
    \/ Finish
    \/ Create
    \/ CreateRaises
    \/ AddMainEntity
    \/ AddMainRelation
    \/ AddMainRaises
    \/ ConvertProperty
    \/ ConvertPropertyRaises
    \/ PropertiesDone
    \/ ConvertExtensionProperty
    \/ ConvertExtensionPropertyRaises
    \/ ExtensionDone
    \/ Order

TransformSteps == TransformInit /\ [][TransformNext]_transformVars
TransformProgress == WF_transformVars(TransformNext)
TransformSpec == TransformSteps /\ TransformProgress
----------------------------------------------------------------------------
(* What should come out, object by object and without any bundle.          *)
Sections(o) == [props |-> Content[o].props, ext |-> RelevantProps(o)]
Converts(p, k) == p.kind = k /\ p.elems # <<>> /\ ~Fails(p)
Good(o, k) == UNION {
    {s} \X {i \in DOMAIN Sections(o)[s] : Converts(Sections(o)[s][i], k)} : s \in {"props", "ext"}}

(* An object is lost if the transformation cannot tell its type or the     *)
(* type of an object it relates, if it has an extension that fails, or if  *)
(* a conversion raises TypeError.                                          *)
Survives(o) ==
    /\ Content[o].class \notin {"none", "custom"}
    /\ TypeFound(o)
    /\ Content[o].class = "SRO" => RolesFound(o)
    /\ \A i \in 1..Len(Content[o].props) : ~Aborts(Content[o].props[i])
    /\ \A i \in 1..Len(RelevantProps(o)) : ~Fails(RelevantProps(o)[i])

References(o) == Good(o, "reference")
Targets(o) == UNION {Elements(Sections(o)[r[1]][r[2]]) : r \in References(o)}

EntityOf == [o \in Object |->
    [obj |-> o, part |-> "entity",
     holds |-> Good(o, "attribute") \cup Good(o, "structured"), needs |-> {}]]
RelationOf == [o \in Object |->
    [obj |-> o, part |-> "relation",
     holds |-> Good(o, "attribute") \cup Good(o, "structured"), needs |-> RolePlayers(o)]]
EmbeddedOf == [o \in Object |->
    [obj |-> o, part |-> "embedded",
     holds |-> References(o), needs |-> {Content[o].id} \cup Targets(o)]]

Entities == {o \in Object : Survives(o) /\ Content[o].class # "SRO"}
Relations == {o \in Object : Survives(o) /\ Content[o].class = "SRO"}
Referrers == {o \in Object : Survives(o) /\ References(o) # {}}

QueriesOf(f, kinds, made) ==
    LET first[n \in 0..Len(f)] ==
            IF n = 0 THEN <<>>
            ELSE IF f[n] \in kinds THEN Append(first[n - 1], made[f[n]])
            ELSE first[n - 1]
    IN  first[Len(f)]
Translation(f) == <<QueriesOf(f, Entities, EntityOf),
                    QueriesOf(f, Relations, RelationOf),
                    QueriesOf(f, Referrers, EmbeddedOf)>>

(* At any time the lists hold, in the order of the file, exactly what the  *)
(* objects converted so far should give: a value that its converter        *)
(* rejects costs its property, never another property or another object,   *)
(* and what an object that failed half-way had collected leaks into no     *)
(* query.                                                                  *)
TranslatedSoFar == lists = Translation(SubSeq(file, 1, next - 1))

(* The lists can be loaded: no two queries are the same, and whatever      *)
(* matches on an object comes after the query that inserts the object.     *)
Listed(p) == {lists[p][i] : i \in 1..Len(lists[p])}
MainBeforeEmbedded ==
    /\ \A p, r \in 1..3 : \A i \in 1..Len(lists[p]), j \in 1..Len(lists[r]) :
            lists[p][i] = lists[r][j] => p = r /\ i = j
    /\ \A q \in Listed(3) :
            /\ Content[q.obj].id \in q.needs
            /\ \E m \in Listed(1) \cup Listed(2) : m.obj = q.obj

(* Every file is either converted to the end or given up because of an     *)
(* object that the extractor cannot adapt; no other object stops it.       *)
EndsOrRaises ==
    <>(IF \A i \in 1..Len(file) : Content[file[i]].read = "ok"
       THEN stage = "done" ELSE stage = "raised")

(* SWD-005: step 3, the properties of the extension, "works similar to the *)
(* property conversion (2)": a property that cannot be converted is left   *)
(* out, and the object is kept.                                            *)
ExtensionLikeProperties ==
    stage = "done" =>
        \A i \in 1..Len(file) : LET o == file[i] IN
            /\ Content[o].class \in {"SDO", "SCO", "SMO"}
            /\ TypeFound(o)
            => \E q \in Listed(1) : q.obj = o
=============================================================================
