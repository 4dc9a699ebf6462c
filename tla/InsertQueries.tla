--------------------------- MODULE InsertQueries ---------------------------
(***************************************************************************)
(* What Transform leaves out of the queries it makes: the things (entities *)
(* and relations) in their match and insert clauses, the variables of      *)
(* VariableDealer that connect them, the nested loops of ValueConverter    *)
(* that produce them, and the text that TypeDBLoader.load has built of     *)
(* them.  The loops are the positions elem (in a property) and leaf (in a  *)
(* composite value); what a property has produced is kept apart in local   *)
(* until its conversion has returned.                                      *)
(***************************************************************************)
EXTENDS Naturals, Sequences, FiniteSets

CONSTANTS
    Object, Id, Known, Files,   \* as in Transform
    Invalid, Fatal,             \* as in Transform
    Content     \* Content[o]: what its queries depend on of object o

(* A value of a primitive converter is "ok" or "invalid".  A composite     *)
(* value is a sequence of values and key-value pairs (the hashes of an     *)
(* external reference).  A dictionary is a sequence of items: single       *)
(* values or lists, given by the kind of their JSON values.                *)
Primitive == {"ok", "invalid"}
Leaf == [kind : {"value", "pair"}, value : Primitive]
JSON == {"int", "bool", "float", "digits", "text", "timestamp", "null"}
Item == [list : {TRUE}, values : Seq(JSON)] \cup [list : {FALSE}, values : [1..1 -> JSON]]

Property ==
    [kind : {"attribute", "pairs"}, elems : Seq(Primitive)]
    \cup [kind : {"composite"}, elems : Seq(Seq(Leaf))]
    \cup [kind : {"dictionary"}, elems : Seq(Item)]
    \cup [kind : {"reference", "role"}, elems : Seq(Id)]
    \cup [kind : {"ignored"}, elems : {<<>>}]
Extension == [defined : BOOLEAN, props : Seq(Property)]

STIXObject == [
    id : Id,
    read : {"ok", "badTimestamp", "badMarking"},
    class : {"none", "custom", "SDO", "SCO", "SMO", "SRO"},
    typed : BOOLEAN,
    props : Seq(Property),
    inline : Seq(Property),
    extensions : Seq(Extension)]
----------------------------------------------------------------------------
(* get_default_value_implementation: the type of a list is that of its     *)
(* first element; booleans are integers to Python.                         *)
(* Mutant: a numeral is taken for a number.                                *)
NumeralsAreLong(v) ==
    CASE v \in {"int", "bool", "digits"} -> "long"
      [] v = "text" -> "string"
      [] v = "timestamp" -> "datetime"
      [] v = "float" -> "double"
      [] OTHER -> ""
DefaultType(v) ==
    CASE v \in {"int", "bool"} -> "long"
      [] v \in {"digits", "text"} -> "string"
      [] v = "timestamp" -> "datetime"
      [] v = "float" -> "double"
      [] OTHER -> ""
ItemType(item) == IF item.values = <<>> THEN "string" ELSE DefaultType(item.values[1])

(* What a converter makes of a JSON value: the kind it is stored as, or    *)
(* ValueError, or TypeError.                                               *)
Numeral == {"int", "bool", "float", "digits"}
Text == {"digits", "text", "timestamp"}
Parsed(type, v) ==
    CASE type = "long" /\ v \in Numeral -> "int"
      [] type = "double" /\ v \in Numeral -> "float"
      [] type = "string" /\ v \in Text -> v
      [] type = "datetime" /\ v = "timestamp" -> v
      [] type \in {"long", "double"} /\ v = "null" -> "fatal"
      [] type = "datetime" /\ v \notin Text -> "fatal"
      [] OTHER -> "invalid"

(* The item is stored if its values are, as items of this type, of which   *)
(* dictionary.json has two.                                                *)
BadValues(item) == {i \in 1..Len(item.values) :
    Parsed(ItemType(item), item.values[i]) \in {"invalid", "fatal"}}
ItemOutcome(item) ==
    IF \E i \in BadValues(item) : /\ \A j \in BadValues(item) : i <= j
                                  /\ Parsed(ItemType(item), item.values[i]) = "fatal"
    THEN "fatal"
    ELSE IF BadValues(item) = {} /\ ItemType(item) \in {"long", "string"} THEN "ok" ELSE "invalid"

(* What becomes of one element of a property.                              *)
Outcome(kind, e) ==
    CASE kind = "composite" -> IF \E i \in 1..Len(e) : e[i].value = "invalid" THEN "invalid" ELSE "ok"
      [] kind = "dictionary" -> ItemOutcome(e)
      [] kind = "reference" -> IF e \in Known THEN "ok" ELSE "invalid"
      [] kind = "role" -> "ok"
      [] OTHER -> e
----------------------------------------------------------------------------
(* The object as Transform sees it.                                        *)
AbstractElement(kind, e) ==
    IF kind \in {"reference", "role"} THEN e
    ELSE CASE Outcome(kind, e) = "invalid" -> Invalid
           [] Outcome(kind, e) = "fatal" -> Fatal
           [] OTHER -> CHOOSE i \in Id : TRUE
AbstractProperty(p) ==
    [kind |-> IF p.kind \in {"composite", "pairs", "dictionary"} THEN "structured" ELSE p.kind,
     elems |-> [i \in 1..Len(p.elems) |-> AbstractElement(p.kind, p.elems[i])]]
AbstractProperties(ps) == [i \in 1..Len(ps) |-> AbstractProperty(ps[i])]
AbstractObject(x) ==
    [x EXCEPT !.props = AbstractProperties(@),
              !.inline = AbstractProperties(@),
              !.extensions = [i \in 1..Len(@) |->
                    [defined |-> @[i].defined, props |-> AbstractProperties(@[i].props)]]]
AbstractContent == [o \in Object |-> AbstractObject(Content[o])]

ASSUME InsertQueriesAssumption ==
    /\ Content \in [Object -> STIXObject]
    /\ Known \subseteq Id
    /\ Invalid # Fatal /\ {Invalid, Fatal} \cap Id = {}
    /\ Files \subseteq Seq(Object)
----------------------------------------------------------------------------
VARIABLES
    file, next, stage, prop,    \* as in Transform
    elem, leaf,     \* the next element of the property, the next leaf of a composite value
    composite,      \* the entity of the composite value being converted, if any
    counter,        \* VariableDealer.counter
    local,          \* what the property has produced
    bundle,         \* the QueryBundle of the object, and the values of its main object
    lists,          \* entity, SRO and embedded relation queries
    texts           \* the texts of the first lists

loops == <<elem, leaf, composite, local>>
queryVars == <<file, next, stage, prop, loops, counter, bundle, lists, texts>>

(* Where the values of an object are: section, property, element, and leaf *)
(* of a composite value or value of an item (0 for the element itself).    *)
Place == {"main", "props", "ext"} \X Nat \X Nat \X Nat
MainPlace == <<"main", 0, 0, 0>>
Stored == [at : Place, as : JSON \cup {"ok"}]

(* A Thing has a variable; the place it is made for; the values it owns or *)
(* the ids it matches; and, if it is a relation, the variables that play   *)
(* its roles, role by role.                                                *)
Thing == [var : Nat, at : Place, owns : SUBSET Stored, ids : SUBSET Id, roles : Seq(SUBSET Nat)]
Entity(v, at, owns) == [var |-> v, at |-> at, owns |-> owns, ids |-> {}, roles |-> <<>>]
Match(v, at, id) == [Entity(v, at, {}) EXCEPT !.ids = {id}]
Relation(v, at, roles) == [Entity(v, at, {}) EXCEPT !.roles = roles]

Clauses == [match : SUBSET Thing, insert : SUBSET Thing]
Query == [obj : Object, part : {"entity", "relation", "embedded"},
          match : SUBSET Thing, insert : SUBSET Thing]
NoClauses == [match |-> {}, insert |-> {}]
Local == [owns : SUBSET Stored, attributes : SUBSET Thing, embedded : Clauses]
NoLocal == [owns |-> {}, attributes |-> {}, embedded |-> NoClauses]
EmptyBundle == [marking |-> "", main |-> NoClauses, attributes |-> {}, embedded |-> NoClauses]

QueriesTypeOK ==
    /\ stage \in {"read", "create", "main", "props", "ext", "order", "done", "raised"}
    /\ next \in 1..(Len(file) + 1)
    /\ prop \in Nat \ {0}
    /\ elem \in Nat \ {0}
    /\ leaf \in Nat
    /\ counter \in Nat
    /\ composite \in Seq(Thing) /\ Len(composite) <= 1
    /\ local \in Local
    /\ bundle \in [marking : {"", "entity", "relation"}, main : Clauses,
                   attributes : SUBSET Thing, embedded : Clauses]
    /\ lists \in [1..3 -> Seq(Query)]
    /\ texts \in Seq(Seq(Query)) /\ Len(texts) <= 3
----------------------------------------------------------------------------
Position(at) == <<at[1], at[2]>>
Owned(things) == UNION {t.owns : t \in things}
Matched(things) == UNION {t.ids : t \in things}
Positions(things) == {Position(t.at) : t \in {u \in things : u.at # MainPlace}}
                     \cup {Position(s.at) : s \in Owned(things)}

(* The state of Transform: an insert query by the positions it holds and   *)
(* the ids it matches on.                                                  *)
AbstractBundle == [
    marking |-> bundle.marking,
    has |-> Positions(bundle.main.insert),
    match |-> Matched(bundle.main.match),
    attributes |-> Positions(bundle.attributes),
    links |-> UNION {{Position(t.at)} \X t.ids :
                        t \in {u \in bundle.embedded.match : u.at # MainPlace}}]
AbstractQuery(q) ==
    [obj |-> q.obj, part |-> q.part, holds |-> Positions(q.insert), needs |-> Matched(q.match)]
AbstractLists == [l \in 1..3 |-> [i \in 1..Len(lists[l]) |-> AbstractQuery(lists[l][i])]]

T == INSTANCE Transform WITH
    Content <- AbstractContent, bundle <- AbstractBundle, lists <- AbstractLists
----------------------------------------------------------------------------
Current == file[next]
stix == Content[Current]

ExtensionProperties(o) ==
    IF Content[o].inline # <<>> THEN Content[o].inline
    ELSE IF T!Predefined(o) = {} THEN <<>>
    ELSE Content[o].extensions[T!FirstPredefined(o)].props
Sections(o) == [props |-> Content[o].props, ext |-> ExtensionProperties(o)]

Converting == stage \in {"props", "ext"} /\ prop <= Len(Sections(Current)[stage])
property == Sections(Current)[stage][prop]
AtElement(kind) == Converting /\ property.kind = kind /\ elem <= Len(property.elems)
element == property.elems[elem]
here == <<stage, prop, elem, leaf>>

(* The variable that references of the main object use: create_typeql_object. *)
Owner == (CHOOSE t \in bundle.main.insert : TRUE).var

Deal(n) == counter' = counter + n
NoElement == elem' = 1 /\ leaf' = 0 /\ composite' = <<>> /\ local' = NoLocal
NextElement == elem' = elem + 1 /\ leaf' = 0 /\ composite' = <<>>
Enter(s) == stage' = s /\ prop' = 1 /\ NoElement
(* Mutant: the object after one that is done with is passed over.          *)
SkipTwo == next' = next + 2 /\ bundle' = EmptyBundle /\ Enter("read")
Skip == next' = next + 1 /\ bundle' = EmptyBundle /\ Enter("read")

(* A value and the relation that connects it to its owner.                 *)
Attach(owner, thing, v) ==
    {thing, Relation(v, thing.at, <<{owner}, {thing.var}>>)}
----------------------------------------------------------------------------
Read ==
    /\ stage = "read"
    /\ next <= Len(file)
    /\ Enter(IF stix.read = "ok" THEN "create" ELSE "raised")
    /\ UNCHANGED <<file, next, counter, bundle, lists, texts>>

Finish ==
    /\ stage = "read"
    /\ next > Len(file)
    /\ Enter("done")
    /\ UNCHANGED <<file, next, counter, bundle, lists, texts>>

Create ==
    /\ stage = "create"
    /\ stix.class # "none"
    /\ Enter(IF stix.class = "custom" THEN "order" ELSE "main")
    /\ UNCHANGED <<file, next, counter, bundle, lists, texts>>

CreateRaises ==
    /\ stage = "create"
    /\ stix.class = "none"
    /\ Skip
    /\ UNCHANGED <<file, counter, lists, texts>>

AddMainEntity ==
    /\ stage = "main"
    /\ T!TypeFound(Current)
    /\ stix.class # "SRO"
    /\ bundle' = [bundle EXCEPT !.marking = "entity",
                                !.main.insert = {Entity(counter, MainPlace, {})}]
    /\ Deal(1)
    /\ Enter("props")
    /\ UNCHANGED <<file, next, lists, texts>>

(* The role players in the order in which they get their variables, after  *)
(* the relation.                                                           *)
Players(o) == UNION {{i} \X (1..Len(Content[o].props[i].elems)) : i \in T!Roles(o)}
UpTo(o, x) == {y \in Players(o) : y[1] < x[1] \/ (y[1] = x[1] /\ y[2] <= x[2])}
PlayerId(o, x) == Content[o].props[x[1]].elems[x[2]]
PlayerVar(o, x) == counter + Cardinality(UpTo(o, x))
RolesOf(o) ==
    LET before(i) == Cardinality({j \in T!Roles(o) : j <= i})
        role(n) == CHOOSE i \in T!Roles(o) : before(i) = n
    IN  [n \in 1..Cardinality(T!Roles(o)) |->
            {PlayerVar(o, x) : x \in {y \in Players(o) : y[1] = role(n)}}]

AddMainRelation ==
    /\ stage = "main"
    /\ T!TypeFound(Current)
    /\ stix.class = "SRO"
    /\ T!RolesFound(Current)
    /\ bundle' = [bundle EXCEPT
            !.marking = "relation",
            !.main = [match |-> {Match(PlayerVar(Current, x), <<"props", x[1], x[2], 0>>, PlayerId(Current, x)) :
                                    x \in Players(Current)},
                      insert |-> {Relation(counter, MainPlace, RolesOf(Current))}]]
    /\ Deal(1 + Cardinality(Players(Current)))
    /\ Enter("props")
    /\ UNCHANGED <<file, next, lists, texts>>

(* The players before the first one that cannot be resolved have theirs.   *)
AddMainRaises ==
    /\ stage = "main"
    /\ T!TypeFound(Current) => stix.class = "SRO" /\ ~T!RolesFound(Current)
    /\ Deal(IF T!TypeFound(Current)
            THEN 1 + Cardinality({x \in Players(Current) :
                        \A y \in UpTo(Current, x) : PlayerId(Current, y) \in Known})
            ELSE 0)
    /\ Skip
    /\ UNCHANGED <<file, lists, texts>>
----------------------------------------------------------------------------
ConvertAttribute ==
    /\ AtElement("attribute")
    /\ element = "ok"
    /\ local' = [local EXCEPT !.owns = @ \cup {[at |-> here, as |-> "ok"]}]
    /\ NextElement
    /\ UNCHANGED <<file, next, stage, prop, counter, bundle, lists, texts>>

BeginComposite ==
    /\ AtElement("composite")
    /\ leaf = 0
    /\ composite' = <<Entity(counter, here, {})>>
    /\ Deal(1)
    /\ leaf' = 1
    /\ UNCHANGED <<file, next, stage, prop, elem, local, bundle, lists, texts>>

AtLeaf == AtElement("composite") /\ leaf \in 1..Len(element)

(* Mutant: the loop over the values does not go on.                        *)
LeafStays ==
    /\ AtLeaf
    /\ element[leaf] = [kind |-> "value", value |-> "ok"]
    /\ composite' = [composite EXCEPT ![1].owns = @ \cup {[at |-> here, as |-> "ok"]}]
    /\ UNCHANGED <<file, next, stage, prop, elem, leaf, local, counter, bundle, lists, texts>>
ConvertLeafValue ==
    /\ AtLeaf
    /\ element[leaf] = [kind |-> "value", value |-> "ok"]
    /\ composite' = [composite EXCEPT ![1].owns = @ \cup {[at |-> here, as |-> "ok"]}]
    /\ leaf' = leaf + 1
    /\ UNCHANGED <<file, next, stage, prop, elem, local, counter, bundle, lists, texts>>

(* A pair of the entity and the relation, which refers to the composite.   *)
Pair(v) == Entity(v, here, {[at |-> here, as |-> "ok"]})
ConvertLeafPair ==
    /\ AtLeaf
    /\ element[leaf] = [kind |-> "pair", value |-> "ok"]
    /\ local' = [local EXCEPT !.attributes =
                    @ \cup Attach(composite[1].var, Pair(counter), counter + 1)]
    /\ Deal(2)
    /\ leaf' = leaf + 1
    /\ UNCHANGED <<file, next, stage, prop, elem, composite, bundle, lists, texts>>

EndComposite ==
    /\ AtElement("composite")
    /\ leaf > Len(element)
    /\ local' = [local EXCEPT !.attributes = @ \cup Attach(Owner, composite[1], counter)]
    /\ Deal(1)
    /\ NextElement
    /\ UNCHANGED <<file, next, stage, prop, bundle, lists, texts>>

ConvertPair ==
    /\ AtElement("pairs")
    /\ element = "ok"
    /\ local' = [local EXCEPT !.attributes = @ \cup Attach(Owner, Pair(counter), counter + 1)]
    /\ Deal(2)
    /\ NextElement
    /\ UNCHANGED <<file, next, stage, prop, bundle, lists, texts>>

ItemValues == {[at |-> <<stage, prop, elem, i>>, as |-> Parsed(ItemType(element), element.values[i])] :
                    i \in 1..Len(element.values)}
ConvertItem ==
    /\ AtElement("dictionary")
    /\ ItemOutcome(element) = "ok"
    /\ local' = [local EXCEPT !.attributes =
                    @ \cup Attach(Owner, Entity(counter, here, ItemValues), counter + 1)]
    /\ Deal(2)
    /\ NextElement
    /\ UNCHANGED <<file, next, stage, prop, bundle, lists, texts>>

(* The target and the object are matched by id, under fresh variables.     *)
(* Mutant: the object is referred to by its variable in the main query.    *)
ReferenceByVariable ==
    /\ AtElement("reference")
    /\ element \in Known
    /\ local' = [local EXCEPT !.embedded =
            [match |-> @.match \cup {Match(counter, here, element), Match(counter + 1, MainPlace, stix.id)},
             insert |-> @.insert \cup {Relation(counter + 2, here, <<{Owner}, {counter}>>)}]]
    /\ Deal(3)
    /\ NextElement
    /\ UNCHANGED <<file, next, stage, prop, bundle, lists, texts>>
ConvertReference ==
    /\ AtElement("reference")
    /\ element \in Known
    /\ local' = [local EXCEPT !.embedded =
            [match |-> @.match \cup {Match(counter, here, element), Match(counter + 1, MainPlace, stix.id)},
             insert |-> @.insert \cup {Relation(counter + 2, here, <<{counter + 1}, {counter}>>)}]]
    /\ Deal(3)
    /\ NextElement
    /\ UNCHANGED <<file, next, stage, prop, bundle, lists, texts>>

(* How the next value fails, if it does.  The entity of a pair has its     *)
(* variable by then.                                                       *)
FailsNow(how) ==
    \/ (AtLeaf /\ element[leaf].value = how)
    \/ \E kind \in {"attribute", "pairs", "dictionary", "reference"} :
            AtElement(kind) /\ Outcome(kind, element) = how
Spent == IF AtElement("pairs") \/ (AtLeaf /\ element[leaf].kind = "pair") THEN 1 ELSE 0

(* The property is logged and left out, with all that it has produced.     *)
(* Mutant: what came before the bad element is kept.                       *)
DropPropertyLate ==
    /\ stage = "props"
    /\ FailsNow("invalid")
    /\ Deal(Spent)
    /\ prop' = prop + 1
    /\ NoElement
    /\ bundle' = [bundle EXCEPT !.attributes = @ \cup local.attributes]
    /\ UNCHANGED <<file, next, stage, lists, texts>>
DropProperty ==
    /\ stage = "props"
    /\ FailsNow("invalid")
    /\ Deal(Spent)
    /\ prop' = prop + 1
    /\ NoElement
    /\ UNCHANGED <<file, next, stage, bundle, lists, texts>>

(* The exception leaves the converter of the object.                       *)
DropObject ==
    /\ FailsNow("fatal") \/ (stage = "ext" /\ FailsNow("invalid"))
    /\ Deal(Spent)
    /\ Skip
    /\ UNCHANGED <<file, lists, texts>>

(* create_typeql_property returns; the role players of a relationship and  *)
(* what is not in the mapping give nothing.                                *)
Extended(clauses, more) == [match |-> clauses.match \cup more.match,
                            insert |-> clauses.insert \cup more.insert]
PropertyDone ==
    /\ Converting
    /\ elem > Len(property.elems) \/ property.kind = "role"
    /\ bundle' = [bundle EXCEPT
            !.main.insert = {[t EXCEPT !.owns = @ \cup local.owns] : t \in @},
            !.attributes = @ \cup local.attributes,
            !.embedded = Extended(@, local.embedded)]
    /\ prop' = prop + 1
    /\ NoElement
    /\ UNCHANGED <<file, next, stage, counter, lists, texts>>

SectionDone ==
    /\ stage \in {"props", "ext"}
    /\ prop > Len(Sections(Current)[stage])
    /\ Enter(IF stage = "props" THEN "ext" ELSE "order")
    /\ UNCHANGED <<file, next, counter, bundle, lists, texts>>
----------------------------------------------------------------------------
(* order_bundle: the structured attributes go with the main object.        *)
MainQuery == [obj |-> Current, part |-> bundle.marking, match |-> bundle.main.match,
              insert |-> bundle.main.insert \cup bundle.attributes]
EmbeddedQuery == [obj |-> Current, part |-> "embedded",
                  match |-> bundle.embedded.match, insert |-> bundle.embedded.insert]

Order ==
    /\ stage = "order"
    /\ lists' = <<IF bundle.marking = "entity" THEN Append(lists[1], MainQuery) ELSE lists[1],
                  IF bundle.marking = "relation" THEN Append(lists[2], MainQuery) ELSE lists[2],
                  IF bundle.embedded.insert # {} THEN Append(lists[3], EmbeddedQuery) ELSE lists[3]>>
    /\ Skip
    /\ UNCHANGED <<file, counter, texts>>

(* build_all_roles takes the last role out of the relation before it       *)
(* prints it with the others: the text has all roles, the list has not.    *)
Printed(q) == [q EXCEPT !.insert =
    {[t EXCEPT !.roles = SubSeq(@, 1, Len(@) - (IF @ = <<>> THEN 0 ELSE 1))] : t \in @}]
PrintedList(list) == [i \in 1..Len(list) |-> Printed(list[i])]

(* TypeDBLoader.load, of the three lists in turn.                          *)
(* Mutant: the queries are logged before they are built.                   *)
BuildTextsTwice ==
    /\ stage = "done"
    /\ Len(texts) < 3
    /\ texts' = Append(texts, PrintedList(lists[Len(texts) + 1]))
    /\ lists' = [lists EXCEPT ![Len(texts) + 1] = PrintedList(PrintedList(@))]
    /\ UNCHANGED <<file, next, stage, prop, loops, counter, bundle>>
BuildTexts ==
    /\ stage = "done"
    /\ Len(texts) < 3
    /\ texts' = Append(texts, lists[Len(texts) + 1])
    /\ lists' = [lists EXCEPT ![Len(texts) + 1] = PrintedList(@)]
    /\ UNCHANGED <<file, next, stage, prop, loops, counter, bundle>>

QueriesInit ==
    /\ file \in Files
    /\ next = 1
    /\ stage = "read"
    /\ prop = 1
    /\ elem = 1
    /\ leaf = 0
    /\ composite = <<>>
    /\ counter = 0
    /\ local = NoLocal
    /\ bundle = EmptyBundle
    /\ lists = [l \in 1..3 |-> <<>>]
    /\ texts = <<>>

QueriesNext ==
    \/ Read
    \/ Finish
    \/ Create
    \/ CreateRaises
    \/ AddMainEntity
    \/ AddMainRelation
    \/ AddMainRaises
    \/ ConvertAttribute
    \/ BeginComposite
    \/ ConvertLeafValue
    \/ ConvertLeafPair
    \/ EndComposite
    \/ ConvertPair
    \/ ConvertItem
    \/ ConvertReference
    \/ DropProperty
    \/ DropObject
    \/ PropertyDone
    \/ SectionDone
    \/ Order
    \/ BuildTexts

QueriesSpec == QueriesInit /\ [][QueriesNext]_queryVars /\ WF_queryVars(QueriesNext)
----------------------------------------------------------------------------
(* Every query can be executed on its own: it declares each of its         *)
(* variables once, and the variables that play the roles of its relations  *)
(* are among them.  VariableDealer numbers across all queries, properties  *)
(* that failed half-way included.                                          *)
Made == UNION {{lists[l][i] : i \in 1..Len(lists[l])} : l \in 1..3}
SelfContained(q) ==
    /\ q.match \cap q.insert = {}
    /\ \A t, u \in q.match \cup q.insert : t.var = u.var => t = u
    /\ \A t \in q.insert : \A i \in 1..Len(t.roles) :
            t.roles[i] \subseteq {u.var : u \in q.match \cup q.insert}
QueriesSelfContained == \A q \in Made : SelfContained(q)

(* What should come out of an object that is not dropped, from its content *)
(* alone.  A property is good if all of its elements are.                  *)
Good(p) == \A e \in 1..Len(p.elems) : Outcome(p.kind, p.elems[e]) = "ok"
GoodProperties(o, s, kinds) ==
    {i \in 1..Len(Sections(o)[s]) : Sections(o)[s][i].kind \in kinds /\ Good(Sections(o)[s][i])}
GoodElements(o, kinds) == UNION {
    UNION {{<<s, i, e>> : e \in 1..Len(Sections(o)[s][i].elems)} : i \in GoodProperties(o, s, kinds)} :
    s \in {"props", "ext"}}
ElementAt(o, g) == Sections(o)[g[1]][g[2]].elems[g[3]]
PlaceOf(g, i) == <<g[1], g[2], g[3], i>>
Leaves(o, kind) == UNION {{PlaceOf(g, i) : i \in {j \in 1..Len(ElementAt(o, g)) :
                                ElementAt(o, g)[j].kind = kind}} : g \in GoodElements(o, {"composite"})}
ValuePlaces(o) ==
    {PlaceOf(g, 0) : g \in GoodElements(o, {"composite", "pairs", "dictionary"})} \cup Leaves(o, "pair")
OwnerPlace(at) == IF at[4] = 0 THEN MainPlace ELSE [at EXCEPT ![4] = 0]

(* A text inserts the whole object: the main thing with its attributes,    *)
(* and for every structured value one entity with its own attributes,      *)
(* connected to its owner, the main thing or the composite value it is in, *)
(* by exactly one relation, with both roles; and nothing else.  A relation *)
(* of the file has all its role players, role by role.                     *)
Sole(things, at) == {t \in things : t.at = at}
Helpers(q) == {t \in q.insert : t.at # MainPlace /\ t.roles # <<>>}
Values(q) == q.insert \ Helpers(q)
ThingAt(q, at) == CHOOSE t \in Values(q) : t.at = at
MatchedBy(match, vars) == {t.ids : t \in {m \in match : m.var \in vars}}
NamedRoles(o) == {i \in 1..Len(Content[o].props) : Content[o].props[i].kind = "role"}
RolesPlayed(o, match, roles) ==
    /\ Len(roles) = Cardinality(NamedRoles(o))
    /\ \A i \in NamedRoles(o) : MatchedBy(match, roles[Cardinality({j \in NamedRoles(o) : j <= i})]) =
            {{Content[o].props[i].elems[e]} : e \in 1..Len(Content[o].props[i].elems)}
WholeObject(q) ==
    /\ {t.at : t \in Values(q)} = {MainPlace} \cup ValuePlaces(q.obj)
    /\ \A t, u \in Values(q) : t.at = u.at => t = u
    /\ Cardinality(Helpers(q)) = Cardinality(ValuePlaces(q.obj))
    /\ \A at \in ValuePlaces(q.obj) : \E h \in Helpers(q) :
            h.roles = <<{ThingAt(q, OwnerPlace(at)).var}, {ThingAt(q, at).var}>>
    /\ {s.at : s \in ThingAt(q, MainPlace).owns} =
            {PlaceOf(g, 0) : g \in GoodElements(q.obj, {"attribute"})}
    /\ \A at \in Leaves(q.obj, "value") : \E s \in ThingAt(q, [at EXCEPT ![4] = 0]).owns : s.at = at
    /\ q.part = "relation" => RolesPlayed(q.obj, q.match, ThingAt(q, MainPlace).roles)

(* The text of the embedded relations of an object has one relation for    *)
(* each of its references, between the object and the target.              *)
WholeReferences(q) ==
    LET ids(vars) == Matched({t \in q.match : t.var \in vars})
    IN  /\ Cardinality(q.insert) = Cardinality(GoodElements(q.obj, {"reference"}))
        /\ \A g \in GoodElements(q.obj, {"reference"}) : \E t \in q.insert :
                /\ t.at = PlaceOf(g, 0)
                /\ Len(t.roles) = 2
                /\ ids(t.roles[1]) = {Content[q.obj].id}
                /\ ids(t.roles[2]) = {ElementAt(q.obj, g)}

Sent == UNION {{texts[l][i] : i \in 1..Len(texts[l])} : l \in 1..Len(texts)}
TextsWhole == \A q \in Sent : IF q.part = "embedded" THEN WholeReferences(q) ELSE WholeObject(q)

(* A value of a dictionary is stored as it was given, but for two cases: a *)
(* boolean becomes a number; in a list that begins with a number or a      *)
(* boolean, every number and numeral becomes an integer.                   *)
KeptAs(item, i, kind) ==
    \/ kind = item.values[i]
    \/ kind = "int" /\ item.values[i] \in {"bool", "float", "digits"} /\ item.values[1] \in {"int", "bool"}
DictionariesKept == \A q \in Sent : \A g \in GoodElements(q.obj, {"dictionary"}) :
    q.part # "embedded" =>
        LET item == ElementAt(q.obj, g)
            stored == UNION {t.owns : t \in Sole(q.insert, PlaceOf(g, 0))}
        IN  \A i \in 1..Len(item.values) : \E s \in stored :
                s.at = PlaceOf(g, i) /\ KeptAs(item, i, s.as)

(* However values are nested and fail, and whatever variables they use,    *)
(* the lists are those of Transform.                                       *)
ImplementsTransform == T!TransformSteps

(* The loops over the values of a property all come to an end: the lists   *)
(* are completed as they are in Transform.                                 *)
KeepsUpWithTransform == T!TransformProgress
=============================================================================
