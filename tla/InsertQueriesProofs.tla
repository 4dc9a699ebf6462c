------------------------ MODULE InsertQueriesProofs ------------------------
(***************************************************************************)
(* What the queries are made of, for every content of the objects, every   *)
(* mapping and every file.                                                 *)
(***************************************************************************)
EXTENDS InsertQueries, SetLemmas

(***************************************************************************)
(* Types.                                                                  *)
(***************************************************************************)
LEMMA FunctionIsSequence ==
    ASSUME NEW S, NEW n \in Nat, NEW f \in [1..n -> S]
    PROVE  f \in Seq(S) /\ Len(f) = n
OBVIOUS

LEMMA TwoRoles ==
    ASSUME NEW a \in Nat, NEW b \in Nat
    PROVE  <<{a}, {b}>> \in Seq(SUBSET Nat)
<1>1. ASSUME NEW x \in SUBSET Nat, NEW y \in SUBSET Nat PROVE <<x, y>> \in Seq(SUBSET Nat)
  OBVIOUS
<1>2. {a} \in SUBSET Nat /\ {b} \in SUBSET Nat
  OBVIOUS
<1>3. QED
  BY <1>1, <1>2

LEMMA AbstractFields ==
    ASSUME NEW o \in Object
    PROVE  /\ Content[o] \in STIXObject
           /\ AbstractContent[o].id = Content[o].id
           /\ AbstractContent[o].read = Content[o].read
           /\ AbstractContent[o].class = Content[o].class
           /\ AbstractContent[o].typed = Content[o].typed
           /\ AbstractContent[o].props = AbstractProperties(Content[o].props)
           /\ AbstractContent[o].inline = AbstractProperties(Content[o].inline)
           /\ AbstractContent[o].extensions =
                [i \in 1..Len(Content[o].extensions) |->
                    [defined |-> Content[o].extensions[i].defined,
                     props |-> AbstractProperties(Content[o].extensions[i].props)]]
<1>1. Content[o] \in STIXObject
  BY InsertQueriesAssumption
<1>2. AbstractContent[o] = AbstractObject(Content[o])
  BY DEF AbstractContent
<1>3. QED
  BY <1>1, <1>2 DEF AbstractObject, STIXObject

LEMMA AbstractLength ==
    ASSUME NEW ps \in Seq(Property)
    PROVE  /\ Len(AbstractProperties(ps)) = Len(ps) /\ Len(ps) \in Nat
           /\ AbstractProperties(ps) = <<>> <=> ps = <<>>
           /\ \A i \in 1..Len(ps) : AbstractProperties(ps)[i] = AbstractProperty(ps[i])
<1>1. PICK n \in Nat : n = Len(ps)
  OBVIOUS
<1>2. PICK f : f = [i \in 1..n |-> AbstractProperty(ps[i])]
  OBVIOUS
<1>3. f \in Seq({f[i] : i \in 1..n}) /\ Len(f) = n
  BY <1>2
<1>4. f = <<>> <=> n = 0
  BY <1>3
<1>5. ps = <<>> <=> n = 0
  BY <1>1
<1>6. QED
  BY <1>1, <1>2, <1>3, <1>4, <1>5 DEF AbstractProperties

LEMMA SectionTypes ==
    ASSUME NEW o \in Object
    PROVE  /\ Content[o].props \in Seq(Property) /\ Len(Content[o].props) \in Nat
           /\ ExtensionProperties(o) \in Seq(Property) /\ Len(ExtensionProperties(o)) \in Nat
           /\ Sections(o)["props"] = Content[o].props
           /\ Sections(o)["ext"] = ExtensionProperties(o)
<1>1. /\ Content[o].props \in Seq(Property) /\ Content[o].inline \in Seq(Property)
      /\ Content[o].extensions \in Seq(Extension)
  BY AbstractFields DEF STIXObject
<1>2. CASE Content[o].inline # <<>>
  BY <1>1, <1>2 DEF ExtensionProperties, Sections
<1>3. CASE Content[o].inline = <<>> /\ T!Predefined(o) = {}
  BY <1>1, <1>3 DEF ExtensionProperties, Sections
<1>4. CASE Content[o].inline = <<>> /\ T!Predefined(o) # {}
  <2>1. AbstractContent[o].inline = <<>>
    BY <1>1, <1>4, AbstractFields, AbstractLength
  <2>2. T!Extensions(o) = AbstractContent[o].extensions
    BY <2>1 DEF T!Extensions
  <2>3. PICK n \in Nat : n = Len(Content[o].extensions)
    BY <1>1
  <2>4. PICK f : f = AbstractContent[o].extensions
    OBVIOUS
  <2>5. f \in Seq({f[i] : i \in 1..n}) /\ Len(f) = n
    <3>1. f = [i \in 1..n |-> [defined |-> Content[o].extensions[i].defined,
                               props |-> AbstractProperties(Content[o].extensions[i].props)]]
      BY <2>3, <2>4, AbstractFields
    <3>2. f = [i \in 1..n |-> f[i]]
      BY <3>1
    <3>3. QED
      BY <3>2
  <2>6. T!Predefined(o) \in SUBSET Nat /\ T!Predefined(o) \subseteq 1..n
    BY <2>2, <2>4, <2>5 DEF T!Predefined, T!DefinedIn
  <2>7. \E i \in T!Predefined(o) : \A j \in T!Predefined(o) : i <= j
    BY <1>4, <2>6, SmallestNumber
  <2>8. T!FirstPredefined(o) \in T!Predefined(o)
    BY <2>7 DEF T!FirstPredefined, T!Lowest
  <2>9. Content[o].extensions[T!FirstPredefined(o)] \in Extension
    BY <1>1, <2>3, <2>6, <2>8
  <2>10. QED
    BY <1>1, <1>4, <2>9 DEF ExtensionProperties, Sections, Extension
<1>5. QED
  BY <1>2, <1>3, <1>4

LEMMA ThingTypes ==
    ASSUME NEW v \in Nat, NEW at \in Place
    PROVE  /\ \A owns \in SUBSET Stored :
                /\ Entity(v, at, owns) \in Thing
                /\ Entity(v, at, owns).var = v /\ Entity(v, at, owns).at = at
                /\ Entity(v, at, owns).owns = owns /\ Entity(v, at, owns).ids = {}
                /\ Entity(v, at, owns).roles = <<>>
           /\ \A id \in Id :
                /\ Match(v, at, id) \in Thing
                /\ Match(v, at, id).var = v /\ Match(v, at, id).at = at
                /\ Match(v, at, id).owns = {} /\ Match(v, at, id).ids = {id}
                /\ Match(v, at, id).roles = <<>>
           /\ \A roles \in Seq(SUBSET Nat) :
                /\ Relation(v, at, roles) \in Thing
                /\ Relation(v, at, roles).var = v /\ Relation(v, at, roles).at = at
                /\ Relation(v, at, roles).owns = {} /\ Relation(v, at, roles).ids = {}
                /\ Relation(v, at, roles).roles = roles
<1>1. ASSUME NEW owns \in SUBSET Stored
      PROVE  /\ Entity(v, at, owns) \in Thing
             /\ Entity(v, at, owns).var = v /\ Entity(v, at, owns).at = at
             /\ Entity(v, at, owns).owns = owns /\ Entity(v, at, owns).ids = {}
             /\ Entity(v, at, owns).roles = <<>>
  BY DEF Entity, Thing
<1>2. PICK e \in Thing :
        /\ e = Entity(v, at, {}) /\ e.var = v /\ e.at = at /\ e.owns = {} /\ e.ids = {} /\ e.roles = <<>>
  BY <1>1
<1>3. ASSUME NEW id \in Id
      PROVE  /\ Match(v, at, id) \in Thing
             /\ Match(v, at, id).var = v /\ Match(v, at, id).at = at
             /\ Match(v, at, id).owns = {} /\ Match(v, at, id).ids = {id}
             /\ Match(v, at, id).roles = <<>>
  <2>1. Match(v, at, id) = [e EXCEPT !.ids = {id}]
    BY <1>2 DEF Match
  <2>2. QED
    BY <1>2, <2>1 DEF Thing
<1>4. ASSUME NEW roles \in Seq(SUBSET Nat)
      PROVE  /\ Relation(v, at, roles) \in Thing
             /\ Relation(v, at, roles).var = v /\ Relation(v, at, roles).at = at
             /\ Relation(v, at, roles).owns = {} /\ Relation(v, at, roles).ids = {}
             /\ Relation(v, at, roles).roles = roles
  <2>1. Relation(v, at, roles) = [e EXCEPT !.roles = roles]
    BY <1>2 DEF Relation
  <2>2. QED
    BY <1>2, <2>1 DEF Thing
<1>5. QED
  BY <1>1, <1>3, <1>4

(***************************************************************************)
(* Where the loops are.  A composite value has an entity from its first    *)
(* leaf on; nothing is produced outside of a property, and no main object  *)
(* and nothing of its values exist before its type has been found.         *)
(***************************************************************************)
LoopInv ==
    /\ file \in Files
    /\ stage \in {"create", "main", "props", "ext", "order"} => next <= Len(file)
    /\ stage \notin {"props", "ext"} => local = NoLocal /\ leaf = 0
    /\ stage \in {"read", "create", "main"} => bundle = EmptyBundle
    /\ stage \in {"props", "ext"} => bundle.main.insert # {}
    /\ leaf # 0 => AtElement("composite")
    /\ leaf # 0 <=> composite # <<>>

(***************************************************************************)
(* Variables.  VariableDealer has dealt every variable of the object that  *)
(* is being converted, and each to one thing; a relation is played by      *)
(* things that end up in the same query.                                   *)
(***************************************************************************)
PartNames == {"players", "main", "values", "open", "ends", "links"}
Parts == [players |-> bundle.main.match,
          main |-> bundle.main.insert,
          values |-> bundle.attributes \cup local.attributes,
          open |-> {composite[i] : i \in 1..Len(composite)},
          ends |-> bundle.embedded.match \cup local.embedded.match,
          links |-> bundle.embedded.insert \cup local.embedded.insert]
Named(parts, n) ==
    /\ \A i \in PartNames : \A t \in parts[i] : t.var < n
    /\ \A i, j \in PartNames : \A t \in parts[i], u \in parts[j] : t.var = u.var => i = j /\ t = u

Variables(things) == {t.var : t \in things}
Played(relations, things) ==
    \A t \in relations : \A i \in 1..Len(t.roles) : t.roles[i] \subseteq Variables(things)
PlayedInv ==
    /\ Played(bundle.main.insert, bundle.main.match)
    /\ Played(bundle.attributes, bundle.main.insert \cup bundle.attributes)
    /\ Played(local.attributes, bundle.main.insert \cup local.attributes \cup Parts.open)
    /\ Played(Parts.open, {})
    /\ Played(bundle.embedded.insert, bundle.embedded.match)
    /\ Played(local.embedded.insert, local.embedded.match)

BundleType == [marking : {"", "entity", "relation"}, main : Clauses,
               attributes : SUBSET Thing, embedded : Clauses]

LEMMA Empties ==
    /\ NoClauses \in Clauses /\ NoClauses.match = {} /\ NoClauses.insert = {}
    /\ NoLocal \in Local /\ NoLocal.owns = {} /\ NoLocal.attributes = {}
    /\ NoLocal.embedded = NoClauses
    /\ EmptyBundle \in BundleType /\ EmptyBundle.marking = "" /\ EmptyBundle.main = NoClauses
    /\ EmptyBundle.attributes = {} /\ EmptyBundle.embedded = NoClauses
<1>1. NoClauses \in Clauses /\ NoClauses.match = {} /\ NoClauses.insert = {}
  BY DEF NoClauses, Clauses
<1>2. /\ NoLocal \in Local /\ NoLocal.owns = {} /\ NoLocal.attributes = {}
      /\ NoLocal.embedded = NoClauses
  BY <1>1 DEF NoLocal, Local
<1>3. /\ EmptyBundle \in BundleType /\ EmptyBundle.marking = "" /\ EmptyBundle.main = NoClauses
      /\ EmptyBundle.attributes = {} /\ EmptyBundle.embedded = NoClauses
  BY <1>1 DEF EmptyBundle, BundleType
<1>4. QED
  BY <1>1, <1>2, <1>3

TypeInv == QueriesTypeOK /\ LoopInv

LEMMA TypeFacts ==
    ASSUME TypeInv
    PROVE  /\ file \in Seq(Object) /\ Len(file) \in Nat /\ next \in Nat /\ next >= 1
           /\ next <= Len(file) => Current \in Object /\ stix \in STIXObject
           /\ local \in Local /\ bundle \in BundleType /\ counter \in Nat
           /\ local.owns \subseteq Stored /\ local.attributes \subseteq Thing
           /\ local.embedded \in Clauses
           /\ local.embedded.match \subseteq Thing /\ local.embedded.insert \subseteq Thing
           /\ bundle.main \in Clauses /\ bundle.main.match \subseteq Thing
           /\ bundle.main.insert \subseteq Thing /\ bundle.attributes \subseteq Thing
           /\ bundle.embedded \in Clauses
           /\ bundle.embedded.match \subseteq Thing /\ bundle.embedded.insert \subseteq Thing
<1>1. file \in Seq(Object) /\ next \in 1..(Len(file) + 1)
  BY InsertQueriesAssumption DEF TypeInv, LoopInv, QueriesTypeOK
<1>2. Len(file) \in Nat /\ next \in Nat /\ next >= 1
  BY <1>1
<1>3. next <= Len(file) => Current \in Object
  BY <1>1, <1>2 DEF Current
<1>4. next <= Len(file) => stix \in STIXObject
  BY <1>3, AbstractFields DEF stix
<1>5. local \in Local /\ bundle \in BundleType /\ counter \in Nat
  BY DEF TypeInv, QueriesTypeOK, BundleType
<1>6. /\ local.owns \subseteq Stored /\ local.attributes \subseteq Thing
      /\ local.embedded \in Clauses
  BY <1>5 DEF Local
<1>7. /\ bundle.main \in Clauses /\ bundle.attributes \subseteq Thing
      /\ bundle.embedded \in Clauses
  BY <1>5 DEF BundleType
<1>8. \A c \in Clauses : c.match \subseteq Thing /\ c.insert \subseteq Thing
  BY DEF Clauses
<1>9. QED
  BY <1>1, <1>2, <1>3, <1>4, <1>5, <1>6, <1>7, <1>8

LEMMA ConvertingFacts ==
    ASSUME TypeInv, Converting
    PROVE  /\ stage \in {"props", "ext"} /\ next <= Len(file) /\ Current \in Object
           /\ Sections(Current)[stage] \in Seq(Property) /\ Len(Sections(Current)[stage]) \in Nat
           /\ prop \in 1..Len(Sections(Current)[stage]) /\ property \in Property
           /\ elem \in Nat \ {0} /\ leaf \in Nat /\ here \in Place
<1>1. stage \in {"props", "ext"} /\ prop <= Len(Sections(Current)[stage])
  BY DEF Converting
<1>2. next <= Len(file) /\ Current \in Object
  BY <1>1, TypeFacts DEF TypeInv, LoopInv
<1>3. Sections(Current)[stage] \in Seq(Property) /\ Len(Sections(Current)[stage]) \in Nat
  BY <1>1, <1>2, SectionTypes
<1>4. prop \in Nat \ {0} /\ elem \in Nat \ {0} /\ leaf \in Nat
  BY DEF TypeInv, QueriesTypeOK
<1>5. prop \in 1..Len(Sections(Current)[stage])
  BY <1>1, <1>3, <1>4
<1>6. property \in Property
  BY <1>3, <1>5 DEF property
<1>7. here \in Place
  BY <1>1, <1>4 DEF here, Place
<1>8. QED
  BY <1>1, <1>2, <1>3, <1>4, <1>5, <1>6, <1>7

LEMMA ElementTypes ==
    ASSUME TypeInv
    PROVE  /\ \A kind : AtElement(kind) => Converting /\ elem \in 1..Len(property.elems)
                                                      /\ Len(property.elems) \in Nat
           /\ AtElement("composite") => element \in Seq(Leaf)
           /\ AtElement("dictionary") => element \in Item
           /\ AtElement("reference") => element \in Id
<1>1. ASSUME NEW kind, AtElement(kind)
      PROVE  /\ Converting /\ elem \in 1..Len(property.elems) /\ Len(property.elems) \in Nat
             /\ property \in Property /\ property.kind = kind
  <2>1. Converting /\ elem <= Len(property.elems) /\ property.kind = kind
    BY <1>1 DEF AtElement
  <2>2. property \in Property /\ elem \in Nat \ {0}
    BY <2>1, ConvertingFacts
  <2>3. Len(property.elems) \in Nat
    BY <2>2 DEF Property
  <2>4. QED
    BY <2>1, <2>2, <2>3
<1>2. ASSUME AtElement("composite") PROVE element \in Seq(Leaf)
  <2>1. property.elems \in Seq(Seq(Leaf))
    BY <1>1, <1>2 DEF Property
  <2>2. QED
    BY <1>1, <1>2, <2>1 DEF element
<1>3. ASSUME AtElement("dictionary") PROVE element \in Item
  <2>1. property.elems \in Seq(Item)
    BY <1>1, <1>3 DEF Property
  <2>2. QED
    BY <1>1, <1>3, <2>1 DEF element
<1>4. ASSUME AtElement("reference") PROVE element \in Id
  <2>1. property.elems \in Seq(Id)
    BY <1>1, <1>4 DEF Property
  <2>2. QED
    BY <1>1, <1>4, <2>1 DEF element
<1>5. QED
  BY <1>1, <1>2, <1>3, <1>4

(***************************************************************************)
(* What the conversion of an element produces.                             *)
(***************************************************************************)
Unconverted == <<file, next, stage, prop, bundle, lists, texts>>
ElementDone == elem' = elem + 1 /\ leaf' = 0 /\ composite' = <<>>

LEMMA OwnerIsMain ==
    ASSUME TypeInv, Converting
    PROVE  Owner \in Variables(bundle.main.insert) /\ Owner \in Nat
<1>1. bundle.main.insert # {}
  BY DEF TypeInv, LoopInv, Converting
<1>2. PICK t \in bundle.main.insert : t = CHOOSE u \in bundle.main.insert : TRUE
  BY <1>1
<1>3. t \in Thing /\ Owner = t.var
  BY <1>2, TypeFacts DEF Owner
<1>4. QED
  BY <1>3 DEF Thing, Variables

(* Attach: the value and a relation between it and its owner.              *)
Attaches(w, e, v, r) ==
    /\ Attach(w, e, v) = {e, r}
    /\ r.var = v /\ r.at = e.at /\ r.owns = {} /\ r.ids = {} /\ r.roles = <<{w}, {e.var}>>

LEMMA Attached ==
    ASSUME NEW w \in Nat, NEW e \in Thing, NEW v \in Nat
    PROVE  \E r \in Thing : Attaches(w, e, v, r)
<1>1. e.at \in Place /\ e.var \in Nat
  BY DEF Thing
<1>2. PICK roles \in Seq(SUBSET Nat) : roles = <<{w}, {e.var}>>
  BY <1>1, TwoRoles
<1>3. PICK r \in Thing : /\ r = Relation(v, e.at, roles) /\ r.var = v /\ r.at = e.at
                         /\ r.owns = {} /\ r.ids = {} /\ r.roles = roles
  <2>1. PICK at \in Place : at = e.at
    BY <1>1
  <2>2. PICK r \in Thing : /\ r = Relation(v, at, roles) /\ r.var = v /\ r.at = at
                           /\ r.owns = {} /\ r.ids = {} /\ r.roles = roles
    BY ThingTypes
  <2>3. QED
    BY <2>1, <2>2
<1>4. Attach(w, e, v) = {e, r}
  BY <1>2, <1>3 DEF Attach
<1>5. QED
  BY <1>2, <1>3, <1>4 DEF Attaches

LEMMA HereStored ==
    ASSUME TypeInv, Converting
    PROVE  {[at |-> here, as |-> "ok"]} \subseteq Stored
BY ConvertingFacts DEF Stored

LEMMA ItemsStored ==
    ASSUME TypeInv, AtElement("dictionary"), ItemOutcome(element) = "ok"
    PROVE  ItemValues \subseteq Stored
<1>1. element \in Item /\ Converting /\ stage \in {"props", "ext"}
      /\ prop \in Nat /\ elem \in Nat
  BY ElementTypes, ConvertingFacts
<1>2. BadValues(element) = {}
  BY DEF ItemOutcome
<1>3. element.values \in Seq(JSON)
  <2>1. CASE element \in [list : {TRUE}, values : Seq(JSON)]
    BY <2>1
  <2>2. CASE element \in [list : {FALSE}, values : [1..1 -> JSON]]
    <3>1. element.values \in [1..1 -> JSON]
      BY <2>2
    <3>2. QED
      BY <3>1, 1 \in Nat, FunctionIsSequence
  <2>3. QED
    BY <1>1, <2>1, <2>2 DEF Item
<1>4. ASSUME NEW i \in 1..Len(element.values)
      PROVE  [at |-> <<stage, prop, elem, i>>, as |-> Parsed(ItemType(element), element.values[i])] \in Stored
  <2>1. Parsed(ItemType(element), element.values[i]) \notin {"invalid", "fatal"}
    BY <1>2 DEF BadValues
  <2>2. element.values[i] \in JSON
    BY <1>3
  <2>3. \A type, v : v \in JSON /\ Parsed(type, v) \notin {"invalid", "fatal"}
                        => Parsed(type, v) \in JSON
    BY DEF Parsed, JSON, Numeral, Text
  <2>4. Parsed(ItemType(element), element.values[i]) \in JSON
    BY <2>1, <2>2, <2>3
  <2>5. <<stage, prop, elem, i>> \in Place
    BY <1>1, <1>3 DEF Place
  <2>6. QED
    BY <2>4, <2>5 DEF Stored
<1>5. QED
  BY <1>4 DEF ItemValues

(* A structured value: an entity of its own with a relation to the main    *)
(* object, or a pair of a composite value with one to its entity.          *)
Structured(w, e, r) ==
    /\ e \in Thing /\ r \in Thing /\ w \in Nat
    /\ e.var = counter /\ e.roles = <<>> /\ e.at = here /\ e.ids = {}
    /\ r.var = counter + 1 /\ r.roles = <<{w}, {counter}>> /\ r.at = here /\ r.owns = {}
    /\ local' = [local EXCEPT !.attributes = @ \cup {e, r}]
    /\ counter' = counter + 2

LEMMA StructuredAdds ==
    ASSUME TypeInv, Converting, NEW owns \in SUBSET Stored, NEW w \in Nat,
           local' = [local EXCEPT !.attributes = @ \cup Attach(w, Entity(counter, here, owns), counter + 1)],
           counter' = counter + 2
    PROVE  \E e, r : Structured(w, e, r) /\ e.owns = owns
<1>1. counter \in Nat /\ counter + 1 \in Nat /\ here \in Place
  BY TypeFacts, ConvertingFacts
<1>2. PICK e \in Thing : /\ e = Entity(counter, here, owns)
                         /\ e.var = counter /\ e.roles = <<>> /\ e.at = here /\ e.owns = owns
                         /\ e.ids = {}
  BY <1>1, ThingTypes
<1>3. PICK r \in Thing : /\ Attach(w, e, counter + 1) = {e, r}
                         /\ r.var = counter + 1 /\ r.at = e.at
                         /\ r.owns = {} /\ r.ids = {} /\ r.roles = <<{w}, {e.var}>>
  <2>1. PICK v \in Nat : v = counter + 1
    BY <1>1
  <2>2. PICK r \in Thing : Attaches(w, e, v, r)
    BY Attached
  <2>3. QED
    BY <2>1, <2>2 DEF Attaches
<1>4. r.roles = <<{w}, {counter}>> /\ r.at = here
  BY <1>2, <1>3
<1>5. local' = [local EXCEPT !.attributes = @ \cup {e, r}]
  BY <1>2, <1>3
<1>6. QED
  BY <1>2, <1>3, <1>4, <1>5 DEF Structured

LEMMA PairProduces ==
    ASSUME TypeInv, ConvertPair
    PROVE  /\ UNCHANGED Unconverted /\ ElementDone /\ AtElement("pairs") /\ Converting
           /\ \E e, r : Structured(Owner, e, r) /\ e.owns = {[at |-> here, as |-> "ok"]}
<1>1. UNCHANGED Unconverted /\ ElementDone /\ AtElement("pairs") /\ Converting
  BY DEF ConvertPair, Unconverted, ElementDone, NextElement, AtElement
<1>2. /\ local' = [local EXCEPT !.attributes = @ \cup Attach(Owner, Entity(counter, here, {[at |-> here, as |-> "ok"]}), counter + 1)]
      /\ counter' = counter + 2
  BY DEF ConvertPair, Deal, Pair
<1>3. QED
  BY <1>1, <1>2, StructuredAdds, OwnerIsMain, HereStored

LEMMA ItemProduces ==
    ASSUME TypeInv, ConvertItem
    PROVE  /\ UNCHANGED Unconverted /\ ElementDone /\ AtElement("dictionary") /\ Converting
           /\ \E e, r : Structured(Owner, e, r) /\ e.owns = ItemValues
<1>1. /\ UNCHANGED Unconverted /\ ElementDone /\ AtElement("dictionary") /\ Converting
      /\ ItemOutcome(element) = "ok"
  BY DEF ConvertItem, Unconverted, ElementDone, NextElement, AtElement
<1>2. /\ local' = [local EXCEPT !.attributes = @ \cup Attach(Owner, Entity(counter, here, ItemValues), counter + 1)]
      /\ counter' = counter + 2
  BY DEF ConvertItem, Deal
<1>3. ItemValues \subseteq Stored
  BY <1>1, ItemsStored
<1>4. QED
  BY <1>1, <1>2, <1>3, StructuredAdds, OwnerIsMain

(* The entity of the composite value that is being converted.              *)
LEMMA OpenComposite ==
    ASSUME TypeInv, leaf # 0
    PROVE  /\ AtElement("composite") /\ Converting /\ element \in Seq(Leaf) /\ Len(element) \in Nat
           /\ composite[1] \in Thing /\ composite[1].var \in Nat
           /\ composite = <<composite[1]>> /\ Parts.open = {composite[1]}
<1>1. AtElement("composite") /\ composite # <<>>
  BY DEF TypeInv, LoopInv
<1>2. composite \in Seq(Thing) /\ Len(composite) <= 1
  BY DEF TypeInv, QueriesTypeOK
<1>3. Len(composite) = 1 /\ composite[1] \in Thing /\ composite = <<composite[1]>>
  BY <1>1, <1>2
<1>4. Parts.open = {composite[1]}
  BY <1>3 DEF Parts
<1>5. QED
  BY <1>1, <1>3, <1>4, ElementTypes DEF Thing

LEMMA LeafPairProduces ==
    ASSUME TypeInv, ConvertLeafPair
    PROVE  /\ UNCHANGED Unconverted /\ UNCHANGED <<elem, composite>>
           /\ leaf' = leaf + 1 /\ leaf \in Nat \ {0} /\ leaf <= Len(element) /\ Converting
           /\ AtElement("composite") /\ element[leaf] = [kind |-> "pair", value |-> "ok"]
           /\ \E e, r : Structured(composite[1].var, e, r) /\ e.owns = {[at |-> here, as |-> "ok"]}
<1>1. AtElement("composite") /\ leaf \in 1..Len(element)
  BY DEF ConvertLeafPair, AtLeaf
<1>2. leaf \in Nat \ {0} /\ leaf <= Len(element)
  <2>1. element \in Seq(Leaf)
    BY <1>1, ElementTypes
  <2>2. Len(element) \in Nat
    BY <2>1
  <2>3. QED
    BY <1>1, <2>2
<1>3. /\ UNCHANGED Unconverted /\ UNCHANGED <<elem, composite>>
      /\ leaf' = leaf + 1 /\ leaf <= Len(element) /\ Converting
      /\ element[leaf] = [kind |-> "pair", value |-> "ok"]
  BY <1>1, <1>2, OpenComposite DEF ConvertLeafPair, Unconverted
<1>4. /\ local' = [local EXCEPT !.attributes = @ \cup Attach(composite[1].var, Entity(counter, here, {[at |-> here, as |-> "ok"]}), counter + 1)]
      /\ counter' = counter + 2
  BY DEF ConvertLeafPair, Deal, Pair
<1>5. QED
  BY <1>1, <1>2, <1>3, <1>4, StructuredAdds, OpenComposite, HereStored

LEMMA EndProduces ==
    ASSUME TypeInv, EndComposite
    PROVE  /\ UNCHANGED Unconverted /\ ElementDone /\ AtElement("composite") /\ Converting
           /\ leaf \in Nat \ {0} /\ leaf > Len(element) /\ counter' = counter + 1
           /\ \E r \in Thing :
                /\ local' = [local EXCEPT !.attributes = @ \cup {composite[1], r}]
                /\ r.var = counter /\ r.roles = <<{Owner}, {composite[1].var}>>
                /\ r.at = composite[1].at /\ r.owns = {}
<1>1. AtElement("composite") /\ leaf > Len(element)
  BY DEF EndComposite
<1>2. element \in Seq(Leaf) /\ leaf \in Nat
  BY <1>1, ElementTypes DEF TypeInv, QueriesTypeOK
<1>3. leaf \in Nat \ {0}
  BY <1>1, <1>2
<1>4. /\ UNCHANGED Unconverted /\ ElementDone /\ Converting /\ counter' = counter + 1
  BY <1>1, <1>3, OpenComposite DEF EndComposite, Unconverted, ElementDone, NextElement, Deal
<1>5. PICK r \in Thing : /\ Attach(Owner, composite[1], counter) = {composite[1], r}
                         /\ r.var = counter /\ r.roles = <<{Owner}, {composite[1].var}>>
                         /\ r.at = composite[1].at /\ r.owns = {}
  <2>1. PICK e \in Thing : e = composite[1]
    BY <1>3, <1>4, OpenComposite
  <2>2. PICK w \in Nat : w = Owner
    BY <1>4, OwnerIsMain
  <2>3. PICK v \in Nat : v = counter
    BY TypeFacts
  <2>4. PICK r \in Thing : Attaches(w, e, v, r)
    BY Attached
  <2>5. QED
    BY <2>1, <2>2, <2>3, <2>4 DEF Attaches
<1>6. local' = [local EXCEPT !.attributes = @ \cup {composite[1], r}]
  BY <1>5 DEF EndComposite
<1>7. QED
  BY <1>1, <1>3, <1>4, <1>5, <1>6

(* A reference: both ends are matched by id, under variables of their own. *)
LEMMA ReferenceProduces ==
    ASSUME TypeInv, ConvertReference
    PROVE  /\ UNCHANGED Unconverted /\ ElementDone /\ AtElement("reference") /\ Converting
           /\ counter' = counter + 3 /\ element \in Known
           /\ \E x, y, r \in Thing :
                /\ x.var = counter /\ x.roles = <<>> /\ x.at = here /\ x.ids = {element}
                /\ y.var = counter + 1 /\ y.roles = <<>> /\ y.at = MainPlace /\ y.ids = {stix.id}
                /\ r.var = counter + 2 /\ r.roles = <<{counter + 1}, {counter}>> /\ r.at = here
                /\ r.owns = {}
                /\ local' = [local EXCEPT !.embedded = [match |-> @.match \cup {x, y},
                                                        insert |-> @.insert \cup {r}]]
<1>1. /\ UNCHANGED Unconverted /\ ElementDone /\ AtElement("reference") /\ Converting
      /\ counter' = counter + 3 /\ element \in Known
  BY DEF ConvertReference, Unconverted, ElementDone, NextElement, AtElement, Deal
<1>2. /\ counter \in Nat /\ counter + 1 \in Nat /\ counter + 2 \in Nat /\ here \in Place
      /\ element \in Id /\ MainPlace \in Place
  <2>1. counter \in Nat
    BY TypeFacts
  <2>2. here \in Place
    BY <1>1, ConvertingFacts
  <2>3. element \in Id
    BY <1>1, ElementTypes
  <2>4. MainPlace \in Place
    BY DEF MainPlace, Place
  <2>5. QED
    BY <2>1, <2>2, <2>3, <2>4
<1>3. stix.id \in Id
  BY <1>1, ConvertingFacts, TypeFacts DEF STIXObject
<1>4. PICK x \in Thing : /\ x = Match(counter, here, element)
                         /\ x.var = counter /\ x.roles = <<>> /\ x.at = here /\ x.ids = {element}
  BY <1>2, ThingTypes
<1>5. PICK y \in Thing : /\ y = Match(counter + 1, MainPlace, stix.id)
                         /\ y.var = counter + 1 /\ y.roles = <<>> /\ y.at = MainPlace
                         /\ y.ids = {stix.id}
  BY <1>2, <1>3, ThingTypes
<1>6. PICK roles \in Seq(SUBSET Nat) : roles = <<{counter + 1}, {counter}>>
  BY <1>2, TwoRoles
<1>7. PICK r \in Thing : /\ r = Relation(counter + 2, here, roles)
                         /\ r.var = counter + 2 /\ r.roles = roles
                         /\ r.at = here /\ r.owns = {}
  BY <1>2, ThingTypes
<1>8. local' = [local EXCEPT !.embedded = [match |-> @.match \cup {x, y},
                                           insert |-> @.insert \cup {r}]]
  BY <1>4, <1>5, <1>6, <1>7 DEF ConvertReference
<1>9. QED
  BY <1>1, <1>4, <1>5, <1>6, <1>7, <1>8

(***************************************************************************)
(* The role players of a relationship.                                     *)
(***************************************************************************)
LEMMA RolesAreProperties ==
    ASSUME NEW o \in Object
    PROVE  /\ T!Roles(o) = {i \in 1..Len(Content[o].props) : Content[o].props[i].kind = "role"}
           /\ T!Roles(o) \in SUBSET Nat /\ IsFiniteSet(T!Roles(o))
           /\ \A i \in T!Roles(o) : /\ Content[o].props[i].elems \in Seq(Id)
                                    /\ Len(Content[o].props[i].elems) \in Nat
<1>1. PICK ps \in Seq(Property) : ps = Content[o].props
  BY SectionTypes
<1>2. /\ AbstractContent[o].props = AbstractProperties(ps)
      /\ Len(AbstractProperties(ps)) = Len(ps) /\ Len(ps) \in Nat
      /\ \A i \in 1..Len(ps) : AbstractProperties(ps)[i] = AbstractProperty(ps[i])
  BY <1>1, AbstractFields, AbstractLength
<1>3. \A i \in 1..Len(ps) : AbstractProperty(ps[i]).kind = "role" <=> ps[i].kind = "role"
  BY DEF AbstractProperty
<1>4. T!Roles(o) = {i \in 1..Len(ps) : ps[i].kind = "role"}
  BY <1>2, <1>3 DEF T!Roles
<1>5. IsFiniteSet(T!Roles(o))
  <2>1. IsFiniteSet(1..Len(ps))
    BY <1>2, FS_Interval
  <2>2. QED
    BY <1>4, <2>1, FS_Subset
<1>6. ASSUME NEW i \in T!Roles(o)
      PROVE  ps[i].elems \in Seq(Id) /\ Len(ps[i].elems) \in Nat
  <2>1. ps[i] \in Property /\ ps[i].kind = "role"
    BY <1>4, <1>6
  <2>2. ps[i].elems \in Seq(Id)
    BY <2>1 DEF Property
  <2>3. QED
    BY <2>2
<1>7. T!Roles(o) \in SUBSET Nat
  BY <1>2, <1>4
<1>8. QED
  BY <1>1, <1>4, <1>5, <1>6, <1>7

LEMMA PlayerTypes ==
    ASSUME NEW o \in Object, NEW x \in Players(o)
    PROVE  /\ x[1] \in T!Roles(o) /\ x[1] \in Nat /\ x[2] \in Nat /\ x = <<x[1], x[2]>>
           /\ x[2] \in 1..Len(Content[o].props[x[1]].elems)
           /\ PlayerId(o, x) \in Id /\ <<"props", x[1], x[2], 0>> \in Place
<1>1. PICK i \in T!Roles(o) : x \in {i} \X (1..Len(Content[o].props[i].elems))
  BY DEF Players
<1>2. PICK j \in 1..Len(Content[o].props[i].elems) : x = <<i, j>>
  BY <1>1
<1>3. /\ i \in Nat /\ Content[o].props[i].elems \in Seq(Id)
      /\ Len(Content[o].props[i].elems) \in Nat
  BY RolesAreProperties
<1>4. j \in Nat /\ PlayerId(o, x) \in Id
  BY <1>2, <1>3 DEF PlayerId
<1>5. <<"props", i, j, 0>> \in Place
  BY <1>3, <1>4 DEF Place
<1>6. QED
  BY <1>2, <1>3, <1>4, <1>5

LEMMA PlayersFinite == ASSUME NEW o \in Object PROVE IsFiniteSet(Players(o))
<1>1. PICK f : f = [i \in T!Roles(o) |-> {i} \X (1..Len(Content[o].props[i].elems))]
  OBVIOUS
<1>2. f \in [T!Roles(o) -> {f[i] : i \in T!Roles(o)}]
  BY <1>1
<1>3. IsFiniteSet({f[i] : i \in T!Roles(o)})
  BY <1>2, RolesAreProperties, ImageFinite
<1>4. ASSUME NEW P \in {f[i] : i \in T!Roles(o)} PROVE IsFiniteSet(P)
  <2>1. PICK i \in T!Roles(o) : P = {i} \X (1..Len(Content[o].props[i].elems))
    BY <1>1
  <2>2. PICK m \in Nat : m = Len(Content[o].props[i].elems)
    BY RolesAreProperties
  <2>3. IsFiniteSet({i}) /\ IsFiniteSet(1..m)
    <3>1. IsFiniteSet(1..m)
      BY FS_Interval
    <3>2. IsFiniteSet({i})
      BY FS_Singleton
    <3>3. QED
      BY <3>1, <3>2
  <2>4. QED
    BY <2>1, <2>2, <2>3, FS_Product
<1>5. Players(o) = UNION {f[i] : i \in T!Roles(o)}
  BY <1>1 DEF Players
<1>6. QED
  BY <1>3, <1>4, <1>5, FS_UNION

(* Each has a variable of its own, after that of the relation.             *)
LEMMA PlayerVariables ==
    ASSUME NEW o \in Object, counter \in Nat
    PROVE  /\ Cardinality(Players(o)) \in Nat
           /\ \A x \in Players(o) : /\ PlayerVar(o, x) \in Nat /\ PlayerVar(o, x) > counter
                                    /\ PlayerVar(o, x) < counter + 1 + Cardinality(Players(o))
           /\ \A x, y \in Players(o) : PlayerVar(o, x) = PlayerVar(o, y) => x = y
<1>0. \A x \in Players(o) : x[1] \in Nat /\ x[2] \in Nat
  BY PlayerTypes
<1>1. Cardinality(Players(o)) \in Nat
  BY PlayersFinite, FS_CardinalityType
<1>2. ASSUME NEW x \in Players(o)
      PROVE  /\ UpTo(o, x) \subseteq Players(o) /\ x \in UpTo(o, x) /\ IsFiniteSet(UpTo(o, x))
             /\ Cardinality(UpTo(o, x)) \in Nat \ {0}
             /\ Cardinality(UpTo(o, x)) <= Cardinality(Players(o))
  <2>1. UpTo(o, x) \subseteq Players(o) /\ x \in UpTo(o, x)
    BY <1>0 DEF UpTo
  <2>2. /\ IsFiniteSet(UpTo(o, x)) /\ Cardinality(UpTo(o, x)) \in Nat
        /\ Cardinality(UpTo(o, x)) <= Cardinality(Players(o))
    BY <2>1, PlayersFinite, FS_Subset, FS_CardinalityType
  <2>3. Cardinality(UpTo(o, x)) # 0
    BY <2>1, <2>2, FS_EmptySet
  <2>4. QED
    BY <2>1, <2>2, <2>3
<1>3. ASSUME NEW x \in Players(o)
      PROVE  /\ PlayerVar(o, x) \in Nat /\ PlayerVar(o, x) > counter
             /\ PlayerVar(o, x) < counter + 1 + Cardinality(Players(o))
  BY <1>1, <1>2 DEF PlayerVar
<1>4. ASSUME NEW x \in Players(o), NEW y \in Players(o),
             x[1] < y[1] \/ (x[1] = y[1] /\ x[2] < y[2])
      PROVE  PlayerVar(o, x) < PlayerVar(o, y)
  <2>1. UpTo(o, x) \subseteq UpTo(o, y) /\ y \notin UpTo(o, x)
    BY <1>0, <1>4 DEF UpTo
  <2>2. UpTo(o, x) # UpTo(o, y) /\ IsFiniteSet(UpTo(o, y))
    BY <1>2, <2>1
  <2>3. Cardinality(UpTo(o, x)) < Cardinality(UpTo(o, y))
    <3>1. PICK X, Y : X = UpTo(o, x) /\ Y = UpTo(o, y)
      OBVIOUS
    <3>2. X \subseteq Y /\ X # Y /\ IsFiniteSet(Y)
      BY <2>1, <2>2, <3>1
    <3>3. Cardinality(X) < Cardinality(Y)
      <4>1. Cardinality(X) <= Cardinality(Y) /\ (Cardinality(X) = Cardinality(Y) => X = Y)
        BY <3>2, FS_Subset
      <4>2. Cardinality(X) \in Nat /\ Cardinality(Y) \in Nat
        BY <1>2, <3>1
      <4>3. QED
        BY <3>2, <4>1, <4>2
    <3>4. QED
      BY <3>1, <3>3
  <2>4. QED
    BY <1>2, <2>3 DEF PlayerVar
<1>5. ASSUME NEW x \in Players(o), NEW y \in Players(o), PlayerVar(o, x) = PlayerVar(o, y)
      PROVE  x = y
  <2>1. ~(x[1] < y[1] \/ (x[1] = y[1] /\ x[2] < y[2]))
    BY <1>3, <1>4, <1>5
  <2>2. ~(y[1] < x[1] \/ (y[1] = x[1] /\ y[2] < x[2]))
    BY <1>3, <1>4, <1>5
  <2>3. /\ x[1] \in Nat /\ x[2] \in Nat /\ x = <<x[1], x[2]>>
        /\ y[1] \in Nat /\ y[2] \in Nat /\ y = <<y[1], y[2]>>
    BY PlayerTypes
  <2>4. x[1] = y[1] /\ x[2] = y[2]
    BY <2>1, <2>2, <2>3
  <2>5. QED
    BY <2>3, <2>4
<1>6. QED
  BY <1>1, <1>3, <1>5

(* The main relation, played by the matched role players.                  *)
LEMMA RelationIsPlayed ==
    ASSUME NEW o \in Object, counter \in Nat
    PROVE  /\ RolesOf(o) \in Seq(SUBSET Nat)
           /\ \A i \in 1..Len(RolesOf(o)) : RolesOf(o)[i] \subseteq {PlayerVar(o, x) : x \in Players(o)}
<1> DEFINE before(i) == Cardinality({j \in T!Roles(o) : j <= i})
           role(n) == CHOOSE i \in T!Roles(o) : before(i) = n
<1>1. PICK m \in Nat : m = Cardinality(T!Roles(o))
  BY RolesAreProperties, FS_CardinalityType
<1>2. PICK f : f = [n \in 1..m |-> {PlayerVar(o, x) : x \in {y \in Players(o) : y[1] = role(n)}}]
  OBVIOUS
<1>3. RolesOf(o) = f
  BY <1>1, <1>2 DEF RolesOf
<1> HIDE DEF role
<1>4. ASSUME NEW n \in 1..m
      PROVE  f[n] \subseteq {PlayerVar(o, x) : x \in Players(o)} /\ f[n] \in SUBSET Nat
  <2>1. f[n] = {PlayerVar(o, x) : x \in {y \in Players(o) : y[1] = role(n)}}
    BY <1>2
  <2>2. f[n] \subseteq {PlayerVar(o, x) : x \in Players(o)}
    BY <2>1
  <2>3. \A x \in Players(o) : PlayerVar(o, x) \in Nat
    BY PlayerVariables
  <2>4. QED
    BY <2>2, <2>3
<1>5. f \in [1..m -> SUBSET Nat]
  BY <1>2, <1>4
<1>6. f \in Seq(SUBSET Nat) /\ Len(f) = m
  BY <1>5, FunctionIsSequence
<1>7. QED
  BY <1>3, <1>4, <1>6

(***************************************************************************)
(* Types and loops are kept by every step.                                 *)
(***************************************************************************)
LEMMA SameElement ==
    ASSUME NEW kind, UNCHANGED <<file, next, stage, prop, elem>>
    PROVE  AtElement(kind)' <=> AtElement(kind)
BY DEF AtElement, Converting, property, Sections, ExtensionProperties, Current

Types ==
    /\ stage \in {"read", "create", "main", "props", "ext", "order", "done", "raised"}
    /\ next \in 1..(Len(file) + 1)
    /\ prop \in Nat \ {0} /\ elem \in Nat \ {0} /\ leaf \in Nat /\ counter \in Nat
    /\ composite \in Seq(Thing) /\ Len(composite) <= 1
    /\ local \in Local /\ bundle \in BundleType
    /\ lists \in [1..3 -> Seq(Query)]
    /\ texts \in Seq(Seq(Query)) /\ Len(texts) <= 3

LEMMA TypesOK == QueriesTypeOK <=> Types
BY DEF QueriesTypeOK, Types, BundleType

LEMMA TypesOKNext == QueriesTypeOK' <=> Types'
BY DEF QueriesTypeOK, Types, BundleType

LEMMA LoopEntered ==
    ASSUME TypeInv, file' = file, NoElement, prop' \in Nat \ {0}, counter' \in Nat,
           stage' \in {"read", "create", "main", "props", "ext", "order", "done", "raised"},
           next' \in 1..(Len(file) + 1), bundle' \in BundleType,
           lists' \in [1..3 -> Seq(Query)], texts' \in Seq(Seq(Query)), Len(texts') <= 3,
           stage' \in {"create", "main", "props", "ext", "order"} => next' <= Len(file),
           stage' \in {"read", "create", "main"} => bundle' = EmptyBundle,
           stage' \in {"props", "ext"} => bundle'.main.insert # {}
    PROVE  TypeInv'
<1>1. /\ elem' = 1 /\ leaf' = 0 /\ composite' = <<>> /\ local' = NoLocal /\ file' \in Files
  BY DEF NoElement, TypeInv, LoopInv
<1>2. Types'
  <2>1. NoLocal \in Local
    BY Empties
  <2>2. <<>> \in Seq(Thing) /\ Len(<<>>) <= 1
    OBVIOUS
  <2>3. QED
    BY <1>1, <2>1, <2>2 DEF Types
<1>3. LoopInv'
  BY <1>1 DEF LoopInv
<1>4. QED
  BY <1>2, <1>3, TypesOKNext DEF TypeInv

LEMMA Converted ==
    ASSUME TypeInv, Converting, UNCHANGED Unconverted, ElementDone,
           local' \in Local, counter' \in Nat
    PROVE  TypeInv'
<1>1. /\ UNCHANGED <<file, next, stage, prop, bundle, lists, texts>>
      /\ elem' = elem + 1 /\ leaf' = 0 /\ composite' = <<>>
  BY DEF Unconverted, ElementDone
<1>2. Types'
  <2>1. Types
    BY TypesOK DEF TypeInv
  <2>2. elem + 1 \in Nat \ {0}
    BY <2>1 DEF Types
  <2>3. <<>> \in Seq(Thing) /\ Len(<<>>) <= 1
    OBVIOUS
  <2>4. QED
    BY <1>1, <2>1, <2>2, <2>3 DEF Types
<1>3. LoopInv'
  BY <1>1 DEF LoopInv, TypeInv, Converting
<1>4. QED
  BY <1>2, <1>3, TypesOKNext DEF TypeInv

LEMMA LeafConverted ==
    ASSUME TypeInv, AtElement("composite"), Converting, UNCHANGED Unconverted, elem' = elem,
           leaf' \in Nat \ {0}, NEW e \in Thing, composite' = <<e>>,
           local' \in Local, counter' \in Nat
    PROVE  TypeInv'
<1>1. UNCHANGED <<file, next, stage, prop, bundle, lists, texts>>
  BY DEF Unconverted
<1>2. composite' \in Seq(Thing) /\ Len(composite') = 1 /\ composite' # <<>>
  OBVIOUS
<1>3. Types'
  <2>1. Types
    BY TypesOK DEF TypeInv
  <2>2. QED
    BY <1>1, <1>2, <2>1 DEF Types
<1>4. AtElement("composite")'
  BY <1>1, SameElement
<1>5. LoopInv'
  BY <1>1, <1>2, <1>4 DEF LoopInv, TypeInv, Converting
<1>6. QED
  BY <1>3, <1>5, TypesOKNext DEF TypeInv

LEMMA LocalTypes ==
    ASSUME NEW l \in Local
    PROVE  /\ \A s \in SUBSET Stored : [l EXCEPT !.owns = @ \cup s] \in Local
           /\ \A s \in SUBSET Thing : [l EXCEPT !.attributes = @ \cup s] \in Local
           /\ \A c \in Clauses : [l EXCEPT !.embedded = c] \in Local
BY DEF Local

LEMMA AttributeType == TypeInv /\ ConvertAttribute => TypeInv'
<1> SUFFICES ASSUME TypeInv, ConvertAttribute PROVE TypeInv'
  OBVIOUS
<1>1. /\ Converting /\ UNCHANGED Unconverted /\ ElementDone /\ counter' = counter
      /\ local' = [local EXCEPT !.owns = @ \cup {[at |-> here, as |-> "ok"]}]
  BY DEF ConvertAttribute, AtElement, Unconverted, ElementDone, NextElement
<1>2. local' \in Local /\ counter' \in Nat
  BY <1>1, TypeFacts, LocalTypes, HereStored
<1>3. QED
  BY <1>1, <1>2, Converted

LEMMA BeginProduces ==
    ASSUME TypeInv, BeginComposite
    PROVE  /\ UNCHANGED Unconverted /\ AtElement("composite") /\ Converting /\ elem' = elem
           /\ leaf = 0 /\ leaf' = 1 /\ local' = local /\ counter' = counter + 1
           /\ \E e \in Thing : /\ composite' = <<e>> /\ e.var = counter /\ e.at = here
                               /\ e.owns = {} /\ e.ids = {} /\ e.roles = <<>>
<1>1. /\ UNCHANGED Unconverted /\ AtElement("composite") /\ Converting /\ elem' = elem
      /\ leaf = 0 /\ leaf' = 1 /\ local' = local /\ counter' = counter + 1
      /\ composite' = <<Entity(counter, here, {})>>
  BY DEF BeginComposite, AtElement, Unconverted, Deal
<1>2. counter \in Nat /\ here \in Place
  BY <1>1, TypeFacts, ConvertingFacts
<1>3. PICK e \in Thing : /\ e = Entity(counter, here, {}) /\ e.var = counter /\ e.at = here
                         /\ e.owns = {} /\ e.ids = {} /\ e.roles = <<>>
  BY <1>2, ThingTypes
<1>4. QED
  BY <1>1, <1>3

LEMMA LeafValueProduces ==
    ASSUME TypeInv, ConvertLeafValue
    PROVE  /\ UNCHANGED Unconverted /\ AtElement("composite") /\ Converting /\ elem' = elem
           /\ leaf \in Nat \ {0} /\ leaf <= Len(element) /\ leaf' = leaf + 1
           /\ element[leaf] = [kind |-> "value", value |-> "ok"]
           /\ local' = local /\ counter' = counter
           /\ \E e \in Thing : /\ composite' = <<e>>
                               /\ e = [composite[1] EXCEPT !.owns = @ \cup {[at |-> here, as |-> "ok"]}]
                               /\ e.var = composite[1].var /\ e.roles = composite[1].roles
                               /\ e.at = composite[1].at /\ e.ids = composite[1].ids
<1>1. /\ AtElement("composite") /\ leaf \in 1..Len(element)
      /\ element[leaf] = [kind |-> "value", value |-> "ok"]
      /\ composite' = [composite EXCEPT ![1].owns = @ \cup {[at |-> here, as |-> "ok"]}]
      /\ UNCHANGED Unconverted /\ elem' = elem /\ leaf' = leaf + 1
      /\ local' = local /\ counter' = counter
  BY DEF ConvertLeafValue, AtLeaf, Unconverted
<1>2. leaf \in Nat \ {0} /\ leaf <= Len(element)
  <2>1. element \in Seq(Leaf)
    BY <1>1, ElementTypes
  <2>2. Len(element) \in Nat
    BY <2>1
  <2>3. QED
    BY <1>1, <2>2
<1>3. PICK c \in Thing : c = composite[1] /\ composite = <<c>>
  BY <1>2, OpenComposite
<1>4. Converting
  BY <1>1 DEF AtElement
<1>5. PICK s \in SUBSET Stored : s = {[at |-> here, as |-> "ok"]}
  BY <1>4, HereStored
<1>6. PICK e : e = [c EXCEPT !.owns = @ \cup s]
  OBVIOUS
<1>7. e \in Thing /\ e.var = c.var /\ e.roles = c.roles /\ e.at = c.at /\ e.ids = c.ids
  BY <1>6 DEF Thing
<1>8. composite' = <<e>>
  <2>1. composite' = [<<c>> EXCEPT ![1].owns = @ \cup s]
    BY <1>1, <1>3, <1>5
  <2>2. [<<c>> EXCEPT ![1].owns = @ \cup s] = <<[c EXCEPT !.owns = @ \cup s]>>
    OBVIOUS
  <2>3. QED
    BY <1>6, <2>1, <2>2
<1>9. QED
  BY <1>1, <1>2, <1>3, <1>4, <1>5, <1>6, <1>7, <1>8

LEMMA StructuredType ==
    ASSUME TypeInv, NEW w, NEW e, NEW r, Structured(w, e, r)
    PROVE  local' \in Local /\ counter' \in Nat
<1>1. local \in Local /\ counter \in Nat
  BY TypeFacts
<1>2. PICK s \in SUBSET Thing : s = {e, r}
  BY DEF Structured
<1>3. local' = [local EXCEPT !.attributes = @ \cup s] /\ counter' = counter + 2
  BY <1>2 DEF Structured
<1>4. local' \in Local
  BY <1>1, <1>3, LocalTypes
<1>5. QED
  BY <1>1, <1>3, <1>4

LEMMA PairType == TypeInv /\ ConvertPair => TypeInv'
BY PairProduces, StructuredType, Converted

LEMMA ItemKeepsType == TypeInv /\ ConvertItem => TypeInv'
BY ItemProduces, StructuredType, Converted

LEMMA EndType == TypeInv /\ EndComposite => TypeInv'
<1> SUFFICES ASSUME TypeInv, EndComposite PROVE TypeInv'
  OBVIOUS
<1>1. /\ UNCHANGED Unconverted /\ ElementDone /\ Converting
      /\ leaf \in Nat \ {0} /\ counter' = counter + 1
  BY EndProduces
<1>2. PICK r \in Thing : local' = [local EXCEPT !.attributes = @ \cup {composite[1], r}]
  BY EndProduces
<1>3. PICK s \in SUBSET Thing : s = {composite[1], r}
  BY <1>1, OpenComposite
<1>4. local \in Local /\ counter \in Nat
  BY TypeFacts
<1>5. local' = [local EXCEPT !.attributes = @ \cup s]
  BY <1>2, <1>3
<1>6. local' \in Local
  BY <1>4, <1>5, LocalTypes
<1>7. counter' \in Nat
  BY <1>1, <1>4
<1>8. QED
  BY <1>1, <1>6, <1>7, Converted

LEMMA ReferenceType == TypeInv /\ ConvertReference => TypeInv'
<1> SUFFICES ASSUME TypeInv, ConvertReference PROVE TypeInv'
  OBVIOUS
<1>1. /\ UNCHANGED Unconverted /\ ElementDone /\ Converting /\ counter' = counter + 3
  BY ReferenceProduces
<1>2. PICK x, y, r \in Thing :
        local' = [local EXCEPT !.embedded = [match |-> @.match \cup {x, y},
                                             insert |-> @.insert \cup {r}]]
  BY ReferenceProduces
<1>3. PICK c : c = [match |-> local.embedded.match \cup {x, y},
                    insert |-> local.embedded.insert \cup {r}]
  OBVIOUS
<1>4. c \in Clauses
  BY <1>3, TypeFacts DEF Clauses
<1>5. local' = [local EXCEPT !.embedded = c]
  BY <1>2, <1>3
<1>6. local' \in Local /\ counter' \in Nat
  BY <1>1, <1>4, <1>5, LocalTypes, TypeFacts
<1>7. QED
  BY <1>1, <1>6, Converted

LEMMA LeafType == TypeInv /\ (BeginComposite \/ ConvertLeafValue \/ ConvertLeafPair) => TypeInv'
<1>1. ASSUME TypeInv, BeginComposite PROVE TypeInv'
  <2>1. counter + 1 \in Nat /\ local \in Local
    BY <1>1, TypeFacts
  <2>2. QED
    BY <1>1, <2>1, BeginProduces, LeafConverted
<1>2. ASSUME TypeInv, ConvertLeafValue PROVE TypeInv'
  <2>1. counter \in Nat /\ local \in Local
    BY <1>2, TypeFacts
  <2>2. leaf + 1 \in Nat \ {0}
    BY <1>2, LeafValueProduces
  <2>3. QED
    BY <1>2, <2>1, <2>2, LeafValueProduces, LeafConverted
<1>3. ASSUME TypeInv, ConvertLeafPair PROVE TypeInv'
  <2>1. /\ UNCHANGED Unconverted /\ UNCHANGED <<elem, composite>>
        /\ leaf' = leaf + 1 /\ leaf \in Nat \ {0} /\ Converting /\ AtElement("composite")
    BY <1>3, LeafPairProduces
  <2>2. local' \in Local /\ counter' \in Nat
    BY <1>3, LeafPairProduces, StructuredType
  <2>3. PICK e \in Thing : composite = <<e>>
    BY <1>3, <2>1, OpenComposite
  <2>4. leaf' \in Nat \ {0}
    BY <2>1
  <2>5. QED
    BY <1>3, <2>1, <2>2, <2>3, <2>4, LeafConverted
<1>4. QED
  BY <1>1, <1>2, <1>3

LEMMA SkipType ==
    ASSUME TypeInv, Skip, UNCHANGED <<file, texts>>, next <= Len(file), counter' \in Nat,
           lists' \in [1..3 -> Seq(Query)]
    PROVE  TypeInv'
<1>1. /\ next' = next + 1 /\ bundle' = EmptyBundle /\ stage' = "read" /\ prop' = 1 /\ NoElement
  BY DEF Skip, Enter
<1>2. next + 1 \in 1..(Len(file) + 1)
  BY TypeFacts
<1>3. texts \in Seq(Seq(Query)) /\ Len(texts) <= 3
  BY TypesOK DEF TypeInv, Types
<1>4. EmptyBundle \in BundleType
  BY Empties
<1>5. QED
  BY <1>1, <1>2, <1>3, <1>4, LoopEntered

(* A stage is entered with the bundle as it is.                            *)
LEMMA StageType ==
    ASSUME TypeInv, NEW s \in {"create", "main", "ext", "order", "done", "raised"}, Enter(s),
           UNCHANGED <<file, next, counter, bundle, lists, texts>>,
           s \in {"create", "main"} => bundle = EmptyBundle,
           s = "ext" => stage = "props", s \notin {"done", "raised"} => next <= Len(file)
    PROVE  TypeInv'
<1>1. stage' = s /\ prop' = 1 /\ NoElement
  BY DEF Enter
<1>2. /\ next \in 1..(Len(file) + 1) /\ counter \in Nat /\ bundle \in BundleType
      /\ lists \in [1..3 -> Seq(Query)] /\ texts \in Seq(Seq(Query)) /\ Len(texts) <= 3
  BY TypesOK DEF TypeInv, Types
<1>3. stage \in {"props", "ext"} => bundle.main.insert # {}
  BY DEF TypeInv, LoopInv
<1>4. QED
  BY <1>1, <1>2, <1>3, LoopEntered

(***************************************************************************)
(* What becomes of the bundle.                                             *)
(***************************************************************************)
LEMMA EntityAdded ==
    ASSUME TypeInv, AddMainEntity
    PROVE  /\ stage = "main" /\ bundle = EmptyBundle /\ next <= Len(file)
           /\ Enter("props") /\ counter' = counter + 1 /\ UNCHANGED <<file, next, lists, texts>>
           /\ bundle' \in BundleType /\ bundle'.marking = "entity"
           /\ bundle'.attributes = {} /\ bundle'.embedded = NoClauses /\ bundle'.main.match = {}
           /\ \E e \in Thing : /\ bundle'.main.insert = {e} /\ e.var = counter /\ e.at = MainPlace
                               /\ e.owns = {} /\ e.roles = <<>>
<1>1. /\ stage = "main" /\ Enter("props") /\ counter' = counter + 1
      /\ UNCHANGED <<file, next, lists, texts>>
      /\ bundle' = [bundle EXCEPT !.marking = "entity",
                                  !.main.insert = {Entity(counter, MainPlace, {})}]
  BY DEF AddMainEntity, Deal
<1>2. bundle = EmptyBundle /\ next <= Len(file)
  BY <1>1 DEF TypeInv, LoopInv
<1>3. MainPlace \in Place /\ counter \in Nat
  BY TypeFacts DEF MainPlace, Place
<1>4. PICK e \in Thing : /\ e = Entity(counter, MainPlace, {}) /\ e.var = counter /\ e.at = MainPlace
                         /\ e.owns = {} /\ e.roles = <<>>
  BY <1>3, ThingTypes
<1>5. PICK b \in BundleType : b = bundle
  BY TypeFacts
<1>6. PICK c : c = [b.main EXCEPT !.insert = {e}]
  OBVIOUS
<1>7. b.main \in Clauses /\ b.main = NoClauses
  BY <1>2, <1>5, Empties
<1>8. c \in Clauses /\ c.match = b.main.match /\ c.insert = {e}
  BY <1>6, <1>7 DEF Clauses
<1>9. bundle' = [b EXCEPT !.marking = "entity", !.main = c]
  BY <1>1, <1>4, <1>5, <1>6
<1>10. /\ bundle' \in BundleType /\ bundle'.marking = "entity" /\ bundle'.main = c
       /\ bundle'.attributes = b.attributes /\ bundle'.embedded = b.embedded
  BY <1>8, <1>9 DEF BundleType
<1>11. b.main.match = {} /\ b.attributes = {} /\ b.embedded = NoClauses
  BY <1>2, <1>5, <1>7, Empties
<1>12. QED
  BY <1>1, <1>2, <1>4, <1>8, <1>10, <1>11

LEMMA RelationAdded ==
    ASSUME TypeInv, AddMainRelation
    PROVE  /\ stage = "main" /\ bundle = EmptyBundle /\ next <= Len(file) /\ Current \in Object
           /\ Enter("props") /\ counter' = counter + 1 + Cardinality(Players(Current))
           /\ Cardinality(Players(Current)) \in Nat /\ UNCHANGED <<file, next, lists, texts>>
           /\ bundle' \in BundleType /\ bundle'.marking = "relation"
           /\ bundle'.attributes = {} /\ bundle'.embedded = NoClauses
           /\ \A t \in bundle'.main.match : \E x \in Players(Current) :
                t = Match(PlayerVar(Current, x), <<"props", x[1], x[2], 0>>, PlayerId(Current, x))
                /\ t.var = PlayerVar(Current, x)
           /\ \A x \in Players(Current) : PlayerVar(Current, x) \in Variables(bundle'.main.match)
           /\ Matched(bundle'.main.match) = {PlayerId(Current, x) : x \in Players(Current)}
           /\ \E e \in Thing : /\ bundle'.main.insert = {e} /\ e.var = counter /\ e.at = MainPlace
                               /\ e.owns = {} /\ e.roles = RolesOf(Current)
<1>1. /\ stage = "main" /\ Enter("props") /\ counter' = counter + (1 + Cardinality(Players(Current)))
      /\ UNCHANGED <<file, next, lists, texts>>
      /\ bundle' = [bundle EXCEPT
            !.marking = "relation",
            !.main = [match |-> {Match(PlayerVar(Current, x), <<"props", x[1], x[2], 0>>, PlayerId(Current, x)) :
                                    x \in Players(Current)},
                      insert |-> {Relation(counter, MainPlace, RolesOf(Current))}]]
  BY DEF AddMainRelation, Deal
<1>2. bundle = EmptyBundle /\ next <= Len(file)
  BY <1>1 DEF TypeInv, LoopInv
<1>3. MainPlace \in Place /\ counter \in Nat /\ Current \in Object
  BY <1>2, TypeFacts DEF MainPlace, Place
<1>4. RolesOf(Current) \in Seq(SUBSET Nat) /\ Cardinality(Players(Current)) \in Nat
  BY <1>3, RelationIsPlayed, PlayerVariables
<1>5. PICK e \in Thing : /\ e = Relation(counter, MainPlace, RolesOf(Current)) /\ e.var = counter
                         /\ e.at = MainPlace /\ e.owns = {} /\ e.roles = RolesOf(Current)
  BY <1>3, <1>4, ThingTypes
<1>6. ASSUME NEW x \in Players(Current)
      PROVE  \E t \in Thing :
                /\ t = Match(PlayerVar(Current, x), <<"props", x[1], x[2], 0>>, PlayerId(Current, x))
                /\ t.var = PlayerVar(Current, x) /\ t.ids = {PlayerId(Current, x)}
  <2>1. PICK v \in Nat : v = PlayerVar(Current, x)
    BY <1>3, PlayerVariables
  <2>2. PICK at \in Place : at = <<"props", x[1], x[2], 0>>
    BY <1>3, PlayerTypes
  <2>3. PICK id \in Id : id = PlayerId(Current, x)
    BY <1>3, PlayerTypes
  <2>4. Match(v, at, id) \in Thing /\ Match(v, at, id).var = v /\ Match(v, at, id).ids = {id}
    BY ThingTypes
  <2>5. QED
    BY <2>1, <2>2, <2>3, <2>4
<1>7. PICK M : M = {Match(PlayerVar(Current, x), <<"props", x[1], x[2], 0>>, PlayerId(Current, x)) :
                        x \in Players(Current)}
  OBVIOUS
<1>8. /\ M \subseteq Thing
      /\ \A t \in M : \E x \in Players(Current) :
            t = Match(PlayerVar(Current, x), <<"props", x[1], x[2], 0>>, PlayerId(Current, x))
            /\ t.var = PlayerVar(Current, x)
      /\ \A x \in Players(Current) : PlayerVar(Current, x) \in Variables(M)
  BY <1>6, <1>7 DEF Variables
<1>9. Matched(M) = {PlayerId(Current, x) : x \in Players(Current)}
  <2>1. \A t \in M : \E x \in Players(Current) : t.ids = {PlayerId(Current, x)}
    BY <1>6, <1>7
  <2>2. \A x \in Players(Current) : \E t \in M : t.ids = {PlayerId(Current, x)}
    BY <1>6, <1>7
  <2>3. \A i : i \in Matched(M) <=> \E t \in M : i \in t.ids
    BY DEF Matched
  <2>4. \A i : i \in Matched(M) <=> \E x \in Players(Current) : i = PlayerId(Current, x)
    BY <2>1, <2>2, <2>3
  <2>5. QED
    BY <2>4
<1>10. PICK c : c = [match |-> M, insert |-> {e}]
  OBVIOUS
<1>11. c \in Clauses /\ c.match = M /\ c.insert = {e}
  BY <1>8, <1>10 DEF Clauses
<1>12. PICK b \in BundleType : b = bundle
  BY TypeFacts
<1>13. bundle' = [b EXCEPT !.marking = "relation", !.main = c]
  BY <1>1, <1>5, <1>7, <1>10, <1>12
<1>14. /\ bundle' \in BundleType /\ bundle'.marking = "relation" /\ bundle'.main = c
       /\ bundle'.attributes = b.attributes /\ bundle'.embedded = b.embedded
  BY <1>11, <1>13 DEF BundleType
<1>15. b.attributes = {} /\ b.embedded = NoClauses
  BY <1>2, <1>12, Empties
<1>16. counter' = counter + 1 + Cardinality(Players(Current))
  BY <1>1, <1>3, <1>4
<1>17. QED
  BY <1>1, <1>2, <1>3, <1>4, <1>5, <1>8, <1>9, <1>11, <1>14, <1>15, <1>16

(* The main things have got the values of the property.                    *)
Owning(s, t) == [t EXCEPT !.owns = @ \cup s]

LEMMA OwningType ==
    ASSUME NEW s \in SUBSET Stored, NEW t \in Thing
    PROVE  /\ Owning(s, t) \in Thing /\ Owning(s, t).var = t.var /\ Owning(s, t).at = t.at
           /\ Owning(s, t).ids = t.ids /\ Owning(s, t).roles = t.roles
           /\ Owning(s, t).owns = t.owns \cup s
BY DEF Owning, Thing

LEMMA PropertyAdds ==
    ASSUME TypeInv, PropertyDone
    PROVE  /\ Converting /\ leaf = 0 /\ composite = <<>> /\ NoElement /\ prop' = prop + 1
           /\ UNCHANGED <<file, next, stage, counter, lists, texts>>
           /\ bundle' \in BundleType /\ bundle'.marking = bundle.marking
           /\ bundle'.main.match = bundle.main.match
           /\ bundle'.main.insert = {Owning(local.owns, t) : t \in bundle.main.insert}
           /\ bundle'.attributes = bundle.attributes \cup local.attributes
           /\ bundle'.embedded.match = bundle.embedded.match \cup local.embedded.match
           /\ bundle'.embedded.insert = bundle.embedded.insert \cup local.embedded.insert
<1>1. /\ Converting /\ (elem > Len(property.elems) \/ property.kind = "role")
      /\ NoElement /\ prop' = prop + 1
      /\ UNCHANGED <<file, next, stage, counter, lists, texts>>
      /\ bundle' = [bundle EXCEPT
            !.main.insert = {[t EXCEPT !.owns = @ \cup local.owns] : t \in @},
            !.attributes = @ \cup local.attributes,
            !.embedded = Extended(@, local.embedded)]
  BY DEF PropertyDone
<1>2. ~AtElement("composite")
  <2>1. ASSUME AtElement("composite") PROVE FALSE
    <3>1. elem \in 1..Len(property.elems) /\ Len(property.elems) \in Nat /\ property.kind = "composite"
      BY <2>1, ElementTypes DEF AtElement
    <3>2. QED
      BY <1>1, <3>1
  <2>2. QED
    BY <2>1
<1>3. leaf = 0 /\ composite = <<>>
  BY <1>2 DEF TypeInv, LoopInv
<1>4. PICK b \in BundleType : b = bundle
  BY TypeFacts
<1>5. PICK l \in Local : l = local
  BY TypeFacts
<1>6. /\ b.main \in Clauses /\ b.embedded \in Clauses /\ l.embedded \in Clauses
      /\ b.attributes \in SUBSET Thing /\ l.attributes \in SUBSET Thing
      /\ l.owns \in SUBSET Stored /\ b.main.insert \in SUBSET Thing
  BY <1>4, <1>5, TypeFacts
<1>7. PICK I : I = {Owning(l.owns, t) : t \in b.main.insert}
  OBVIOUS
<1>8. I \in SUBSET Thing
  <2>1. \A t \in b.main.insert : Owning(l.owns, t) \in Thing
    BY <1>6, OwningType
  <2>2. QED
    BY <1>7, <2>1
<1>9. PICK c : c = [b.main EXCEPT !.insert = I]
  OBVIOUS
<1>10. c \in Clauses /\ c.match = b.main.match /\ c.insert = I
  BY <1>6, <1>8, <1>9 DEF Clauses
<1>11. PICK s : s = b.attributes \cup l.attributes
  OBVIOUS
<1>12. PICK x : x = Extended(b.embedded, l.embedded)
  OBVIOUS
<1>13. /\ x \in Clauses /\ x.match = b.embedded.match \cup l.embedded.match
       /\ x.insert = b.embedded.insert \cup l.embedded.insert
  BY <1>6, <1>12 DEF Extended, Clauses
<1>14. bundle' = [b EXCEPT !.main = c, !.attributes = s, !.embedded = x]
  BY <1>1, <1>4, <1>5, <1>7, <1>9, <1>11, <1>12 DEF Owning
<1>15. s \in SUBSET Thing
  BY <1>6, <1>11
<1>16. /\ bundle' \in BundleType /\ bundle'.marking = b.marking /\ bundle'.main = c
       /\ bundle'.attributes = s /\ bundle'.embedded = x
  BY <1>10, <1>13, <1>14, <1>15 DEF BundleType
<1>17. QED
  BY <1>1, <1>3, <1>4, <1>5, <1>7, <1>10, <1>11, <1>13, <1>16

(***************************************************************************)
(* What becomes of the lists.                                              *)
(***************************************************************************)
LEMMA QueriesMade ==
    ASSUME TypeInv, next <= Len(file)
    PROVE  /\ bundle.marking # "" => MainQuery \in Query
           /\ EmbeddedQuery \in Query
           /\ MainQuery.obj = Current /\ MainQuery.part = bundle.marking
           /\ MainQuery.match = bundle.main.match
           /\ MainQuery.insert = bundle.main.insert \cup bundle.attributes
           /\ EmbeddedQuery.obj = Current /\ EmbeddedQuery.part = "embedded"
           /\ EmbeddedQuery.match = bundle.embedded.match
           /\ EmbeddedQuery.insert = bundle.embedded.insert
<1>1. /\ Current \in Object /\ bundle.main.match \subseteq Thing
      /\ bundle.main.insert \cup bundle.attributes \subseteq Thing
      /\ bundle.embedded.match \subseteq Thing /\ bundle.embedded.insert \subseteq Thing
  BY TypeFacts
<1>2. bundle.marking # "" => bundle.marking \in {"entity", "relation", "embedded"}
  BY TypeFacts DEF BundleType
<1>3. bundle.marking # "" => MainQuery \in Query
  BY <1>1, <1>2 DEF MainQuery, Query
<1>4. EmbeddedQuery \in Query
  BY <1>1 DEF EmbeddedQuery, Query
<1>5. QED
  BY <1>3, <1>4 DEF MainQuery, EmbeddedQuery

LEMMA OrderLists ==
    ASSUME TypeInv, Order
    PROVE  /\ lists' \in [1..3 -> Seq(Query)] /\ next <= Len(file) /\ Skip
           /\ UNCHANGED <<file, counter, texts>>
           /\ \A l \in 1..3 :
                \/ lists'[l] = lists[l]
                \/ (lists'[l] = Append(lists[l], EmbeddedQuery) /\ bundle.embedded.insert # {})
                \/ (lists'[l] = Append(lists[l], MainQuery) /\ bundle.marking # "")
<1>1. /\ stage = "order" /\ Skip /\ UNCHANGED <<file, counter, texts>>
      /\ lists' = <<IF bundle.marking = "entity" THEN Append(lists[1], MainQuery) ELSE lists[1],
                    IF bundle.marking = "relation" THEN Append(lists[2], MainQuery) ELSE lists[2],
                    IF bundle.embedded.insert # {} THEN Append(lists[3], EmbeddedQuery) ELSE lists[3]>>
  BY DEF Order
<1>2. next <= Len(file)
  BY <1>1 DEF TypeInv, LoopInv
<1>3. lists \in [1..3 -> Seq(Query)]
  BY TypesOK DEF TypeInv, Types
<1>4. PICK a : a = IF bundle.marking = "entity" THEN Append(lists[1], MainQuery) ELSE lists[1]
  OBVIOUS
<1>5. PICK b : b = IF bundle.marking = "relation" THEN Append(lists[2], MainQuery) ELSE lists[2]
  OBVIOUS
<1>6. PICK c : c = IF bundle.embedded.insert # {} THEN Append(lists[3], EmbeddedQuery) ELSE lists[3]
  OBVIOUS
<1>7. /\ a = lists[1] \/ (a = Append(lists[1], MainQuery) /\ bundle.marking # "")
      /\ b = lists[2] \/ (b = Append(lists[2], MainQuery) /\ bundle.marking # "")
      /\ c = lists[3] \/ (c = Append(lists[3], EmbeddedQuery) /\ bundle.embedded.insert # {})
  BY <1>4, <1>5, <1>6
<1>8. a \in Seq(Query) /\ b \in Seq(Query) /\ c \in Seq(Query)
  <2>1. lists[1] \in Seq(Query) /\ lists[2] \in Seq(Query) /\ lists[3] \in Seq(Query)
    BY <1>3
  <2>2. \A s \in Seq(Query), q \in Query : Append(s, q) \in Seq(Query)
    OBVIOUS
  <2>3. (bundle.marking # "" => MainQuery \in Query) /\ EmbeddedQuery \in Query
    BY <1>2, QueriesMade
  <2>4. QED
    BY <1>7, <2>1, <2>2, <2>3
<1>9. lists' = <<a, b, c>>
  BY <1>1, <1>4, <1>5, <1>6
<1>10. lists' \in [1..3 -> Seq(Query)]
  BY <1>8, <1>9
<1>11. lists'[1] = a /\ lists'[2] = b /\ lists'[3] = c
  BY <1>9
<1>12. ASSUME NEW l \in 1..3
       PROVE  \/ lists'[l] = lists[l]
              \/ (lists'[l] = Append(lists[l], EmbeddedQuery) /\ bundle.embedded.insert # {})
              \/ (lists'[l] = Append(lists[l], MainQuery) /\ bundle.marking # "")
  <2>1. CASE l = 1
    BY <1>7, <1>11, <2>1
  <2>2. CASE l = 2
    BY <1>7, <1>11, <2>2
  <2>3. CASE l = 3
    BY <1>7, <1>11, <2>3
  <2>4. l = 1 \/ l = 2 \/ l = 3
    OBVIOUS
  <2>5. QED
    BY <2>1, <2>2, <2>3, <2>4
<1>13. QED
  BY <1>1, <1>2, <1>10, <1>12

(* A printed thing has lost its last role.                                 *)
PrintedThing(t) == [t EXCEPT !.roles = SubSeq(@, 1, Len(@) - (IF @ = <<>> THEN 0 ELSE 1))]

LEMMA ShorterRoles ==
    ASSUME NEW s \in Seq(SUBSET Nat)
    PROVE  LET m == Len(s) - (IF s = <<>> THEN 0 ELSE 1)
           IN  /\ SubSeq(s, 1, m) \in Seq(SUBSET Nat) /\ Len(SubSeq(s, 1, m)) <= Len(s)
               /\ Len(SubSeq(s, 1, m)) \in Nat /\ Len(s) \in Nat
               /\ \A i \in 1..Len(SubSeq(s, 1, m)) : SubSeq(s, 1, m)[i] = s[i]
<1>1. Len(s) \in Nat /\ (s # <<>> => Len(s) >= 1)
  OBVIOUS
<1>2. PICK m : m = Len(s) - (IF s = <<>> THEN 0 ELSE 1)
  OBVIOUS
<1>3. m \in Nat /\ m <= Len(s)
  BY <1>1, <1>2
<1>4. /\ SubSeq(s, 1, m) \in Seq(SUBSET Nat) /\ Len(SubSeq(s, 1, m)) = m
      /\ \A i \in 1..m : SubSeq(s, 1, m)[i] = s[i]
  BY <1>1, <1>3
<1>5. QED
  BY <1>1, <1>2, <1>3, <1>4

LEMMA PrintedThingType ==
    ASSUME NEW t \in Thing
    PROVE  /\ PrintedThing(t) \in Thing /\ PrintedThing(t).var = t.var /\ PrintedThing(t).at = t.at
           /\ PrintedThing(t).owns = t.owns /\ PrintedThing(t).ids = t.ids
           /\ Len(PrintedThing(t).roles) \in Nat /\ Len(PrintedThing(t).roles) <= Len(t.roles)
           /\ \A i \in 1..Len(PrintedThing(t).roles) : PrintedThing(t).roles[i] = t.roles[i]
<1>1. PICK s \in Seq(SUBSET Nat) : s = t.roles
  BY DEF Thing
<1>2. PICK r : r = SubSeq(s, 1, Len(s) - (IF s = <<>> THEN 0 ELSE 1))
  OBVIOUS
<1>3. /\ r \in Seq(SUBSET Nat) /\ Len(r) \in Nat /\ Len(r) <= Len(s)
      /\ \A i \in 1..Len(r) : r[i] = s[i]
  BY <1>2, ShorterRoles
<1>4. PrintedThing(t) = [t EXCEPT !.roles = r]
  BY <1>1, <1>2 DEF PrintedThing
<1>5. /\ PrintedThing(t) \in Thing /\ PrintedThing(t).var = t.var /\ PrintedThing(t).at = t.at
      /\ PrintedThing(t).owns = t.owns /\ PrintedThing(t).ids = t.ids
      /\ PrintedThing(t).roles = r
  BY <1>3, <1>4 DEF Thing
<1>6. QED
  BY <1>1, <1>3, <1>5

LEMMA PrintedType ==
    ASSUME NEW q \in Query
    PROVE  /\ Printed(q) \in Query /\ Printed(q).obj = q.obj /\ Printed(q).part = q.part
           /\ Printed(q).match = q.match
           /\ Printed(q).insert = {PrintedThing(t) : t \in q.insert}
<1>1. PICK I : I = {PrintedThing(t) : t \in q.insert}
  OBVIOUS
<1>2. q.insert \subseteq Thing
  BY DEF Query
<1>3. I \subseteq Thing
  <2>1. \A t \in q.insert : PrintedThing(t) \in Thing
    BY <1>2, PrintedThingType
  <2>2. QED
    BY <1>1, <2>1
<1>4. Printed(q) = [q EXCEPT !.insert = I]
  BY <1>1 DEF Printed, PrintedThing
<1>5. QED
  BY <1>1, <1>3, <1>4 DEF Query

LEMMA PrintedListType ==
    ASSUME NEW s \in Seq(Query)
    PROVE  /\ PrintedList(s) \in Seq(Query) /\ Len(PrintedList(s)) = Len(s) /\ Len(s) \in Nat
           /\ \A i \in 1..Len(s) : PrintedList(s)[i] = Printed(s[i])
<1>1. PICK n \in Nat : n = Len(s)
  OBVIOUS
<1>2. \A i \in 1..n : Printed(s[i]) \in Query
  <2>1. \A i \in 1..n : s[i] \in Query
    BY <1>1
  <2>2. QED
    BY <2>1, PrintedType
<1>3. PICK f : f = [i \in 1..n |-> Printed(s[i])]
  OBVIOUS
<1>4. f \in [1..n -> Query]
  BY <1>2, <1>3
<1>5. f \in Seq(Query) /\ Len(f) = n
  BY <1>4, FunctionIsSequence
<1>6. PrintedList(s) = f
  BY <1>1, <1>3 DEF PrintedList
<1>7. QED
  BY <1>1, <1>3, <1>5, <1>6

LEMMA TextsBuilt ==
    ASSUME TypeInv, BuildTexts
    PROVE  \E l \in 1..3 :
                /\ l = Len(texts) + 1 /\ lists[l] \in Seq(Query)
                /\ texts' = Append(texts, lists[l])
                /\ lists' \in [1..3 -> Seq(Query)]
                /\ lists'[l] = PrintedList(lists[l])
                /\ \A j \in 1..3 : j # l => lists'[j] = lists[j]
                /\ texts' \in Seq(Seq(Query)) /\ Len(texts') <= 3
<1>1. /\ Len(texts) < 3
      /\ texts' = Append(texts, lists[Len(texts) + 1])
      /\ lists' = [lists EXCEPT ![Len(texts) + 1] = PrintedList(@)]
  BY DEF BuildTexts
<1>2. lists \in [1..3 -> Seq(Query)] /\ texts \in Seq(Seq(Query))
  BY TypesOK DEF TypeInv, Types
<1>3. PICK l \in 1..3 : l = Len(texts) + 1
  BY <1>1, <1>2
<1>4. lists[l] \in Seq(Query)
  BY <1>2
<1>5. PICK p : p = PrintedList(lists[l])
  OBVIOUS
<1>6. p \in Seq(Query)
  BY <1>4, <1>5, PrintedListType
<1>7. lists' = [lists EXCEPT ![l] = p]
  BY <1>1, <1>3, <1>5
<1>8. /\ lists' \in [1..3 -> Seq(Query)] /\ lists'[l] = p
      /\ \A j \in 1..3 : j # l => lists'[j] = lists[j]
  BY <1>2, <1>6, <1>7
<1>9. PICK s : s = lists[l]
  OBVIOUS
<1>10. texts' = Append(texts, s) /\ s \in Seq(Query)
  BY <1>1, <1>3, <1>4, <1>9
<1>11. texts' \in Seq(Seq(Query)) /\ Len(texts') <= 3
  BY <1>1, <1>2, <1>10
<1>12. QED
  BY <1>3, <1>4, <1>5, <1>8, <1>9, <1>10, <1>11

LEMMA TypesInitially == QueriesInit => TypeInv
<1> SUFFICES ASSUME QueriesInit PROVE TypeInv
  OBVIOUS
<1>1. /\ file \in Files /\ next = 1 /\ stage = "read" /\ prop = 1 /\ elem = 1 /\ leaf = 0
      /\ composite = <<>> /\ counter = 0 /\ local = NoLocal /\ bundle = EmptyBundle
      /\ lists = [l \in 1..3 |-> <<>>] /\ texts = <<>>
  BY DEF QueriesInit
<1>2. next \in 1..(Len(file) + 1)
  <2>1. file \in Seq(Object)
    BY <1>1, InsertQueriesAssumption
  <2>2. Len(file) \in Nat
    BY <2>1
  <2>3. QED
    BY <1>1, <2>2
<1>3. lists \in [1..3 -> Seq(Query)] /\ texts \in Seq(Seq(Query)) /\ Len(texts) <= 3
      /\ composite \in Seq(Thing) /\ Len(composite) <= 1
  <2>1. <<>> \in Seq(Query)
    OBVIOUS
  <2>2. lists \in [1..3 -> Seq(Query)]
    BY <1>1, <2>1
  <2>3. QED
    BY <1>1, <2>2
<1>4. Types
  <2>1. NoLocal \in Local /\ EmptyBundle \in BundleType
    BY Empties
  <2>2. QED
    BY <1>1, <1>2, <1>3, <2>1 DEF Types
<1>5. LoopInv
  BY <1>1 DEF LoopInv
<1>6. QED
  BY <1>4, <1>5, TypesOK DEF TypeInv

LEMMA FailureInside == TypeInv /\ (\E how : FailsNow(how)) => Converting /\ next <= Len(file)
<1> SUFFICES ASSUME TypeInv, NEW how, FailsNow(how) PROVE Converting /\ next <= Len(file)
  OBVIOUS
<1>1. Converting
  BY DEF FailsNow, AtLeaf, AtElement
<1>2. QED
  BY <1>1, ConvertingFacts

LEMMA Dropped ==
    ASSUME TypeInv, DropProperty
    PROVE  /\ Converting /\ NoElement /\ prop' = prop + 1 /\ counter' \in Nat /\ counter' >= counter
           /\ UNCHANGED <<file, next, stage, bundle, lists, texts>>
<1>1. /\ FailsNow("invalid") /\ Deal(Spent) /\ NoElement /\ prop' = prop + 1
      /\ UNCHANGED <<file, next, stage, bundle, lists, texts>>
  BY DEF DropProperty
<1>2. counter' = counter + Spent /\ Spent \in 0..1 /\ counter \in Nat
  BY <1>1, TypeFacts DEF Deal, Spent
<1>3. counter' \in Nat /\ counter' >= counter
  BY <1>2
<1>4. QED
  BY <1>1, <1>3, FailureInside

LEMMA Skipped ==
    ASSUME TypeInv, CreateRaises \/ AddMainRaises \/ DropObject
    PROVE  Skip /\ UNCHANGED <<file, lists, texts>> /\ next <= Len(file) /\ counter' \in Nat
<1>1. CASE CreateRaises
  <2>1. Skip /\ UNCHANGED <<file, counter, lists, texts>> /\ stage = "create"
    BY <1>1 DEF CreateRaises
  <2>2. next <= Len(file) /\ counter \in Nat
    BY <2>1, TypeFacts DEF TypeInv, LoopInv
  <2>3. QED
    BY <2>1, <2>2
<1>2. CASE AddMainRaises
  <2> DEFINE resolved == {x \in Players(Current) : \A y \in UpTo(Current, x) : PlayerId(Current, y) \in Known}
  <2>1. /\ Skip /\ UNCHANGED <<file, lists, texts>> /\ stage = "main"
        /\ counter' = counter + (IF T!TypeFound(Current) THEN 1 + Cardinality(resolved) ELSE 0)
    BY <1>2 DEF AddMainRaises, Deal
  <2>2. next <= Len(file) /\ counter \in Nat /\ Current \in Object
    BY <2>1, TypeFacts DEF TypeInv, LoopInv
  <2>3. resolved \subseteq Players(Current)
    OBVIOUS
  <2> HIDE DEF resolved
  <2>4. Cardinality(resolved) \in Nat
    BY <2>2, <2>3, PlayersFinite, FS_Subset, FS_CardinalityType
  <2>5. QED
    BY <2>1, <2>2, <2>4
<1>3. CASE DropObject
  <2>1. /\ FailsNow("fatal") \/ FailsNow("invalid")
        /\ Skip /\ UNCHANGED <<file, lists, texts>> /\ counter' = counter + Spent
    BY <1>3 DEF DropObject, Deal
  <2>2. Spent \in 0..1 /\ counter \in Nat
    BY TypeFacts DEF Spent
  <2>3. next <= Len(file)
    BY <2>1, FailureInside
  <2>4. QED
    BY <2>1, <2>2, <2>3
<1>4. QED
  BY <1>1, <1>2, <1>3

(* The steps that only go on to another stage.                             *)
StageEntered == \E s \in {"create", "main", "ext", "order", "done", "raised"} :
    /\ Enter(s)
    /\ UNCHANGED <<file, next, counter, bundle, lists, texts>>
    /\ s \in {"create", "main"} => bundle = EmptyBundle
    /\ s = "ext" => stage = "props"
    /\ s \notin {"done", "raised"} => next <= Len(file)

LEMMA Staged == TypeInv /\ (Read \/ Finish \/ Create \/ SectionDone) => StageEntered
<1> SUFFICES ASSUME TypeInv, Read \/ Finish \/ Create \/ SectionDone PROVE StageEntered
  OBVIOUS
<1>1. /\ stage \in {"create", "main", "props", "ext", "order"} => next <= Len(file)
      /\ stage \in {"read", "create", "main"} => bundle = EmptyBundle
  BY DEF TypeInv, LoopInv
<1>2. CASE Read
  <2>1. PICK s \in {"create", "raised"} : s = IF stix.read = "ok" THEN "create" ELSE "raised"
    OBVIOUS
  <2>2. /\ stage = "read" /\ next <= Len(file) /\ Enter(s)
        /\ UNCHANGED <<file, next, counter, bundle, lists, texts>>
    BY <1>2, <2>1 DEF Read
  <2>3. QED
    BY <1>1, <2>1, <2>2 DEF StageEntered
<1>3. CASE Finish
  BY <1>1, <1>3 DEF Finish, StageEntered
<1>4. CASE Create
  <2>1. PICK s \in {"order", "main"} : s = IF stix.class = "custom" THEN "order" ELSE "main"
    OBVIOUS
  <2>2. /\ stage = "create" /\ Enter(s) /\ UNCHANGED <<file, next, counter, bundle, lists, texts>>
    BY <1>4, <2>1 DEF Create
  <2>3. QED
    BY <1>1, <2>1, <2>2 DEF StageEntered
<1>5. CASE SectionDone
  <2>1. PICK s \in {"ext", "order"} : s = IF stage = "props" THEN "ext" ELSE "order"
    OBVIOUS
  <2>2. /\ stage \in {"props", "ext"} /\ Enter(s)
        /\ UNCHANGED <<file, next, counter, bundle, lists, texts>>
    BY <1>5, <2>1 DEF SectionDone
  <2>3. s = "ext" => stage = "props"
    BY <2>1
  <2>4. QED
    BY <1>1, <2>1, <2>2, <2>3 DEF StageEntered
<1>6. QED
  BY <1>2, <1>3, <1>4, <1>5

LEMMA TypesNext == TypeInv /\ [QueriesNext]_queryVars => TypeInv'
<1> SUFFICES ASSUME TypeInv, [QueriesNext]_queryVars PROVE TypeInv'
  OBVIOUS
<1>0. /\ stage \in {"read", "create", "main", "props", "ext", "order", "done", "raised"}
      /\ next \in 1..(Len(file) + 1) /\ prop \in Nat \ {0} /\ counter \in Nat /\ bundle \in BundleType
      /\ lists \in [1..3 -> Seq(Query)] /\ texts \in Seq(Seq(Query)) /\ Len(texts) <= 3
  BY TypesOK DEF TypeInv, Types
<1>1. CASE Read \/ Finish \/ Create \/ SectionDone
  BY <1>1, Staged, StageType DEF StageEntered
<1>2. CASE CreateRaises \/ AddMainRaises \/ DropObject
  BY <1>0, <1>2, Skipped, SkipType
<1>3. CASE AddMainEntity \/ AddMainRelation
  <2>1. /\ Enter("props") /\ UNCHANGED <<file, next, lists, texts>> /\ next <= Len(file)
        /\ bundle' \in BundleType /\ bundle'.main.insert # {} /\ counter' \in Nat
    <3>1. CASE AddMainEntity
      <4>1. counter' = counter + 1 /\ bundle'.main.insert # {}
        BY <3>1, EntityAdded
      <4>2. counter' \in Nat
        BY <1>0, <4>1
      <4>3. QED
        BY <3>1, <4>1, <4>2, EntityAdded
    <3>2. CASE AddMainRelation
      <4>1. /\ counter' = counter + 1 + Cardinality(Players(Current))
            /\ Cardinality(Players(Current)) \in Nat /\ bundle'.main.insert # {}
        BY <3>2, RelationAdded
      <4>2. counter' \in Nat
        BY <1>0, <4>1
      <4>3. QED
        BY <3>2, <4>1, <4>2, RelationAdded
    <3>3. QED
      BY <1>3, <3>1, <3>2
  <2>2. stage' = "props" /\ prop' = 1 /\ NoElement
    BY <2>1 DEF Enter
  <2>3. QED
    BY <1>0, <2>1, <2>2, LoopEntered
<1>4. CASE ConvertAttribute \/ ConvertPair \/ ConvertItem \/ EndComposite \/ ConvertReference
  BY <1>4, AttributeType, PairType, ItemKeepsType, EndType, ReferenceType
<1>5. CASE BeginComposite \/ ConvertLeafValue \/ ConvertLeafPair
  BY <1>5, LeafType
<1>6. CASE DropProperty
  <2>1. /\ NoElement /\ prop' = prop + 1 /\ counter' \in Nat /\ Converting
        /\ UNCHANGED <<file, next, stage, bundle, lists, texts>>
    BY <1>6, Dropped
  <2>2. stage \in {"props", "ext"} /\ next <= Len(file) /\ bundle.main.insert # {}
    BY <2>1, ConvertingFacts DEF TypeInv, LoopInv
  <2>3. QED
    BY <1>0, <2>1, <2>2, LoopEntered
<1>7. CASE PropertyDone
  <2>1. /\ Converting /\ NoElement /\ prop' = prop + 1 /\ bundle' \in BundleType
        /\ UNCHANGED <<file, next, stage, counter, lists, texts>>
        /\ bundle'.main.insert = {Owning(local.owns, t) : t \in bundle.main.insert}
    BY <1>7, PropertyAdds
  <2>2. stage \in {"props", "ext"} /\ next <= Len(file) /\ bundle.main.insert # {}
    BY <2>1, ConvertingFacts DEF TypeInv, LoopInv
  <2>3. bundle'.main.insert # {}
    BY <2>1, <2>2
  <2>4. QED
    BY <1>0, <2>1, <2>2, <2>3, LoopEntered
<1>8. CASE Order
  BY <1>0, <1>8, OrderLists, SkipType
<1>9. CASE BuildTexts
  <2>1. /\ lists' \in [1..3 -> Seq(Query)] /\ texts' \in Seq(Seq(Query)) /\ Len(texts') <= 3
    BY <1>9, TextsBuilt
  <2>2. UNCHANGED <<file, next, stage, prop, elem, leaf, composite, local, counter, bundle>>
    BY <1>9 DEF BuildTexts, loops
  <2>3. Types'
    <3>1. Types
      BY TypesOK DEF TypeInv
    <3>2. QED
      BY <2>1, <2>2, <3>1 DEF Types
  <2>4. LoopInv'
    BY <2>2, SameElement DEF TypeInv, LoopInv
  <2>5. QED
    BY <2>3, <2>4, TypesOKNext DEF TypeInv
<1>10. CASE UNCHANGED queryVars
  <2>1. UNCHANGED <<file, next, stage, prop, elem, leaf, composite, local, counter, bundle, lists, texts>>
    BY <1>10 DEF queryVars, loops
  <2>2. Types'
    <3>1. Types
      BY TypesOK DEF TypeInv
    <3>2. QED
      BY <2>1, <3>1 DEF Types
  <2>3. LoopInv'
    BY <2>1, SameElement DEF TypeInv, LoopInv
  <2>4. QED
    BY <2>2, <2>3, TypesOKNext DEF TypeInv
<1>11. QED
  BY <1>1, <1>2, <1>3, <1>4, <1>5, <1>6, <1>7, <1>8, <1>9, <1>10 DEF QueriesNext

(* Every variable of the transformation keeps its type: the things and     *)
(* clauses of its queries, the loops of the value converters, the lists    *)
(* that are handed to the loader and the texts it builds of them.          *)
THEOREM QueriesTypeCorrect == QueriesSpec => []QueriesTypeOK
<1>1. TypeInv => QueriesTypeOK
  BY DEF TypeInv
<1>2. QED
  BY <1>1, TypesInitially, TypesNext, PTL DEF QueriesSpec

(***************************************************************************)
(* Variables: what a step may do to the parts.                             *)
(***************************************************************************)
LEMMA PartFields ==
    /\ Parts["players"] = bundle.main.match /\ Parts["main"] = bundle.main.insert
    /\ Parts["values"] = bundle.attributes \cup local.attributes
    /\ Parts["open"] = {composite[i] : i \in 1..Len(composite)}
    /\ Parts["ends"] = bundle.embedded.match \cup local.embedded.match
    /\ Parts["links"] = bundle.embedded.insert \cup local.embedded.insert
BY DEF Parts

LEMMA PartFieldsNext ==
    /\ Parts'["players"] = bundle'.main.match /\ Parts'["main"] = bundle'.main.insert
    /\ Parts'["values"] = bundle'.attributes \cup local'.attributes
    /\ Parts'["open"] = {composite'[i] : i \in 1..Len(composite')}
    /\ Parts'["ends"] = bundle'.embedded.match \cup local'.embedded.match
    /\ Parts'["links"] = bundle'.embedded.insert \cup local'.embedded.insert
BY DEF Parts

LEMMA PartTypes ==
    ASSUME TypeInv, NEW i \in PartNames
    PROVE  Parts[i] \subseteq Thing /\ \A t \in Parts[i] : t.var \in Nat
<1>1. composite \in Seq(Thing)
  BY TypesOK DEF TypeInv, Types
<1>2. Parts["open"] \subseteq Thing
  BY <1>1, PartFields
<1>3. /\ Parts["players"] \subseteq Thing /\ Parts["main"] \subseteq Thing
      /\ Parts["values"] \subseteq Thing
      /\ Parts["ends"] \subseteq Thing /\ Parts["links"] \subseteq Thing
  BY TypeFacts, PartFields
<1>4. Parts[i] \subseteq Thing
  BY <1>2, <1>3 DEF PartNames
<1>5. QED
  BY <1>4 DEF Thing

LEMMA NamedGrows ==
    ASSUME NEW old, NEW new, NEW n \in Nat, NEW m \in Nat, n <= m, Named(old, n),
           \A i \in PartNames : \A t \in old[i] : t.var \in Nat,
           \A i \in PartNames : \A t \in new[i] : t \notin old[i] => t.var \in n..(m - 1),
           \A i, j \in PartNames : \A t \in new[i], u \in new[j] :
                t.var = u.var /\ t.var \in n..(m - 1) => i = j /\ t = u
    PROVE  Named(new, m)
<1>1. ASSUME NEW i \in PartNames, NEW t \in new[i] PROVE t.var < m
  BY DEF Named
<1>2. ASSUME NEW i \in PartNames, NEW j \in PartNames, NEW t \in new[i], NEW u \in new[j],
             t.var = u.var
      PROVE  i = j /\ t = u
  <2>1. CASE t \in old[i] /\ u \in old[j]
    BY <1>2, <2>1 DEF Named
  <2>2. CASE t \notin old[i]
    BY <1>2, <2>2
  <2>3. CASE u \notin old[j]
    BY <1>2, <2>3
  <2>4. QED
    BY <2>1, <2>2, <2>3
<1>3. QED
  BY <1>1, <1>2 DEF Named

(* The things of one part are replaced by others with their variables.     *)
LEMMA NamedRenewed ==
    ASSUME NEW old, NEW new, NEW n, Named(old, n), NEW k \in PartNames,
           \A i \in PartNames : i # k => new[i] \subseteq old[i],
           \A t \in new[k] : \E u \in old[k] : t.var = u.var,
           \A t, u \in new[k] : t.var = u.var => t = u
    PROVE  Named(new, n)
<1>1. ASSUME NEW i \in PartNames, NEW t \in new[i]
      PROVE  \E u \in old[i] : t.var = u.var
  BY <1>1
<1>2. ASSUME NEW i \in PartNames, NEW t \in new[i] PROVE t.var < n
  BY <1>1, <1>2 DEF Named
<1>3. ASSUME NEW i \in PartNames, NEW j \in PartNames, NEW t \in new[i], NEW u \in new[j],
             t.var = u.var
      PROVE  i = j /\ t = u
  <2>1. i = j
    BY <1>1, <1>3 DEF Named
  <2>2. CASE i = k
    BY <1>3, <2>1, <2>2
  <2>3. CASE i # k
    BY <1>3, <2>1, <2>3 DEF Named
  <2>4. QED
    BY <2>1, <2>2, <2>3
<1>4. QED
  BY <1>2, <1>3 DEF Named

(* A composite value is done with: its entity is a value like the others.  *)
LEMMA NamedClosed ==
    ASSUME NEW old, NEW new, NEW n, Named(old, n),
           new["values"] = old["values"] \cup old["open"], new["open"] = {},
           \A i \in PartNames \ {"values", "open"} : new[i] = old[i]
    PROVE  Named(new, n)
<1>1. ASSUME NEW i \in PartNames, NEW t \in new[i]
      PROVE  t \in old[i] \/ (i = "values" /\ t \in old["open"])
  BY <1>1 DEF PartNames
<1>2. "open" \in PartNames
  BY DEF PartNames
<1>3. ASSUME NEW i \in PartNames, NEW t \in new[i] PROVE t.var < n
  BY <1>1, <1>2, <1>3 DEF Named
<1>4. ASSUME NEW i \in PartNames, NEW j \in PartNames, NEW t \in new[i], NEW u \in new[j],
             t.var = u.var
      PROVE  i = j /\ t = u
  <2>1. i # "open" /\ j # "open"
    BY <1>4
  <2>2. CASE t \in old[i] /\ u \in old[j]
    BY <1>4, <2>2 DEF Named
  <2>3. CASE i = "values" /\ t \in old["open"] /\ u \in old[j]
    BY <1>2, <1>4, <2>1, <2>3 DEF Named
  <2>4. CASE t \in old[i] /\ j = "values" /\ u \in old["open"]
    BY <1>2, <1>4, <2>1, <2>4 DEF Named
  <2>5. CASE i = "values" /\ t \in old["open"] /\ j = "values" /\ u \in old["open"]
    BY <1>2, <1>4, <2>5 DEF Named
  <2>6. QED
    BY <1>1, <1>4, <2>2, <2>3, <2>4, <2>5
<1>5. QED
  BY <1>3, <1>4 DEF Named

LEMMA NamedFewer ==
    ASSUME NEW old, NEW new, NEW n \in Nat, NEW m \in Nat, n <= m, Named(old, n),
           \A i \in PartNames : \A t \in old[i] : t.var \in Nat,
           \A i \in PartNames : new[i] \subseteq old[i]
    PROVE  Named(new, m)
<1>1. ASSUME NEW i \in PartNames, NEW t \in new[i] PROVE t.var < m
  <2>1. t.var \in Nat /\ t.var < n
    BY <1>1 DEF Named
  <2>2. QED
    BY <2>1
<1>2. QED
  BY <1>1 DEF Named

LEMMA PlayedMore ==
    ASSUME NEW R, NEW A, NEW B, Played(R, A), Variables(A) \subseteq Variables(B)
    PROVE  Played(R, B)
BY DEF Played

LEMMA PlayedBoth ==
    ASSUME NEW R, NEW S, NEW A, Played(R, A), Played(S, A)
    PROVE  Played(R \cup S, A)
BY DEF Played

LEMMA PlayedPair ==
    ASSUME NEW A, NEW r, NEW v \in Variables(A), NEW w \in Variables(A), r.roles = <<{v}, {w}>>
    PROVE  Played({r}, A)
<1>1. Len(r.roles) = 2 /\ r.roles[1] = {v} /\ r.roles[2] = {w}
  OBVIOUS
<1>2. QED
  BY <1>1 DEF Played

LEMMA NotPlayed ==
    ASSUME NEW A, NEW e, e.roles = <<>>
    PROVE  Played({e}, A)
<1>1. Len(e.roles) = 0
  OBVIOUS
<1>2. QED
  BY <1>1 DEF Played

LEMMA VariablesMore == \A A, B : A \subseteq B => Variables(A) \subseteq Variables(B)
BY DEF Variables

(***************************************************************************)
(* Variables: what each step does to the parts.                            *)
(***************************************************************************)
NamesInv == Named(Parts, counter) /\ PlayedInv

LEMMA NothingLocal ==
    ASSUME NoElement
    PROVE  /\ local'.attributes = {} /\ local'.embedded.match = {} /\ local'.embedded.insert = {}
           /\ {composite'[i] : i \in 1..Len(composite')} = {}
<1>1. local' = NoLocal /\ composite' = <<>>
  BY DEF NoElement
<1>2. 1..Len(composite') = {}
  BY <1>1
<1>3. /\ local'.attributes = {} /\ local'.embedded = NoClauses
      /\ NoClauses.match = {} /\ NoClauses.insert = {}
  BY <1>1, Empties
<1>4. QED
  BY <1>2, <1>3

LEMMA NoParts ==
    ASSUME NoElement, bundle' = EmptyBundle
    PROVE  NamesInv'
<1>1. /\ local'.attributes = {} /\ local'.embedded.match = {} /\ local'.embedded.insert = {}
      /\ {composite'[i] : i \in 1..Len(composite')} = {}
      /\ bundle'.main.match = {} /\ bundle'.main.insert = {} /\ bundle'.attributes = {}
      /\ bundle'.embedded.match = {} /\ bundle'.embedded.insert = {}
  <2>1. /\ bundle'.main = NoClauses /\ bundle'.attributes = {} /\ bundle'.embedded = NoClauses
        /\ NoClauses.match = {} /\ NoClauses.insert = {}
    BY Empties
  <2>2. QED
    BY <2>1, NothingLocal
<1>2. \A i \in PartNames : Parts'[i] = {}
  BY <1>1, PartFieldsNext DEF PartNames
<1>3. Named(Parts, counter)'
  BY <1>2 DEF Named
<1>4. PlayedInv'
  BY <1>1, <1>2 DEF PlayedInv, Played, Parts
<1>5. QED
  BY <1>3, <1>4 DEF NamesInv

LEMMA LocalGone ==
    ASSUME TypeInv, NamesInv, NoElement, bundle' = bundle, counter' \in Nat, counter' >= counter
    PROVE  NamesInv'
<1>1. /\ local'.attributes = {} /\ local'.embedded.match = {} /\ local'.embedded.insert = {}
      /\ {composite'[i] : i \in 1..Len(composite')} = {}
  BY NothingLocal
<1>2. \A i \in PartNames : Parts'[i] \subseteq Parts[i]
  BY <1>1, PartFields, PartFieldsNext DEF PartNames
<1>3. counter \in Nat /\ \A i \in PartNames : \A t \in Parts[i] : t.var \in Nat
  BY TypeFacts, PartTypes
<1>4. Named(Parts', counter')
  BY <1>2, <1>3, NamedFewer DEF NamesInv
<1>5. PlayedInv'
  BY <1>1, PartFieldsNext DEF NamesInv, PlayedInv, Played
<1>6. QED
  BY <1>4, <1>5 DEF NamesInv

(* What has its variable joins one or two of the parts.                    *)
Joins(i, new) == Parts'[i] = Parts[i] \cup new
Fresh(n, new) == \A t \in new : t.var \in n..(counter' - 1)

LEMMA NamesGrow ==
    ASSUME TypeInv, NamesInv, counter' \in Nat, counter <= counter',
           NEW k \in PartNames, NEW new, Joins(k, new), Fresh(counter, new),
           \A t, u \in new : t.var = u.var => t = u,
           \A i \in PartNames : i # k => Parts'[i] = Parts[i]
    PROVE  Named(Parts', counter')
<1>1. counter \in Nat /\ \A i \in PartNames : \A t \in Parts[i] : t.var \in Nat /\ t.var < counter
  BY TypeFacts, PartTypes DEF NamesInv, Named
<1>2. ASSUME NEW i \in PartNames, NEW t \in Parts'[i], t \notin Parts[i]
      PROVE  i = k /\ t \in new /\ t.var \in counter..(counter' - 1)
  BY <1>2 DEF Joins, Fresh
<1>3. ASSUME NEW i \in PartNames, NEW j \in PartNames, NEW t \in Parts'[i], NEW u \in Parts'[j],
             t.var = u.var, t.var \in counter..(counter' - 1)
      PROVE  i = j /\ t = u
  <2>1. t \notin Parts[i] /\ u \notin Parts[j]
    BY <1>1, <1>3
  <2>2. i = k /\ j = k /\ t \in new /\ u \in new
    BY <1>2, <2>1
  <2>3. QED
    BY <1>3, <2>2
<1>4. Named(Parts, counter)
  BY DEF NamesInv
<1>5. PICK old, n : old = Parts /\ n = counter
  OBVIOUS
<1>6. PICK p, m : p = Parts' /\ m = counter'
  OBVIOUS
<1>7. Named(p, m)
  BY <1>1, <1>2, <1>3, <1>4, <1>5, <1>6, NamedGrows
<1>8. QED
  BY <1>6, <1>7

LEMMA AttributeNames == TypeInv /\ NamesInv /\ ConvertAttribute => NamesInv'
<1> SUFFICES ASSUME TypeInv, NamesInv, ConvertAttribute PROVE NamesInv'
  OBVIOUS
<1>1. /\ AtElement("attribute") /\ composite' = <<>> /\ counter' = counter /\ bundle' = bundle
      /\ local' = [local EXCEPT !.owns = @ \cup {[at |-> here, as |-> "ok"]}]
  BY DEF ConvertAttribute, NextElement
<1>2. composite = <<>>
  BY <1>1 DEF TypeInv, LoopInv, AtElement
<1>3. local \in Local
  BY TypeFacts
<1>4. local'.attributes = local.attributes /\ local'.embedded = local.embedded
  BY <1>1, <1>3 DEF Local
<1>5. Parts' = Parts
  BY <1>1, <1>2, <1>4 DEF Parts
<1>6. QED
  BY <1>1, <1>4, <1>5 DEF NamesInv, PlayedInv

LEMMA BeginNames == TypeInv /\ NamesInv /\ BeginComposite => NamesInv'
<1> SUFFICES ASSUME TypeInv, NamesInv, BeginComposite PROVE NamesInv'
  OBVIOUS
<1>1. /\ bundle' = bundle /\ local' = local /\ counter' = counter + 1 /\ leaf = 0
  BY BeginProduces DEF Unconverted
<1>2. PICK e \in Thing : composite' = <<e>> /\ e.var = counter /\ e.roles = <<>>
  BY BeginProduces
<1>3. composite = <<>> /\ counter \in Nat
  BY <1>1, TypeFacts DEF TypeInv, LoopInv
<1>4. Parts["open"] = {} /\ Parts'["open"] = {e}
  BY <1>2, <1>3, PartFields, PartFieldsNext
<1>5. \A i \in PartNames : i # "open" => Parts'[i] = Parts[i]
  BY <1>1, PartFields, PartFieldsNext DEF PartNames
<1>6. /\ "open" \in PartNames /\ Joins("open", {e}) /\ Fresh(counter, {e})
      /\ counter' \in Nat /\ counter <= counter'
  BY <1>1, <1>2, <1>3, <1>4 DEF Joins, Fresh, PartNames
<1>7. Named(Parts', counter')
  BY <1>5, <1>6, NamesGrow
<1>8. PlayedInv'
  <2>1. Played({e}, {})
    BY <1>2, NotPlayed
  <2>2. Variables(bundle.main.insert \cup local.attributes \cup Parts["open"])
            \subseteq Variables(bundle.main.insert \cup local.attributes \cup Parts'["open"])
    BY <1>4, VariablesMore
  <2>3. QED
    BY <1>1, <1>4, <2>1, <2>2, PlayedMore DEF NamesInv, PlayedInv
<1>9. QED
  BY <1>7, <1>8 DEF NamesInv

LEMMA LeafValueNames == TypeInv /\ NamesInv /\ ConvertLeafValue => NamesInv'
<1> SUFFICES ASSUME TypeInv, NamesInv, ConvertLeafValue PROVE NamesInv'
  OBVIOUS
<1>1. /\ bundle' = bundle /\ local' = local /\ counter' = counter /\ leaf # 0
  BY LeafValueProduces DEF Unconverted
<1>2. PICK c \in Thing : c = composite[1] /\ Parts.open = {c}
  BY <1>1, OpenComposite
<1>3. PICK e \in Thing : composite' = <<e>> /\ e.var = c.var /\ e.roles = c.roles
  BY <1>2, LeafValueProduces
<1>4. Parts["open"] = {c} /\ Parts'["open"] = {e}
  BY <1>2, <1>3, PartFieldsNext
<1>5. \A i \in PartNames : i # "open" => Parts'[i] = Parts[i]
  BY <1>1, PartFields, PartFieldsNext DEF PartNames
<1>6. Named(Parts', counter')
  <2>1. PICK old, n : old = Parts /\ n = counter
    OBVIOUS
  <2>2. PICK p : p = Parts'
    OBVIOUS
  <2>3. "open" \in PartNames /\ Named(old, n)
    BY <2>1 DEF PartNames, NamesInv
  <2>4. Named(p, n)
    BY <1>3, <1>4, <1>5, <2>1, <2>2, <2>3, NamedRenewed
  <2>5. QED
    BY <1>1, <2>1, <2>2, <2>4
<1>7. PlayedInv'
  <2>1. Played({e}, {})
    BY <1>3, <1>4 DEF NamesInv, PlayedInv, Played
  <2>2. Variables(bundle.main.insert \cup local.attributes \cup Parts["open"])
            \subseteq Variables(bundle.main.insert \cup local.attributes \cup Parts'["open"])
    BY <1>3, <1>4 DEF Variables
  <2>3. QED
    BY <1>1, <1>4, <2>1, <2>2, PlayedMore DEF NamesInv, PlayedInv
<1>8. QED
  BY <1>6, <1>7 DEF NamesInv

LEMMA StructuredNames ==
    ASSUME TypeInv, NamesInv, bundle' = bundle, composite' = composite,
           NEW w, NEW e, NEW r, Structured(w, e, r),
           w \in Variables(bundle.main.insert \cup Parts["open"])
    PROVE  NamesInv'
<1>1. /\ e \in Thing /\ r \in Thing /\ e.var = counter /\ e.roles = <<>>
      /\ r.var = counter + 1 /\ r.roles = <<{w}, {counter}>>
      /\ local' = [local EXCEPT !.attributes = @ \cup {e, r}] /\ counter' = counter + 2
  BY DEF Structured
<1>2. local \in Local /\ counter \in Nat
  BY TypeFacts
<1>3. local'.attributes = local.attributes \cup {e, r} /\ local'.embedded = local.embedded
  BY <1>1, <1>2 DEF Local
<1>4. \A i \in PartNames : i # "values" => Parts'[i] = Parts[i]
  <2>1. Parts'["open"] = Parts["open"]
    BY PartFields, PartFieldsNext
  <2>2. \A i \in PartNames \ {"values", "open"} : Parts'[i] = Parts[i]
    BY <1>3, PartFields, PartFieldsNext DEF PartNames
  <2>3. QED
    BY <2>1, <2>2
<1>5. Parts'["values"] = Parts["values"] \cup {e, r} /\ Parts'["open"] = Parts["open"]
  BY <1>3, PartFields, PartFieldsNext
<1>6. /\ "values" \in PartNames /\ Joins("values", {e, r}) /\ Fresh(counter, {e, r})
      /\ counter' \in Nat /\ counter <= counter'
      /\ \A t, u \in {e, r} : t.var = u.var => t = u
  BY <1>1, <1>2, <1>5 DEF Joins, Fresh, PartNames
<1>7. Named(Parts', counter')
  BY <1>4, <1>6, NamesGrow
<1>8. PlayedInv'
  <2> DEFINE A == bundle.main.insert \cup local.attributes \cup Parts["open"]
             B == bundle.main.insert \cup (local.attributes \cup {e, r}) \cup Parts["open"]
  <2>1. Variables(A) \subseteq Variables(B)
    BY VariablesMore
  <2>2. w \in Variables(B) /\ counter \in Variables(B)
    BY <1>1 DEF Variables
  <2>3. Played(local.attributes, A)
    BY DEF NamesInv, PlayedInv
  <2> HIDE DEF A, B
  <2>4. Played(local.attributes, B)
    BY <2>1, <2>3, PlayedMore
  <2>5. Played({r}, B)
    BY <1>1, <2>2, PlayedPair
  <2>6. Played({e}, B)
    BY <1>1, NotPlayed
  <2>7. Played(local.attributes \cup {e, r}, B)
    BY <2>4, <2>5, <2>6 DEF Played
  <2>8. Played(local'.attributes, bundle'.main.insert \cup local'.attributes \cup Parts'["open"])
    BY <1>3, <1>5, <2>7 DEF B
  <2>9. QED
    BY <1>3, <1>5, <2>8 DEF NamesInv, PlayedInv
<1>9. QED
  BY <1>7, <1>8 DEF NamesInv

LEMMA ElementNames == TypeInv /\ NamesInv /\ (ConvertPair \/ ConvertItem \/ ConvertLeafPair) => NamesInv'
<1> SUFFICES ASSUME TypeInv, NamesInv, ConvertPair \/ ConvertItem \/ ConvertLeafPair
             PROVE NamesInv'
  OBVIOUS
<1>1. CASE ConvertPair \/ ConvertItem
  <2>1. /\ UNCHANGED Unconverted /\ ElementDone /\ Converting
        /\ AtElement("pairs") \/ AtElement("dictionary")
        /\ \E e, r : Structured(Owner, e, r)
    BY <1>1, PairProduces, ItemProduces
  <2>2. bundle' = bundle /\ composite' = <<>>
    BY <2>1 DEF Unconverted, ElementDone
  <2>3. composite = <<>>
    BY <2>1 DEF TypeInv, LoopInv, AtElement
  <2>4. Owner \in Variables(bundle.main.insert \cup Parts["open"])
    BY <2>1, OwnerIsMain DEF Variables
  <2>5. QED
    BY <2>1, <2>2, <2>3, <2>4, StructuredNames
<1>2. CASE ConvertLeafPair
  <2>1. /\ UNCHANGED Unconverted /\ composite' = composite /\ leaf # 0
        /\ \E e, r : Structured(composite[1].var, e, r)
    BY <1>2, LeafPairProduces
  <2>2. bundle' = bundle
    BY <2>1 DEF Unconverted
  <2>3. composite[1].var \in Variables(bundle.main.insert \cup Parts["open"])
    BY <2>1, OpenComposite DEF Variables
  <2>4. QED
    BY <2>1, <2>2, <2>3, StructuredNames
<1>3. QED
  BY <1>1, <1>2

LEMMA EndNames == TypeInv /\ NamesInv /\ EndComposite => NamesInv'
<1> SUFFICES ASSUME TypeInv, NamesInv, EndComposite PROVE NamesInv'
  OBVIOUS
<1>1. /\ bundle' = bundle /\ composite' = <<>> /\ leaf # 0 /\ counter' = counter + 1 /\ Converting
  BY EndProduces DEF Unconverted, ElementDone
<1>2. PICK c \in Thing : c = composite[1] /\ Parts["open"] = {c}
  BY <1>1, OpenComposite
<1>3. PICK r \in Thing : /\ local' = [local EXCEPT !.attributes = @ \cup {c, r}]
                         /\ r.var = counter /\ r.roles = <<{Owner}, {c.var}>>
  BY <1>2, EndProduces
<1>4. local \in Local /\ counter \in Nat
  BY TypeFacts
<1>5. local'.attributes = local.attributes \cup {c, r} /\ local'.embedded = local.embedded
  BY <1>3, <1>4 DEF Local
<1>6. Parts'["open"] = {}
  <2>1. 1..Len(composite') = {}
    BY <1>1
  <2>2. QED
    BY <2>1, PartFieldsNext
<1>7. \A i \in PartNames \ {"values", "open"} : Parts'[i] = Parts[i]
  BY <1>1, <1>5, PartFields, PartFieldsNext DEF PartNames
<1>8. Parts'["values"] = Parts["values"] \cup {c} \cup {r}
  BY <1>1, <1>5, PartFields, PartFieldsNext
<1>9. Named(Parts', counter')
  <2>1. PICK old : old = Parts
    OBVIOUS
  <2>1a. PICK n \in Nat : n = counter
    BY <1>4
  <2>2. PICK new : new = Parts'
    OBVIOUS
  <2>2a. PICK m \in Nat : m = n + 1 /\ m = counter'
    BY <1>1, <2>1a
  <2>3. PICK mid : mid = [i \in PartNames |-> IF i = "values" THEN old["values"] \cup {c}
                                              ELSE IF i = "open" THEN {} ELSE old[i]]
    OBVIOUS
  <2>4. /\ mid["values"] = old["values"] \cup old["open"] /\ mid["open"] = {}
        /\ \A i \in PartNames \ {"values", "open"} : mid[i] = old[i]
    BY <1>2, <2>1, <2>1a, <2>3 DEF PartNames
  <2>5. Named(old, n)
    BY <2>1, <2>1a DEF NamesInv
  <2>6. Named(mid, n)
    BY <2>4, <2>5, NamedClosed
  <2>7. \A i \in PartNames : i # "values" => new[i] = mid[i]
    BY <1>6, <1>7, <2>1, <2>1a, <2>2, <2>2a, <2>4
  <2>8. new["values"] = mid["values"] \cup {r}
    BY <1>2, <1>8, <2>1, <2>1a, <2>2, <2>2a, <2>4
  <2>9. \A i \in PartNames : \A t \in old[i] : t.var \in Nat
    BY <2>1, <2>1a, PartTypes
  <2>10. \A i \in PartNames : \A t \in mid[i] : t.var \in Nat /\ t.var < n
    <3>1. "open" \in PartNames
      BY DEF PartNames
    <3>2. \A i \in PartNames : \A t \in mid[i] : t \in old[i] \/ t \in old["open"]
      BY <2>4
    <3>3. QED
      BY <2>6, <2>9, <3>1, <3>2 DEF Named
  <2>11. \A i \in PartNames : \A t \in new[i] : t \notin mid[i] => i = "values" /\ t = r
    BY <2>7, <2>8
  <2>12. r.var = n /\ r.var \in n..(m - 1)
    BY <1>3, <2>1, <2>1a, <2>2, <2>2a
  <2>13. ASSUME NEW i \in PartNames, NEW j \in PartNames, NEW t \in new[i], NEW u \in new[j],
                t.var = u.var, t.var \in n..(m - 1)
         PROVE  i = j /\ t = u
    <3>1. t \notin mid[i] /\ u \notin mid[j]
      BY <2>10, <2>13
    <3>2. QED
      BY <2>11, <3>1
  <2>14. Named(new, m)
    BY <2>2, <2>2a, <2>6, <2>10, <2>11, <2>12, <2>13, NamedGrows
  <2>15. QED
    BY <2>2, <2>2a, <2>14
<1>10. PlayedInv'
  <2> DEFINE A == bundle.main.insert \cup local.attributes \cup Parts["open"]
             B == bundle.main.insert \cup (local.attributes \cup {c, r}) \cup {}
  <2>1. Variables(A) \subseteq Variables(B)
    BY <1>2, VariablesMore
  <2>2. Owner \in Variables(B) /\ c.var \in Variables(B)
    BY <1>1, OwnerIsMain DEF Variables
  <2>3. Played(local.attributes, A) /\ Played({c}, {})
    BY <1>2 DEF NamesInv, PlayedInv
  <2>4. Variables({}) \subseteq Variables(B)
    BY VariablesMore
  <2> HIDE DEF A, B
  <2>5. Played(local.attributes, B) /\ Played({c}, B)
    BY <2>1, <2>3, <2>4, PlayedMore
  <2>6. Played({r}, B)
    BY <1>3, <2>2, PlayedPair
  <2>7. Played(local.attributes \cup {c, r}, B)
    BY <2>5, <2>6 DEF Played
  <2>8. Played(local'.attributes, bundle'.main.insert \cup local'.attributes \cup Parts'["open"])
    BY <1>1, <1>5, <1>6, <2>7 DEF B
  <2>9. Played({}, {})
    BY DEF Played
  <2>10. QED
    BY <1>1, <1>5, <1>6, <2>8, <2>9 DEF NamesInv, PlayedInv
<1>11. QED
  BY <1>9, <1>10 DEF NamesInv

LEMMA ReferenceNames == TypeInv /\ NamesInv /\ ConvertReference => NamesInv'
<1> SUFFICES ASSUME TypeInv, NamesInv, ConvertReference PROVE NamesInv'
  OBVIOUS
<1>1. /\ bundle' = bundle /\ composite' = <<>> /\ counter' = counter + 3 /\ AtElement("reference")
  BY ReferenceProduces DEF Unconverted, ElementDone
<1>2. PICK x, y, r \in Thing :
        /\ x.var = counter /\ y.var = counter + 1 /\ r.var = counter + 2
        /\ r.roles = <<{counter + 1}, {counter}>>
        /\ local' = [local EXCEPT !.embedded = [match |-> @.match \cup {x, y},
                                                insert |-> @.insert \cup {r}]]
  BY ReferenceProduces
<1>3. local \in Local /\ counter \in Nat
  BY TypeFacts
<1>4. composite = <<>>
  BY <1>1 DEF TypeInv, LoopInv, AtElement
<1>5. /\ local'.attributes = local.attributes
      /\ local'.embedded.match = local.embedded.match \cup {x, y}
      /\ local'.embedded.insert = local.embedded.insert \cup {r}
  BY <1>2, <1>3 DEF Local
<1>6. \A i \in PartNames \ {"ends", "links"} : Parts'[i] = Parts[i]
  <2>1. composite' = composite
    BY <1>1, <1>4
  <2>2. Parts'["open"] = Parts["open"]
    BY <2>1, PartFields, PartFieldsNext
  <2>3. \A i \in PartNames \ {"ends", "links", "open"} : Parts'[i] = Parts[i]
    BY <1>1, <1>5, PartFields, PartFieldsNext DEF PartNames
  <2>4. QED
    BY <2>2, <2>3
<1>7. Parts'["ends"] = Parts["ends"] \cup {x, y} /\ Parts'["links"] = Parts["links"] \cup {r}
  BY <1>1, <1>5, PartFields, PartFieldsNext
<1>8. Named(Parts', counter')
  <2>1. PICK old : old = Parts
    OBVIOUS
  <2>1a. PICK n \in Nat : n = counter
    BY <1>3
  <2>2. PICK new : new = Parts'
    OBVIOUS
  <2>2a. PICK m \in Nat : m = n + 3 /\ m = counter'
    BY <1>1, <2>1a
  <2>3. Named(old, n)
    BY <2>1, <2>1a DEF NamesInv
  <2>4. \A i \in PartNames : \A t \in old[i] : t.var \in Nat /\ t.var < n
    BY <2>1, <2>1a, <2>3, PartTypes DEF Named
  <2>5. \A i \in PartNames : \A t \in new[i] :
            t \notin old[i] => (i = "ends" /\ (t = x \/ t = y)) \/ (i = "links" /\ t = r)
    BY <1>6, <1>7, <2>1, <2>1a, <2>2, <2>2a
  <2>6. x.var = n /\ y.var = n + 1 /\ r.var = n + 2
    BY <1>2, <2>1, <2>1a
  <2>7. \A i \in PartNames : \A t \in new[i] : t \notin old[i] => t.var \in n..(m - 1)
    BY <2>2, <2>2a, <2>5, <2>6
  <2>8. ASSUME NEW i \in PartNames, NEW j \in PartNames, NEW t \in new[i], NEW u \in new[j],
               t.var = u.var, t.var \in n..(m - 1)
        PROVE  i = j /\ t = u
    <3>1. t \notin old[i] /\ u \notin old[j]
      BY <2>4, <2>8
    <3>2. QED
      BY <2>5, <2>6, <2>8, <3>1
  <2>9. n <= m /\ \A i \in PartNames : \A t \in old[i] : t.var \in Nat
    BY <2>2a, <2>4
  <2>10. Named(new, m)
    <3>1. \A i, j \in PartNames : \A t \in new[i], u \in new[j] :
                t.var = u.var /\ t.var \in n..(m - 1) => i = j /\ t = u
      BY <2>8
    <3>2. QED
      BY <2>3, <2>7, <2>9, <3>1, NamedGrows, Zenon
  <2>11. QED
    BY <2>2, <2>2a, <2>10
<1>9. PlayedInv'
  <2>1. Played(local.embedded.insert, local.embedded.match)
    BY DEF NamesInv, PlayedInv
  <2>2. Variables(local.embedded.match) \subseteq Variables(local.embedded.match \cup {x, y})
    BY VariablesMore
  <2>3. Played(local.embedded.insert, local.embedded.match \cup {x, y})
    BY <2>1, <2>2, PlayedMore
  <2>4. counter + 1 \in Variables(local.embedded.match \cup {x, y})
        /\ counter \in Variables(local.embedded.match \cup {x, y})
    BY <1>2 DEF Variables
  <2>5. Played({r}, local.embedded.match \cup {x, y})
    BY <1>2, <2>4, PlayedPair
  <2>6. Played(local'.embedded.insert, local'.embedded.match)
    BY <1>5, <2>3, <2>5, PlayedBoth
  <2>7. Parts'["open"] = Parts["open"]
    BY <1>6 DEF PartNames
  <2>8. QED
    BY <1>1, <1>5, <2>6, <2>7 DEF NamesInv, PlayedInv
<1>10. QED
  BY <1>8, <1>9 DEF NamesInv

LEMMA MainNames == TypeInv /\ NamesInv /\ (AddMainEntity \/ AddMainRelation) => NamesInv'
<1> SUFFICES ASSUME TypeInv, NamesInv, AddMainEntity \/ AddMainRelation PROVE NamesInv'
  OBVIOUS
<1>0. counter \in Nat
  BY TypeFacts
<1>1. /\ NoElement /\ bundle'.attributes = {}
      /\ bundle'.embedded.match = {} /\ bundle'.embedded.insert = {}
  BY EntityAdded, RelationAdded, Empties DEF Enter
<1>2. /\ Parts'["players"] = bundle'.main.match /\ Parts'["main"] = bundle'.main.insert
      /\ \A i \in PartNames \ {"players", "main"} : Parts'[i] = {}
  BY <1>1, NothingLocal, PartFieldsNext DEF PartNames
<1>3. Played(bundle'.main.insert, bundle'.main.match) => PlayedInv'
  <2>1. Parts'["open"] = {}
    BY <1>2 DEF PartNames
  <2>2. Played({}, {}) /\ \A A : Played({}, A)
    BY DEF Played
  <2>3. QED
    BY <1>1, <2>1, <2>2, NothingLocal DEF PlayedInv
<1>4. CASE AddMainEntity
  <2>1. PICK e \in Thing : bundle'.main.insert = {e} /\ e.var = counter /\ e.roles = <<>>
    BY <1>4, EntityAdded
  <2>2. bundle'.main.match = {} /\ counter' = counter + 1
    BY <1>4, EntityAdded
  <2>3. \A i \in PartNames : \A t \in Parts'[i] : i = "main" /\ t = e
    BY <1>2, <2>1, <2>2
  <2>4. Named(Parts, counter)'
    BY <1>0, <2>1, <2>2, <2>3 DEF Named
  <2>5. Played({e}, bundle'.main.match)
    BY <2>1, NotPlayed
  <2>6. QED
    BY <1>3, <2>1, <2>4, <2>5 DEF NamesInv
<1>5. CASE AddMainRelation
  <2>1. PICK e \in Thing : bundle'.main.insert = {e} /\ e.var = counter /\ e.roles = RolesOf(Current)
    BY <1>5, RelationAdded
  <2>2. /\ counter' = counter + 1 + Cardinality(Players(Current)) /\ Current \in Object
        /\ Cardinality(Players(Current)) \in Nat
    BY <1>5, RelationAdded
  <2>3. ASSUME NEW t \in bundle'.main.match
        PROVE  /\ t.var \in Nat /\ t.var > counter /\ t.var < counter'
               /\ \A u \in bundle'.main.match : t.var = u.var => t = u
    <3>1. PICK x \in Players(Current) :
            /\ t = Match(PlayerVar(Current, x), <<"props", x[1], x[2], 0>>, PlayerId(Current, x))
            /\ t.var = PlayerVar(Current, x)
      BY <1>5, RelationAdded
    <3>2. t.var \in Nat /\ t.var > counter /\ t.var < counter'
      BY <1>0, <2>2, <3>1, PlayerVariables
    <3>3. ASSUME NEW u \in bundle'.main.match, t.var = u.var PROVE t = u
      <4>1. PICK y \in Players(Current) :
              /\ u = Match(PlayerVar(Current, y), <<"props", y[1], y[2], 0>>, PlayerId(Current, y))
              /\ u.var = PlayerVar(Current, y)
        BY <1>5, RelationAdded
      <4>2. PlayerVar(Current, x) = PlayerVar(Current, y)
        BY <3>1, <3>3, <4>1
      <4>3. x = y
        BY <1>0, <2>2, <4>2, PlayerVariables
      <4>4. QED
        BY <3>1, <4>1, <4>3
    <3>4. QED
      BY <3>2, <3>3
  <2>4. \A i \in PartNames : \A t \in Parts'[i] :
            (i = "main" /\ t = e) \/ (i = "players" /\ t \in bundle'.main.match)
    BY <1>2, <2>1
  <2>5. ASSUME NEW i \in PartNames, NEW t \in Parts'[i] PROVE t.var < counter'
    BY <1>0, <2>1, <2>2, <2>3, <2>4, <2>5
  <2>6. ASSUME NEW i \in PartNames, NEW j \in PartNames, NEW t \in Parts'[i], NEW u \in Parts'[j],
               t.var = u.var
        PROVE  i = j /\ t = u
    <3>1. CASE i = "main" /\ t = e
      BY <1>0, <2>1, <2>3, <2>4, <2>6, <3>1
    <3>2. CASE i = "players" /\ t \in bundle'.main.match
      BY <1>0, <2>1, <2>3, <2>4, <2>6, <3>2
    <3>3. QED
      BY <2>4, <3>1, <3>2
  <2>7. Named(Parts, counter)'
    BY <2>5, <2>6 DEF Named
  <2>8. \A i \in 1..Len(e.roles) : e.roles[i] \subseteq Variables(bundle'.main.match)
    <3>1. \A i \in 1..Len(e.roles) : e.roles[i] \subseteq {PlayerVar(Current, x) : x \in Players(Current)}
      BY <1>0, <2>1, <2>2, RelationIsPlayed
    <3>2. \A x \in Players(Current) : PlayerVar(Current, x) \in Variables(bundle'.main.match)
      BY <1>5, RelationAdded
    <3>3. QED
      BY <3>1, <3>2
  <2>9. Played({e}, bundle'.main.match)
    BY <2>8 DEF Played
  <2>10. QED
    BY <1>3, <2>1, <2>7, <2>9 DEF NamesInv
<1>6. QED
  BY <1>4, <1>5

LEMMA PropertyNames == TypeInv /\ NamesInv /\ PropertyDone => NamesInv'
<1> SUFFICES ASSUME TypeInv, NamesInv, PropertyDone PROVE NamesInv'
  OBVIOUS
<1>1. /\ composite = <<>> /\ NoElement /\ counter' = counter
      /\ bundle'.main.match = bundle.main.match
      /\ bundle'.main.insert = {Owning(local.owns, t) : t \in bundle.main.insert}
      /\ bundle'.attributes = bundle.attributes \cup local.attributes
      /\ bundle'.embedded.match = bundle.embedded.match \cup local.embedded.match
      /\ bundle'.embedded.insert = bundle.embedded.insert \cup local.embedded.insert
  BY PropertyAdds
<1>2. \A t \in bundle.main.insert : /\ Owning(local.owns, t).var = t.var
                                    /\ Owning(local.owns, t).roles = t.roles
  <2>1. PICK s \in SUBSET Stored : s = local.owns
    BY TypeFacts
  <2>2. bundle.main.insert \subseteq Thing
    BY TypeFacts
  <2>3. QED
    BY <2>1, <2>2, OwningType
<1>3. Parts["open"] = {} /\ Parts'["open"] = {}
  <2>1. 1..Len(composite) = {}
    BY <1>1
  <2>2. QED
    BY <1>1, <2>1, NothingLocal, PartFields, PartFieldsNext
<1>4. \A i \in PartNames : i # "main" => Parts'[i] \subseteq Parts[i]
  BY <1>1, <1>3, NothingLocal, PartFields, PartFieldsNext DEF PartNames
<1>5. /\ Parts["main"] = bundle.main.insert
      /\ Parts'["main"] = {Owning(local.owns, t) : t \in bundle.main.insert}
  BY <1>1, PartFields, PartFieldsNext
<1>6. "main" \in PartNames
  BY DEF PartNames
<1>7. \A t \in Parts'["main"] : \E u \in Parts["main"] : t.var = u.var
  BY <1>2, <1>5
<1>8. \A t, u \in Parts'["main"] : t.var = u.var => t = u
  <2>1. \A t, u \in bundle.main.insert : t.var = u.var => t = u
    BY <1>5, <1>6 DEF NamesInv, Named
  <2>2. QED
    BY <1>2, <1>5, <2>1
<1>9. Named(Parts', counter')
  <2>1. PICK old : old = Parts
    OBVIOUS
  <2>2. PICK new : new = Parts'
    OBVIOUS
  <2>3. Named(old, counter)
    BY <2>1 DEF NamesInv
  <2>4. Named(new, counter)
    BY <1>4, <1>6, <1>7, <1>8, <2>1, <2>2, <2>3, NamedRenewed
  <2>5. QED
    BY <1>1, <2>2, <2>4
<1>10. PlayedInv'
  <2>1. Variables(bundle'.main.insert) = Variables(bundle.main.insert)
    BY <1>1, <1>2 DEF Variables
  <2>2. Played(bundle'.main.insert, bundle'.main.match)
    BY <1>1, <1>2 DEF NamesInv, PlayedInv, Played
  <2>3. Played(bundle'.attributes, bundle'.main.insert \cup bundle'.attributes)
    <3>1. Variables(bundle.main.insert \cup bundle.attributes)
            \subseteq Variables(bundle'.main.insert \cup bundle'.attributes)
      BY <1>1, <2>1 DEF Variables
    <3>2. Variables(bundle.main.insert \cup local.attributes \cup Parts["open"])
            \subseteq Variables(bundle'.main.insert \cup bundle'.attributes)
      BY <1>1, <1>3, <2>1 DEF Variables
    <3>3. /\ Played(bundle.attributes, bundle'.main.insert \cup bundle'.attributes)
          /\ Played(local.attributes, bundle'.main.insert \cup bundle'.attributes)
      BY <3>1, <3>2, PlayedMore DEF NamesInv, PlayedInv
    <3>4. QED
      BY <1>1, <3>3, PlayedBoth
  <2>4. Played(bundle'.embedded.insert, bundle'.embedded.match)
    <3>1. /\ Variables(bundle.embedded.match) \subseteq Variables(bundle'.embedded.match)
          /\ Variables(local.embedded.match) \subseteq Variables(bundle'.embedded.match)
      BY <1>1, VariablesMore
    <3>2. /\ Played(bundle.embedded.insert, bundle'.embedded.match)
          /\ Played(local.embedded.insert, bundle'.embedded.match)
      BY <3>1, PlayedMore DEF NamesInv, PlayedInv
    <3>3. QED
      BY <1>1, <3>2, PlayedBoth
  <2>5. \A A : Played({}, A)
    BY DEF Played
  <2>6. local'.attributes = {} /\ local'.embedded.match = {} /\ local'.embedded.insert = {}
    BY <1>1, NothingLocal
  <2>7. QED
    BY <1>3, <2>2, <2>3, <2>4, <2>5, <2>6 DEF PlayedInv
<1>11. QED
  BY <1>9, <1>10 DEF NamesInv

LEMMA NamesInitially == QueriesInit => NamesInv
<1> SUFFICES ASSUME QueriesInit PROVE NamesInv
  OBVIOUS
<1>1. local = NoLocal /\ composite = <<>> /\ bundle = EmptyBundle
  BY DEF QueriesInit
<1>2. 1..Len(composite) = {}
  BY <1>1
<1>3. /\ bundle.main.match = {} /\ bundle.main.insert = {} /\ bundle.attributes = {}
      /\ bundle.embedded.match = {} /\ bundle.embedded.insert = {}
      /\ local.attributes = {} /\ local.embedded.match = {} /\ local.embedded.insert = {}
  BY <1>1, Empties
<1>4. \A i \in PartNames : Parts[i] = {}
  BY <1>2, <1>3, PartFields DEF PartNames
<1>5. Parts["open"] = {}
  BY <1>4 DEF PartNames
<1>6. QED
  BY <1>3, <1>4, <1>5 DEF NamesInv, Named, PlayedInv, Played

LEMMA NamesNext == TypeInv /\ NamesInv /\ [QueriesNext]_queryVars => NamesInv'
<1> SUFFICES ASSUME TypeInv, NamesInv, [QueriesNext]_queryVars PROVE NamesInv'
  OBVIOUS
<1>0. counter \in Nat
  BY TypeFacts
<1>1. CASE Read \/ Finish \/ Create \/ SectionDone
  <2>1. NoElement /\ bundle' = bundle /\ counter' = counter
    BY <1>1, Staged DEF StageEntered, Enter
  <2>2. QED
    BY <1>0, <2>1, LocalGone
<1>2. CASE CreateRaises \/ AddMainRaises \/ DropObject \/ Order
  <2>1. NoElement /\ bundle' = EmptyBundle
    BY <1>2, Skipped, OrderLists DEF Skip, Enter
  <2>2. QED
    BY <2>1, NoParts
<1>3. CASE DropProperty
  BY <1>3, Dropped, LocalGone
<1>4. CASE PropertyDone
  BY <1>4, PropertyNames
<1>5. CASE AddMainEntity \/ AddMainRelation
  BY <1>5, MainNames
<1>6. CASE ConvertAttribute \/ BeginComposite \/ ConvertLeafValue \/ EndComposite \/ ConvertReference
  BY <1>6, AttributeNames, BeginNames, LeafValueNames, EndNames, ReferenceNames
<1>7. CASE ConvertPair \/ ConvertItem \/ ConvertLeafPair
  BY <1>7, ElementNames
<1>8. CASE BuildTexts \/ UNCHANGED queryVars
  <2>1. UNCHANGED <<composite, local, counter, bundle>>
    BY <1>8 DEF BuildTexts, queryVars, loops
  <2>2. Parts' = Parts
    BY <2>1 DEF Parts
  <2>3. QED
    BY <2>1, <2>2 DEF NamesInv, PlayedInv
<1>9. QED
  BY <1>1, <1>2, <1>3, <1>4, <1>5, <1>6, <1>7, <1>8 DEF QueriesNext

(***************************************************************************)
(* Queries that can be executed on their own.                              *)
(***************************************************************************)
LEMMA InLists ==
    ASSUME TypeInv
    PROVE  \A q : q \in Made <=> \E l \in 1..3 : \E i \in 1..Len(lists[l]) : q = lists[l][i]
BY DEF Made

(* Two parts of the bundle, the first of which is matched on.              *)
LEMMA PartsSelfContained ==
    ASSUME NamesInv, NEW q, NEW i \in PartNames, q.match = Parts[i],
           NEW j \in PartNames, NEW k \in PartNames, q.insert = Parts[j] \cup Parts[k],
           i # j, i # k, Played(q.insert, q.match \cup q.insert)
    PROVE  SelfContained(q)
<1>1. Named(Parts, counter)
  BY DEF NamesInv
<1>2. q.match \cap q.insert = {}
  BY <1>1 DEF Named
<1>3. \A t, u \in q.match \cup q.insert : t.var = u.var => t = u
  BY <1>1 DEF Named
<1>4. QED
  BY <1>2, <1>3 DEF SelfContained, Played, Variables

LEMMA OrderedSelfContained ==
    ASSUME TypeInv, NamesInv, stage = "order"
    PROVE  SelfContained(MainQuery) /\ SelfContained(EmbeddedQuery)
<1>1. next <= Len(file) /\ local = NoLocal
  BY DEF TypeInv, LoopInv
<1>2. local.attributes = {} /\ local.embedded.match = {} /\ local.embedded.insert = {}
  BY <1>1, Empties
<1>3. {"players", "main", "values", "ends", "links"} \subseteq PartNames
  BY DEF PartNames
<1>4. SelfContained(MainQuery)
  <2>1. MainQuery.match = Parts["players"] /\ MainQuery.insert = Parts["main"] \cup Parts["values"]
    BY <1>1, <1>2, QueriesMade, PartFields
  <2>2. /\ Played(bundle.main.insert, bundle.main.match)
        /\ Played(bundle.attributes, bundle.main.insert \cup bundle.attributes)
    BY DEF NamesInv, PlayedInv
  <2>3. PICK m, s : m = MainQuery.match /\ s = MainQuery.insert
    OBVIOUS
  <2>4. m = bundle.main.match /\ s = bundle.main.insert \cup bundle.attributes
    BY <1>1, <2>3, QueriesMade
  <2>5. /\ Variables(bundle.main.match) \subseteq Variables(m \cup s)
        /\ Variables(bundle.main.insert \cup bundle.attributes) \subseteq Variables(m \cup s)
    BY <2>4, VariablesMore
  <2>6. Played(bundle.main.insert, m \cup s) /\ Played(bundle.attributes, m \cup s)
    BY <2>2, <2>5, PlayedMore
  <2>7. Played(s, m \cup s)
    BY <2>4, <2>6, PlayedBoth
  <2>8. QED
    BY <1>3, <2>1, <2>3, <2>7, PartsSelfContained
<1>5. SelfContained(EmbeddedQuery)
  <2>1. EmbeddedQuery.match = Parts["ends"] /\ EmbeddedQuery.insert = Parts["links"] \cup Parts["links"]
    BY <1>1, <1>2, QueriesMade, PartFields
  <2>2. Played(bundle.embedded.insert, bundle.embedded.match)
    BY DEF NamesInv, PlayedInv
  <2>3. Variables(bundle.embedded.match)
            \subseteq Variables(bundle.embedded.match \cup bundle.embedded.insert)
    BY VariablesMore
  <2>4. Played(EmbeddedQuery.insert, EmbeddedQuery.match \cup EmbeddedQuery.insert)
    BY <1>1, <2>2, <2>3, PlayedMore, QueriesMade
  <2>5. QED
    BY <1>3, <2>1, <2>4, PartsSelfContained
<1>6. QED
  BY <1>4, <1>5

LEMMA PrintedSelfContained ==
    ASSUME NEW q \in Query, SelfContained(q)
    PROVE  SelfContained(Printed(q))
<1>1. PICK p : p = Printed(q)
  OBVIOUS
<1>2. p.match = q.match /\ p.insert = {PrintedThing(t) : t \in q.insert}
  BY <1>1, PrintedType
<1>3. q.insert \subseteq Thing
  BY DEF Query
<1>4. \A t \in q.insert :
        /\ PrintedThing(t).var = t.var /\ Len(PrintedThing(t).roles) \in Nat
        /\ Len(PrintedThing(t).roles) <= Len(t.roles) /\ Len(t.roles) \in Nat
        /\ \A i \in 1..Len(PrintedThing(t).roles) : PrintedThing(t).roles[i] = t.roles[i]
  BY <1>3, PrintedThingType DEF Thing
<1>5. /\ q.match \cap q.insert = {}
      /\ \A t, u \in q.match \cup q.insert : t.var = u.var => t = u
      /\ \A t \in q.insert : \A i \in 1..Len(t.roles) :
            t.roles[i] \subseteq {u.var : u \in q.match \cup q.insert}
  BY DEF SelfContained
<1>6. p.match \cap p.insert = {}
  <2>1. ASSUME NEW t \in q.match, NEW u \in q.insert, t = PrintedThing(u) PROVE FALSE
    BY <1>4, <1>5, <2>1
  <2>2. QED
    BY <1>2, <2>1
<1>7. \A t, u \in p.match \cup p.insert : t.var = u.var => t = u
  <2>1. ASSUME NEW t \in p.match \cup p.insert
        PROVE  \E x \in q.match \cup q.insert :
                    t.var = x.var /\ t = IF x \in q.match THEN x ELSE PrintedThing(x)
    BY <1>2, <1>4, <1>5
  <2>2. ASSUME NEW t \in p.match \cup p.insert, NEW u \in p.match \cup p.insert, t.var = u.var
        PROVE  t = u
    <3>1. PICK x \in q.match \cup q.insert :
                t.var = x.var /\ t = IF x \in q.match THEN x ELSE PrintedThing(x)
      BY <2>1
    <3>2. PICK y \in q.match \cup q.insert :
                u.var = y.var /\ u = IF y \in q.match THEN y ELSE PrintedThing(y)
      BY <2>1
    <3>3. x = y
      BY <1>5, <2>2, <3>1, <3>2
    <3>4. QED
      BY <3>1, <3>2, <3>3
  <2>3. QED
    BY <2>2
<1>8. {u.var : u \in p.match \cup p.insert} = {u.var : u \in q.match \cup q.insert}
  BY <1>2, <1>4
<1>9. \A t \in p.insert : \A i \in 1..Len(t.roles) :
            t.roles[i] \subseteq {u.var : u \in p.match \cup p.insert}
  <2>1. ASSUME NEW t \in q.insert, NEW i \in 1..Len(PrintedThing(t).roles)
        PROVE  PrintedThing(t).roles[i] \subseteq {u.var : u \in q.match \cup q.insert}
    BY <1>4, <1>5, <2>1
  <2>2. QED
    BY <1>2, <1>8, <2>1
<1>10. QED
  BY <1>1, <1>6, <1>7, <1>9 DEF SelfContained

LEMMA SelfContainedOrder == TypeInv /\ NamesInv /\ QueriesSelfContained /\ Order => QueriesSelfContained'
<1> SUFFICES ASSUME TypeInv, NamesInv, QueriesSelfContained, Order,
                    NEW q \in Made'
             PROVE  SelfContained(q)
  BY DEF QueriesSelfContained, SelfContained
<1>1. PICK l \in 1..3 : \E i \in 1..Len(lists'[l]) : q = lists'[l][i]
  BY DEF Made
<1>2. PICK i \in 1..Len(lists'[l]) : q = lists'[l][i]
  BY <1>1
<1>3. lists[l] \in Seq(Query)
  BY TypesOK DEF TypeInv, Types
<1>4. \A j \in 1..Len(lists[l]) : SelfContained(lists[l][j])
  BY InLists DEF QueriesSelfContained
<1>5. SelfContained(MainQuery) /\ SelfContained(EmbeddedQuery)
  BY OrderedSelfContained DEF Order
<1>6. PICK s \in Seq(Query) : s = lists[l]
  BY <1>3
<1>7. ASSUME NEW x, lists'[l] = Append(s, x) PROVE q = x \/ \E j \in 1..Len(s) : q = s[j]
  BY <1>2, <1>7
<1>8. lists'[l] = s \/ lists'[l] = Append(s, EmbeddedQuery) \/ lists'[l] = Append(s, MainQuery)
  BY <1>6, OrderLists
<1>9. q = MainQuery \/ q = EmbeddedQuery \/ \E j \in 1..Len(s) : q = s[j]
  BY <1>2, <1>7, <1>8
<1>10. QED
  BY <1>4, <1>5, <1>6, <1>9

LEMMA SelfContainedPrinted == TypeInv /\ QueriesSelfContained /\ BuildTexts => QueriesSelfContained'
<1> SUFFICES ASSUME TypeInv, QueriesSelfContained, BuildTexts,
                    NEW q \in Made'
             PROVE  SelfContained(q)
  BY DEF QueriesSelfContained, SelfContained
<1>1. PICK l \in 1..3 : \E i \in 1..Len(lists'[l]) : q = lists'[l][i]
  BY DEF Made
<1>2. PICK i \in 1..Len(lists'[l]) : q = lists'[l][i]
  BY <1>1
<1>3. lists[l] \in Seq(Query)
  BY TypesOK DEF TypeInv, Types
<1>4. \A j \in 1..Len(lists[l]) : SelfContained(lists[l][j]) /\ lists[l][j] \in Query
  BY <1>3, InLists DEF QueriesSelfContained
<1>5. lists'[l] = lists[l] \/ lists'[l] = PrintedList(lists[l])
  BY TextsBuilt
<1>6. CASE lists'[l] = lists[l]
  BY <1>2, <1>4, <1>6
<1>7. CASE lists'[l] = PrintedList(lists[l])
  <2>1. i \in 1..Len(lists[l]) /\ q = Printed(lists[l][i])
    BY <1>2, <1>3, <1>7, PrintedListType
  <2>2. QED
    BY <1>4, <2>1, PrintedSelfContained
<1>8. QED
  BY <1>5, <1>6, <1>7

VariablesInv == TypeInv /\ NamesInv /\ QueriesSelfContained

LEMMA VariablesInitially == QueriesInit => VariablesInv
<1>1. QueriesInit => Made = {}
  <2> SUFFICES ASSUME QueriesInit PROVE Made = {}
    OBVIOUS
  <2>1. lists = [l \in 1..3 |-> <<>>]
    BY DEF QueriesInit
  <2>2. \A l \in 1..3 : 1..Len(lists[l]) = {}
    BY <2>1
  <2>3. QED
    BY <2>2 DEF Made
<1>2. Made = {} => QueriesSelfContained
  BY DEF QueriesSelfContained
<1>3. QED
  BY <1>1, <1>2, TypesInitially, NamesInitially DEF VariablesInv

LEMMA VariablesNext == VariablesInv /\ [QueriesNext]_queryVars => VariablesInv'
<1> SUFFICES ASSUME VariablesInv, [QueriesNext]_queryVars PROVE VariablesInv'
  OBVIOUS
<1>1. TypeInv /\ NamesInv /\ QueriesSelfContained
  BY DEF VariablesInv
<1>2. TypeInv' /\ NamesInv'
  BY <1>1, TypesNext, NamesNext
<1>3. QueriesSelfContained'
  <2>1. CASE Order
    BY <1>1, <2>1, SelfContainedOrder
  <2>2. CASE BuildTexts
    BY <1>1, <2>2, SelfContainedPrinted
  <2>3. CASE ~Order /\ ~BuildTexts
    <3>1. lists' = lists
      BY <2>3 DEF QueriesNext, queryVars, Read, Finish, Create, CreateRaises, AddMainEntity,
                  AddMainRelation, AddMainRaises, ConvertAttribute, BeginComposite,
                  ConvertLeafValue, ConvertLeafPair, EndComposite, ConvertPair, ConvertItem,
                  ConvertReference, DropProperty, DropObject, PropertyDone, SectionDone
    <3>2. QED
      BY <1>1, <3>1 DEF QueriesSelfContained, Made, SelfContained
  <2>4. QED
    BY <2>1, <2>2, <2>3
<1>4. QED
  BY <1>2, <1>3 DEF VariablesInv

(* For every content of the objects, every mapping and every file: a query *)
(* declares each of its variables once, and all that its relations refer   *)
(* to, whatever conversions failed half-way after they had been dealt      *)
(* variables.                                                              *)
THEOREM QueriesSelfContainedCorrect == QueriesSpec => []QueriesSelfContained
<1>1. VariablesInv => QueriesSelfContained
  BY DEF VariablesInv
<1>2. QED
  BY <1>1, VariablesInitially, VariablesNext, PTL DEF QueriesSpec
(***************************************************************************)
(* The refinement of Transform: an object of Transform.                    *)
(***************************************************************************)
LEMMA OutcomeTypes ==
    ASSUME NEW p \in Property, NEW i \in 1..Len(p.elems)
    PROVE  /\ Outcome(p.kind, p.elems[i]) \in {"ok", "invalid", "fatal"}
           /\ p.kind \in {"attribute", "pairs"} => Outcome(p.kind, p.elems[i]) = p.elems[i]
           /\ p.kind \in {"reference", "role"} =>
                /\ p.elems[i] \in Id
                /\ Outcome(p.kind, p.elems[i]) # "fatal"
                /\ p.kind = "role" => Outcome(p.kind, p.elems[i]) = "ok"
                /\ p.kind = "reference" =>
                    (Outcome(p.kind, p.elems[i]) = "ok" <=> p.elems[i] \in Known)
           /\ p.kind # "ignored"
<1>1. CASE p.kind \in {"attribute", "pairs"}
  <2>1. p.elems \in Seq(Primitive)
    BY <1>1 DEF Property
  <2>2. p.elems[i] \in {"ok", "invalid"}
    BY <2>1 DEF Primitive
  <2>3. Outcome(p.kind, p.elems[i]) = p.elems[i]
    BY <1>1 DEF Outcome
  <2>4. QED
    BY <1>1, <2>2, <2>3
<1>2. CASE p.kind \in {"composite", "dictionary"}
  BY <1>2 DEF Outcome, ItemOutcome
<1>3. CASE p.kind \in {"reference", "role"}
  <2>1. p.elems \in Seq(Id)
    BY <1>3 DEF Property
  <2>2. p.elems[i] \in Id
    BY <2>1
  <2>3. QED
    BY <1>3, <2>2 DEF Outcome
<1>4. CASE p.kind = "ignored"
  <2>1. p.elems = <<>>
    BY <1>4 DEF Property
  <2>2. QED
    BY <2>1
<1>5. QED
  BY <1>1, <1>2, <1>3, <1>4 DEF Property

LEMMA AbstractElements ==
    ASSUME NEW p \in Property, Id # {}
    PROVE  /\ Len(p.elems) \in Nat /\ Len(AbstractProperty(p).elems) = Len(p.elems)
           /\ AbstractProperty(p).elems = <<>> <=> Len(p.elems) = 0
           /\ AbstractProperty(p).kind =
                IF p.kind \in {"composite", "pairs", "dictionary"} THEN "structured" ELSE p.kind
           /\ \A i \in 1..Len(p.elems) :
                /\ AbstractProperty(p).elems[i] = AbstractElement(p.kind, p.elems[i])
                /\ T!Bad(AbstractProperty(p), i) <=> Outcome(p.kind, p.elems[i]) # "ok"
                /\ AbstractProperty(p).elems[i] = Fatal <=> Outcome(p.kind, p.elems[i]) = "fatal"
<1>1. PICK n \in Nat : n = Len(p.elems)
  BY DEF Property
<1>2. PICK f : f = [i \in 1..n |-> AbstractElement(p.kind, p.elems[i])]
  OBVIOUS
<1>3. f \in Seq({f[i] : i \in 1..n}) /\ Len(f) = n /\ (f = <<>> <=> n = 0)
  BY <1>2
<1>4. PICK k : k = IF p.kind \in {"composite", "pairs", "dictionary"} THEN "structured" ELSE p.kind
  OBVIOUS
<1>5. PICK a : a = [kind |-> k, elems |-> f]
  OBVIOUS
<1>6. AbstractProperty(p) = a /\ a.kind = k /\ a.elems = f
  BY <1>1, <1>2, <1>4, <1>5 DEF AbstractProperty
<1>7. ASSUME NEW i \in 1..n
      PROVE  /\ f[i] = AbstractElement(p.kind, p.elems[i])
             /\ T!Bad(a, i) <=> Outcome(p.kind, p.elems[i]) # "ok"
             /\ f[i] = Fatal <=> Outcome(p.kind, p.elems[i]) = "fatal"
  <2>1. PICK out : out = Outcome(p.kind, p.elems[i])
    OBVIOUS
  <2>2. f[i] = AbstractElement(p.kind, p.elems[i])
    BY <1>2
  <2>3. /\ out \in {"ok", "invalid", "fatal"} /\ p.kind # "ignored"
        /\ p.kind \in {"reference", "role"} =>
                /\ p.elems[i] \in Id /\ out # "fatal"
                /\ p.kind = "role" => out = "ok"
                /\ p.kind = "reference" => (out = "ok" <=> p.elems[i] \in Known)
    BY <1>1, <2>1, OutcomeTypes
  <2>4. Invalid # Fatal /\ Invalid \notin Id /\ Fatal \notin Id
    BY InsertQueriesAssumption
  <2>5. CASE p.kind \in {"reference", "role"}
    <3>1. f[i] = p.elems[i] /\ k = p.kind
      <4>1. k = p.kind
        BY <1>4, <2>5
      <4>2. f[i] = p.elems[i]
        BY <2>2, <2>5 DEF AbstractElement
      <4>3. QED
        BY <4>1, <4>2
    <3>2. PICK e \in Id : e = a.elems[i]
      BY <1>6, <2>3, <2>5, <3>1
    <3>3. e # Invalid /\ e # Fatal /\ f[i] # Fatal /\ out # "fatal"
      BY <1>6, <2>3, <2>4, <2>5, <3>2
    <3>4. T!Bad(a, i) <=> a.kind = "reference" /\ e \notin Known
      BY <1>6, <2>5, <3>1, <3>2, <3>3 DEF T!Bad
    <3>5. T!Bad(a, i) <=> out # "ok"
      BY <1>6, <2>3, <2>5, <3>1, <3>2, <3>4
    <3>6. QED
      BY <2>1, <2>2, <3>3, <3>5
  <2>6. CASE p.kind \notin {"reference", "role"}
    <3>1. k \in {"structured", "attribute"}
      BY <1>4, <2>3, <2>6 DEF Property
    <3>2. PICK any \in Id : any = CHOOSE x \in Id : TRUE
      OBVIOUS
    <3>3. f[i] = IF out = "invalid" THEN Invalid ELSE IF out = "fatal" THEN Fatal ELSE any
      BY <2>1, <2>2, <2>6, <3>2 DEF AbstractElement
    <3>4. QED
      BY <1>6, <2>1, <2>2, <2>3, <2>4, <3>1, <3>3 DEF T!Bad
  <2>7. QED
    BY <2>5, <2>6
<1>8. QED
  BY <1>1, <1>3, <1>4, <1>6, <1>7

LEMMA AbstractFailure ==
    ASSUME NEW p \in Property, Id # {}
    PROVE  /\ T!Fails(AbstractProperty(p)) <=>
                \E i \in 1..Len(p.elems) : Outcome(p.kind, p.elems[i]) # "ok"
           /\ T!Aborts(AbstractProperty(p)) <=>
                \E i \in 1..Len(p.elems) :
                    /\ Outcome(p.kind, p.elems[i]) = "fatal"
                    /\ \A j \in 1..(i - 1) : Outcome(p.kind, p.elems[j]) = "ok"
<1>1. PICK a : a = AbstractProperty(p)
  OBVIOUS
<1>2. PICK n \in Nat : n = Len(p.elems)
  BY AbstractElements
<1>3. /\ Len(a.elems) = n
      /\ \A i \in 1..n : /\ T!Bad(a, i) <=> Outcome(p.kind, p.elems[i]) # "ok"
                         /\ a.elems[i] = Fatal <=> Outcome(p.kind, p.elems[i]) = "fatal"
  BY <1>1, <1>2, AbstractElements
<1>4. T!Fails(a) <=> \E i \in 1..n : Outcome(p.kind, p.elems[i]) # "ok"
  BY <1>3 DEF T!Fails
<1>5. \A i \in 1..n : \A j \in 1..(i - 1) : j \in 1..n
  OBVIOUS
<1>6. T!Aborts(a) <=> \E i \in 1..n : /\ Outcome(p.kind, p.elems[i]) = "fatal"
                                      /\ \A j \in 1..(i - 1) : Outcome(p.kind, p.elems[j]) = "ok"
  <2>1. T!Aborts(a) <=> \E i \in 1..n :
            T!Bad(a, i) /\ a.elems[i] = Fatal /\ \A j \in 1..(i - 1) : ~T!Bad(a, j)
    BY <1>3 DEF T!Aborts
  <2>2. \A i \in 1..n :
            (T!Bad(a, i) /\ a.elems[i] = Fatal /\ \A j \in 1..(i - 1) : ~T!Bad(a, j))
            <=> /\ Outcome(p.kind, p.elems[i]) = "fatal"
                /\ \A j \in 1..(i - 1) : Outcome(p.kind, p.elems[j]) = "ok"
    <3>1. \A i \in 1..n : \A j \in 1..(i - 1) :
                ~T!Bad(a, j) <=> Outcome(p.kind, p.elems[j]) = "ok"
      BY <1>3, <1>5
    <3>2. \A i \in 1..n : (T!Bad(a, i) /\ a.elems[i] = Fatal) <=> Outcome(p.kind, p.elems[i]) = "fatal"
      BY <1>3
    <3>3. QED
      BY <3>1, <3>2
  <2>3. QED
    BY <2>1, <2>2
<1>7. QED
  BY <1>1, <1>2, <1>4, <1>6

LEMMA AbstractSections ==
    ASSUME NEW o \in Object
    PROVE  /\ Id # {}
           /\ AbstractContent[o].props = AbstractProperties(Content[o].props)
           /\ T!RelevantProps(o) = AbstractProperties(ExtensionProperties(o))
<1>1. Id # {} /\ AbstractContent[o].props = AbstractProperties(Content[o].props)
  BY AbstractFields DEF STIXObject
<1>2. /\ Content[o].inline \in Seq(Property) /\ Content[o].extensions \in Seq(Extension)
  BY AbstractFields DEF STIXObject
<1>3. AbstractContent[o].inline = <<>> <=> Content[o].inline = <<>>
  BY <1>2, AbstractFields, AbstractLength
<1>4. CASE Content[o].inline # <<>>
  <2>1. PICK ps : ps = AbstractProperties(Content[o].inline)
    OBVIOUS
  <2>2. T!Extensions(o) = <<[defined |-> TRUE, props |-> ps]>>
    BY <1>3, <1>4, <2>1, AbstractFields DEF T!Extensions
  <2>3. T!Predefined(o) = {1}
    BY <2>2 DEF T!Predefined, T!DefinedIn
  <2>4. T!FirstPredefined(o) = 1
    BY <2>3 DEF T!FirstPredefined, T!Lowest
  <2>5. T!RelevantProps(o) = ps
    BY <2>2, <2>3, <2>4 DEF T!RelevantProps
  <2>6. QED
    BY <1>1, <1>4, <2>1, <2>5 DEF ExtensionProperties
<1>5. CASE Content[o].inline = <<>> /\ T!Predefined(o) = {}
  <2>1. AbstractProperties(<<>>) = <<>>
    <3>1. <<>> \in Seq(Property)
      OBVIOUS
    <3>2. QED
      BY <3>1, AbstractLength
  <2>2. QED
    BY <1>1, <1>5, <2>1 DEF ExtensionProperties, T!RelevantProps
<1>6. CASE Content[o].inline = <<>> /\ T!Predefined(o) # {}
  <2>1. T!Extensions(o) = AbstractContent[o].extensions
    BY <1>3, <1>6 DEF T!Extensions
  <2>2. PICK n \in Nat : n = Len(Content[o].extensions)
    BY <1>2
  <2>3. PICK f : f = AbstractContent[o].extensions
    OBVIOUS
  <2>4. f = [i \in 1..n |-> [defined |-> Content[o].extensions[i].defined,
                             props |-> AbstractProperties(Content[o].extensions[i].props)]]
    BY <2>2, <2>3, AbstractFields
  <2>5. f \in Seq({f[i] : i \in 1..n}) /\ Len(f) = n
    <3>1. f = [i \in 1..n |-> f[i]]
      BY <2>4
    <3>2. QED
      BY <3>1
  <2>6. T!Predefined(o) \in SUBSET Nat /\ T!Predefined(o) \subseteq 1..n
    BY <2>1, <2>3, <2>5 DEF T!Predefined, T!DefinedIn
  <2>7. \E i \in T!Predefined(o) : \A j \in T!Predefined(o) : i <= j
    BY <1>6, <2>6, SmallestNumber
  <2>8. PICK i \in 1..n : i = T!FirstPredefined(o)
    BY <2>6, <2>7 DEF T!FirstPredefined, T!Lowest
  <2>9. T!RelevantProps(o) = f[i].props
    BY <1>6, <2>1, <2>3, <2>8 DEF T!RelevantProps
  <2>10. f[i].props = AbstractProperties(Content[o].extensions[i].props)
    BY <2>4
  <2>11. ExtensionProperties(o) = Content[o].extensions[i].props
    BY <1>6, <2>8 DEF ExtensionProperties
  <2>12. QED
    BY <1>1, <2>9, <2>10, <2>11
<1>7. QED
  BY <1>4, <1>5, <1>6

(***************************************************************************)
(* What the conversion of a property has come to: the elements and leaves  *)
(* passed have been converted, what they have produced is at the position  *)
(* of the property, and every embedded relation has its two ends.          *)
(***************************************************************************)
StructuredKinds == {"composite", "pairs", "dictionary"}
Places(stored) == {Position(s.at) : s \in stored}
Links(things) == UNION {{Position(t.at)} \X t.ids : t \in {u \in things : u.at # MainPlace}}
Located(things, pos) == \A t \in things :
    /\ t.at # MainPlace /\ Position(t.at) = pos
    /\ \A s \in t.owns : Position(s.at) = pos
Ends(id, clauses) ==
    /\ \A t \in clauses.match :
            IF t.at = MainPlace THEN t.ids = {id}
            ELSE t.ids # {} /\ \E u \in clauses.insert : u.at = t.at
    /\ \A t \in clauses.insert :
            /\ t.at # MainPlace /\ t.owns = {}
            /\ \E u \in clauses.match : u.at = t.at
            /\ \E u \in clauses.match : u.at = MainPlace

Passed(p, n) == \A e \in 1..(n - 1) : e <= Len(p.elems) /\ Outcome(p.kind, p.elems[e]) = "ok"
LeavesPassed(leaves, n) == \A i \in 1..(n - 1) : leaves[i].value = "ok"
Produced(p, pos, n, l) ==
    /\ Places(l.owns) = IF p.kind = "attribute" /\ n > 1 THEN {pos} ELSE {}
    /\ Located(l.attributes, pos)
    /\ IF p.kind \in StructuredKinds
       THEN (n > 1 => l.attributes # {}) /\ (l.attributes # {} => Len(p.elems) # 0)
       ELSE l.attributes = {}
    /\ Links(l.embedded.match) =
            IF p.kind = "reference" THEN {pos} \X {p.elems[e] : e \in 1..(n - 1)} ELSE {}

LocalInv == Converting =>
    /\ Passed(property, elem)
    /\ leaf # 0 => LeavesPassed(element, leaf)
    /\ Produced(property, <<stage, prop>>, elem, local)
    /\ Located(Parts.open, <<stage, prop>>)
    /\ Ends(stix.id, local.embedded)
MainInv == /\ \A t \in bundle.main.insert : t.at = MainPlace
           /\ Ends(stix.id, bundle.embedded)

LEMMA NothingProduced ==
    /\ \A p : Passed(p, 1)
    /\ \A p, pos : Produced(p, pos, 1, NoLocal)
    /\ \A pos : Located({}, pos)
    /\ \A id : Ends(id, NoClauses)
<1>1. \A p : Passed(p, 1)
  BY DEF Passed
<1>2. ASSUME NEW p, NEW pos PROVE Produced(p, pos, 1, NoLocal)
  <2>1. Places({}) = {} /\ Links({}) = {} /\ Located({}, pos)
    BY DEF Places, Links, Located
  <2>2. {pos} \X {p.elems[e] : e \in 1..(1 - 1)} = {}
    OBVIOUS
  <2>3. /\ Places(NoLocal.owns) = {} /\ Located(NoLocal.attributes, pos)
        /\ NoLocal.attributes = {} /\ Links(NoLocal.embedded.match) = {}
    BY <2>1, Empties
  <2>4. ~(1 > 1)
    OBVIOUS
  <2>5. QED
    BY <2>2, <2>3, <2>4, Zenon DEF Produced
<1>3. \A pos : Located({}, pos)
  BY DEF Located
<1>4. \A id : Ends(id, NoClauses)
  BY Empties DEF Ends
<1>5. QED
  BY <1>1, <1>2, <1>3, <1>4

LEMMA LocalFresh == NoElement => LocalInv'
<1> SUFFICES ASSUME NoElement PROVE LocalInv'
  OBVIOUS
<1>1. elem' = 1 /\ leaf' = 0 /\ local' = NoLocal
  BY DEF NoElement
<1>2. Parts'["open"] = {}
  BY NothingLocal, PartFieldsNext
<1>3. Passed(property', 1) /\ Produced(property', <<stage', prop'>>, 1, NoLocal)
      /\ Located({}, <<stage', prop'>>) /\ Ends(stix'.id, NoClauses)
  BY NothingProduced
<1>4. QED
  BY <1>1, <1>2, <1>3, Empties DEF LocalInv

(* The frame of the loops.                                                 *)
LEMMA SameProperty ==
    ASSUME UNCHANGED <<file, next, stage, prop>>
    PROVE  /\ Converting' <=> Converting
           /\ property' = property /\ stix' = stix
           /\ element' = property.elems[elem']
           /\ elem' = elem => element' = element
BY DEF Converting, property, stix, Current, element

LEMMA LocalContinues ==
    ASSUME LocalInv, UNCHANGED <<file, next, stage, prop>>, Converting,
           Passed(property, elem'),
           leaf' # 0 => LeavesPassed(property.elems[elem'], leaf'),
           Produced(property, <<stage, prop>>, elem', local'),
           Located({composite'[i] : i \in 1..Len(composite')}, <<stage, prop>>),
           Ends(stix.id, local'.embedded)
    PROVE  LocalInv'
BY SameProperty, PartFieldsNext DEF LocalInv

LEMMA MainContinues ==
    ASSUME MainInv, UNCHANGED <<file, next, stage, prop, bundle>>
    PROVE  MainInv'
BY SameProperty DEF MainInv

LEMMA HereIsPlaced ==
    ASSUME TypeInv, Converting
    PROVE  /\ here # MainPlace /\ Position(here) = <<stage, prop>>
           /\ elem \in Nat \ {0}
<1>1. stage \in {"props", "ext"} /\ elem \in Nat \ {0}
  BY ConvertingFacts
<1>2. QED
  BY <1>1 DEF here, MainPlace, Position

LEMMA PassedElement ==
    ASSUME TypeInv, NEW kind, AtElement(kind), Passed(property, elem),
           Outcome(property.kind, element) = "ok"
    PROVE  Passed(property, elem + 1)
<1>1. elem \in 1..Len(property.elems) /\ Len(property.elems) \in Nat
  BY ElementTypes
<1>2. \A e \in 1..elem : e = elem \/ e \in 1..(elem - 1)
  BY <1>1
<1>3. elem + 1 - 1 = elem
  BY <1>1
<1>4. Outcome(property.kind, property.elems[elem]) = "ok"
  BY DEF element
<1>5. QED
  BY <1>1, <1>2, <1>3, <1>4 DEF Passed

LEMMA PlacesTogether ==
    /\ \A A, B : Places(A \cup B) = Places(A) \cup Places(B)
    /\ \A A, B, pos : Located(A, pos) /\ Located(B, pos) => Located(A \cup B, pos)
    /\ \A A, B : Links(A \cup B) = Links(A) \cup Links(B)
    /\ \A A : A = {} => Places(A) = {} /\ Links(A) = {}
<1>1. \A A, B : Places(A \cup B) = Places(A) \cup Places(B)
  BY DEF Places
<1>2. \A A, B, pos : Located(A, pos) /\ Located(B, pos) => Located(A \cup B, pos)
  BY DEF Located
<1>3. \A A, B : Links(A \cup B) = Links(A) \cup Links(B)
  BY DEF Links
<1>4. QED
  BY <1>1, <1>2, <1>3 DEF Places, Links
LEMMA LocalFields ==
    ASSUME NEW l \in Local
    PROVE  /\ \A s : LET m == [l EXCEPT !.owns = @ \cup s]
                     IN  m.owns = l.owns \cup s /\ m.attributes = l.attributes /\ m.embedded = l.embedded
           /\ \A s : LET m == [l EXCEPT !.attributes = @ \cup s]
                     IN  m.owns = l.owns /\ m.attributes = l.attributes \cup s /\ m.embedded = l.embedded
           /\ \A c : LET m == [l EXCEPT !.embedded = c]
                     IN  m.owns = l.owns /\ m.attributes = l.attributes /\ m.embedded = c
BY DEF Local

LEMMA StructuredProduced ==
    ASSUME NEW p, p.kind \in StructuredKinds, NEW pos, NEW n, NEW m, NEW l, NEW k,
           Produced(p, pos, n, l), k.owns = l.owns, k.embedded = l.embedded,
           NEW new, k.attributes = l.attributes \cup new, Located(new, pos),
           m > 1 => k.attributes # {}, Len(p.elems) # 0
    PROVE  Produced(p, pos, m, k)
<1>1. p.kind # "attribute" /\ p.kind # "reference"
  BY DEF StructuredKinds
<1>2. Located(k.attributes, pos)
  BY PlacesTogether DEF Produced
<1>3. QED
  BY <1>1, <1>2 DEF Produced

LEMMA ElementDoneLocal ==
    ASSUME TypeInv, LocalInv, UNCHANGED Unconverted, ElementDone, NEW kind, AtElement(kind),
           Outcome(property.kind, element) = "ok",
           Produced(property, <<stage, prop>>, elem + 1, local'), Ends(stix.id, local'.embedded)
    PROVE  LocalInv'
<1>1. Converting
  BY DEF AtElement
<1>2. elem' = elem + 1 /\ leaf' = 0 /\ composite' = <<>>
  BY DEF ElementDone
<1>3. Passed(property, elem + 1)
  BY <1>1, PassedElement DEF LocalInv
<1>4. {composite'[i] : i \in 1..Len(composite')} = {}
  BY <1>2
<1>5. Located({composite'[i] : i \in 1..Len(composite')}, <<stage, prop>>)
  BY <1>4, NothingProduced
<1>6. UNCHANGED <<file, next, stage, prop>>
  BY DEF Unconverted
<1>7. QED
  BY <1>1, <1>2, <1>3, <1>5, <1>6, LocalContinues

LEMMA AttributeLocal == TypeInv /\ LocalInv /\ ConvertAttribute => LocalInv'
<1> SUFFICES ASSUME TypeInv, LocalInv, ConvertAttribute PROVE LocalInv'
  OBVIOUS
<1>1. AtElement("attribute") /\ element = "ok" /\ UNCHANGED Unconverted /\ ElementDone
      /\ local' = [local EXCEPT !.owns = @ \cup {[at |-> here, as |-> "ok"]}]
  BY DEF ConvertAttribute, NextElement, ElementDone, Unconverted
<1>2. Converting /\ property.kind = "attribute"
  BY <1>1 DEF AtElement
<1>3. Produced(property, <<stage, prop>>, elem, local) /\ Ends(stix.id, local.embedded)
  BY <1>2 DEF LocalInv
<1>4. PICK s : s = [at |-> here, as |-> "ok"]
  OBVIOUS
<1>5. local'.owns = local.owns \cup {s} /\ local'.attributes = local.attributes
      /\ local'.embedded = local.embedded
  BY <1>1, <1>4, TypeFacts, LocalFields
<1>6. Places(local'.owns) = {<<stage, prop>>}
  <2>1. Places(local.owns) \subseteq {<<stage, prop>>}
    BY <1>3 DEF Produced
  <2>2. Places({s}) = {<<stage, prop>>}
    BY <1>2, <1>4, HereIsPlaced DEF Places
  <2>3. QED
    BY <1>5, <2>1, <2>2, PlacesTogether
<1>7. elem + 1 > 1
  BY <1>2, HereIsPlaced
<1>8. Produced(property, <<stage, prop>>, elem + 1, local')
  BY <1>2, <1>3, <1>5, <1>6, <1>7 DEF Produced, StructuredKinds
<1>9. Outcome(property.kind, element) = "ok"
  BY <1>1, <1>2 DEF Outcome
<1>10. QED
  BY <1>1, <1>3, <1>5, <1>8, <1>9, ElementDoneLocal

LEMMA StructuredLocal ==
    ASSUME TypeInv, LocalInv, Converting, property.kind \in StructuredKinds,
           NEW w, NEW e, NEW r, Structured(w, e, r), Places(e.owns) \subseteq {<<stage, prop>>},
           Len(property.elems) # 0
    PROVE  /\ \A n : Produced(property, <<stage, prop>>, n, local')
           /\ local'.embedded = local.embedded
<1>1. local'.owns = local.owns /\ local'.attributes = local.attributes \cup {e, r}
      /\ local'.embedded = local.embedded
  BY TypeFacts, LocalFields DEF Structured
<1>2. Produced(property, <<stage, prop>>, elem, local)
  BY DEF LocalInv
<1>3. Located({e, r}, <<stage, prop>>)
  BY HereIsPlaced DEF Structured, Located, Places
<1>4. local'.attributes # {}
  BY <1>1
<1>5. QED
  BY <1>1, <1>2, <1>3, <1>4, StructuredProduced

LEMMA PairLocal == TypeInv /\ LocalInv /\ ConvertPair => LocalInv'
<1> SUFFICES ASSUME TypeInv, LocalInv, ConvertPair PROVE LocalInv'
  OBVIOUS
<1>1. PICK e, r : Structured(Owner, e, r) /\ e.owns = {[at |-> here, as |-> "ok"]}
  BY PairProduces
<1>2. UNCHANGED Unconverted /\ ElementDone /\ AtElement("pairs") /\ Converting
  BY PairProduces
<1>3. property.kind = "pairs" /\ element = "ok" /\ Len(property.elems) # 0
  BY <1>2, ElementTypes DEF AtElement, ConvertPair
<1>4. Places(e.owns) \subseteq {<<stage, prop>>}
  BY <1>1, <1>2, HereIsPlaced DEF Places
<1>5. Produced(property, <<stage, prop>>, elem + 1, local') /\ local'.embedded = local.embedded
  BY <1>1, <1>2, <1>3, <1>4, StructuredLocal DEF StructuredKinds
<1>6. Ends(stix.id, local.embedded)
  BY <1>2 DEF LocalInv
<1>7. Outcome(property.kind, element) = "ok"
  BY <1>3 DEF Outcome
<1>8. QED
  BY <1>2, <1>5, <1>6, <1>7, ElementDoneLocal

LEMMA ItemLocal == TypeInv /\ LocalInv /\ ConvertItem => LocalInv'
<1> SUFFICES ASSUME TypeInv, LocalInv, ConvertItem PROVE LocalInv'
  OBVIOUS
<1>1. PICK e, r : Structured(Owner, e, r) /\ e.owns = ItemValues
  BY ItemProduces
<1>2. UNCHANGED Unconverted /\ ElementDone /\ AtElement("dictionary") /\ Converting
  BY ItemProduces
<1>3. property.kind = "dictionary" /\ ItemOutcome(element) = "ok" /\ Len(property.elems) # 0
  BY <1>2, ElementTypes DEF AtElement, ConvertItem
<1>4. Places(e.owns) \subseteq {<<stage, prop>>}
  BY <1>1 DEF Places, ItemValues, Position
<1>5. Produced(property, <<stage, prop>>, elem + 1, local') /\ local'.embedded = local.embedded
  BY <1>1, <1>2, <1>3, <1>4, StructuredLocal DEF StructuredKinds
<1>6. Ends(stix.id, local.embedded)
  BY <1>2 DEF LocalInv
<1>7. Outcome(property.kind, element) = "ok"
  BY <1>3 DEF Outcome
<1>8. QED
  BY <1>2, <1>5, <1>6, <1>7, ElementDoneLocal

(* The loop over the leaves of a composite value.                          *)
LEMMA LeafLocal ==
    ASSUME TypeInv, LocalInv, UNCHANGED Unconverted, elem' = elem, AtElement("composite"),
           NEW x, composite' = <<x>>, Located({x}, <<stage, prop>>),
           leaf' = leaf + 1, leaf > 0 => element[leaf].value = "ok",
           Produced(property, <<stage, prop>>, elem, local'), local'.embedded = local.embedded
    PROVE  LocalInv'
<1>1. Converting /\ leaf \in Nat
  BY ConvertingFacts DEF AtElement
<1>2. LeavesPassed(element, leaf')
  <2>1. \A i \in 1..leaf : i = leaf \/ i \in 1..(leaf - 1)
    BY <1>1
  <2>2. leaf # 0 => LeavesPassed(element, leaf)
    BY <1>1 DEF LocalInv
  <2>3. leaf + 1 - 1 = leaf
    BY <1>1
  <2>4. CASE leaf = 0
    BY <2>3, <2>4 DEF LeavesPassed
  <2>5. CASE leaf # 0
    BY <1>1, <2>1, <2>2, <2>3, <2>5 DEF LeavesPassed
  <2>6. QED
    BY <2>4, <2>5
<1>3. {composite'[i] : i \in 1..Len(composite')} = {x}
  BY SMT
<1>4. Passed(property, elem) /\ Ends(stix.id, local.embedded)
  BY <1>1 DEF LocalInv
<1>5. UNCHANGED <<file, next, stage, prop>> /\ element = property.elems[elem]
  BY DEF Unconverted, element
<1>6. QED
  BY <1>1, <1>2, <1>3, <1>4, <1>5, LocalContinues

LEMMA BeginLocal == TypeInv /\ LocalInv /\ BeginComposite => LocalInv'
<1> SUFFICES ASSUME TypeInv, LocalInv, BeginComposite PROVE LocalInv'
  OBVIOUS
<1>1. UNCHANGED Unconverted /\ AtElement("composite") /\ Converting /\ elem' = elem
      /\ leaf = 0 /\ leaf' = leaf + 1 /\ local' = local
  BY BeginProduces
<1>2. PICK x : composite' = <<x>> /\ x.at = here /\ x.owns = {}
  BY BeginProduces
<1>3. Located({x}, <<stage, prop>>)
  BY <1>1, <1>2, HereIsPlaced DEF Located
<1>4. Produced(property, <<stage, prop>>, elem, local)
  BY <1>1 DEF LocalInv
<1>5. QED
  BY <1>1, <1>2, <1>3, <1>4, LeafLocal

LEMMA LeafValueLocal == TypeInv /\ LocalInv /\ ConvertLeafValue => LocalInv'
<1> SUFFICES ASSUME TypeInv, LocalInv, ConvertLeafValue PROVE LocalInv'
  OBVIOUS
<1>1. UNCHANGED Unconverted /\ AtElement("composite") /\ Converting /\ elem' = elem
      /\ leaf \in Nat \ {0} /\ leaf' = leaf + 1
      /\ element[leaf] = [kind |-> "value", value |-> "ok"] /\ local' = local
  BY LeafValueProduces
<1>2. PICK x : composite' = <<x>> /\ x.at = composite[1].at
               /\ x = [composite[1] EXCEPT !.owns = @ \cup {[at |-> here, as |-> "ok"]}]
  BY LeafValueProduces
<1>3. composite[1] \in Thing /\ Parts.open = {composite[1]}
  BY <1>1, OpenComposite
<1>4. x.owns = composite[1].owns \cup {[at |-> here, as |-> "ok"]}
  BY <1>2, <1>3 DEF Thing
<1>5. Located({composite[1]}, <<stage, prop>>)
  BY <1>1, <1>3 DEF LocalInv
<1>6. composite' = <<x>> /\ x.at = composite[1].at /\ element[leaf].value = "ok"
  BY <1>1, <1>2
<1>7. Located({x}, <<stage, prop>>)
  BY <1>1, <1>4, <1>5, <1>6, HereIsPlaced DEF Located
<1>8. Produced(property, <<stage, prop>>, elem, local)
  BY <1>1 DEF LocalInv
<1>9. QED
  BY <1>1, <1>6, <1>7, <1>8, LeafLocal

LEMMA LeafPairLocal == TypeInv /\ LocalInv /\ ConvertLeafPair => LocalInv'
<1> SUFFICES ASSUME TypeInv, LocalInv, ConvertLeafPair PROVE LocalInv'
  OBVIOUS
<1>1. UNCHANGED Unconverted /\ UNCHANGED <<elem, composite>> /\ Converting
      /\ leaf \in Nat \ {0} /\ leaf' = leaf + 1 /\ AtElement("composite")
      /\ element[leaf] = [kind |-> "pair", value |-> "ok"]
  BY LeafPairProduces
<1>2. PICK e, r : Structured(composite[1].var, e, r) /\ e.owns = {[at |-> here, as |-> "ok"]}
  BY LeafPairProduces
<1>3. composite = <<composite[1]>> /\ Parts.open = {composite[1]}
  BY <1>1, OpenComposite
<1>4. Located({composite[1]}, <<stage, prop>>)
  BY <1>1, <1>3 DEF LocalInv
<1>5. Places(e.owns) \subseteq {<<stage, prop>>}
  BY <1>1, <1>2, HereIsPlaced DEF Places
<1>6. property.kind \in StructuredKinds /\ Len(property.elems) # 0
  BY <1>1, ElementTypes DEF AtElement, StructuredKinds
<1>7. Produced(property, <<stage, prop>>, elem, local') /\ local'.embedded = local.embedded
  BY <1>1, <1>2, <1>5, <1>6, StructuredLocal
<1>8. QED
  BY <1>1, <1>3, <1>4, <1>7, LeafLocal

LEMMA EndLocal == TypeInv /\ LocalInv /\ EndComposite => LocalInv'
<1> SUFFICES ASSUME TypeInv, LocalInv, EndComposite PROVE LocalInv'
  OBVIOUS
<1>1. UNCHANGED Unconverted /\ ElementDone /\ AtElement("composite") /\ Converting
      /\ leaf \in Nat \ {0} /\ leaf > Len(element)
  BY EndProduces
<1>2. PICK r : /\ local' = [local EXCEPT !.attributes = @ \cup {composite[1], r}]
               /\ r.at = composite[1].at /\ r.owns = {}
  BY EndProduces
<1>3. local'.owns = local.owns /\ local'.attributes = local.attributes \cup {composite[1], r}
      /\ local'.embedded = local.embedded
  BY <1>2, TypeFacts, LocalFields
<1>4. Located({composite[1]}, <<stage, prop>>)
  BY <1>1, OpenComposite DEF LocalInv
<1>5. Located({composite[1], r}, <<stage, prop>>)
  BY <1>2, <1>4 DEF Located
<1>6. /\ property.kind = "composite" /\ property.kind \in StructuredKinds
      /\ Len(property.elems) # 0
  BY <1>1, ElementTypes DEF AtElement, StructuredKinds
<1>7. Produced(property, <<stage, prop>>, elem, local) /\ Ends(stix.id, local.embedded)
      /\ LeavesPassed(element, leaf)
  BY <1>1 DEF LocalInv
<1>8. Produced(property, <<stage, prop>>, elem + 1, local')
  BY <1>3, <1>5, <1>6, <1>7, StructuredProduced
<1>9. Outcome(property.kind, element) = "ok"
  <2>1. element \in Seq(Leaf) /\ Len(element) \in Nat
    BY <1>1, OpenComposite
  <2>2. \A i \in 1..Len(element) : i \in 1..(leaf - 1)
    BY <1>1, <2>1
  <2>3. \A i \in 1..Len(element) : element[i].value = "ok"
    BY <1>7, <2>2 DEF LeavesPassed
  <2>4. QED
    BY <1>6, <2>3 DEF Outcome
<1>10. QED
  BY <1>1, <1>3, <1>7, <1>8, <1>9, ElementDoneLocal
LEMMA EndsTogether ==
    ASSUME NEW id, NEW c, NEW d, Ends(id, c), Ends(id, d), NEW b,
           b.match = c.match \cup d.match, b.insert = c.insert \cup d.insert
    PROVE  Ends(id, b)
<1>1. ASSUME NEW t \in b.match
      PROVE  IF t.at = MainPlace THEN t.ids = {id}
             ELSE t.ids # {} /\ \E u \in b.insert : u.at = t.at
  BY <1>1 DEF Ends
<1>2. ASSUME NEW t \in b.insert
      PROVE  /\ t.at # MainPlace /\ t.owns = {}
             /\ \E u \in b.match : u.at = t.at
             /\ \E u \in b.match : u.at = MainPlace
  BY <1>2 DEF Ends
<1>3. QED
  BY <1>1, <1>2 DEF Ends

LEMMA ReferencesProduced ==
    ASSUME NEW p, p.kind = "reference", NEW pos, NEW n, NEW l,
           Places(l.owns) = {}, Located(l.attributes, pos), l.attributes = {},
           Links(l.embedded.match) = {pos} \X {p.elems[e] : e \in 1..(n - 1)}
    PROVE  Produced(p, pos, n, l)
BY DEF Produced, StructuredKinds

LEMMA ReferenceLocal == TypeInv /\ LocalInv /\ ConvertReference => LocalInv'
<1> SUFFICES ASSUME TypeInv, LocalInv, ConvertReference PROVE LocalInv'
  OBVIOUS
<1>1. UNCHANGED Unconverted /\ ElementDone /\ AtElement("reference") /\ Converting
      /\ element \in Known
  BY ReferenceProduces
<1>2. PICK x, y, r \in Thing :
            /\ x.at = here /\ x.ids = {element} /\ y.at = MainPlace /\ y.ids = {stix.id}
            /\ r.at = here /\ r.owns = {}
            /\ local' = [local EXCEPT !.embedded = [match |-> @.match \cup {x, y},
                                                    insert |-> @.insert \cup {r}]]
  BY ReferenceProduces
<1>3. PICK l, m : l = local.embedded /\ m = [match |-> l.match \cup {x, y}, insert |-> l.insert \cup {r}]
  OBVIOUS
<1>4. local'.owns = local.owns /\ local'.attributes = local.attributes /\ local'.embedded = m
  BY <1>2, <1>3, TypeFacts, LocalFields
<1>5. m.match = l.match \cup {x, y} /\ m.insert = l.insert \cup {r}
  BY <1>3
<1>6. property.kind = "reference"
  BY <1>1 DEF AtElement
<1>7. Produced(property, <<stage, prop>>, elem, local) /\ Ends(stix.id, l)
  BY <1>1, <1>3 DEF LocalInv
<1>8. here # MainPlace /\ Position(here) = <<stage, prop>> /\ elem \in Nat \ {0}
  BY <1>1, HereIsPlaced
<1>9. x.at = here /\ x.ids = {element} /\ y.at = MainPlace /\ y.ids = {stix.id}
      /\ r.at = here /\ r.owns = {}
  BY <1>2
<1>10. Ends(stix.id, m)
  <2>1. PICK d : d = [match |-> {x, y}, insert |-> {r}]
    OBVIOUS
  <2>2. d.match = {x, y} /\ d.insert = {r}
    BY <2>1
  <2>3. Ends(stix.id, d)
    BY <1>8, <1>9, <2>2 DEF Ends
  <2>4. QED
    BY <1>5, <1>7, <2>2, <2>3, EndsTogether
<1>11. PICK pos, n : pos = <<stage, prop>> /\ n = elem + 1
  OBVIOUS
<1>12. Links(m.match) = {pos} \X {property.elems[e] : e \in 1..(n - 1)}
  <2>1. Links({x, y}) = {pos} \X {element}
    <3>1. {u \in {x, y} : u.at # MainPlace} = {x}
      BY <1>8, <1>9
    <3>2. Position(x.at) = pos
      BY <1>8, <1>9, <1>11
    <3>3. QED
      BY <1>9, <3>1, <3>2 DEF Links
  <2>2. Links(l.match) = {pos} \X {property.elems[e] : e \in 1..(elem - 1)}
    BY <1>3, <1>6, <1>7, <1>11 DEF Produced
  <2>3. {property.elems[e] : e \in 1..(n - 1)} = {property.elems[e] : e \in 1..(elem - 1)} \cup {element}
    <3>1. \A e : e \in 1..(n - 1) <=> e \in 1..(elem - 1) \/ e = elem
      BY <1>8, <1>11
    <3>2. element = property.elems[elem]
      BY DEF element
    <3>3. QED
      BY <3>1, <3>2
  <2>4. Links(m.match) = Links(l.match) \cup Links({x, y})
    BY <1>5, PlacesTogether
  <2>5. QED
    BY <2>1, <2>2, <2>3, <2>4
<1>13. Produced(property, pos, n, local')
  <2>1. property.kind # "attribute" /\ property.kind \notin StructuredKinds
    BY <1>6 DEF StructuredKinds
  <2>2. Places(local.owns) = {} /\ Located(local.attributes, pos) /\ local.attributes = {}
    BY <1>7, <1>11, <2>1 DEF Produced
  <2>3. PICK p, k : p = property /\ k = local'
    OBVIOUS
  <2>4. Links(k.embedded.match) = {pos} \X {p.elems[e] : e \in 1..(n - 1)}
    BY <1>4, <1>12, <2>3
  <2>5. Produced(p, pos, n, k)
    BY <1>4, <1>6, <2>2, <2>3, <2>4, ReferencesProduced
  <2>6. QED
    BY <2>3, <2>5
<1>14. Outcome(property.kind, element) = "ok"
  BY <1>1, <1>6 DEF Outcome
<1>15. QED
  BY <1>1, <1>4, <1>10, <1>11, <1>13, <1>14, ElementDoneLocal

LEMMA LoopsLocal == TypeInv /\ LocalInv
    /\ (ConvertAttribute \/ BeginComposite \/ ConvertLeafValue \/ ConvertLeafPair \/ EndComposite
        \/ ConvertPair \/ ConvertItem \/ ConvertReference)
    => LocalInv' /\ UNCHANGED <<file, next, stage, prop, bundle, lists>>
BY AttributeLocal, BeginLocal, LeafValueLocal, LeafPairLocal, EndLocal, PairLocal, ItemLocal,
   ReferenceLocal
   DEF ConvertAttribute, BeginComposite, ConvertLeafValue, ConvertLeafPair, EndComposite,
       ConvertPair, ConvertItem, ConvertReference
(***************************************************************************)
(* The state of Transform.                                                 *)
(***************************************************************************)
LEMMA PositionsTogether ==
    /\ \A A, B : Positions(A \cup B) = Positions(A) \cup Positions(B)
    /\ \A A : A = {} => Positions(A) = {} /\ Matched(A) = {}
    /\ \A A, pos : Located(A, pos) /\ A # {} => Positions(A) = {pos}
    /\ \A A : (\A t \in A : t.at = MainPlace) => Positions(A) = Places(Owned(A))
<1>1. ASSUME NEW A, NEW B PROVE Positions(A \cup B) = Positions(A) \cup Positions(B)
  <2>1. Owned(A \cup B) = Owned(A) \cup Owned(B)
    BY DEF Owned
  <2>2. QED
    BY <2>1 DEF Positions
<1>2. \A A : A = {} => Positions(A) = {} /\ Matched(A) = {}
  BY DEF Positions, Owned, Matched
<1>3. ASSUME NEW A, NEW pos, Located(A, pos), A # {} PROVE Positions(A) = {pos}
  <2>1. {u \in A : u.at # MainPlace} = A
    BY <1>3 DEF Located
  <2>2. \A t \in A : Position(t.at) = pos
    BY <1>3 DEF Located
  <2>3. \A s \in Owned(A) : Position(s.at) = pos
    BY <1>3 DEF Located, Owned
  <2>4. {Position(t.at) : t \in A} = {pos}
    BY <1>3, <2>2
  <2>5. QED
    BY <2>1, <2>3, <2>4 DEF Positions
<1>4. ASSUME NEW A, \A t \in A : t.at = MainPlace PROVE Positions(A) = Places(Owned(A))
  <2>1. {u \in A : u.at # MainPlace} = {}
    BY <1>4
  <2>2. QED
    BY <2>1 DEF Positions, Places
<1>5. QED
  BY <1>1, <1>2, <1>3, <1>4

BundleOf(marking, has, match, attributes, links) ==
    [marking |-> marking, has |-> has, match |-> match, attributes |-> attributes, links |-> links]

LEMMA AbstractState ==
    /\ AbstractBundle = BundleOf(bundle.marking, Positions(bundle.main.insert), Matched(bundle.main.match),
                                 Positions(bundle.attributes), Links(bundle.embedded.match))
    /\ AbstractBundle' = BundleOf(bundle'.marking, Positions(bundle'.main.insert), Matched(bundle'.main.match),
                                  Positions(bundle'.attributes), Links(bundle'.embedded.match))
    /\ bundle' = bundle => AbstractBundle' = AbstractBundle
    /\ lists' = lists => AbstractLists' = AbstractLists
    /\ T!EmptyBundle = BundleOf("", {}, {}, {}, {})
<1>1. AbstractBundle = BundleOf(bundle.marking, Positions(bundle.main.insert), Matched(bundle.main.match),
                                Positions(bundle.attributes), Links(bundle.embedded.match))
  BY DEF AbstractBundle, Links, BundleOf
<1>2. AbstractBundle' = BundleOf(bundle'.marking, Positions(bundle'.main.insert), Matched(bundle'.main.match),
                                 Positions(bundle'.attributes), Links(bundle'.embedded.match))
  BY DEF AbstractBundle, Links, BundleOf
<1>3. bundle' = bundle => AbstractBundle' = AbstractBundle
  BY DEF AbstractBundle
<1>4. lists' = lists => AbstractLists' = AbstractLists
  BY DEF AbstractLists
<1>5. QED
  BY <1>1, <1>2, <1>3, <1>4 DEF T!EmptyBundle, BundleOf

LEMMA AbstractEmpty ==
    /\ bundle = EmptyBundle => AbstractBundle = T!EmptyBundle
    /\ bundle' = EmptyBundle => AbstractBundle' = T!EmptyBundle
<1>1. Positions({}) = {} /\ Matched({}) = {} /\ Links({}) = {}
  BY PositionsTogether, PlacesTogether
<1>2. ASSUME bundle = EmptyBundle PROVE AbstractBundle = T!EmptyBundle
  BY <1>1, <1>2, AbstractState, Empties
<1>3. ASSUME bundle' = EmptyBundle PROVE AbstractBundle' = T!EmptyBundle
  BY <1>1, <1>3, AbstractState, Empties
<1>4. QED
  BY <1>2, <1>3

LEMMA AbstractCurrent ==
    ASSUME TypeInv, next <= Len(file)
    PROVE  /\ Current \in Object /\ T!Current = Current
           /\ T!stix.id = stix.id /\ T!stix.read = stix.read /\ T!stix.class = stix.class
           /\ T!stix.props = AbstractProperties(stix.props)
           /\ T!RelevantProps(T!Current) = AbstractProperties(ExtensionProperties(Current))
<1>1. Current \in Object
  BY TypeFacts
<1>2. T!Current = Current
  BY DEF T!Current, Current
<1>3. QED
  BY <1>1, <1>2, AbstractFields, AbstractSections DEF T!stix, stix

LEMMA AbstractSkip == Skip /\ UNCHANGED <<file, lists>> => T!Skip
<1> SUFFICES ASSUME Skip, UNCHANGED <<file, lists>> PROVE T!Skip
  OBVIOUS
<1>1. next' = next + 1 /\ stage' = "read" /\ prop' = 1 /\ bundle' = EmptyBundle
  BY DEF Skip, Enter
<1>2. AbstractBundle' = T!EmptyBundle /\ AbstractLists' = AbstractLists
  BY <1>1, AbstractEmpty, AbstractState
<1>3. QED
  BY <1>1, <1>2 DEF T!Skip
(***************************************************************************)
(* The steps that only go on to another stage, and those that give up.     *)
(***************************************************************************)
LEMMA AbstractEnter ==
    ASSUME NEW s, Enter(s), UNCHANGED <<file, next, bundle, lists>>
    PROVE  T!Enter(s) /\ file' = file /\ next' = next
           /\ AbstractBundle' = AbstractBundle /\ AbstractLists' = AbstractLists
BY AbstractState DEF Enter, T!Enter

LEMMA ReadStep == TypeInv /\ Read => T!Read \/ T!ReadRaises
<1> SUFFICES ASSUME TypeInv, Read PROVE T!Read \/ T!ReadRaises
  OBVIOUS
<1>1. /\ stage = "read" /\ next <= Len(file) /\ UNCHANGED <<file, next, bundle, lists>>
      /\ Enter(IF stix.read = "ok" THEN "create" ELSE "raised")
  BY DEF Read
<1>2. T!stix.read = stix.read
  BY <1>1, AbstractCurrent
<1>3. CASE stix.read = "ok"
  <2>1. Enter("create")
    BY <1>1, <1>3
  <2>2. QED
    BY <1>1, <1>2, <1>3, <2>1, AbstractEnter DEF T!Read
<1>4. CASE stix.read # "ok"
  <2>1. Enter("raised")
    BY <1>1, <1>4
  <2>2. QED
    BY <1>1, <1>2, <1>4, <2>1, AbstractEnter DEF T!ReadRaises
<1>5. QED
  BY <1>3, <1>4

LEMMA FinishStep == Finish => T!Finish
<1> SUFFICES ASSUME Finish PROVE T!Finish
  OBVIOUS
<1>1. stage = "read" /\ next > Len(file) /\ Enter("done") /\ UNCHANGED <<file, next, bundle, lists>>
  BY DEF Finish
<1>2. QED
  BY <1>1, AbstractEnter DEF T!Finish

LEMMA CreateStep == TypeInv /\ Create => T!Create
<1> SUFFICES ASSUME TypeInv, Create PROVE T!Create
  OBVIOUS
<1>1. /\ stage = "create" /\ stix.class # "none" /\ UNCHANGED <<file, next, bundle, lists>>
      /\ Enter(IF stix.class = "custom" THEN "order" ELSE "main")
  BY DEF Create
<1>2. T!stix.class = stix.class
  BY <1>1, AbstractCurrent DEF TypeInv, LoopInv
<1>3. PICK s : s = IF stix.class = "custom" THEN "order" ELSE "main"
  OBVIOUS
<1>4. QED
  BY <1>1, <1>2, <1>3, AbstractEnter DEF T!Create

LEMMA CreateRaisesStep == TypeInv /\ CreateRaises => T!CreateRaises
<1> SUFFICES ASSUME TypeInv, CreateRaises PROVE T!CreateRaises
  OBVIOUS
<1>1. stage = "create" /\ stix.class = "none" /\ Skip /\ UNCHANGED <<file, lists>>
  BY DEF CreateRaises
<1>2. T!stix.class = stix.class
  BY <1>1, AbstractCurrent DEF TypeInv, LoopInv
<1>3. QED
  BY <1>1, <1>2, AbstractSkip DEF T!CreateRaises

LEMMA AddMainRaisesStep == TypeInv /\ AddMainRaises => T!AddMainRaises
<1> SUFFICES ASSUME TypeInv, AddMainRaises PROVE T!AddMainRaises
  OBVIOUS
<1>1. /\ stage = "main" /\ Skip /\ UNCHANGED <<file, lists>>
      /\ T!TypeFound(Current) => stix.class = "SRO" /\ ~T!RolesFound(Current)
  BY DEF AddMainRaises
<1>2. T!stix.class = stix.class /\ T!Current = Current
  BY <1>1, AbstractCurrent DEF TypeInv, LoopInv
<1>3. QED
  BY <1>1, <1>2, AbstractSkip DEF T!AddMainRaises

LEMMA EntityStep == TypeInv /\ AddMainEntity => T!AddMainEntity
<1> SUFFICES ASSUME TypeInv, AddMainEntity PROVE T!AddMainEntity
  OBVIOUS
<1>1. /\ stage = "main" /\ bundle = EmptyBundle /\ next <= Len(file) /\ Enter("props")
      /\ UNCHANGED <<file, next, lists>> /\ bundle'.marking = "entity"
      /\ bundle'.attributes = {} /\ bundle'.embedded = NoClauses /\ bundle'.main.match = {}
  BY EntityAdded
<1>2. PICK e \in Thing : bundle'.main.insert = {e} /\ e.at = MainPlace /\ e.owns = {}
  BY EntityAdded
<1>3. T!TypeFound(T!Current) /\ T!stix.class # "SRO"
  BY <1>1, AbstractCurrent DEF AddMainEntity
<1>4. Positions({e}) = {}
  BY <1>2 DEF Positions, Owned
<1>5. AbstractBundle' = [AbstractBundle EXCEPT !.marking = "entity"]
  <2>1. AbstractBundle = BundleOf("", {}, {}, {}, {})
    BY <1>1, AbstractEmpty, AbstractState
  <2>2. /\ Positions(bundle'.main.insert) = {} /\ Matched(bundle'.main.match) = {}
        /\ Positions(bundle'.attributes) = {} /\ Links(bundle'.embedded.match) = {}
    BY <1>1, <1>2, <1>4, PositionsTogether, PlacesTogether, Empties
  <2>3. AbstractBundle' = BundleOf("entity", {}, {}, {}, {})
    BY <1>1, <2>2, AbstractState
  <2>4. PICK b, c : b = AbstractBundle /\ c = [b EXCEPT !.marking = "entity"]
    OBVIOUS
  <2>5. c = BundleOf("entity", {}, {}, {}, {})
    <3>1. b = BundleOf("", {}, {}, {}, {}) /\ c = [b EXCEPT !.marking = "entity"]
      BY <2>1, <2>4
    <3>2. QED
      BY <3>1 DEF BundleOf
  <2>6. QED
    BY <2>3, <2>4, <2>5
<1>6. QED
  BY <1>1, <1>3, <1>5, AbstractState DEF T!AddMainEntity, T!Enter, Enter

LEMMA PlayersAreElements ==
    ASSUME NEW o \in Object
    PROVE  {PlayerId(o, x) : x \in Players(o)} = T!RolePlayers(o)
<1>1. PICK ps \in Seq(Property) : ps = Content[o].props
  BY SectionTypes
<1>2. /\ T!Roles(o) = {i \in 1..Len(ps) : ps[i].kind = "role"}
      /\ \A i \in T!Roles(o) : ps[i].elems \in Seq(Id) /\ Len(ps[i].elems) \in Nat
  BY <1>1, RolesAreProperties
<1>3. ASSUME NEW i \in T!Roles(o)
      PROVE  \A id : id \in T!Elements(AbstractContent[o].props[i]) <=>
                        \E j \in 1..Len(ps[i].elems) : id = ps[i].elems[j]
  <2>1. ps[i] \in Property /\ ps[i].kind = "role" /\ i \in 1..Len(ps)
    BY <1>2
  <2>2. AbstractContent[o].props[i] = AbstractProperty(ps[i]) /\ Id # {}
    BY <1>1, <2>1, AbstractSections, AbstractLength
  <2>3. /\ Len(AbstractProperty(ps[i]).elems) = Len(ps[i].elems)
        /\ \A j \in 1..Len(ps[i].elems) : AbstractProperty(ps[i]).elems[j] = AbstractElement("role", ps[i].elems[j])
    BY <2>1, <2>2, AbstractElements
  <2>4. \A e : AbstractElement("role", e) = e
    BY DEF AbstractElement
  <2>5. QED
    BY <2>2, <2>3, <2>4 DEF T!Elements
<1>4. \A id : id \in T!RolePlayers(o) <=>
            \E i \in T!Roles(o) : id \in T!Elements(AbstractContent[o].props[i])
  BY DEF T!RolePlayers
<1>5. \A id : id \in T!RolePlayers(o) <=>
            \E i \in T!Roles(o) : \E j \in 1..Len(ps[i].elems) : id = ps[i].elems[j]
  <2> SUFFICES ASSUME NEW id
               PROVE  id \in T!RolePlayers(o) <=>
                        \E i \in T!Roles(o) : \E j \in 1..Len(ps[i].elems) : id = ps[i].elems[j]
    OBVIOUS
  <2>1. \A i \in T!Roles(o) : id \in T!Elements(AbstractContent[o].props[i]) <=>
                                \E j \in 1..Len(ps[i].elems) : id = ps[i].elems[j]
    BY <1>3
  <2>2. ASSUME id \in T!RolePlayers(o)
        PROVE  \E i \in T!Roles(o) : \E j \in 1..Len(ps[i].elems) : id = ps[i].elems[j]
    <3>1. PICK i \in T!Roles(o) : id \in T!Elements(AbstractContent[o].props[i])
      BY <1>4, <2>2
    <3>2. \E j \in 1..Len(ps[i].elems) : id = ps[i].elems[j]
      BY <2>1, <3>1
    <3>3. QED
      BY <3>2
  <2>3. ASSUME NEW i \in T!Roles(o), \E j \in 1..Len(ps[i].elems) : id = ps[i].elems[j]
        PROVE  id \in T!RolePlayers(o)
    <3>1. id \in T!Elements(AbstractContent[o].props[i])
      BY <2>1, <2>3
    <3>2. QED
      BY <1>4, <3>1
  <2>4. QED
    BY <2>2, <2>3, Zenon
<1>6. ASSUME NEW x \in Players(o) PROVE PlayerId(o, x) \in T!RolePlayers(o)
  BY <1>1, <1>5, <1>6, PlayerTypes DEF PlayerId
<1>7. ASSUME NEW i \in T!Roles(o), NEW j \in 1..Len(ps[i].elems)
      PROVE  \E x \in Players(o) : PlayerId(o, x) = ps[i].elems[j]
  <2>1. <<i, j>> \in {i} \X (1..Len(ps[i].elems))
    OBVIOUS
  <2>2. <<i, j>> \in Players(o)
    BY <1>1, <2>1 DEF Players
  <2>3. PlayerId(o, <<i, j>>) = ps[i].elems[j]
    BY <1>1 DEF PlayerId
  <2>4. QED
    BY <2>2, <2>3
<1>8. QED
  BY <1>5, <1>6, <1>7

LEMMA RelationStep == TypeInv /\ AddMainRelation => T!AddMainRelation
<1> SUFFICES ASSUME TypeInv, AddMainRelation PROVE T!AddMainRelation
  OBVIOUS
<1>1. /\ stage = "main" /\ bundle = EmptyBundle /\ next <= Len(file) /\ Enter("props")
      /\ UNCHANGED <<file, next, lists>> /\ bundle'.marking = "relation"
      /\ bundle'.attributes = {} /\ bundle'.embedded = NoClauses /\ Current \in Object
      /\ Matched(bundle'.main.match) = {PlayerId(Current, x) : x \in Players(Current)}
  BY RelationAdded
<1>2. PICK e \in Thing : bundle'.main.insert = {e} /\ e.at = MainPlace /\ e.owns = {}
  BY RelationAdded
<1>3. /\ T!TypeFound(T!Current) /\ T!stix.class = "SRO" /\ T!RolesFound(T!Current)
      /\ T!Current = Current
  BY <1>1, AbstractCurrent DEF AddMainRelation
<1>4. Positions({e}) = {}
  BY <1>2 DEF Positions, Owned
<1>5. Matched(bundle'.main.match) = T!RolePlayers(T!Current)
  BY <1>1, <1>3, PlayersAreElements
<1>6. AbstractBundle' = [AbstractBundle EXCEPT !.marking = "relation", !.match = T!RolePlayers(T!Current)]
  <2>1. AbstractBundle = BundleOf("", {}, {}, {}, {})
    BY <1>1, AbstractEmpty, AbstractState
  <2>2. /\ Positions(bundle'.main.insert) = {} /\ Positions(bundle'.attributes) = {}
        /\ Links(bundle'.embedded.match) = {}
    BY <1>1, <1>2, <1>4, PositionsTogether, PlacesTogether, Empties
  <2>3. AbstractBundle' = BundleOf("relation", {}, T!RolePlayers(T!Current), {}, {})
    BY <1>1, <1>5, <2>2, AbstractState
  <2>4. PICK b, players : b = AbstractBundle /\ players = T!RolePlayers(T!Current)
    OBVIOUS
  <2>5. PICK c : c = [b EXCEPT !.marking = "relation", !.match = players]
    OBVIOUS
  <2>6. c = BundleOf("relation", {}, players, {}, {})
    <3>1. b = BundleOf("", {}, {}, {}, {}) /\ c = [b EXCEPT !.marking = "relation", !.match = players]
      BY <2>1, <2>4, <2>5
    <3>2. QED
      BY <3>1 DEF BundleOf
  <2>7. QED
    BY <2>3, <2>4, <2>5, <2>6
<1>7. QED
  BY <1>1, <1>3, <1>6, AbstractState DEF T!AddMainRelation, T!Enter, Enter
(***************************************************************************)
(* The properties: what fails, and what a property that has been converted *)
(* adds to the bundle.                                                     *)
(***************************************************************************)
LEMMA AbstractConverting ==
    ASSUME TypeInv, Converting
    PROVE  /\ property \in Property /\ Id # {} /\ stage \in {"props", "ext"}
           /\ stage = "props" => /\ prop <= Len(T!stix.props)
                                 /\ T!stix.props[prop] = AbstractProperty(property)
           /\ stage = "ext" => /\ prop <= Len(T!RelevantProps(T!Current))
                               /\ T!RelevantProps(T!Current)[prop] = AbstractProperty(property)
<1>1. /\ stage \in {"props", "ext"} /\ next <= Len(file) /\ Current \in Object
      /\ prop \in 1..Len(Sections(Current)[stage]) /\ property \in Property
      /\ Sections(Current)[stage] \in Seq(Property)
  BY ConvertingFacts
<1>2. PICK ps \in Seq(Property) : ps = Sections(Current)[stage]
  BY <1>1
<1>3. property = ps[prop] /\ prop \in 1..Len(ps)
  BY <1>1, <1>2 DEF property
<1>4. /\ Len(AbstractProperties(ps)) = Len(ps) /\ Len(ps) \in Nat
      /\ AbstractProperties(ps)[prop] = AbstractProperty(property)
  BY <1>3, AbstractLength
<1>5. prop <= Len(AbstractProperties(ps))
  BY <1>3, <1>4
<1>6. stage = "props" => T!stix.props = AbstractProperties(ps)
  <2>1. Sections(Current)["props"] = Content[Current].props
    BY <1>1, SectionTypes
  <2>2. T!stix.props = AbstractProperties(stix.props)
    BY <1>1, AbstractCurrent
  <2>3. QED
    BY <1>2, <2>1, <2>2 DEF stix
<1>7. stage = "ext" => T!RelevantProps(T!Current) = AbstractProperties(ps)
  <2>1. Sections(Current)["ext"] = ExtensionProperties(Current)
    BY <1>1, SectionTypes
  <2>2. T!RelevantProps(T!Current) = AbstractProperties(ExtensionProperties(Current))
    BY <1>1, AbstractCurrent
  <2>3. QED
    BY <1>2, <2>1, <2>2
<1>8. Id # {}
  BY <1>1, AbstractSections
<1>9. QED
  BY <1>1, <1>4, <1>5, <1>6, <1>7, <1>8

LEMMA FailingElement ==
    ASSUME TypeInv, LocalInv, NEW how \in {"invalid", "fatal"}, FailsNow(how)
    PROVE  /\ Converting /\ elem \in 1..Len(property.elems)
           /\ Outcome(property.kind, property.elems[elem]) = how
           /\ Passed(property, elem)
<1>1. CASE AtLeaf /\ element[leaf].value = how
  <2>1. /\ AtElement("composite") /\ Converting /\ property.kind = "composite"
        /\ leaf \in 1..Len(element)
    BY <1>1 DEF AtLeaf, AtElement
  <2>2. element \in Seq(Leaf) /\ elem \in 1..Len(property.elems)
    BY <2>1, ElementTypes
  <2>3. element[leaf] \in Leaf
    BY <2>1, <2>2
  <2>4. element[leaf].value \in {"ok", "invalid"}
    BY <2>3 DEF Leaf, Primitive
  <2>5. how = "invalid" /\ element[leaf].value = "invalid"
    BY <1>1, <2>4
  <2>6. Outcome(property.kind, element) = how
    BY <2>1, <2>5 DEF Outcome
  <2>7. QED
    BY <2>1, <2>2, <2>6 DEF LocalInv, element
<1>2. CASE \E kind \in {"attribute", "pairs", "dictionary", "reference"} :
                AtElement(kind) /\ Outcome(kind, element) = how
  <2>1. PICK kind \in {"attribute", "pairs", "dictionary", "reference"} :
            AtElement(kind) /\ Outcome(kind, element) = how
    BY <1>2
  <2>2. Converting /\ property.kind = kind /\ elem \in 1..Len(property.elems)
    BY <2>1, ElementTypes DEF AtElement
  <2>3. QED
    BY <2>1, <2>2 DEF LocalInv, element
<1>3. QED
  BY <1>1, <1>2 DEF FailsNow

LEMMA FailureIsAbstract ==
    ASSUME TypeInv, LocalInv, NEW how \in {"invalid", "fatal"}, FailsNow(how)
    PROVE  /\ Converting
           /\ T!Fails(AbstractProperty(property))
           /\ T!Aborts(AbstractProperty(property)) <=> how = "fatal"
<1>1. /\ Converting /\ elem \in 1..Len(property.elems)
      /\ Outcome(property.kind, property.elems[elem]) = how /\ Passed(property, elem)
  BY FailingElement
<1>2. property \in Property /\ Id # {}
  BY <1>1, AbstractConverting
<1>3. PICK p \in Property, n \in Nat : p = property /\ n = Len(p.elems)
  BY <1>2, AbstractElements
<1>4. PICK m \in Nat : m = elem /\ m >= 1 /\ m <= n
  BY <1>1, <1>3
<1>5. \A e \in 1..(m - 1) : Outcome(p.kind, p.elems[e]) = "ok"
  BY <1>1, <1>3, <1>4 DEF Passed
<1>6. Outcome(p.kind, p.elems[m]) = how
  BY <1>1, <1>3, <1>4
<1>7. \E i \in 1..n : Outcome(p.kind, p.elems[i]) # "ok"
  BY <1>4, <1>6
<1>8. ASSUME how = "fatal"
      PROVE  \E i \in 1..n : /\ Outcome(p.kind, p.elems[i]) = "fatal"
                             /\ \A j \in 1..(i - 1) : Outcome(p.kind, p.elems[j]) = "ok"
  BY <1>4, <1>5, <1>6, <1>8
<1>9. ASSUME NEW i \in 1..n, Outcome(p.kind, p.elems[i]) = "fatal",
             \A j \in 1..(i - 1) : Outcome(p.kind, p.elems[j]) = "ok"
      PROVE  how = "fatal"
  <2>1. CASE i < m
    <3>1. i \in 1..(m - 1)
      BY <1>4, <2>1
    <3>2. QED
      BY <1>5, <1>9, <3>1
  <2>2. CASE i = m
    BY <1>6, <1>9, <2>2
  <2>3. CASE i > m
    <3>1. m \in 1..(i - 1)
      BY <1>4, <2>3
    <3>2. QED
      BY <1>6, <1>9, <3>1
  <2>4. i < m \/ i = m \/ i > m
    BY <1>4
  <2>5. QED
    BY <2>1, <2>2, <2>3, <2>4
<1>10. QED
  BY <1>1, <1>2, <1>3, <1>7, <1>8, <1>9, AbstractFailure

LEMMA DropPropertyStep == TypeInv /\ LocalInv /\ DropProperty => T!ConvertProperty
<1> SUFFICES ASSUME TypeInv, LocalInv, DropProperty PROVE T!ConvertProperty
  OBVIOUS
<1>1. /\ stage = "props" /\ FailsNow("invalid") /\ prop' = prop + 1
      /\ UNCHANGED <<file, next, stage, bundle, lists>>
  BY DEF DropProperty
<1>2. PICK a : a = AbstractProperty(property)
  OBVIOUS
<1>3. Converting /\ T!Fails(a) /\ ~T!Aborts(a)
  BY <1>1, <1>2, FailureIsAbstract
<1>4. prop <= Len(T!stix.props) /\ T!stix.props[prop] = a
  BY <1>1, <1>2, <1>3, AbstractConverting
<1>5. AbstractBundle' = AbstractBundle /\ AbstractLists' = AbstractLists
  BY <1>1, AbstractState
<1>6. QED
  BY <1>1, <1>3, <1>4, <1>5 DEF T!ConvertProperty

LEMMA DropObjectStep ==
    TypeInv /\ LocalInv /\ DropObject => T!ConvertPropertyRaises \/ T!ConvertExtensionPropertyRaises
<1> SUFFICES ASSUME TypeInv, LocalInv, DropObject
             PROVE  T!ConvertPropertyRaises \/ T!ConvertExtensionPropertyRaises
  OBVIOUS
<1>1. /\ FailsNow("fatal") \/ (stage = "ext" /\ FailsNow("invalid"))
      /\ Skip /\ UNCHANGED <<file, lists>>
  BY DEF DropObject
<1>2. PICK a : a = AbstractProperty(property)
  OBVIOUS
<1>3. Converting /\ T!Fails(a) /\ (stage # "ext" => T!Aborts(a))
  BY <1>1, <1>2, FailureIsAbstract
<1>4. T!Skip
  BY <1>1, AbstractSkip
<1>5. CASE stage = "props"
  <2>1. prop <= Len(T!stix.props) /\ T!stix.props[prop] = a
    BY <1>2, <1>3, <1>5, AbstractConverting
  <2>2. QED
    BY <1>3, <1>4, <1>5, <2>1 DEF T!ConvertPropertyRaises
<1>6. CASE stage = "ext"
  <2>1. prop <= Len(T!RelevantProps(T!Current)) /\ T!RelevantProps(T!Current)[prop] = a
    BY <1>2, <1>3, <1>6, AbstractConverting
  <2>2. QED
    BY <1>3, <1>4, <1>6, <2>1 DEF T!ConvertExtensionPropertyRaises
<1>7. stage \in {"props", "ext"}
  BY <1>3, AbstractConverting
<1>8. QED
  BY <1>5, <1>6, <1>7

LEMMA SectionDoneStep == TypeInv /\ SectionDone => T!PropertiesDone \/ T!ExtensionDone
<1> SUFFICES ASSUME TypeInv, SectionDone PROVE T!PropertiesDone \/ T!ExtensionDone
  OBVIOUS
<1>1. /\ stage \in {"props", "ext"} /\ prop > Len(Sections(Current)[stage])
      /\ Enter(IF stage = "props" THEN "ext" ELSE "order")
      /\ UNCHANGED <<file, next, bundle, lists>>
  BY DEF SectionDone
<1>2. next <= Len(file)
  BY <1>1 DEF TypeInv, LoopInv
<1>3. /\ Current \in Object /\ T!stix.props = AbstractProperties(stix.props)
      /\ T!RelevantProps(T!Current) = AbstractProperties(ExtensionProperties(Current))
  BY <1>2, AbstractCurrent
<1>4. /\ stix.props \in Seq(Property) /\ ExtensionProperties(Current) \in Seq(Property)
      /\ Sections(Current)["props"] = stix.props
      /\ Sections(Current)["ext"] = ExtensionProperties(Current)
  BY <1>3, SectionTypes DEF stix
<1>5. /\ Len(T!stix.props) = Len(Sections(Current)["props"])
      /\ Len(T!RelevantProps(T!Current)) = Len(Sections(Current)["ext"])
  BY <1>3, <1>4, AbstractLength
<1>6. CASE stage = "props"
  <2>1. Enter("ext") /\ prop > Len(T!stix.props)
    BY <1>1, <1>5, <1>6
  <2>2. QED
    BY <1>1, <1>6, <2>1, AbstractEnter DEF T!PropertiesDone
<1>7. CASE stage = "ext"
  <2>1. Enter("order") /\ prop > Len(T!RelevantProps(T!Current))
    BY <1>1, <1>5, <1>7
  <2>2. QED
    BY <1>1, <1>7, <2>1, AbstractEnter DEF T!ExtensionDone
<1>8. QED
  BY <1>1, <1>6, <1>7
LEMMA ConvertedElements ==
    ASSUME TypeInv, LocalInv, PropertyDone
    PROVE  /\ Converting /\ property \in Property /\ Id # {} /\ Len(property.elems) \in Nat
           /\ \A e \in 1..Len(property.elems) : Outcome(property.kind, property.elems[e]) = "ok"
           /\ property.kind # "role" => elem = Len(property.elems) + 1
<1>1. Converting /\ (elem > Len(property.elems) \/ property.kind = "role")
  BY DEF PropertyDone
<1>2. property \in Property /\ Id # {} /\ elem \in Nat \ {0}
  BY <1>1, AbstractConverting, ConvertingFacts
<1>3. PICK p \in Property, n \in Nat : p = property /\ n = Len(p.elems)
  BY <1>2, AbstractElements
<1>4. PICK m \in Nat : m = elem /\ m >= 1
  BY <1>2
<1>5. \A e \in 1..(m - 1) : e <= n /\ Outcome(p.kind, p.elems[e]) = "ok"
  BY <1>1, <1>3, <1>4 DEF LocalInv, Passed
<1>6. CASE p.kind = "role"
  BY <1>1, <1>2, <1>3, <1>6, OutcomeTypes
<1>7. CASE p.kind # "role"
  <2>1. m > n
    BY <1>1, <1>3, <1>4, <1>7
  <2>2. m = n + 1
    <3>1. m - 1 \in 1..(m - 1) \/ m = 1
      BY <1>4
    <3>2. m - 1 <= n
      BY <1>4, <1>5, <3>1
    <3>3. QED
      BY <1>4, <2>1, <3>2
  <2>3. \A e \in 1..n : e \in 1..(m - 1)
    BY <2>2
  <2>4. QED
    BY <1>1, <1>2, <1>3, <1>4, <1>5, <2>2, <2>3
<1>8. QED
  BY <1>6, <1>7

LEMMA ProducedPositions ==
    ASSUME NEW p \in Property, Id # {}, NEW pos, NEW n, NEW l, Produced(p, pos, n, l),
           p.kind # "role" => n = Len(p.elems) + 1, NEW q, q = AbstractProperty(p)
    PROVE  /\ Places(l.owns) = IF q.kind = "attribute" /\ q.elems # <<>> THEN {pos} ELSE {}
           /\ Positions(l.attributes) = IF q.kind = "structured" /\ q.elems # <<>> THEN {pos} ELSE {}
           /\ Links(l.embedded.match) = IF q.kind = "reference" THEN {pos} \X T!Elements(q) ELSE {}
<1>1. /\ Len(p.elems) \in Nat /\ Len(q.elems) = Len(p.elems)
      /\ q.elems = <<>> <=> Len(p.elems) = 0
      /\ q.kind = IF p.kind \in StructuredKinds THEN "structured" ELSE p.kind
      /\ \A e \in 1..Len(p.elems) : q.elems[e] = AbstractElement(p.kind, p.elems[e])
  BY AbstractElements DEF StructuredKinds
<1>2. p.kind # "structured"
  BY DEF Property
<1>3. p.kind # "role" => (n > 1 <=> Len(p.elems) # 0)
  BY <1>1
<1>4. Places(l.owns) = IF q.kind = "attribute" /\ q.elems # <<>> THEN {pos} ELSE {}
  <2>1. q.kind = "attribute" <=> p.kind = "attribute"
    BY <1>1 DEF StructuredKinds
  <2>2. p.kind = "attribute" => (n > 1 <=> q.elems # <<>>)
    BY <1>1, <1>3
  <2>3. QED
    BY <2>1, <2>2 DEF Produced
<1>5. Positions(l.attributes) = IF q.kind = "structured" /\ q.elems # <<>> THEN {pos} ELSE {}
  <2>1. q.kind = "structured" <=> p.kind \in StructuredKinds
    BY <1>1, <1>2
  <2>2. p.kind \in StructuredKinds => (n > 1 <=> q.elems # <<>>) /\ p.kind # "role"
    BY <1>1, <1>3 DEF StructuredKinds
  <2>3. l.attributes # {} <=> q.kind = "structured" /\ q.elems # <<>>
    BY <1>1, <2>1, <2>2 DEF Produced
  <2>4. Located(l.attributes, pos)
    BY DEF Produced
  <2>5. QED
    BY <2>3, <2>4, PositionsTogether
<1>6. Links(l.embedded.match) = IF q.kind = "reference" THEN {pos} \X T!Elements(q) ELSE {}
  <2>1. q.kind = "reference" <=> p.kind = "reference"
    BY <1>1 DEF StructuredKinds
  <2>2. CASE p.kind = "reference"
    <3>1. n - 1 = Len(p.elems)
      BY <1>1, <2>2
    <3>2. \A e \in 1..Len(p.elems) : q.elems[e] = p.elems[e]
      BY <1>1, <2>2 DEF AbstractElement
    <3>3. T!Elements(q) = {p.elems[e] : e \in 1..Len(p.elems)}
      BY <1>1, <3>2 DEF T!Elements
    <3>4. Links(l.embedded.match) = {pos} \X {p.elems[e] : e \in 1..(n - 1)}
      BY <2>2 DEF Produced
    <3>5. QED
      BY <2>1, <2>2, <3>1, <3>3, <3>4
  <2>3. CASE p.kind # "reference"
    BY <2>1, <2>3 DEF Produced
  <2>4. QED
    BY <2>2, <2>3
<1>7. QED
  BY <1>4, <1>5, <1>6

LEMMA ExtendedBundle ==
    ASSUME NEW p \in Property, Id # {}, NEW pos, NEW n, NEW l, Produced(p, pos, n, l),
           p.kind # "role" => n = Len(p.elems) + 1,
           NEW m, NEW h, NEW i, NEW a, NEW k
    PROVE  T!Extend(BundleOf(m, h, i, a, k), pos, AbstractProperty(p)) =
                BundleOf(m, h \cup Places(l.owns), i, a \cup Positions(l.attributes),
                         k \cup Links(l.embedded.match))
<1>1. PICK q, b : q = AbstractProperty(p) /\ b = BundleOf(m, h, i, a, k)
  OBVIOUS
<1>2. PICK x, y, z : x = Places(l.owns) /\ y = Positions(l.attributes) /\ z = Links(l.embedded.match)
  OBVIOUS
<1>3. /\ x = IF q.kind = "attribute" /\ q.elems # <<>> THEN {pos} ELSE {}
      /\ y = IF q.kind = "structured" /\ q.elems # <<>> THEN {pos} ELSE {}
      /\ z = IF q.kind = "reference" THEN {pos} \X T!Elements(q) ELSE {}
  BY <1>1, <1>2, ProducedPositions
<1>4. PICK c : c = BundleOf(m, h \cup x, i, a \cup y, k \cup z)
  OBVIOUS
<1>5. CASE q.kind = "attribute" /\ q.elems # <<>>
  <2>1. x = {pos} /\ y = {} /\ z = {}
    BY <1>3, <1>5
  <2>2. T!Extend(b, pos, q) = [b EXCEPT !.has = @ \cup {pos}]
    BY <1>5 DEF T!Extend
  <2>3. a \cup y = a /\ k \cup z = k
    BY <2>1
  <2>4. c = BundleOf(m, h \cup {pos}, i, a, k)
    BY <1>4, <2>1, <2>3
  <2>5. [b EXCEPT !.has = @ \cup {pos}] = c
    <3>1. PICK w, d : w = {pos} /\ d = [b EXCEPT !.has = @ \cup w]
      OBVIOUS
    <3>2. b = BundleOf(m, h, i, a, k) /\ d = [b EXCEPT !.has = @ \cup w]
      BY <1>1, <3>1
    <3>3. d = BundleOf(m, h \cup w, i, a, k)
      BY <3>2 DEF BundleOf
    <3>4. QED
      BY <2>4, <3>1, <3>3
  <2>6. QED
    BY <1>1, <1>2, <1>4, <2>2, <2>5
<1>6. CASE q.kind = "structured" /\ q.elems # <<>>
  <2>1. x = {} /\ y = {pos} /\ z = {}
    BY <1>3, <1>6
  <2>2. T!Extend(b, pos, q) = [b EXCEPT !.attributes = @ \cup {pos}]
    BY <1>6 DEF T!Extend
  <2>3. h \cup x = h /\ k \cup z = k
    BY <2>1
  <2>4. c = BundleOf(m, h, i, a \cup {pos}, k)
    BY <1>4, <2>1, <2>3
  <2>5. [b EXCEPT !.attributes = @ \cup {pos}] = c
    <3>1. PICK w, d : w = {pos} /\ d = [b EXCEPT !.attributes = @ \cup w]
      OBVIOUS
    <3>2. b = BundleOf(m, h, i, a, k) /\ d = [b EXCEPT !.attributes = @ \cup w]
      BY <1>1, <3>1
    <3>3. d = BundleOf(m, h, i, a \cup w, k)
      BY <3>2 DEF BundleOf
    <3>4. QED
      BY <2>4, <3>1, <3>3
  <2>6. QED
    BY <1>1, <1>2, <1>4, <2>2, <2>5
<1>7. CASE q.kind = "reference"
  <2>1. x = {} /\ y = {}
    BY <1>3, <1>7
  <2>2. T!Extend(b, pos, q) = [b EXCEPT !.links = @ \cup z]
    BY <1>3, <1>7 DEF T!Extend
  <2>3. h \cup x = h /\ a \cup y = a
    BY <2>1
  <2>4. c = BundleOf(m, h, i, a, k \cup z)
    BY <1>4, <2>3
  <2>5. [b EXCEPT !.links = @ \cup z] = c
    <3>1. PICK w, d : w = z /\ d = [b EXCEPT !.links = @ \cup w]
      OBVIOUS
    <3>2. b = BundleOf(m, h, i, a, k) /\ d = [b EXCEPT !.links = @ \cup w]
      BY <1>1, <3>1
    <3>3. d = BundleOf(m, h, i, a, k \cup w)
      BY <3>2 DEF BundleOf
    <3>4. QED
      BY <2>4, <3>1, <3>3
  <2>6. QED
    BY <1>1, <1>2, <1>4, <2>2, <2>5
<1>8. CASE ~(q.kind = "attribute" /\ q.elems # <<>>) /\ ~(q.kind = "structured" /\ q.elems # <<>>)
           /\ q.kind # "reference"
  <2>1. x = {} /\ y = {} /\ z = {}
    BY <1>3, <1>8
  <2>2. T!Extend(b, pos, q) = b
    BY <1>8 DEF T!Extend
  <2>3. h \cup x = h /\ a \cup y = a /\ k \cup z = k
    BY <2>1
  <2>4. QED
    BY <1>1, <1>2, <2>2, <2>3
<1>9. QED
  BY <1>5, <1>6, <1>7, <1>8
LEMMA BundleAfterProperty ==
    ASSUME TypeInv, LocalInv, MainInv, PropertyDone
    PROVE  AbstractBundle' = T!Extend(AbstractBundle, <<stage, prop>>, AbstractProperty(property))
<1>1. /\ Converting /\ bundle'.marking = bundle.marking
      /\ bundle'.main.match = bundle.main.match
      /\ bundle'.main.insert = {Owning(local.owns, t) : t \in bundle.main.insert}
      /\ bundle'.attributes = bundle.attributes \cup local.attributes
      /\ bundle'.embedded.match = bundle.embedded.match \cup local.embedded.match
  BY PropertyAdds
<1>2. /\ local.owns \in SUBSET Stored /\ bundle.main.insert \subseteq Thing
      /\ bundle.main.insert # {} /\ \A t \in bundle.main.insert : t.at = MainPlace
  BY <1>1, TypeFacts, ConvertingFacts DEF TypeInv, LoopInv, MainInv
<1>3. Positions(bundle'.main.insert) = Positions(bundle.main.insert) \cup Places(local.owns)
  <2>1. PICK I, J, s : I = bundle.main.insert /\ J = bundle'.main.insert /\ s = local.owns
    OBVIOUS
  <2>2. \A t \in I : Owning(s, t).at = MainPlace /\ Owning(s, t).owns = t.owns \cup s
    BY <1>2, <2>1, OwningType
  <2>3. J = {Owning(s, t) : t \in I} /\ I # {}
    BY <1>1, <1>2, <2>1
  <2>4. Owned(J) = Owned(I) \cup s
    BY <2>2, <2>3 DEF Owned
  <2>5. \A t \in J : t.at = MainPlace
    BY <2>2, <2>3
  <2>6. Positions(J) = Places(Owned(J)) /\ Positions(I) = Places(Owned(I))
    BY <1>2, <2>1, <2>5, PositionsTogether
  <2>7. QED
    BY <2>1, <2>4, <2>6, PlacesTogether
<1>4. Positions(bundle'.attributes) = Positions(bundle.attributes) \cup Positions(local.attributes)
  BY <1>1, PositionsTogether
<1>5. Links(bundle'.embedded.match) = Links(bundle.embedded.match) \cup Links(local.embedded.match)
  BY <1>1, PlacesTogether
<1>6. /\ property \in Property /\ Id # {}
      /\ property.kind # "role" => elem = Len(property.elems) + 1
  BY ConvertedElements
<1>7. Produced(property, <<stage, prop>>, elem, local)
  BY <1>1 DEF LocalInv
<1>8. PICK p, pos, n, l : p = property /\ pos = <<stage, prop>> /\ n = elem /\ l = local
  BY <1>6
<1>9. PICK m, h, i, a, k :
            /\ m = bundle.marking /\ h = Positions(bundle.main.insert)
            /\ i = Matched(bundle.main.match) /\ a = Positions(bundle.attributes)
            /\ k = Links(bundle.embedded.match)
  OBVIOUS
<1>10. AbstractBundle = BundleOf(m, h, i, a, k)
  BY <1>9, AbstractState
<1>11. AbstractBundle' = BundleOf(m, h \cup Places(l.owns), i, a \cup Positions(l.attributes),
                                  k \cup Links(l.embedded.match))
  BY <1>1, <1>3, <1>4, <1>5, <1>8, <1>9, AbstractState
<1>12. T!Extend(BundleOf(m, h, i, a, k), pos, AbstractProperty(p)) =
            BundleOf(m, h \cup Places(l.owns), i, a \cup Positions(l.attributes),
                     k \cup Links(l.embedded.match))
  BY <1>6, <1>7, <1>8, ExtendedBundle
<1>13. QED
  BY <1>8, <1>10, <1>11, <1>12

LEMMA PropertyDoneStep ==
    TypeInv /\ LocalInv /\ MainInv /\ PropertyDone => T!ConvertProperty \/ T!ConvertExtensionProperty
<1> SUFFICES ASSUME TypeInv, LocalInv, MainInv, PropertyDone
             PROVE  T!ConvertProperty \/ T!ConvertExtensionProperty
  OBVIOUS
<1>1. /\ Converting /\ prop' = prop + 1 /\ UNCHANGED <<file, next, stage, lists>>
  BY PropertyAdds
<1>2. PICK a : a = AbstractProperty(property)
  OBVIOUS
<1>3. /\ property \in Property /\ Id # {}
      /\ \A e \in 1..Len(property.elems) : Outcome(property.kind, property.elems[e]) = "ok"
  BY ConvertedElements
<1>4. ~T!Fails(a) /\ ~T!Aborts(a)
  BY <1>2, <1>3, AbstractFailure
<1>5. AbstractBundle' = T!Extend(AbstractBundle, <<stage, prop>>, a) /\ AbstractLists' = AbstractLists
  BY <1>1, <1>2, BundleAfterProperty, AbstractState
<1>6. CASE stage = "props"
  <2>1. prop <= Len(T!stix.props) /\ T!stix.props[prop] = a
    BY <1>1, <1>2, <1>6, AbstractConverting
  <2>2. QED
    BY <1>1, <1>4, <1>5, <1>6, <2>1 DEF T!ConvertProperty
<1>7. CASE stage = "ext"
  <2>1. prop <= Len(T!RelevantProps(T!Current)) /\ T!RelevantProps(T!Current)[prop] = a
    BY <1>1, <1>2, <1>7, AbstractConverting
  <2>2. QED
    BY <1>1, <1>4, <1>5, <1>7, <2>1 DEF T!ConvertExtensionProperty
<1>8. stage \in {"props", "ext"}
  BY <1>1, AbstractConverting
<1>9. QED
  BY <1>6, <1>7, <1>8

(***************************************************************************)
(* The lists.                                                              *)
(***************************************************************************)
AbstractList(s) == [i \in 1..Len(s) |-> AbstractQuery(s[i])]

LEMMA AbstractListOf ==
    /\ AbstractLists = [l \in 1..3 |-> AbstractList(lists[l])]
    /\ AbstractLists' = [l \in 1..3 |-> AbstractList(lists'[l])]
BY DEF AbstractLists, AbstractList

LEMMA AppendedSequence ==
    ASSUME NEW S, NEW f \in Seq(S), NEW w \in S
    PROVE  Append(f, w) = [i \in 1..(Len(f) + 1) |-> IF i = Len(f) + 1 THEN w ELSE f[i]]
<1>1. PICK n \in Nat : n = Len(f) + 1
  OBVIOUS
<1>2. PICK g : g = Append(f, w)
  OBVIOUS
<1>3. g \in Seq(S) /\ Len(g) = n
  BY <1>1, <1>2
<1>4. g \in [1..n -> S]
  BY <1>3
<1>5. \A i \in 1..n : g[i] = IF i = n THEN w ELSE f[i]
  BY <1>1, <1>2
<1>6. g = [i \in 1..n |-> IF i = n THEN w ELSE f[i]]
  BY <1>4, <1>5
<1>7. QED
  BY <1>1, <1>2, <1>6

LEMMA AbstractAppend ==
    ASSUME NEW s \in Seq(Query), NEW q
    PROVE  AbstractList(Append(s, q)) = Append(AbstractList(s), AbstractQuery(q))
<1>1. PICK n \in Nat : n = Len(s)
  OBVIOUS
<1>2. PICK f : f = [i \in 1..n |-> AbstractQuery(s[i])]
  OBVIOUS
<1>3. PICK w, S : w = AbstractQuery(q) /\ S = {AbstractQuery(s[i]) : i \in 1..n} \cup {w}
  OBVIOUS
<1>4. Append(f, w) = [i \in 1..(n + 1) |-> IF i = n + 1 THEN w ELSE f[i]]
  <2>1. f \in [1..n -> S] /\ w \in S
    BY <1>2, <1>3
  <2>2. f \in Seq(S) /\ Len(f) = n
    BY <1>1, <2>1, FunctionIsSequence
  <2>3. QED
    BY <2>1, <2>2, AppendedSequence
<1>5. /\ Len(Append(s, q)) = n + 1
      /\ \A i \in 1..(n + 1) : Append(s, q)[i] = IF i = n + 1 THEN q ELSE s[i]
  BY <1>1
<1>6. AbstractList(Append(s, q)) =
            [i \in 1..(n + 1) |-> IF i = n + 1 THEN w ELSE f[i]]
  <2>1. AbstractList(Append(s, q)) = [i \in 1..(n + 1) |-> AbstractQuery(Append(s, q)[i])]
    BY <1>5 DEF AbstractList
  <2>2. \A i \in 1..(n + 1) : AbstractQuery(Append(s, q)[i]) = IF i = n + 1 THEN w ELSE f[i]
    BY <1>2, <1>3, <1>5
  <2>3. QED
    BY <2>1, <2>2
<1>7. AbstractList(s) = f
  BY <1>1, <1>2 DEF AbstractList
<1>8. QED
  BY <1>3, <1>4, <1>6, <1>7

LEMMA LinkEnds ==
    ASSUME NEW id, NEW c, Ends(id, c)
    PROVE  /\ c.insert # {} <=> Links(c.match) # {}
           /\ c.insert # {} =>
                /\ Positions(c.insert) = {k[1] : k \in Links(c.match)}
                /\ Matched(c.match) = {id} \cup {k[2] : k \in Links(c.match)}
<1>1. \A k : k \in Links(c.match) <=>
            \E t \in c.match : t.at # MainPlace /\ \E i \in t.ids : k = <<Position(t.at), i>>
  BY DEF Links
<1>2. ASSUME NEW t \in c.insert
      PROVE  /\ t.at # MainPlace /\ t.owns = {}
             /\ \E u \in c.match : u.at = t.at
             /\ \E u \in c.match : u.at = MainPlace
  BY <1>2 DEF Ends
<1>3. ASSUME NEW t \in c.match
      PROVE  /\ t.at = MainPlace => t.ids = {id}
             /\ t.at # MainPlace => t.ids # {} /\ \E u \in c.insert : u.at = t.at
  BY <1>3 DEF Ends
<1>4. ASSUME NEW t \in c.insert
      PROVE  \E k \in Links(c.match) : k[1] = Position(t.at)
  <2>1. PICK u \in c.match : u.at = t.at /\ u.at # MainPlace
    BY <1>2
  <2>2. PICK i \in u.ids : TRUE
    BY <1>3, <2>1
  <2>3. PICK k : k = <<Position(u.at), i>>
    OBVIOUS
  <2>4. k \in Links(c.match) /\ k[1] = Position(t.at)
    BY <1>1, <2>1, <2>3
  <2>5. QED
    BY <2>4
<1>5. ASSUME NEW k \in Links(c.match)
      PROVE  /\ \E t \in c.insert : k[1] = Position(t.at)
             /\ \E t \in c.match : k[2] \in t.ids
  <2>1. PICK t \in c.match : t.at # MainPlace /\ \E i \in t.ids : k = <<Position(t.at), i>>
    BY <1>1
  <2>2. PICK i \in t.ids : k = <<Position(t.at), i>>
    BY <2>1
  <2>3. \E u \in c.insert : u.at = t.at
    BY <1>3, <2>1
  <2>4. k[1] = Position(t.at) /\ k[2] = i
    BY <2>2
  <2>5. QED
    BY <2>3, <2>4
<1>6. c.insert # {} <=> Links(c.match) # {}
  BY <1>4, <1>5
<1>7. Positions(c.insert) = {k[1] : k \in Links(c.match)}
  <2>1. Owned(c.insert) = {}
    BY <1>2 DEF Owned
  <2>2. {u \in c.insert : u.at # MainPlace} = c.insert
    BY <1>2
  <2>3. Positions(c.insert) = {Position(t.at) : t \in c.insert}
    BY <2>1, <2>2 DEF Positions
  <2>4. QED
    BY <1>4, <1>5, <2>3
<1>8. ASSUME c.insert # {}
      PROVE  Matched(c.match) = {id} \cup {k[2] : k \in Links(c.match)}
  <2>1. PICK u \in c.match : u.at = MainPlace
    BY <1>2, <1>8
  <2>2. \A i : i \in Matched(c.match) <=> \E t \in c.match : i \in t.ids
    BY DEF Matched
  <2>3. id \in Matched(c.match)
    BY <1>3, <2>1, <2>2
  <2>4. ASSUME NEW t \in c.match, NEW i \in t.ids
        PROVE  i = id \/ \E k \in Links(c.match) : i = k[2]
    <3>1. CASE t.at = MainPlace
      BY <1>3, <3>1
    <3>2. CASE t.at # MainPlace
      <4>1. PICK k : k = <<Position(t.at), i>>
        OBVIOUS
      <4>2. k \in Links(c.match) /\ k[2] = i
        BY <1>1, <3>2, <4>1
      <4>3. QED
        BY <4>2
    <3>3. QED
      BY <3>1, <3>2
  <2>5. QED
    BY <1>5, <2>2, <2>3, <2>4
<1>9. QED
  BY <1>6, <1>7, <1>8

LEMMA BundleFields ==
    ASSUME NEW m, NEW h, NEW i, NEW a, NEW k, NEW b, b = BundleOf(m, h, i, a, k)
    PROVE  b.marking = m /\ b.has = h /\ b.match = i /\ b.attributes = a /\ b.links = k
BY DEF BundleOf

LEMMA AbstractFieldsOf ==
    /\ AbstractBundle.marking = bundle.marking
    /\ AbstractBundle.has = Positions(bundle.main.insert)
    /\ AbstractBundle.match = Matched(bundle.main.match)
    /\ AbstractBundle.attributes = Positions(bundle.attributes)
    /\ AbstractBundle.links = Links(bundle.embedded.match)
<1>1. PICK m, h, i, a, k :
            /\ m = bundle.marking /\ h = Positions(bundle.main.insert)
            /\ i = Matched(bundle.main.match) /\ a = Positions(bundle.attributes)
            /\ k = Links(bundle.embedded.match)
  OBVIOUS
<1>2. AbstractBundle = BundleOf(m, h, i, a, k)
  BY <1>1, AbstractState
<1>3. QED
  BY <1>1, <1>2, BundleFields

LEMMA OrderedQueries ==
    ASSUME TypeInv, MainInv, next <= Len(file)
    PROVE  /\ AbstractQuery(MainQuery) = T!MainQuery(bundle.marking)
           /\ bundle.embedded.insert # {} <=> AbstractBundle.links # {}
           /\ bundle.embedded.insert # {} => AbstractQuery(EmbeddedQuery) = T!EmbeddedQuery
<1>1. T!Current = Current /\ T!stix.id = stix.id
  BY AbstractCurrent
<1>2. AbstractQuery(MainQuery) = T!MainQuery(bundle.marking)
  <2>1. /\ MainQuery.obj = Current /\ MainQuery.part = bundle.marking
        /\ MainQuery.match = bundle.main.match
        /\ MainQuery.insert = bundle.main.insert \cup bundle.attributes
    BY QueriesMade
  <2>2. Positions(MainQuery.insert) = AbstractBundle.has \cup AbstractBundle.attributes
    BY <2>1, PositionsTogether, AbstractFieldsOf
  <2>3. Matched(MainQuery.match) = AbstractBundle.match
    BY <2>1, AbstractFieldsOf
  <2>4. QED
    BY <1>1, <2>1, <2>2, <2>3 DEF AbstractQuery, T!MainQuery
<1>3. Ends(stix.id, bundle.embedded)
  BY DEF MainInv
<1>4. bundle.embedded.insert # {} <=> AbstractBundle.links # {}
  BY <1>3, LinkEnds, AbstractFieldsOf
<1>5. ASSUME bundle.embedded.insert # {}
      PROVE  AbstractQuery(EmbeddedQuery) = T!EmbeddedQuery
  <2>1. /\ EmbeddedQuery.obj = Current /\ EmbeddedQuery.part = "embedded"
        /\ EmbeddedQuery.match = bundle.embedded.match
        /\ EmbeddedQuery.insert = bundle.embedded.insert
    BY QueriesMade
  <2>2. /\ Positions(bundle.embedded.insert) = {k[1] : k \in Links(bundle.embedded.match)}
        /\ Matched(bundle.embedded.match) = {stix.id} \cup {k[2] : k \in Links(bundle.embedded.match)}
    BY <1>3, <1>5, LinkEnds
  <2>3. /\ Positions(EmbeddedQuery.insert) = {k[1] : k \in AbstractBundle.links}
        /\ Matched(EmbeddedQuery.match) = {T!stix.id} \cup {k[2] : k \in AbstractBundle.links}
    BY <1>1, <2>1, <2>2, AbstractFieldsOf
  <2>4. QED
    BY <1>1, <2>1, <2>3 DEF AbstractQuery, T!EmbeddedQuery
<1>6. QED
  BY <1>2, <1>4, <1>5

LEMMA ThreeLists ==
    ASSUME NEW ls, NEW as, as = [l \in 1..3 |-> AbstractList(ls[l])]
    PROVE  /\ as = <<AbstractList(ls[1]), AbstractList(ls[2]), AbstractList(ls[3])>>
           /\ \A l \in 1..3 : as[l] = AbstractList(ls[l])
<1>1. \A l \in 1..3 : as[l] = AbstractList(ls[l])
  OBVIOUS
<1>2. PICK a, b, c : a = AbstractList(ls[1]) /\ b = AbstractList(ls[2]) /\ c = AbstractList(ls[3])
  OBVIOUS
<1>3. as[1] = a /\ as[2] = b /\ as[3] = c
  BY <1>1, <1>2
<1>4. \E S : as \in [1..3 -> S]
  <2>1. PICK S : S = {AbstractList(ls[l]) : l \in 1..3}
    OBVIOUS
  <2>2. as \in [1..3 -> S]
    BY <2>1
  <2>3. QED
    BY <2>2
<1>5. as = <<a, b, c>>
  BY <1>3, <1>4
<1>6. QED
  BY <1>1, <1>2, <1>5

LEMMA OrderStep == TypeInv /\ MainInv /\ Order => T!Order
<1> SUFFICES ASSUME TypeInv, MainInv, Order PROVE T!Order
  OBVIOUS
<1>1. /\ next <= Len(file) /\ Skip /\ UNCHANGED <<file, counter, texts>> /\ stage = "order"
      /\ lists' = <<IF bundle.marking = "entity" THEN Append(lists[1], MainQuery) ELSE lists[1],
                    IF bundle.marking = "relation" THEN Append(lists[2], MainQuery) ELSE lists[2],
                    IF bundle.embedded.insert # {} THEN Append(lists[3], EmbeddedQuery) ELSE lists[3]>>
  BY OrderLists DEF Order
<1>2. next' = next + 1 /\ stage' = "read" /\ prop' = 1 /\ bundle' = EmptyBundle
  BY <1>1 DEF Skip, Enter
<1>3. AbstractBundle' = T!EmptyBundle
  BY <1>2, AbstractEmpty
<1>4. lists[1] \in Seq(Query) /\ lists[2] \in Seq(Query) /\ lists[3] \in Seq(Query)
  <2>1. lists \in [1..3 -> Seq(Query)]
    BY TypesOK DEF TypeInv, Types
  <2>2. QED
    BY <2>1
<1>5. /\ AbstractQuery(MainQuery) = T!MainQuery(bundle.marking)
      /\ bundle.embedded.insert # {} <=> AbstractBundle.links # {}
      /\ bundle.embedded.insert # {} => AbstractQuery(EmbeddedQuery) = T!EmbeddedQuery
      /\ AbstractBundle.marking = bundle.marking
  BY <1>1, OrderedQueries, AbstractFieldsOf
<1>6. PICK a, b, c :
            /\ a = IF bundle.marking = "entity" THEN Append(lists[1], MainQuery) ELSE lists[1]
            /\ b = IF bundle.marking = "relation" THEN Append(lists[2], MainQuery) ELSE lists[2]
            /\ c = IF bundle.embedded.insert # {} THEN Append(lists[3], EmbeddedQuery) ELSE lists[3]
  OBVIOUS
<1>7. lists'[1] = a /\ lists'[2] = b /\ lists'[3] = c
  BY <1>1, <1>6
<1>8. \A l \in 1..3 : AbstractLists[l] = AbstractList(lists[l])
  BY AbstractListOf, ThreeLists
<1>9. AbstractLists' = <<AbstractList(a), AbstractList(b), AbstractList(c)>>
  BY <1>7, AbstractListOf, ThreeLists
<1>10. AbstractList(a) = T!AppendIf(AbstractBundle.marking = "entity", AbstractLists[1], T!MainQuery("entity"))
  <2>1. CASE bundle.marking = "entity"
    BY <1>4, <1>5, <1>6, <1>8, <2>1, AbstractAppend DEF T!AppendIf
  <2>2. CASE bundle.marking # "entity"
    BY <1>5, <1>6, <1>8, <2>2 DEF T!AppendIf
  <2>3. QED
    BY <2>1, <2>2
<1>11. AbstractList(b) = T!AppendIf(AbstractBundle.marking = "relation", AbstractLists[2], T!MainQuery("relation"))
  <2>1. CASE bundle.marking = "relation"
    BY <1>4, <1>5, <1>6, <1>8, <2>1, AbstractAppend DEF T!AppendIf
  <2>2. CASE bundle.marking # "relation"
    BY <1>5, <1>6, <1>8, <2>2 DEF T!AppendIf
  <2>3. QED
    BY <2>1, <2>2
<1>12. AbstractList(c) = T!AppendIf(AbstractBundle.links # {}, AbstractLists[3], T!EmbeddedQuery)
  <2>1. CASE bundle.embedded.insert # {}
    <3>1. c = Append(lists[3], EmbeddedQuery)
      BY <1>6, <2>1
    <3>2. AbstractList(c) = Append(AbstractList(lists[3]), AbstractQuery(EmbeddedQuery))
      BY <1>4, <3>1, AbstractAppend
    <3>3. AbstractBundle.links # {} /\ AbstractQuery(EmbeddedQuery) = T!EmbeddedQuery
      BY <1>5, <2>1
    <3>4. AbstractLists[3] = AbstractList(lists[3])
      BY <1>8
    <3>5. QED
      BY <3>2, <3>3, <3>4 DEF T!AppendIf
  <2>2. CASE bundle.embedded.insert = {}
    BY <1>5, <1>6, <1>8, <2>2 DEF T!AppendIf
  <2>3. QED
    BY <2>1, <2>2
<1>13. QED
  BY <1>1, <1>2, <1>3, <1>9, <1>10, <1>11, <1>12 DEF T!Order, T!Enter

(* The texts that load builds take a role from every relation, but no      *)
(* position and no id.                                                     *)
LEMMA PrintedPositions ==
    ASSUME NEW I \in SUBSET Thing, NEW J, J = {PrintedThing(t) : t \in I}
    PROVE  Positions(J) = Positions(I)
<1>1. \A t \in I : PrintedThing(t).at = t.at /\ PrintedThing(t).owns = t.owns
  BY PrintedThingType
<1>2. /\ \A t \in I : \E u \in J : u.at = t.at /\ u.owns = t.owns
      /\ \A u \in J : \E t \in I : u.at = t.at /\ u.owns = t.owns
  BY <1>1
<1>3. Owned(J) = Owned(I)
  BY <1>2 DEF Owned
<1>4. {Position(t.at) : t \in {u \in J : u.at # MainPlace}}
        = {Position(t.at) : t \in {u \in I : u.at # MainPlace}}
  BY <1>2
<1>5. QED
  BY <1>3, <1>4 DEF Positions

LEMMA PrintedQuery ==
    ASSUME NEW q \in Query
    PROVE  AbstractQuery(Printed(q)) = AbstractQuery(q)
<1>1. /\ Printed(q).obj = q.obj /\ Printed(q).part = q.part /\ Printed(q).match = q.match
      /\ Printed(q).insert = {PrintedThing(t) : t \in q.insert}
  BY PrintedType
<1>2. q.insert \in SUBSET Thing
  BY DEF Query
<1>3. Positions(Printed(q).insert) = Positions(q.insert)
  BY <1>1, <1>2, PrintedPositions
<1>4. QED
  BY <1>1, <1>3 DEF AbstractQuery

LEMMA PrintedAbstract ==
    ASSUME NEW s \in Seq(Query)
    PROVE  AbstractList(PrintedList(s)) = AbstractList(s)
<1>1. /\ Len(PrintedList(s)) = Len(s) /\ Len(s) \in Nat
      /\ \A i \in 1..Len(s) : PrintedList(s)[i] = Printed(s[i])
  BY PrintedListType
<1>2. \A i \in 1..Len(s) : AbstractQuery(PrintedList(s)[i]) = AbstractQuery(s[i])
  BY <1>1, PrintedQuery
<1>3. QED
  BY <1>1, <1>2 DEF AbstractList

LEMMA TextsStutter == TypeInv /\ BuildTexts => UNCHANGED T!transformVars
<1> SUFFICES ASSUME TypeInv, BuildTexts PROVE UNCHANGED T!transformVars
  OBVIOUS
<1>1. PICK l \in 1..3 :
            /\ lists[l] \in Seq(Query) /\ lists'[l] = PrintedList(lists[l])
            /\ \A j \in 1..3 : j # l => lists'[j] = lists[j]
  BY TextsBuilt
<1>2. \A j \in 1..3 : AbstractList(lists'[j]) = AbstractList(lists[j])
  BY <1>1, PrintedAbstract
<1>3. AbstractLists' = AbstractLists
  BY <1>2, AbstractListOf
<1>4. UNCHANGED <<file, next, stage, prop, bundle>>
  BY DEF BuildTexts
<1>5. AbstractBundle' = AbstractBundle
  BY <1>4, AbstractState
<1>6. QED
  BY <1>3, <1>4, <1>5 DEF T!transformVars

(***************************************************************************)
(* The invariants of the refinement, and its steps.                        *)
(***************************************************************************)
RefinementInv == TypeInv /\ LocalInv /\ MainInv

Loops == \/ ConvertAttribute
         \/ BeginComposite
         \/ ConvertLeafValue
         \/ ConvertLeafPair
         \/ EndComposite
         \/ ConvertPair
         \/ ConvertItem
         \/ ConvertReference

LEMMA MainKept ==
    ASSUME MainInv, UNCHANGED <<file, next, bundle>>
    PROVE  MainInv'
BY DEF MainInv, stix, Current

LEMMA MainEmpty ==
    ASSUME bundle' = EmptyBundle
    PROVE  MainInv'
<1>1. bundle'.main.insert = {} /\ bundle'.embedded = NoClauses
  BY Empties
<1>2. QED
  BY <1>1, NothingProduced DEF MainInv

LEMMA EnteredSteps == TypeInv /\ LocalInv /\ MainInv /\ (Read \/ Finish \/ Create \/ SectionDone)
    => LocalInv' /\ MainInv'
<1> SUFFICES ASSUME TypeInv, LocalInv, MainInv, Read \/ Finish \/ Create \/ SectionDone
             PROVE  LocalInv' /\ MainInv'
  OBVIOUS
<1>1. NoElement /\ UNCHANGED <<file, next, bundle>>
  BY DEF Read, Finish, Create, SectionDone, Enter
<1>2. QED
  BY <1>1, LocalFresh, MainKept

LEMMA SkippedSteps == TypeInv /\ (CreateRaises \/ AddMainRaises \/ DropObject \/ Order)
    => LocalInv' /\ MainInv'
<1> SUFFICES ASSUME TypeInv, CreateRaises \/ AddMainRaises \/ DropObject \/ Order
             PROVE  LocalInv' /\ MainInv'
  OBVIOUS
<1>1. Skip
  BY Skipped, OrderLists
<1>2. NoElement /\ bundle' = EmptyBundle
  BY <1>1 DEF Skip, Enter
<1>3. QED
  BY <1>2, LocalFresh, MainEmpty

LEMMA MainSteps == TypeInv /\ (AddMainEntity \/ AddMainRelation) => LocalInv' /\ MainInv'
<1> SUFFICES ASSUME TypeInv, AddMainEntity \/ AddMainRelation
             PROVE  LocalInv' /\ MainInv'
  OBVIOUS
<1>1. Enter("props") /\ bundle'.embedded = NoClauses
      /\ \A t \in bundle'.main.insert : t.at = MainPlace
  <2>1. CASE AddMainEntity
    BY <2>1, EntityAdded
  <2>2. CASE AddMainRelation
    BY <2>2, RelationAdded
  <2>3. QED
    BY <2>1, <2>2
<1>2. NoElement
  BY <1>1 DEF Enter
<1>3. MainInv'
  BY <1>1, NothingProduced DEF MainInv
<1>4. QED
  BY <1>2, <1>3, LocalFresh

LEMMA PropertyDoneKeeps == TypeInv /\ LocalInv /\ MainInv /\ PropertyDone => LocalInv' /\ MainInv'
<1> SUFFICES ASSUME TypeInv, LocalInv, MainInv, PropertyDone
             PROVE  LocalInv' /\ MainInv'
  OBVIOUS
<1>1. /\ Converting /\ NoElement /\ UNCHANGED <<file, next>>
      /\ bundle'.main.insert = {Owning(local.owns, t) : t \in bundle.main.insert}
      /\ bundle'.embedded.match = bundle.embedded.match \cup local.embedded.match
      /\ bundle'.embedded.insert = bundle.embedded.insert \cup local.embedded.insert
  BY PropertyAdds
<1>2. stix' = stix
  BY <1>1 DEF stix, Current
<1>3. Ends(stix.id, bundle'.embedded)
  <2>1. PICK id, c, d, b : /\ id = stix.id /\ c = bundle.embedded
                           /\ d = local.embedded /\ b = bundle'.embedded
    OBVIOUS
  <2>2. Ends(id, c) /\ Ends(id, d)
    BY <1>1, <2>1 DEF LocalInv, MainInv
  <2>3. b.match = c.match \cup d.match /\ b.insert = c.insert \cup d.insert
    BY <1>1, <2>1
  <2>4. QED
    BY <2>1, <2>2, <2>3, EndsTogether
<1>4. \A t \in bundle'.main.insert : t.at = MainPlace
  <2>1. local.owns \in SUBSET Stored /\ \A t \in bundle.main.insert : t \in Thing /\ t.at = MainPlace
    BY TypeFacts DEF MainInv
  <2>2. \A t \in bundle.main.insert : Owning(local.owns, t).at = MainPlace
    BY <2>1, OwningType
  <2>3. QED
    BY <1>1, <2>2
<1>5. MainInv'
  BY <1>2, <1>3, <1>4 DEF MainInv
<1>6. QED
  BY <1>1, <1>5, LocalFresh

LEMMA OthersKeep == TypeInv /\ LocalInv /\ MainInv
    /\ (Loops \/ DropProperty \/ BuildTexts \/ UNCHANGED queryVars) => LocalInv' /\ MainInv'
<1> SUFFICES ASSUME TypeInv, LocalInv, MainInv,
                    Loops \/ DropProperty \/ BuildTexts \/ UNCHANGED queryVars
             PROVE  LocalInv' /\ MainInv'
  OBVIOUS
<1>1. CASE Loops
  BY <1>1, LoopsLocal, MainKept DEF Loops
<1>2. CASE DropProperty
  BY <1>2, Dropped, LocalFresh, MainKept
<1>3. CASE BuildTexts \/ UNCHANGED queryVars
  <2>1. UNCHANGED <<file, next, stage, prop, bundle>> /\ UNCHANGED <<elem, leaf, composite, local>>
    BY <1>3 DEF BuildTexts, queryVars, loops
  <2>2. LocalInv'
    <3>1. CASE Converting
      <4>1. Located({composite'[i] : i \in 1..Len(composite')}, <<stage, prop>>)
        BY <2>1, <3>1, PartFields DEF LocalInv
      <4>2. QED
        BY <2>1, <3>1, <4>1, LocalContinues DEF LocalInv, element
    <3>2. CASE ~Converting
      BY <2>1, <3>2, SameProperty DEF LocalInv
    <3>3. QED
      BY <3>1, <3>2
  <2>3. QED
    BY <2>1, <2>2, MainKept
<1>4. QED
  BY <1>1, <1>2, <1>3

LEMMA RefinementInitially == QueriesInit => RefinementInv
<1> SUFFICES ASSUME QueriesInit PROVE RefinementInv
  OBVIOUS
<1>1. TypeInv
  BY TypesInitially
<1>2. ~Converting /\ bundle = EmptyBundle
  BY DEF QueriesInit, Converting
<1>3. bundle.main.insert = {} /\ bundle.embedded = NoClauses
  BY <1>2, Empties
<1>4. MainInv
  BY <1>3, NothingProduced DEF MainInv
<1>5. QED
  BY <1>1, <1>2, <1>4 DEF RefinementInv, LocalInv

LEMMA RefinementNext == RefinementInv /\ [QueriesNext]_queryVars => RefinementInv'
<1> SUFFICES ASSUME TypeInv, LocalInv, MainInv, [QueriesNext]_queryVars
             PROVE  TypeInv' /\ LocalInv' /\ MainInv'
  BY DEF RefinementInv
<1>1. TypeInv'
  BY TypesNext
<1>2. CASE Read \/ Finish \/ Create \/ SectionDone
  BY <1>1, <1>2, EnteredSteps
<1>3. CASE CreateRaises \/ AddMainRaises \/ DropObject \/ Order
  BY <1>1, <1>3, SkippedSteps
<1>4. CASE AddMainEntity \/ AddMainRelation
  BY <1>1, <1>4, MainSteps
<1>5. CASE PropertyDone
  BY <1>1, <1>5, PropertyDoneKeeps
<1>6. CASE Loops \/ DropProperty \/ BuildTexts \/ UNCHANGED queryVars
  BY <1>1, <1>6, OthersKeep
<1>7. QED
  BY <1>2, <1>3, <1>4, <1>5, <1>6 DEF QueriesNext, Loops

LEMMA AbstractInitially == QueriesInit => T!TransformInit
<1> SUFFICES ASSUME QueriesInit PROVE T!TransformInit
  OBVIOUS
<1>1. /\ file \in Files /\ next = 1 /\ stage = "read" /\ prop = 1
      /\ bundle = EmptyBundle /\ lists = [l \in 1..3 |-> <<>>]
  BY DEF QueriesInit
<1>2. AbstractList(<<>>) = <<>>
  BY DEF AbstractList
<1>3. AbstractLists = <<<<>>, <<>>, <<>>>>
  <2>1. lists[1] = <<>> /\ lists[2] = <<>> /\ lists[3] = <<>>
    BY <1>1
  <2>2. AbstractLists = <<AbstractList(lists[1]), AbstractList(lists[2]), AbstractList(lists[3])>>
    BY AbstractListOf, ThreeLists
  <2>3. QED
    BY <1>2, <2>1, <2>2
<1>4. QED
  BY <1>1, <1>3, AbstractEmpty DEF T!TransformInit

LEMMA LoopsStutter ==
    TypeInv /\ LocalInv /\ (Loops \/ UNCHANGED queryVars) => UNCHANGED T!transformVars
<1> SUFFICES ASSUME TypeInv, LocalInv, Loops \/ UNCHANGED queryVars
             PROVE  UNCHANGED T!transformVars
  OBVIOUS
<1>1. UNCHANGED <<file, next, stage, prop, bundle, lists>>
  BY LoopsLocal DEF Loops, queryVars
<1>2. QED
  BY <1>1, AbstractState DEF T!transformVars

LEMMA AbstractNext ==
    RefinementInv /\ [QueriesNext]_queryVars => [T!TransformNext]_(T!transformVars)
<1> SUFFICES ASSUME TypeInv, LocalInv, MainInv, [QueriesNext]_queryVars
             PROVE  T!TransformNext \/ UNCHANGED T!transformVars
  BY DEF RefinementInv
<1>1. CASE Read
  BY <1>1, ReadStep DEF T!TransformNext
<1>2. CASE Finish
  BY <1>2, FinishStep DEF T!TransformNext
<1>3. CASE Create
  BY <1>3, CreateStep DEF T!TransformNext
<1>4. CASE CreateRaises
  BY <1>4, CreateRaisesStep DEF T!TransformNext
<1>5. CASE AddMainEntity
  BY <1>5, EntityStep DEF T!TransformNext
<1>6. CASE AddMainRelation
  BY <1>6, RelationStep DEF T!TransformNext
<1>7. CASE AddMainRaises
  BY <1>7, AddMainRaisesStep DEF T!TransformNext
<1>8. CASE DropProperty
  BY <1>8, DropPropertyStep DEF T!TransformNext
<1>9. CASE DropObject
  BY <1>9, DropObjectStep DEF T!TransformNext
<1>10. CASE PropertyDone
  BY <1>10, PropertyDoneStep DEF T!TransformNext
<1>11. CASE SectionDone
  BY <1>11, SectionDoneStep DEF T!TransformNext
<1>12. CASE Order
  BY <1>12, OrderStep DEF T!TransformNext
<1>13. CASE BuildTexts
  BY <1>13, TextsStutter
<1>14. CASE Loops \/ UNCHANGED queryVars
  BY <1>14, LoopsStutter
<1>15. QED
  BY <1>1, <1>2, <1>3, <1>4, <1>5, <1>6, <1>7, <1>8, <1>9, <1>10, <1>11, <1>12, <1>13, <1>14
     DEF QueriesNext, Loops

(* The queries, with their variables, things and nested values, are made   *)
(* as Transform makes its own: a value that fails inside a composite costs *)
(* the same property or object as there, every position that a property    *)
(* should fill is filled by it and by no other, and every id that an       *)
(* embedded relation connects is matched.                                  *)
THEOREM ImplementsTransformCorrect == QueriesSpec => ImplementsTransform
<1>1. QueriesInit => RefinementInv /\ T!TransformInit
  BY RefinementInitially, AbstractInitially
<1>2. RefinementInv /\ [QueriesNext]_queryVars => RefinementInv'
  BY RefinementNext
<1>3. RefinementInv /\ [QueriesNext]_queryVars => [T!TransformNext]_(T!transformVars)
  BY AbstractNext
<1>4. QED
  BY <1>1, <1>2, <1>3, PTL DEF QueriesSpec, ImplementsTransform, T!TransformSteps

(***************************************************************************)
(* Whole texts.  What is said below of the things in hand and in the       *)
(* bundle counts the places of an object: those that its good elements and *)
(* their leaves give a value for, as far as the conversion has come.       *)
(***************************************************************************)
(* What an element of a property gives a value for: itself (leaf 0), and   *)
(* every pair among its leaves.                                            *)
GivesValue(p, e, j) ==
    /\ e \in 1..Len(p.elems)
    /\ \/ /\ p.kind \in StructuredKinds
          /\ j = 0
       \/ /\ p.kind = "composite"
          /\ j \in 1..Len(p.elems[e])
          /\ p.elems[e][j].kind = "pair"

(* Two things for every place of P, a value and its relation, and no more. *)
Exact(things, P) ==
    /\ \A t \in things : t.at \in P
    /\ \A at \in P : \E t \in things : t.at = at /\ t.roles = <<>>
    /\ \A at \in P : \E t \in things : t.at = at /\ t.roles # <<>>
    /\ \A t, u \in things : t.at = u.at /\ (t.roles = <<>> <=> u.roles = <<>>) => t = u

(* The relations among them connect the value at their place to its owner. *)
Connected(things, owners) == \A h \in things : h.roles # <<>> =>
    \E v \in things, w \in owners :
        /\ v.at = h.at /\ v.roles = <<>>
        /\ w.at = OwnerPlace(h.at) /\ (w.at = MainPlace \/ w.roles = <<>>)
        /\ h.roles = <<{w.var}, {v.var}>>

(* What a value owns: what its leaves before the n-th give, or its items.  *)
Owns(t, at, leaves, n) == \A j \in 1..(n - 1) :
    leaves[j].kind = "value" => \E s \in t.owns : s.at = [at EXCEPT ![4] = j]
OwnsItems(t, at, item) == \A j \in 1..Len(item.values) :
    [at |-> [at EXCEPT ![4] = j], as |-> Parsed(ItemType(item), item.values[j])] \in t.owns
Filled(o, t) ==
    LET p == Sections(o)[t.at[1]][t.at[2]]
        e == p.elems[t.at[3]]
    IN  t.roles = <<>> /\ t.at[4] = 0 =>
            /\ p.kind = "composite" => Owns(t, t.at, e, Len(e) + 1)
            /\ p.kind = "dictionary" => OwnsItems(t, t.at, e)

(* One relation for each reference of G, from the object to its target.    *)
Referred(o, clauses, G) ==
    /\ \A t \in clauses.insert : \E g \in G : t.at = PlaceOf(g, 0)
    /\ \A t, u \in clauses.insert : t.at = u.at => t = u
    /\ \A g \in G : \E t \in clauses.insert, x, y \in clauses.match :
            /\ t.at = PlaceOf(g, 0) /\ t.roles = <<{x.var}, {y.var}>>
            /\ x.ids = {Content[o].id} /\ y.ids = {ElementAt(o, g)}

(* The property in hand: its places before the m-th leaf of the n-th       *)
(* element, how they grow by one, and its elements before the n-th.        *)
PlacesOwned(t) == {s.at : s \in t.owns}
InHand(p, n, m, e, j) == GivesValue(p, e, j) /\ (e < n \/ (e = n /\ 0 < j /\ j < m))
HandAt(s, i, p, n, m) ==
    {at \in Place : at[1] = s /\ at[2] = i /\ InHand(p, n, m, at[3], at[4])}
Grows(s, i, p, n, m, x, y, at) ==
    /\ HandAt(s, i, p, x, y) = HandAt(s, i, p, n, m) \cup {at}
    /\ HandAt(s, i, p, n, m) \cap {at} = {}
ElementsBefore(s, i, p, n, kind) == IF p.kind = kind THEN {<<s, i, e>> : e \in 1..(n - 1)} ELSE {}

(* What the loops have produced of it, and the composite value that they   *)
(* are in, are whole for those places and elements.                        *)
InHandWhole(o, s, i, n, m, l, open, main) ==
    LET p == Sections(o)[s][i]
    IN  /\ Exact(l.attributes, HandAt(s, i, p, n, m))
        /\ Connected(l.attributes, main \cup l.attributes \cup open)
        /\ \A t \in l.attributes : Filled(o, t)
        /\ \A t \in open : t.roles = <<>> /\ t.at = <<s, i, n, 0>> /\ Owns(t, t.at, p.elems[n], m)
        /\ PlacesOwned(l) = {PlaceOf(g, 0) : g \in ElementsBefore(s, i, p, n, "attribute")}
        /\ Referred(o, l.embedded, ElementsBefore(s, i, p, n, "reference"))
Open == {composite[i] : i \in 1..Len(composite)}
LocalWhole == Converting =>
    InHandWhole(Current, stage, prop, elem, leaf, local, Open, bundle.main.insert)

(* What comes before the property reached of the object being converted.   *)
Before(st, pr, s, i) == \/ st = "order"
                        \/ (st = "ext" /\ s = "props")
                        \/ (st = s /\ i < pr)
PlacesBefore(o, st, pr) == {at \in ValuePlaces(o) : Before(st, pr, at[1], at[2])}
GoodBefore(o, kind, st, pr) == {g \in GoodElements(o, {kind}) : Before(st, pr, g[1], g[2])}

(* The bundle is whole for the places P, attributes A and references R; a  *)
(* bundle without a main object is empty.                                  *)
BundleIs(o, b, P, A, R) ==
    /\ \E t \in b.main.insert : b.main.insert = {t} /\ t.at = MainPlace
    /\ Exact(b.attributes, P)
    /\ Connected(b.attributes, b.main.insert \cup b.attributes)
    /\ \A t \in b.attributes : Filled(o, t)
    /\ \A t \in b.main.insert :
            /\ PlacesOwned(t) = {PlaceOf(g, 0) : g \in A}
            /\ b.marking = "relation" => RolesPlayed(o, b.main.match, t.roles)
    /\ Referred(o, b.embedded, R)
BundleWhole == stage \in {"props", "ext", "order"} /\ bundle.marking # "" =>
    BundleIs(Current, bundle, PlacesBefore(Current, stage, prop),
             GoodBefore(Current, "attribute", stage, prop), GoodBefore(Current, "reference", stage, prop))
MarkingInv == /\ stage \in {"props", "ext"} => bundle.marking # ""
              /\ bundle.marking = "" => bundle = EmptyBundle

(* A query as it has to be, in the lists not yet built and in the texts.   *)
Keeps(q, g) ==
    LET item == ElementAt(q.obj, g)
        stored == UNION {t.owns : t \in Sole(q.insert, PlaceOf(g, 0))}
    IN  \A i \in 1..Len(item.values) : \E s \in stored :
            s.at = PlaceOf(g, i) /\ KeptAs(item, i, s.as)
Whole(q) ==
    /\ IF q.part = "embedded" THEN WholeReferences(q) ELSE WholeObject(q)
    /\ q.part # "embedded" => \A g \in GoodElements(q.obj, {"dictionary"}) : Keeps(q, g)
ListsWhole == \A l \in 1..3 : l > Len(texts) => \A i \in 1..Len(lists[l]) : Whole(lists[l][i])
SentWhole == \A q \in Sent : Whole(q)

GoodAt(o, s, i, e, kinds) ==
    /\ s \in {"props", "ext"} /\ i \in 1..Len(Sections(o)[s])
    /\ Sections(o)[s][i].kind \in kinds /\ Good(Sections(o)[s][i])
    /\ e \in 1..Len(Sections(o)[s][i].elems)
LeafAt(o, s, i, e, j, kind) ==
    /\ GoodAt(o, s, i, e, {"composite"})
    /\ j \in 1..Len(Sections(o)[s][i].elems[e])
    /\ Sections(o)[s][i].elems[e][j].kind = kind
ValueAt(o, s, i, e, j) ==
    /\ s \in {"props", "ext"} /\ i \in 1..Len(Sections(o)[s])
    /\ Good(Sections(o)[s][i]) /\ GivesValue(Sections(o)[s][i], e, j)

(* The places of an object, by section, property, element and leaf.        *)
LEMMA GoodElementIs ==
    ASSUME NEW o, NEW kinds
    PROVE  \A g : g \in GoodElements(o, kinds) <=>
                \E s, i, e : g = <<s, i, e>> /\ GoodAt(o, s, i, e, kinds)
<1>1. \A g : g \in GoodElements(o, kinds) <=>
            \E s \in {"props", "ext"} : \E i \in GoodProperties(o, s, kinds) :
                    \E e \in 1..Len(Sections(o)[s][i].elems) : g = <<s, i, e>>
  BY DEF GoodElements
<1>2. \A s, i : i \in GoodProperties(o, s, kinds) <=>
            /\ i \in 1..Len(Sections(o)[s])
            /\ Sections(o)[s][i].kind \in kinds /\ Good(Sections(o)[s][i])
  BY DEF GoodProperties
<1>3. QED
  BY <1>1, <1>2, Zenon DEF GoodAt

LEMMA ElementPlace ==
    ASSUME NEW o, NEW s, NEW i, NEW e, NEW g, g = <<s, i, e>>
    PROVE  /\ ElementAt(o, g) = Sections(o)[s][i].elems[e]
           /\ \A j : PlaceOf(g, j) = <<s, i, e, j>>
BY DEF ElementAt, PlaceOf

LEMMA LeafIs ==
    ASSUME NEW o, NEW kind
    PROVE  \A at : at \in Leaves(o, kind) <=>
                \E s, i, e, j : at = <<s, i, e, j>> /\ LeafAt(o, s, i, e, j, kind)
<1>1. \A at : at \in Leaves(o, kind) <=> \E g \in GoodElements(o, {"composite"}) :
            \E j \in 1..Len(ElementAt(o, g)) : at = PlaceOf(g, j) /\ ElementAt(o, g)[j].kind = kind
  BY DEF Leaves
<1>2. \A g : g \in GoodElements(o, {"composite"}) <=>
            \E s, i, e : g = <<s, i, e>> /\ GoodAt(o, s, i, e, {"composite"})
  BY GoodElementIs, Zenon
<1>3. ASSUME NEW at, at \in Leaves(o, kind)
      PROVE  \E s, i, e, j : at = <<s, i, e, j>> /\ LeafAt(o, s, i, e, j, kind)
  <2>1. PICK g \in GoodElements(o, {"composite"}) : \E j \in 1..Len(ElementAt(o, g)) :
                at = PlaceOf(g, j) /\ ElementAt(o, g)[j].kind = kind
    BY <1>1, <1>3, Zenon
  <2>2. PICK s, i, e : g = <<s, i, e>> /\ GoodAt(o, s, i, e, {"composite"})
    BY <1>2, <2>1, Zenon
  <2>3. PICK j \in 1..Len(ElementAt(o, g)) : at = PlaceOf(g, j) /\ ElementAt(o, g)[j].kind = kind
    BY <2>1, Zenon
  <2>4. ElementAt(o, g) = Sections(o)[s][i].elems[e] /\ PlaceOf(g, j) = <<s, i, e, j>>
    BY <2>2, ElementPlace
  <2>5. at = <<s, i, e, j>> /\ LeafAt(o, s, i, e, j, kind)
    BY <2>2, <2>3, <2>4 DEF LeafAt
  <2>6. QED
    BY <2>5, Zenon
<1>4. ASSUME NEW at, NEW s, NEW i, NEW e, NEW j, at = <<s, i, e, j>>, LeafAt(o, s, i, e, j, kind)
      PROVE  at \in Leaves(o, kind)
  <2>1. PICK g : g = <<s, i, e>>
    OBVIOUS
  <2>2. g \in GoodElements(o, {"composite"})
    BY <1>2, <1>4, <2>1 DEF LeafAt
  <2>3. ElementAt(o, g) = Sections(o)[s][i].elems[e] /\ PlaceOf(g, j) = <<s, i, e, j>>
    BY <2>1, ElementPlace
  <2>4. j \in 1..Len(ElementAt(o, g)) /\ at = PlaceOf(g, j) /\ ElementAt(o, g)[j].kind = kind
    BY <1>4, <2>3 DEF LeafAt
  <2>5. QED
    BY <1>1, <2>2, <2>4, Zenon
<1>5. QED
  BY <1>3, <1>4, Zenon

LEMMA PropertyTypes ==
    ASSUME NEW p \in Property
    PROVE  /\ Len(p.elems) \in Nat
           /\ \A e \in 1..Len(p.elems) :
                /\ e \in Nat
                /\ p.kind = "composite" => p.elems[e] \in Seq(Leaf) /\ Len(p.elems[e]) \in Nat
                /\ p.kind = "dictionary" =>
                        p.elems[e] \in Item /\ Len(p.elems[e].values) \in Nat
                /\ p.kind \in {"reference", "role"} => p.elems[e] \in Id
           /\ p.kind \in {"attribute", "pairs", "composite", "dictionary", "reference", "role", "ignored"}
           /\ p.kind = "ignored" => Len(p.elems) = 0
<1>1. Len(p.elems) \in Nat
  BY DEF Property
<1>2. ASSUME NEW e \in 1..Len(p.elems), p.kind = "composite"
      PROVE  p.elems[e] \in Seq(Leaf) /\ Len(p.elems[e]) \in Nat
  <2>1. p.elems \in Seq(Seq(Leaf))
    BY <1>2 DEF Property
  <2>2. QED
    BY <2>1
<1>3. ASSUME NEW e \in 1..Len(p.elems), p.kind = "dictionary"
      PROVE  p.elems[e] \in Item /\ Len(p.elems[e].values) \in Nat
  <2>1. p.elems \in Seq(Item)
    BY <1>3 DEF Property
  <2>2. PICK item : item = p.elems[e]
    OBVIOUS
  <2>3. item \in Item
    BY <2>1, <2>2
  <2>4. CASE item \in [list : {TRUE}, values : Seq(JSON)]
    BY <2>2, <2>3, <2>4
  <2>5. CASE item \in [list : {FALSE}, values : [1..1 -> JSON]]
    <3>1. item.values \in [1..1 -> JSON] /\ 1 \in Nat
      BY <2>5
    <3>2. Len(item.values) = 1
      BY <3>1, FunctionIsSequence
    <3>3. QED
      BY <2>2, <2>3, <3>2
  <2>6. QED
    BY <2>3, <2>4, <2>5 DEF Item
<1>4. ASSUME NEW e \in 1..Len(p.elems), p.kind \in {"reference", "role"}
      PROVE  p.elems[e] \in Id
  <2>1. p.elems \in Seq(Id)
    BY <1>4 DEF Property
  <2>2. QED
    BY <2>1
<1>5. p.kind = "ignored" => Len(p.elems) = 0
  BY DEF Property
<1>6. /\ p.kind \in {"attribute", "pairs", "composite", "dictionary", "reference", "role", "ignored"}
      /\ \A e \in 1..Len(p.elems) : e \in Nat
  BY <1>1 DEF Property
<1>7. QED
  BY <1>1, <1>2, <1>3, <1>4, <1>5, <1>6

LEMMA ValuePlaceIs ==
    ASSUME NEW o
    PROVE  \A at : at \in ValuePlaces(o) <=>
                \E s, i, e, j : at = <<s, i, e, j>> /\ ValueAt(o, s, i, e, j)
<1>1. \A at : at \in ValuePlaces(o) <=>
            (\E g \in GoodElements(o, {"composite", "pairs", "dictionary"}) : at = PlaceOf(g, 0))
            \/ at \in Leaves(o, "pair")
  BY DEF ValuePlaces
<1>2. \A s, i, e, j : ValueAt(o, s, i, e, j) <=>
            \/ GoodAt(o, s, i, e, {"composite", "pairs", "dictionary"}) /\ j = 0
            \/ LeafAt(o, s, i, e, j, "pair")
  BY DEF ValueAt, GoodAt, LeafAt, GivesValue, StructuredKinds
<1>3. \A at : (\E g \in GoodElements(o, {"composite", "pairs", "dictionary"}) : at = PlaceOf(g, 0)) <=>
            \E s, i, e : at = <<s, i, e, 0>> /\ GoodAt(o, s, i, e, {"composite", "pairs", "dictionary"})
  <2>1. \A g : g \in GoodElements(o, {"composite", "pairs", "dictionary"}) <=>
            \E s, i, e : g = <<s, i, e>> /\ GoodAt(o, s, i, e, {"composite", "pairs", "dictionary"})
    BY GoodElementIs, Zenon
  <2>2. \A g, s, i, e : g = <<s, i, e>> => PlaceOf(g, 0) = <<s, i, e, 0>>
    BY ElementPlace
  <2>3. ASSUME NEW at, NEW s, NEW i, NEW e, at = <<s, i, e, 0>>,
               GoodAt(o, s, i, e, {"composite", "pairs", "dictionary"})
        PROVE  \E g \in GoodElements(o, {"composite", "pairs", "dictionary"}) : at = PlaceOf(g, 0)
    <3>1. PICK g : g = <<s, i, e>>
      OBVIOUS
    <3>2. g \in GoodElements(o, {"composite", "pairs", "dictionary"})
      BY <2>1, <2>3, <3>1
    <3>3. at = PlaceOf(g, 0)
      BY <2>2, <2>3, <3>1
    <3>4. QED
      BY <3>2, <3>3
  <2>4. ASSUME NEW at, NEW g \in GoodElements(o, {"composite", "pairs", "dictionary"}), at = PlaceOf(g, 0)
        PROVE  \E s, i, e : at = <<s, i, e, 0>> /\ GoodAt(o, s, i, e, {"composite", "pairs", "dictionary"})
    <3>1. PICK s, i, e : g = <<s, i, e>> /\ GoodAt(o, s, i, e, {"composite", "pairs", "dictionary"})
      BY <2>1
    <3>2. at = <<s, i, e, 0>>
      BY <2>2, <2>4, <3>1
    <3>3. QED
      BY <3>1, <3>2
  <2>5. ASSUME NEW at
        PROVE  (\E g \in GoodElements(o, {"composite", "pairs", "dictionary"}) : at = PlaceOf(g, 0)) <=>
                \E s, i, e : at = <<s, i, e, 0>> /\ GoodAt(o, s, i, e, {"composite", "pairs", "dictionary"})
    <3>1. CASE \E g \in GoodElements(o, {"composite", "pairs", "dictionary"}) : at = PlaceOf(g, 0)
      BY <2>4, <3>1, Zenon
    <3>2. CASE \E s, i, e : at = <<s, i, e, 0>> /\ GoodAt(o, s, i, e, {"composite", "pairs", "dictionary"})
      <4>1. PICK s, i, e : at = <<s, i, e, 0>> /\ GoodAt(o, s, i, e, {"composite", "pairs", "dictionary"})
        BY <3>2
      <4>2. \E g \in GoodElements(o, {"composite", "pairs", "dictionary"}) : at = PlaceOf(g, 0)
        BY <2>3, <4>1
      <4>3. QED
        BY <3>2, <4>2
    <3>3. QED
      BY <3>1, <3>2
  <2>6. QED
    BY <2>5
<1>4. \A at : at \in Leaves(o, "pair") <=>
                \E s, i, e, j : at = <<s, i, e, j>> /\ LeafAt(o, s, i, e, j, "pair")
  BY LeafIs, Zenon
<1>5. QED
  BY <1>1, <1>2, <1>3, <1>4

LEMMA ValueAtTypes ==
    ASSUME NEW o \in Object, NEW s, NEW i, NEW e, NEW j, ValueAt(o, s, i, e, j)
    PROVE  /\ s \in {"props", "ext"} /\ i \in 1..Len(Sections(o)[s]) /\ i \in Nat
           /\ Sections(o)[s][i] \in Property /\ e \in Nat /\ j \in Nat
           /\ <<s, i, e, j>> \in Place
<1>1. s \in {"props", "ext"} /\ i \in 1..Len(Sections(o)[s])
      /\ GivesValue(Sections(o)[s][i], e, j)
  BY DEF ValueAt
<1>2. PICK p : p = Sections(o)[s][i]
  OBVIOUS
<1>3. Sections(o)[s] \in Seq(Property) /\ Len(Sections(o)[s]) \in Nat
  BY <1>1, SectionTypes
<1>4. i \in Nat /\ p \in Property
  BY <1>1, <1>2, <1>3
<1>5. e \in Nat /\ j \in Nat
  BY <1>1, <1>2, <1>4, PropertyTypes DEF GivesValue
<1>6. QED
  BY <1>1, <1>2, <1>4, <1>5 DEF Place

LEMMA GoodAtTypes ==
    ASSUME NEW o \in Object, NEW s, NEW i, NEW e, NEW kinds, GoodAt(o, s, i, e, kinds)
    PROVE  /\ s \in {"props", "ext"} /\ i \in 1..Len(Sections(o)[s]) /\ i \in Nat
           /\ Sections(o)[s][i] \in Property /\ e \in Nat /\ e > 0
<1>1. s \in {"props", "ext"} /\ i \in 1..Len(Sections(o)[s])
      /\ e \in 1..Len(Sections(o)[s][i].elems)
  BY DEF GoodAt
<1>2. PICK p : p = Sections(o)[s][i]
  OBVIOUS
<1>3. Sections(o)[s] \in Seq(Property) /\ Len(Sections(o)[s]) \in Nat
  BY <1>1, SectionTypes
<1>4. i \in Nat /\ p \in Property
  BY <1>1, <1>2, <1>3
<1>5. e \in Nat /\ e > 0
  BY <1>1, <1>2, <1>4, PropertyTypes
<1>6. QED
  BY <1>1, <1>2, <1>4, <1>5

LEMMA ExactJoined ==
    ASSUME NEW A, NEW B, NEW P, NEW Q, Exact(A, P), Exact(B, Q), P \cap Q = {}
    PROVE  Exact(A \cup B, P \cup Q)
<1>1. \A t \in A \cup B : t.at \in P \cup Q
  BY DEF Exact
<1>2. \A at \in P \cup Q : \E t \in A \cup B : t.at = at /\ t.roles = <<>>
  BY DEF Exact
<1>3. \A at \in P \cup Q : \E t \in A \cup B : t.at = at /\ t.roles # <<>>
  BY DEF Exact
<1>4. ASSUME NEW t \in A \cup B, NEW u \in A \cup B,
             t.at = u.at, t.roles = <<>> <=> u.roles = <<>>
      PROVE  t = u
  <2>1. \A x : (x \in A => x.at \in P) /\ (x \in B => x.at \in Q)
    BY DEF Exact
  <2>2. \A x, y : x \in A /\ y \in B => x.at # y.at
    BY <2>1
  <2>3. (t \in A /\ u \in A) \/ (t \in B /\ u \in B)
    BY <1>4, <2>2
  <2>4. CASE t \in A /\ u \in A
    BY <1>4, <2>4 DEF Exact
  <2>5. CASE t \in B /\ u \in B
    BY <1>4, <2>5 DEF Exact
  <2>6. QED
    BY <2>3, <2>4, <2>5
<1>5. QED
  BY <1>1, <1>2, <1>3, <1>4 DEF Exact

LEMMA ExactPair ==
    ASSUME NEW e, NEW r, NEW at, e.at = at, r.at = at, e.roles = <<>>, r.roles # <<>>
    PROVE  Exact({e, r}, {at})
BY DEF Exact

LEMMA ExactNone == Exact({}, {})
BY DEF Exact

(* The things of V are also in X, with what they own perhaps changed.      *)
Stand(V, X) == \A w \in V : \E x \in X : x.var = w.var /\ x.at = w.at /\ x.roles = w.roles

LEMMA ConnectedStill ==
    ASSUME NEW A, NEW V, NEW X, Connected(A, V), Stand(V, X)
    PROVE  Connected(A, X)
<1>1. ASSUME NEW h \in A, h.roles # <<>>
      PROVE  \E v \in A, w \in X :
                /\ v.at = h.at /\ v.roles = <<>>
                /\ w.at = OwnerPlace(h.at) /\ (w.at = MainPlace \/ w.roles = <<>>)
                /\ h.roles = <<{w.var}, {v.var}>>
  <2>1. PICK v \in A, w \in V :
                /\ v.at = h.at /\ v.roles = <<>>
                /\ w.at = OwnerPlace(h.at) /\ (w.at = MainPlace \/ w.roles = <<>>)
                /\ h.roles = <<{w.var}, {v.var}>>
    BY <1>1 DEF Connected
  <2>2. PICK x \in X : x.var = w.var /\ x.at = w.at /\ x.roles = w.roles
    BY DEF Stand
  <2>3. QED
    BY <2>1, <2>2
<1>2. QED
  BY <1>1 DEF Connected

LEMMA StandSubset == \A V, X : V \subseteq X => Stand(V, X)
BY DEF Stand

LEMMA ConnectedJoined ==
    ASSUME NEW A, NEW B, NEW V, Connected(A, V), Connected(B, V)
    PROVE  Connected(A \cup B, V)
BY DEF Connected

LEMMA ConnectedPair ==
    ASSUME NEW e, NEW r, NEW V, NEW w \in V, e.roles = <<>>, e.at = r.at,
           w.at = OwnerPlace(r.at), w.at = MainPlace \/ w.roles = <<>>,
           r.roles = <<{w.var}, {e.var}>>
    PROVE  Connected({e, r}, V)
BY DEF Connected

LEMMA ReferredJoined ==
    ASSUME NEW o, NEW c, NEW d, NEW b, NEW G, NEW H, Referred(o, c, G), Referred(o, d, H),
           \A g \in G, h \in H : PlaceOf(g, 0) # PlaceOf(h, 0),
           b.match = c.match \cup d.match, b.insert = c.insert \cup d.insert
    PROVE  Referred(o, b, G \cup H)
<1>1. \A t \in b.insert : \E g \in G \cup H : t.at = PlaceOf(g, 0)
  BY DEF Referred
<1>2. ASSUME NEW t \in b.insert, NEW u \in b.insert, t.at = u.at
      PROVE  t = u
  <2>1. ASSUME NEW x \in c.insert, NEW y \in d.insert PROVE x.at # y.at
    <3>1. PICK g \in G : x.at = PlaceOf(g, 0)
      BY DEF Referred
    <3>2. PICK h \in H : y.at = PlaceOf(h, 0)
      BY DEF Referred
    <3>3. QED
      BY <3>1, <3>2
  <2>2. (t \in c.insert /\ u \in c.insert) \/ (t \in d.insert /\ u \in d.insert)
    BY <1>2, <2>1
  <2>3. CASE t \in c.insert /\ u \in c.insert
    BY <1>2, <2>3 DEF Referred
  <2>4. CASE t \in d.insert /\ u \in d.insert
    BY <1>2, <2>4 DEF Referred
  <2>5. QED
    BY <2>2, <2>3, <2>4
<1>3. ASSUME NEW g \in G \cup H
      PROVE  \E t \in b.insert, x, y \in b.match :
                /\ t.at = PlaceOf(g, 0) /\ t.roles = <<{x.var}, {y.var}>>
                /\ x.ids = {Content[o].id} /\ y.ids = {ElementAt(o, g)}
  <2>1. CASE g \in G
    <3>1. PICK t \in c.insert, x \in c.match, y \in c.match :
                /\ t.at = PlaceOf(g, 0) /\ t.roles = <<{x.var}, {y.var}>>
                /\ x.ids = {Content[o].id} /\ y.ids = {ElementAt(o, g)}
      BY <2>1 DEF Referred
    <3>2. t \in b.insert /\ x \in b.match /\ y \in b.match
      OBVIOUS
    <3>3. QED
      BY <3>1, <3>2
  <2>2. CASE g \in H
    <3>1. PICK t \in d.insert, x \in d.match, y \in d.match :
                /\ t.at = PlaceOf(g, 0) /\ t.roles = <<{x.var}, {y.var}>>
                /\ x.ids = {Content[o].id} /\ y.ids = {ElementAt(o, g)}
      BY <2>2 DEF Referred
    <3>2. t \in b.insert /\ x \in b.match /\ y \in b.match
      OBVIOUS
    <3>3. QED
      BY <3>1, <3>2
  <2>3. QED
    BY <2>1, <2>2
<1>4. QED
  BY <1>1, <1>2, <1>3 DEF Referred

LEMMA ReferredNone == \A o : Referred(o, NoClauses, {})
BY Empties DEF Referred

(* The places of a property that has been converted up to a leaf.          *)
LEMMA HandAtIs ==
    ASSUME NEW s \in {"props", "ext"}, NEW i \in Nat, NEW p \in Property, NEW n, NEW m
    PROVE  \A at : at \in HandAt(s, i, p, n, m) <=>
                \E e, j : at = <<s, i, e, j>> /\ InHand(p, n, m, e, j)
<1>1. ASSUME NEW at \in HandAt(s, i, p, n, m)
      PROVE  \E e, j : at = <<s, i, e, j>> /\ InHand(p, n, m, e, j)
  <2>1. /\ at \in Place /\ at[1] = s /\ at[2] = i
        /\ InHand(p, n, m, at[3], at[4])
    BY DEF HandAt
  <2>2. at = <<s, i, at[3], at[4]>>
    BY <2>1 DEF Place
  <2>3. QED
    BY <2>1, <2>2, Zenon
<1>2. ASSUME NEW at, NEW e, NEW j, at = <<s, i, e, j>>, InHand(p, n, m, e, j)
      PROVE  at \in HandAt(s, i, p, n, m)
  <2>1. GivesValue(p, e, j)
    BY <1>2 DEF InHand
  <2>2. e \in Nat /\ j \in Nat
    BY <2>1, PropertyTypes DEF GivesValue
  <2>3. at \in Place /\ at[1] = s /\ at[2] = i /\ at[3] = e /\ at[4] = j
    BY <1>2, <2>2 DEF Place
  <2>4. QED
    BY <1>2, <2>3 DEF HandAt
<1>3. QED
  BY <1>1, <1>2, Zenon

LEMMA HandSame ==
    ASSUME NEW s \in {"props", "ext"}, NEW i \in Nat, NEW p \in Property, NEW n, NEW m, NEW k, NEW l,
           \A e, j : InHand(p, k, l, e, j) <=> InHand(p, n, m, e, j)
    PROVE  HandAt(s, i, p, k, l) = HandAt(s, i, p, n, m)
BY DEF HandAt

LEMMA HandGrows ==
    ASSUME NEW s \in {"props", "ext"}, NEW i \in Nat, NEW p \in Property, NEW n, NEW m, NEW k, NEW l,
           NEW x, NEW y, ~InHand(p, n, m, x, y),
           \A e, j : InHand(p, k, l, e, j) <=> (InHand(p, n, m, e, j) \/ (e = x /\ j = y))
    PROVE  /\ HandAt(s, i, p, k, l) = HandAt(s, i, p, n, m) \cup {<<s, i, x, y>>}
           /\ HandAt(s, i, p, n, m) \cap {<<s, i, x, y>>} = {}
<1>1. \A at : at \in HandAt(s, i, p, n, m) <=>
                \E e, j : at = <<s, i, e, j>> /\ InHand(p, n, m, e, j)
  BY HandAtIs
<1>2. \A at : at \in HandAt(s, i, p, k, l) <=>
                \E e, j : at = <<s, i, e, j>> /\ InHand(p, k, l, e, j)
  BY HandAtIs
<1>3. <<s, i, x, y>> \notin HandAt(s, i, p, n, m)
  BY <1>1
<1>4. \A at : at \in HandAt(s, i, p, k, l) <=>
                (at \in HandAt(s, i, p, n, m) \/ at = <<s, i, x, y>>)
  BY <1>1, <1>2, Zenon
<1>5. QED
  BY <1>3, <1>4

LEMMA HandNone ==
    ASSUME NEW s \in {"props", "ext"}, NEW i \in Nat, NEW p \in Property
    PROVE  /\ HandAt(s, i, p, 1, 0) = {}
           /\ p.kind \notin StructuredKinds => \A n, m : HandAt(s, i, p, n, m) = {}
<1>1. \A e, j : ~InHand(p, 1, 0, e, j)
  BY PropertyTypes DEF InHand, GivesValue
<1>2. p.kind \notin StructuredKinds => \A n, m, e, j : ~InHand(p, n, m, e, j)
  BY DEF InHand, GivesValue, StructuredKinds
<1>3. QED
  BY <1>1, <1>2 DEF HandAt

LEMMA HandElement ==
    ASSUME NEW s \in {"props", "ext"}, NEW i \in Nat, NEW p \in Property,
           p.kind \in {"pairs", "dictionary"}, NEW n \in 1..Len(p.elems)
    PROVE  /\ HandAt(s, i, p, n + 1, 0) = HandAt(s, i, p, n, 0) \cup {<<s, i, n, 0>>}
           /\ HandAt(s, i, p, n, 0) \cap {<<s, i, n, 0>>} = {}
<1>1. n \in Nat /\ \A e, j : GivesValue(p, e, j) <=> (e \in 1..Len(p.elems) /\ j = 0)
  BY PropertyTypes DEF GivesValue, StructuredKinds
<1>2. \A e : e \in 1..Len(p.elems) => e \in Nat
  BY PropertyTypes
<1>3. ~InHand(p, n, 0, n, 0)
  BY <1>1 DEF InHand
<1>4. \A e, j : InHand(p, n + 1, 0, e, j) <=> (InHand(p, n, 0, e, j) \/ (e = n /\ j = 0))
  BY <1>1, <1>2 DEF InHand
<1>5. QED
  BY <1>3, <1>4, HandGrows

LEMMA CompositeGives ==
    ASSUME NEW p \in Property, p.kind = "composite", NEW n \in 1..Len(p.elems)
    PROVE  /\ n \in Nat /\ Len(p.elems[n]) \in Nat
           /\ \A e, j : GivesValue(p, e, j) => e \in Nat /\ j \in Nat
           /\ \A j : GivesValue(p, n, j) <=>
                    \/ j = 0
                    \/ j \in 1..Len(p.elems[n]) /\ p.elems[n][j].kind = "pair"
<1>1. n \in Nat /\ Len(p.elems[n]) \in Nat
  BY PropertyTypes
<1>2. \A e, j : GivesValue(p, e, j) => e \in Nat /\ j \in Nat
  BY PropertyTypes DEF GivesValue
<1>3. QED
  BY <1>1, <1>2 DEF GivesValue, StructuredKinds

LEMMA LeavesBegin ==
    ASSUME NEW s \in {"props", "ext"}, NEW i \in Nat, NEW p \in Property,
           p.kind = "composite", NEW n \in 1..Len(p.elems)
    PROVE  HandAt(s, i, p, n, 1) = HandAt(s, i, p, n, 0)
<1>1. n \in Nat /\ \A e, j : GivesValue(p, e, j) => e \in Nat /\ j \in Nat
  BY CompositeGives
<1>2. \A e, j : InHand(p, n, 1, e, j) <=> InHand(p, n, 0, e, j)
  BY <1>1 DEF InHand
<1>3. QED
  BY <1>2, HandSame

LEMMA PairGrows ==
    ASSUME NEW s \in {"props", "ext"}, NEW i \in Nat, NEW p \in Property,
           p.kind = "composite", NEW n \in 1..Len(p.elems),
           NEW m \in 1..Len(p.elems[n]), p.elems[n][m].kind = "pair", NEW x, x = m + 1
    PROVE  Grows(s, i, p, n, m, n, x, <<s, i, n, m>>)
<1>1. n \in Nat /\ \A e, j : GivesValue(p, e, j) => e \in Nat /\ j \in Nat
  BY CompositeGives
<1>2. m \in Nat /\ m > 0 /\ GivesValue(p, n, m)
  BY CompositeGives
<1>3. ~InHand(p, n, m, n, m)
  BY <1>1, <1>2 DEF InHand
<1>4. ASSUME NEW e, NEW j
      PROVE  InHand(p, n, x, e, j) <=> (InHand(p, n, m, e, j) \/ (e = n /\ j = m))
  <2>1. CASE GivesValue(p, e, j)
    BY <1>1, <1>2, <2>1 DEF InHand
  <2>2. CASE ~GivesValue(p, e, j)
    BY <1>2, <2>2 DEF InHand
  <2>3. QED
    BY <2>1, <2>2
<1>5. \A e, j : InHand(p, n, x, e, j) <=> (InHand(p, n, m, e, j) \/ (e = n /\ j = m))
  BY <1>4, Zenon
<1>6. /\ HandAt(s, i, p, n, x) = HandAt(s, i, p, n, m) \cup {<<s, i, n, m>>}
      /\ HandAt(s, i, p, n, m) \cap {<<s, i, n, m>>} = {}
  BY <1>3, <1>5, HandGrows
<1>7. QED
  BY <1>6 DEF Grows

LEMMA ValueStays ==
    ASSUME NEW s \in {"props", "ext"}, NEW i \in Nat, NEW p \in Property,
           p.kind = "composite", NEW n \in 1..Len(p.elems),
           NEW m \in 1..Len(p.elems[n]), p.elems[n][m].kind # "pair", NEW x, x = m + 1
    PROVE  HandAt(s, i, p, n, x) = HandAt(s, i, p, n, m)
<1>1. n \in Nat /\ \A e, j : GivesValue(p, e, j) => e \in Nat /\ j \in Nat
  BY CompositeGives
<1>2. m \in Nat /\ m > 0 /\ ~GivesValue(p, n, m)
  <2>1. /\ Len(p.elems[n]) \in Nat
        /\ \A j : GivesValue(p, n, j) <=>
                    \/ j = 0
                    \/ (j \in 1..Len(p.elems[n]) /\ p.elems[n][j].kind = "pair")
    BY CompositeGives
  <2>2. m \in Nat /\ m > 0
    BY <2>1
  <2>3. QED
    BY <2>1, <2>2
<1>3. \A e, j : InHand(p, n, x, e, j) <=> InHand(p, n, m, e, j)
  BY <1>1, <1>2 DEF InHand
<1>4. QED
  BY <1>3, HandSame

LEMMA LeavesEnd ==
    ASSUME NEW s \in {"props", "ext"}, NEW i \in Nat, NEW p \in Property,
           p.kind = "composite", NEW n \in 1..Len(p.elems), NEW x, x = n + 1,
           NEW m \in Nat, m > Len(p.elems[n])
    PROVE  Grows(s, i, p, n, m, x, 0, <<s, i, n, 0>>)
<1>1. /\ n \in Nat /\ Len(p.elems[n]) \in Nat /\ GivesValue(p, n, 0)
      /\ \A e, j : GivesValue(p, e, j) => e \in Nat /\ j \in Nat
  BY CompositeGives
<1>2. \A j : GivesValue(p, n, j) => j < m
  <2>1. \A j : GivesValue(p, n, j) => j = 0 \/ j \in 1..Len(p.elems[n])
    BY CompositeGives
  <2>2. m > 0 /\ \A j \in 1..Len(p.elems[n]) : j < m
    BY <1>1
  <2>3. QED
    BY <2>1, <2>2
<1>3. ~InHand(p, n, m, n, 0)
  BY <1>1 DEF InHand
<1>4. \A e, j : InHand(p, x, 0, e, j) <=> (InHand(p, n, m, e, j) \/ (e = n /\ j = 0))
  BY <1>1, <1>2 DEF InHand
<1>5. QED
  BY <1>3, <1>4, HandGrows DEF Grows

(* All of a good property is in hand when its conversion returns.          *)
LEMMA HandWhole ==
    ASSUME NEW o \in Object, NEW s \in {"props", "ext"}, NEW i \in 1..Len(Sections(o)[s]),
           NEW p, p = Sections(o)[s][i], Good(p), NEW n \in Nat,
           n > Len(p.elems) \/ p.kind \notin StructuredKinds
    PROVE  \A at : at \in HandAt(s, i, p, n, 0) <=>
                at \in ValuePlaces(o) /\ at[1] = s /\ at[2] = i
<1>1. Sections(o)[s] \in Seq(Property) /\ Len(Sections(o)[s]) \in Nat
  BY SectionTypes
<1>2. i \in Nat /\ p \in Property
  BY <1>1
<1>3. \A e, j : InHand(p, n, 0, e, j) <=> GivesValue(p, e, j)
  BY <1>2, PropertyTypes DEF InHand, GivesValue, StructuredKinds
<1>4. \A at : at \in HandAt(s, i, p, n, 0) <=> \E e, j : at = <<s, i, e, j>> /\ InHand(p, n, 0, e, j)
  BY <1>2, HandAtIs
<1>5. \A e, j : ValueAt(o, s, i, e, j) <=> GivesValue(p, e, j)
  BY DEF ValueAt
<1>6. \A at : (at \in ValuePlaces(o) /\ at[1] = s /\ at[2] = i) <=>
            \E e, j : at = <<s, i, e, j>> /\ ValueAt(o, s, i, e, j)
  BY ValuePlaceIs
<1>7. QED
  BY <1>3, <1>4, <1>5, <1>6

NewPair(l, k, e, r, at, w) ==
    /\ k.owns = l.owns /\ k.embedded = l.embedded /\ k.attributes = l.attributes \cup {e, r}
    /\ e.at = at /\ r.at = at /\ e.roles = <<>> /\ r.roles = <<{w.var}, {e.var}>>
    /\ w.at = OwnerPlace(at) /\ (w.at = MainPlace \/ w.roles = <<>>)
OpenAt(things, s, i, n, leaves, m) ==
    \A t \in things : t.roles = <<>> /\ t.at = <<s, i, n, 0>> /\ Owns(t, t.at, leaves, m)

LEMMA StructuredInHand ==
    ASSUME NEW o, NEW s, NEW i, NEW n, NEW m, NEW l, NEW open, NEW main,
           InHandWhole(o, s, i, n, m, l, open, main), NEW p, p = Sections(o)[s][i],
           p.kind \in StructuredKinds, NEW k, NEW x, NEW y, NEW rest, NEW e, NEW r, NEW at, NEW w,
           NewPair(l, k, e, r, at, w), w \in main \cup open, Grows(s, i, p, n, m, x, y, at),
           Filled(o, e), open \subseteq rest \cup {e}, OpenAt(rest, s, i, x, p.elems[x], y)
    PROVE  InHandWhole(o, s, i, x, y, k, rest, main)
<1>0. /\ k.owns = l.owns /\ k.embedded = l.embedded /\ k.attributes = l.attributes \cup {e, r}
      /\ e.at = at /\ r.at = at /\ e.roles = <<>> /\ r.roles = <<{w.var}, {e.var}>>
      /\ w.at = OwnerPlace(at) /\ (w.at = MainPlace \/ w.roles = <<>>)
      /\ HandAt(s, i, p, x, y) = HandAt(s, i, p, n, m) \cup {at}
      /\ HandAt(s, i, p, n, m) \cap {at} = {}
  BY DEF NewPair, Grows
<1>1. /\ Exact(l.attributes, HandAt(s, i, p, n, m))
      /\ Connected(l.attributes, main \cup l.attributes \cup open)
      /\ \A t \in l.attributes : Filled(o, t)
      /\ PlacesOwned(l) = {PlaceOf(g, 0) : g \in ElementsBefore(s, i, p, n, "attribute")}
      /\ Referred(o, l.embedded, ElementsBefore(s, i, p, n, "reference"))
  BY DEF InHandWhole
<1>2. r.roles # <<>>
  BY <1>0
<1>3. Exact(k.attributes, HandAt(s, i, p, x, y))
  <2>1. Exact({e, r}, {at})
    BY <1>0, <1>2, ExactPair
  <2>2. Exact(l.attributes \cup {e, r}, HandAt(s, i, p, n, m) \cup {at})
    BY <1>0, <1>1, <2>1, ExactJoined
  <2>3. QED
    BY <1>0, <2>2
<1>4. Connected(k.attributes, main \cup k.attributes \cup rest)
  <2>1. Connected(l.attributes, main \cup k.attributes \cup rest)
    <3>1. main \cup l.attributes \cup open \subseteq main \cup k.attributes \cup rest
      BY <1>0
    <3>2. Stand(main \cup l.attributes \cup open, main \cup k.attributes \cup rest)
      BY <3>1, StandSubset, Zenon
    <3>3. QED
      BY <1>1, <3>2, ConnectedStill
  <2>2. w \in main \cup k.attributes \cup rest
    BY <1>0
  <2>3. Connected({e, r}, main \cup k.attributes \cup rest)
    <3>1. /\ e.at = r.at /\ w.at = OwnerPlace(r.at) /\ (w.at = MainPlace \/ w.roles = <<>>)
          /\ e.roles = <<>> /\ r.roles = <<{w.var}, {e.var}>>
      BY <1>0
    <3>2. QED
      BY <2>2, <3>1, ConnectedPair
  <2>4. QED
    BY <1>0, <2>1, <2>3, ConnectedJoined
<1>5. \A t \in k.attributes : Filled(o, t)
  <2>1. Filled(o, r)
    BY <1>2 DEF Filled
  <2>2. QED
    BY <1>0, <1>1, <2>1
<1>6. \A c : ElementsBefore(s, i, p, x, c) = ElementsBefore(s, i, p, n, c) \/ c \in StructuredKinds
  BY DEF ElementsBefore
<1>7. "attribute" \notin StructuredKinds /\ "reference" \notin StructuredKinds
  BY DEF StructuredKinds
<1>8. PlacesOwned(k) = PlacesOwned(l)
  BY <1>0 DEF PlacesOwned
<1>9. PlacesOwned(k) = {PlaceOf(g, 0) : g \in ElementsBefore(s, i, p, x, "attribute")}
  BY <1>1, <1>6, <1>7, <1>8
<1>10. Referred(o, k.embedded, ElementsBefore(s, i, p, x, "reference"))
  BY <1>0, <1>1, <1>6, <1>7
<1>11. QED
  BY <1>3, <1>4, <1>5, <1>9, <1>10 DEF InHandWhole, OpenAt

(* A value of a composite value: the composite owns more.                  *)
LEMMA OpenInHand ==
    ASSUME NEW o, NEW s, NEW i, NEW n, NEW m, NEW l, NEW open, NEW main,
           InHandWhole(o, s, i, n, m, l, open, main), NEW p, p = Sections(o)[s][i],
           NEW y, NEW rest, HandAt(s, i, p, n, y) = HandAt(s, i, p, n, m), Stand(open, rest),
           \A t \in rest : t.roles = <<>> /\ t.at = <<s, i, n, 0>> /\ Owns(t, t.at, p.elems[n], y)
    PROVE  InHandWhole(o, s, i, n, y, l, rest, main)
<1>1. Connected(l.attributes, main \cup l.attributes \cup rest)
  <2>1. Connected(l.attributes, main \cup l.attributes \cup open)
    BY DEF InHandWhole
  <2>2. Stand(main \cup l.attributes \cup open, main \cup l.attributes \cup rest)
    BY DEF Stand
  <2>3. QED
    BY <2>1, <2>2, ConnectedStill
<1>2. Exact(l.attributes, HandAt(s, i, p, n, y))
  BY DEF InHandWhole
<1>3. QED
  BY <1>1, <1>2 DEF InHandWhole

LEMMA NothingInHand ==
    ASSUME NEW o \in Object, NEW s \in {"props", "ext"}, NEW i \in 1..Len(Sections(o)[s]), NEW main
    PROVE  InHandWhole(o, s, i, 1, 0, NoLocal, {}, main)
<1>1. PICK p : p = Sections(o)[s][i]
  OBVIOUS
<1>2. Sections(o)[s] \in Seq(Property) /\ Len(Sections(o)[s]) \in Nat
  BY SectionTypes
<1>3. HandAt(s, i, p, 1, 0) = {}
  BY <1>1, <1>2, HandNone
<1>4. Exact(NoLocal.attributes, HandAt(s, i, p, 1, 0))
  BY <1>3, Empties, ExactNone
<1>5. \A kind : ElementsBefore(s, i, p, 1, kind) = {}
  BY DEF ElementsBefore
<1>6. Referred(o, NoLocal.embedded, ElementsBefore(s, i, p, 1, "reference"))
  BY <1>5, Empties, ReferredNone
<1>7. PlacesOwned(NoLocal) = {PlaceOf(g, 0) : g \in ElementsBefore(s, i, p, 1, "attribute")}
  BY <1>5, Empties DEF PlacesOwned
<1>8. Connected(NoLocal.attributes, main \cup NoLocal.attributes \cup {})
  BY Empties DEF Connected
<1>9. QED
  BY <1>1, <1>4, <1>6, <1>7, <1>8, Empties DEF InHandWhole

LEMMA WholeContinues ==
    ASSUME LocalWhole, UNCHANGED <<file, next, stage, prop>>, bundle' = bundle, Converting,
           InHandWhole(Current, stage, prop, elem', leaf', local',
                       {composite'[i] : i \in 1..Len(composite')}, bundle.main.insert)
    PROVE  LocalWhole'
<1>1. Current' = Current /\ stage' = stage /\ prop' = prop /\ bundle'.main.insert = bundle.main.insert
  BY DEF Current
<1>2. QED
  BY <1>1 DEF LocalWhole, Open

LEMMA PropertyInHand ==
    ASSUME TypeInv, Converting
    PROVE  /\ Current \in Object /\ stage \in {"props", "ext"} /\ prop \in Nat
           /\ prop \in 1..Len(Sections(Current)[stage])
           /\ property = Sections(Current)[stage][prop] /\ property \in Property
           /\ elem \in Nat \ {0} /\ leaf \in Nat
           /\ stage # "main"
<1>1. stage \in {"props", "ext"} /\ Current \in Object /\ property \in Property
      /\ prop \in 1..Len(Sections(Current)[stage]) /\ Len(Sections(Current)[stage]) \in Nat
      /\ elem \in Nat \ {0} /\ leaf \in Nat
  BY ConvertingFacts
<1>2. property = Sections(Current)[stage][prop]
  BY DEF property
<1>3. QED
  BY <1>1, <1>2

LEMMA ClosedElement ==
    ASSUME TypeInv, NEW kind, AtElement(kind), kind # "composite"
    PROVE  /\ Converting /\ leaf = 0 /\ composite = <<>> /\ Open = {}
           /\ here = <<stage, prop, elem, 0>>
           /\ elem \in 1..Len(property.elems) /\ property.kind = kind
<1>1. Converting /\ property.kind = kind
  BY DEF AtElement
<1>2. leaf = 0 /\ composite = <<>>
  BY <1>1 DEF TypeInv, LoopInv, AtElement
<1>3. Open = {}
  BY <1>2 DEF Open
<1>4. elem \in 1..Len(property.elems)
  BY ElementTypes
<1>5. QED
  BY <1>1, <1>2, <1>3, <1>4 DEF here

LEMMA OwnerOfObject ==
    ASSUME TypeInv, MainInv, Converting
    PROVE  \E w \in bundle.main.insert : w.var = Owner /\ w.at = MainPlace
BY OwnerIsMain DEF MainInv, Variables

LEMMA PlacesOfElements ==
    \A s, i, e : /\ OwnerPlace(<<s, i, e, 0>>) = MainPlace
                 /\ PlaceOf(<<s, i, e>>, 0) = <<s, i, e, 0>>
BY DEF OwnerPlace, PlaceOf

(* The next element joins those of its kind.                               *)
LEMMA ElementsGrow ==
    ASSUME NEW s, NEW i, NEW p, NEW n \in Nat \ {0}
    PROVE  \A kind : ElementsBefore(s, i, p, n + 1, kind) =
                IF p.kind = kind THEN ElementsBefore(s, i, p, n, kind) \cup {<<s, i, n>>} ELSE {}
<1>1. \A e : e \in 1..(n + 1 - 1) <=> (e \in 1..(n - 1) \/ e = n)
  OBVIOUS
<1>2. {<<s, i, e>> : e \in 1..(n + 1 - 1)} = {<<s, i, e>> : e \in 1..(n - 1)} \cup {<<s, i, n>>}
  BY <1>1
<1>3. \A kind : p.kind # kind => ElementsBefore(s, i, p, n + 1, kind) = {}
  BY DEF ElementsBefore
<1>4. \A kind : p.kind = kind => /\ ElementsBefore(s, i, p, n + 1, kind) = {<<s, i, e>> : e \in 1..(n + 1 - 1)}
                                 /\ ElementsBefore(s, i, p, n, kind) = {<<s, i, e>> : e \in 1..(n - 1)}
  BY DEF ElementsBefore
<1>5. QED
  BY <1>2, <1>3, <1>4

LEMMA AttributeWhole == TypeInv /\ LocalWhole /\ ConvertAttribute => LocalWhole'
<1> SUFFICES ASSUME TypeInv, LocalWhole, ConvertAttribute PROVE LocalWhole'
  OBVIOUS
<1>1. AtElement("attribute") /\ UNCHANGED Unconverted /\ ElementDone
      /\ local' = [local EXCEPT !.owns = @ \cup {[at |-> here, as |-> "ok"]}]
  BY DEF ConvertAttribute, NextElement, ElementDone, Unconverted
<1>2. /\ Converting /\ leaf = 0 /\ composite = <<>> /\ Open = {}
      /\ here = <<stage, prop, elem, 0>> /\ property.kind = "attribute"
  BY <1>1, ClosedElement
<1>3. PICK x : x = [at |-> here, as |-> "ok"]
  OBVIOUS
<1>4. local'.owns = local.owns \cup {x} /\ local'.attributes = local.attributes
      /\ local'.embedded = local.embedded
  BY <1>1, <1>3, TypeFacts, LocalFields
<1>5. InHandWhole(Current, stage, prop, elem, 0, local, {}, bundle.main.insert)
  BY <1>2 DEF LocalWhole
<1>6. PICK p : p = Sections(Current)[stage][prop]
  OBVIOUS
<1>7. /\ p = property /\ p \in Property /\ p.kind = "attribute" /\ stage \in {"props", "ext"}
      /\ prop \in Nat /\ elem \in Nat \ {0}
  BY <1>2, <1>6, PropertyInHand
<1>8. \A n, m : HandAt(stage, prop, p, n, m) = {}
  BY <1>7, HandNone DEF StructuredKinds
<1>9. ElementsBefore(stage, prop, p, elem + 1, "attribute") =
            ElementsBefore(stage, prop, p, elem, "attribute") \cup {<<stage, prop, elem>>}
  BY <1>7, ElementsGrow
<1>10. \A n : ElementsBefore(stage, prop, p, n, "reference") = {}
  BY <1>7 DEF ElementsBefore
<1>11. PlacesOwned(local') = PlacesOwned(local) \cup {<<stage, prop, elem, 0>>}
  BY <1>2, <1>3, <1>4 DEF PlacesOwned
<1>12. PlacesOwned(local') = {PlaceOf(g, 0) : g \in ElementsBefore(stage, prop, p, elem + 1, "attribute")}
  <2>1. PlacesOwned(local) = {PlaceOf(g, 0) : g \in ElementsBefore(stage, prop, p, elem, "attribute")}
    BY <1>5, <1>6 DEF InHandWhole
  <2>2. PlaceOf(<<stage, prop, elem>>, 0) = <<stage, prop, elem, 0>>
    BY PlacesOfElements
  <2>3. QED
    BY <1>9, <1>11, <2>1, <2>2
<1>13. InHandWhole(Current, stage, prop, elem + 1, 0, local', {}, bundle.main.insert)
  BY <1>4, <1>5, <1>6, <1>8, <1>10, <1>12 DEF InHandWhole
<1>14. elem' = elem + 1 /\ leaf' = 0 /\ {composite'[i] : i \in 1..Len(composite')} = {}
       /\ UNCHANGED <<file, next, stage, prop>> /\ bundle' = bundle
  BY <1>1 DEF ElementDone, Unconverted
<1>15. QED
  BY <1>2, <1>13, <1>14, WholeContinues

(* A value for an element: ConvertPair and ConvertItem.                    *)
LEMMA ElementWhole ==
    ASSUME TypeInv, LocalWhole, MainInv, UNCHANGED Unconverted, ElementDone,
           NEW kind \in {"pairs", "dictionary"}, AtElement(kind),
           NEW e, NEW r, Structured(Owner, e, r),
           kind = "dictionary" => OwnsItems(e, e.at, element)
    PROVE  LocalWhole'
<1>1. /\ Converting /\ leaf = 0 /\ composite = <<>> /\ Open = {}
      /\ here = <<stage, prop, elem, 0>> /\ property.kind = kind /\ elem \in 1..Len(property.elems)
  BY ClosedElement
<1>2. PICK p : p = Sections(Current)[stage][prop]
  OBVIOUS
<1>3. /\ p = property /\ p \in Property /\ stage \in {"props", "ext"}
      /\ prop \in Nat /\ element = p.elems[elem] /\ p.kind = kind
  BY <1>1, <1>2, PropertyInHand DEF element
<1>4. PICK at : at = <<stage, prop, elem, 0>>
  OBVIOUS
<1>5. PICK w \in bundle.main.insert : w.var = Owner /\ w.at = MainPlace
  BY <1>1, OwnerOfObject
<1>6. /\ e.at = at /\ r.at = at /\ e.roles = <<>> /\ r.roles = <<{w.var}, {e.var}>>
  BY <1>1, <1>4, <1>5 DEF Structured
<1>7. local'.owns = local.owns /\ local'.attributes = local.attributes \cup {e, r}
      /\ local'.embedded = local.embedded
  BY TypeFacts, LocalFields DEF Structured
<1>8. InHandWhole(Current, stage, prop, elem, 0, local, {}, bundle.main.insert)
  BY <1>1 DEF LocalWhole
<1>9. /\ HandAt(stage, prop, p, elem + 1, 0) = HandAt(stage, prop, p, elem, 0) \cup {at}
      /\ HandAt(stage, prop, p, elem, 0) \cap {at} = {}
  BY <1>1, <1>3, <1>4, HandElement
<1>10. Filled(Current, e)
  <2>1. at[1] = stage /\ at[2] = prop /\ at[3] = elem /\ at[4] = 0
    BY <1>4
  <2>2. kind = "dictionary" => OwnsItems(e, e.at, p.elems[elem])
    BY <1>3
  <2>3. QED
    BY <1>2, <1>3, <1>6, <2>1, <2>2 DEF Filled
<1>11. w.at = OwnerPlace(at) /\ p.kind \in StructuredKinds /\ w \in bundle.main.insert \cup {}
  BY <1>3, <1>4, <1>5, PlacesOfElements DEF StructuredKinds
<1>12. InHandWhole(Current, stage, prop, elem + 1, 0, local', {}, bundle.main.insert)
  <2>1. PICK o, l, k, main : o = Current /\ l = local /\ k = local' /\ main = bundle.main.insert
    OBVIOUS
  <2>2. PICK n, x : n = elem /\ x = elem + 1
    OBVIOUS
  <2>3. NewPair(l, k, e, r, at, w) /\ w \in main \cup {}
    BY <1>5, <1>6, <1>7, <1>11, <2>1 DEF NewPair
  <2>4. /\ InHandWhole(o, stage, prop, n, 0, l, {}, main) /\ p = Sections(o)[stage][prop]
        /\ Grows(stage, prop, p, n, 0, x, 0, at) /\ Filled(o, e) /\ p.kind \in StructuredKinds
    BY <1>2, <1>8, <1>9, <1>10, <1>11, <2>1, <2>2 DEF Grows
  <2>5. {} \subseteq {} \cup {e} /\ OpenAt({}, stage, prop, x, p.elems[x], 0)
    BY DEF OpenAt
  <2>6. InHandWhole(o, stage, prop, x, 0, k, {}, main)
    BY <2>3, <2>4, <2>5, StructuredInHand
  <2>7. QED
    BY <2>1, <2>2, <2>6
<1>13. elem' = elem + 1 /\ leaf' = 0 /\ {composite'[i] : i \in 1..Len(composite')} = {}
       /\ UNCHANGED <<file, next, stage, prop>> /\ bundle' = bundle
  BY DEF ElementDone, Unconverted
<1>14. QED
  BY <1>1, <1>12, <1>13, WholeContinues

LEMMA PairWhole == TypeInv /\ LocalWhole /\ MainInv /\ ConvertPair => LocalWhole'
<1> SUFFICES ASSUME TypeInv, LocalWhole, MainInv, ConvertPair PROVE LocalWhole'
  OBVIOUS
<1>1. PICK e, r : Structured(Owner, e, r) /\ e.owns = {[at |-> here, as |-> "ok"]}
  BY PairProduces
<1>2. UNCHANGED Unconverted /\ ElementDone /\ AtElement("pairs")
  BY PairProduces
<1>3. QED
  BY <1>1, <1>2, ElementWhole

LEMMA ItemWhole == TypeInv /\ LocalWhole /\ MainInv /\ ConvertItem => LocalWhole'
<1> SUFFICES ASSUME TypeInv, LocalWhole, MainInv, ConvertItem PROVE LocalWhole'
  OBVIOUS
<1>1. PICK e, r : Structured(Owner, e, r) /\ e.owns = ItemValues
  BY ItemProduces
<1>2. UNCHANGED Unconverted /\ ElementDone /\ AtElement("dictionary")
  BY ItemProduces
<1>3. OwnsItems(e, e.at, element)
  <2>1. e.at = <<stage, prop, elem, 0>>
    BY <1>1, <1>2, ClosedElement DEF Structured
  <2>2. \A j : [e.at EXCEPT ![4] = j] = <<stage, prop, elem, j>>
    BY <2>1
  <2>3. QED
    BY <1>1, <2>2 DEF OwnsItems, ItemValues
<1>4. QED
  BY <1>1, <1>2, <1>3, ElementWhole

(* The composite value that is open.                                       *)
LEMMA OpenedComposite ==
    ASSUME TypeInv, LocalWhole, leaf # 0
    PROVE  /\ AtElement("composite") /\ Converting /\ element \in Seq(Leaf) /\ Len(element) \in Nat
           /\ property.kind = "composite" /\ elem \in 1..Len(property.elems)
           /\ Open = {composite[1]} /\ composite[1] \in Thing /\ composite = <<composite[1]>>
           /\ composite[1].roles = <<>> /\ composite[1].at = <<stage, prop, elem, 0>>
           /\ Owns(composite[1], composite[1].at, element, leaf)
           /\ InHandWhole(Current, stage, prop, elem, leaf, local, {composite[1]}, bundle.main.insert)
           /\ element = property.elems[elem]
<1>1. /\ AtElement("composite") /\ Converting /\ element \in Seq(Leaf) /\ Len(element) \in Nat
      /\ composite[1] \in Thing /\ composite = <<composite[1]>> /\ Parts.open = {composite[1]}
  BY OpenComposite
<1>2. property.kind = "composite" /\ elem \in 1..Len(property.elems)
  BY <1>1, ElementTypes DEF AtElement
<1>3. Open = {composite[1]}
  BY <1>1, PartFields DEF Open
<1>4. InHandWhole(Current, stage, prop, elem, leaf, local, {composite[1]}, bundle.main.insert)
  BY <1>1, <1>3 DEF LocalWhole
<1>5. element = Sections(Current)[stage][prop].elems[elem]
  BY DEF element, property
<1>6. /\ composite[1].roles = <<>> /\ composite[1].at = <<stage, prop, elem, 0>>
      /\ Owns(composite[1], composite[1].at, element, leaf)
  BY <1>4, <1>5 DEF InHandWhole
<1>7. element = property.elems[elem]
  BY DEF element
<1>8. QED
  BY <1>1, <1>2, <1>3, <1>4, <1>6, <1>7

(* What a composite value owns after its next leaf.                        *)
LEMMA OwnsMore ==
    ASSUME NEW t, NEW u, NEW at, NEW leaves, NEW n \in Nat \ {0}, NEW x, x = n + 1,
           Owns(t, at, leaves, n), t.owns \subseteq u.owns,
           leaves[n].kind = "value" => \E s \in u.owns : s.at = [at EXCEPT ![4] = n]
    PROVE  Owns(u, at, leaves, x)
<1>1. \A j \in 1..(x - 1) : j \in 1..(n - 1) \/ j = n
  OBVIOUS
<1>2. QED
  BY <1>1 DEF Owns

LEMMA LeafPairWhole == TypeInv /\ LocalWhole /\ ConvertLeafPair => LocalWhole'
<1> SUFFICES ASSUME TypeInv, LocalWhole, ConvertLeafPair PROVE LocalWhole'
  OBVIOUS
<1>1. UNCHANGED Unconverted /\ UNCHANGED <<elem, composite>> /\ Converting
      /\ leaf \in Nat \ {0} /\ leaf <= Len(element) /\ leaf' = leaf + 1
      /\ element[leaf] = [kind |-> "pair", value |-> "ok"]
  BY LeafPairProduces
<1>2. PICK e, r : Structured(composite[1].var, e, r) /\ e.owns = {[at |-> here, as |-> "ok"]}
  BY LeafPairProduces
<1>3. PICK w : w = composite[1]
  OBVIOUS
<1>4. /\ Converting /\ Len(element) \in Nat /\ property.kind = "composite"
      /\ elem \in 1..Len(property.elems) /\ composite = <<w>>
      /\ w.roles = <<>> /\ w.at = <<stage, prop, elem, 0>>
      /\ Owns(w, w.at, element, leaf) /\ element = property.elems[elem]
      /\ InHandWhole(Current, stage, prop, elem, leaf, local, {w}, bundle.main.insert)
  BY <1>1, <1>3, OpenedComposite
<1>5. PICK o, p, l, k, main : o = Current /\ p = property /\ l = local /\ k = local'
                              /\ main = bundle.main.insert
  OBVIOUS
<1>6. PICK n, m, x : n = elem /\ m = leaf /\ x = leaf + 1
  OBVIOUS
<1>7. PICK at : at = <<stage, prop, n, m>>
  OBVIOUS
<1>8. /\ p = Sections(o)[stage][prop] /\ p \in Property /\ stage \in {"props", "ext"}
      /\ prop \in Nat /\ p.kind = "composite" /\ p.kind \in StructuredKinds
  BY <1>1, <1>4, <1>5, PropertyInHand DEF StructuredKinds
<1>9. Grows(stage, prop, p, n, m, n, x, at)
  <2>1. m \in 1..Len(p.elems[n]) /\ p.elems[n][m].kind = "pair" /\ n \in 1..Len(p.elems)
    BY <1>1, <1>4, <1>5, <1>6
  <2>2. QED
    BY <1>6, <1>7, <1>8, <2>1, PairGrows
<1>10. here = at /\ at[4] # 0
  BY <1>1, <1>6, <1>7 DEF here
<1>11. NewPair(l, k, e, r, at, w) /\ w \in main \cup {w}
  <2>1. local'.owns = local.owns /\ local'.attributes = local.attributes \cup {e, r}
        /\ local'.embedded = local.embedded
    BY <1>2, TypeFacts, LocalFields DEF Structured
  <2>2. OwnerPlace(at) = <<stage, prop, n, 0>>
    BY <1>7, <1>10 DEF OwnerPlace
  <2>3. e.at = at /\ r.at = at /\ e.roles = <<>> /\ r.roles = <<{w.var}, {e.var}>>
    BY <1>2, <1>3, <1>10 DEF Structured
  <2>4. QED
    BY <1>4, <1>5, <1>6, <2>1, <2>2, <2>3 DEF NewPair
<1>12. Filled(o, e)
  BY <1>10, <1>11 DEF Filled, NewPair
<1>13. OpenAt({w}, stage, prop, n, p.elems[n], x)
  <2>1. leaf \in Nat \ {0} /\ element[leaf].kind # "value" /\ Owns(w, w.at, element, leaf)
    BY <1>1, <1>4
  <2>2. Owns(w, w.at, element, x)
    BY <1>6, <2>1, OwnsMore
  <2>3. QED
    BY <1>4, <1>5, <1>6, <2>2 DEF OpenAt
<1>14. /\ InHandWhole(o, stage, prop, n, m, l, {w}, main)
       /\ {w} \subseteq {w} \cup {e}
  BY <1>4, <1>5, <1>6
<1>15. InHandWhole(o, stage, prop, n, x, k, {w}, main)
  BY <1>8, <1>9, <1>11, <1>12, <1>13, <1>14, StructuredInHand
<1>16. {composite'[i] : i \in 1..Len(composite')} = {w}
  BY <1>1, <1>4
<1>17. UNCHANGED <<file, next, stage, prop>> /\ bundle' = bundle
  BY <1>1 DEF Unconverted
<1>18. InHandWhole(Current, stage, prop, elem', leaf', local',
                   {composite'[i] : i \in 1..Len(composite')}, bundle.main.insert)
  BY <1>1, <1>5, <1>6, <1>15, <1>16
<1>19. QED
  BY <1>1, <1>17, <1>18, WholeContinues

LEMMA EndWhole == TypeInv /\ LocalWhole /\ MainInv /\ EndComposite => LocalWhole'
<1> SUFFICES ASSUME TypeInv, LocalWhole, MainInv, EndComposite PROVE LocalWhole'
  OBVIOUS
<1>1. UNCHANGED Unconverted /\ ElementDone /\ Converting
      /\ leaf \in Nat \ {0} /\ leaf > Len(element)
  BY EndProduces
<1>2. PICK e : e = composite[1]
  OBVIOUS
<1>3. PICK r \in Thing : /\ local' = [local EXCEPT !.attributes = @ \cup {e, r}]
                         /\ r.roles = <<{Owner}, {e.var}>> /\ r.at = e.at
  BY <1>2, EndProduces
<1>4. /\ Converting /\ Len(element) \in Nat /\ property.kind = "composite"
      /\ elem \in 1..Len(property.elems)
      /\ e.roles = <<>> /\ e.at = <<stage, prop, elem, 0>>
      /\ Owns(e, e.at, element, leaf) /\ element = property.elems[elem]
      /\ InHandWhole(Current, stage, prop, elem, leaf, local, {e}, bundle.main.insert)
  BY <1>1, <1>2, OpenedComposite
<1>5. PICK o, p, l, k, main : o = Current /\ p = property /\ l = local /\ k = local'
                              /\ main = bundle.main.insert
  OBVIOUS
<1>6. PICK n, m, x : n = elem /\ m = leaf /\ x = elem + 1
  OBVIOUS
<1>7. PICK at : at = <<stage, prop, n, 0>>
  OBVIOUS
<1>8. /\ p = Sections(o)[stage][prop] /\ p \in Property /\ stage \in {"props", "ext"}
      /\ prop \in Nat /\ p.kind = "composite" /\ p.kind \in StructuredKinds
  BY <1>4, <1>5, PropertyInHand DEF StructuredKinds
<1>9. PICK w \in main : w.var = Owner /\ w.at = MainPlace
  BY <1>4, <1>5, OwnerOfObject
<1>10. Grows(stage, prop, p, n, m, x, 0, at)
  <2>1. m \in Nat /\ m > Len(p.elems[n]) /\ n \in 1..Len(p.elems)
    BY <1>1, <1>4, <1>5, <1>6
  <2>2. QED
    BY <1>6, <1>7, <1>8, <2>1, LeavesEnd
<1>11. NewPair(l, k, e, r, at, w) /\ w \in main \cup {e}
  <2>1. local'.owns = local.owns /\ local'.attributes = local.attributes \cup {e, r}
        /\ local'.embedded = local.embedded
    BY <1>3, TypeFacts, LocalFields
  <2>2. OwnerPlace(at) = MainPlace
    BY <1>7, PlacesOfElements
  <2>3. QED
    BY <1>3, <1>4, <1>5, <1>6, <1>7, <1>9, <2>1, <2>2 DEF NewPair
<1>12. Filled(o, e)
  <2>1. e.at[1] = stage /\ e.at[2] = prop /\ e.at[3] = elem
    BY <1>4
  <2>2. Owns(e, e.at, element, Len(element) + 1)
    <3>1. \A j \in 1..(Len(element) + 1 - 1) : j \in 1..(leaf - 1)
      BY <1>1, <1>4
    <3>2. QED
      BY <1>4, <3>1 DEF Owns
  <2>3. QED
    BY <1>4, <1>5, <1>8, <2>1, <2>2 DEF Filled
<1>13. /\ InHandWhole(o, stage, prop, n, m, l, {e}, main)
       /\ {e} \subseteq {} \cup {e} /\ OpenAt({}, stage, prop, x, p.elems[x], 0)
  BY <1>4, <1>5, <1>6 DEF OpenAt
<1>14. InHandWhole(o, stage, prop, x, 0, k, {}, main)
  BY <1>8, <1>10, <1>11, <1>12, <1>13, StructuredInHand
<1>15. {composite'[i] : i \in 1..Len(composite')} = {} /\ elem' = x /\ leaf' = 0
  BY <1>1, <1>6 DEF ElementDone
<1>16. UNCHANGED <<file, next, stage, prop>> /\ bundle' = bundle
  BY <1>1 DEF Unconverted
<1>17. InHandWhole(Current, stage, prop, elem', leaf', local',
                   {composite'[i] : i \in 1..Len(composite')}, bundle.main.insert)
  BY <1>5, <1>14, <1>15
<1>18. QED
  BY <1>1, <1>16, <1>17, WholeContinues

LEMMA BeginWhole == TypeInv /\ LocalWhole /\ BeginComposite => LocalWhole'
<1> SUFFICES ASSUME TypeInv, LocalWhole, BeginComposite PROVE LocalWhole'
  OBVIOUS
<1>1. UNCHANGED Unconverted /\ AtElement("composite") /\ Converting /\ elem' = elem
      /\ leaf = 0 /\ leaf' = 1 /\ local' = local
  BY BeginProduces
<1>2. PICK e : composite' = <<e>> /\ e.at = here /\ e.roles = <<>>
  BY BeginProduces
<1>3. composite = <<>> /\ Open = {}
  BY <1>1 DEF TypeInv, LoopInv, Open
<1>4. PICK o, p, main : o = Current /\ p = property /\ main = bundle.main.insert
  OBVIOUS
<1>5. /\ p = Sections(o)[stage][prop] /\ p \in Property /\ stage \in {"props", "ext"}
      /\ prop \in Nat /\ p.kind = "composite" /\ elem \in 1..Len(p.elems)
  BY <1>1, <1>4, PropertyInHand, ElementTypes DEF AtElement
<1>6. InHandWhole(o, stage, prop, elem, 0, local, {}, main)
  BY <1>1, <1>3, <1>4 DEF LocalWhole
<1>7. HandAt(stage, prop, p, elem, 1) = HandAt(stage, prop, p, elem, 0)
  BY <1>5, LeavesBegin
<1>8. Stand({}, {e})
  BY DEF Stand
<1>9. \A t \in {e} : t.roles = <<>> /\ t.at = <<stage, prop, elem, 0>> /\ Owns(t, t.at, p.elems[elem], 1)
  BY <1>1, <1>2 DEF here, Owns
<1>10. InHandWhole(o, stage, prop, elem, 1, local, {e}, main)
  BY <1>5, <1>6, <1>7, <1>8, <1>9, OpenInHand
<1>11. {composite'[i] : i \in 1..Len(composite')} = {e}
  BY <1>2
<1>12. InHandWhole(Current, stage, prop, elem', leaf', local',
                   {composite'[i] : i \in 1..Len(composite')}, bundle.main.insert)
  BY <1>1, <1>4, <1>10, <1>11
<1>13. UNCHANGED <<file, next, stage, prop>> /\ bundle' = bundle
  BY <1>1 DEF Unconverted
<1>14. QED
  BY <1>1, <1>12, <1>13, WholeContinues

LEMMA LeafValueWhole == TypeInv /\ LocalWhole /\ ConvertLeafValue => LocalWhole'
<1> SUFFICES ASSUME TypeInv, LocalWhole, ConvertLeafValue PROVE LocalWhole'
  OBVIOUS
<1>1. UNCHANGED Unconverted /\ Converting /\ elem' = elem
      /\ leaf \in Nat \ {0} /\ leaf <= Len(element) /\ leaf' = leaf + 1
      /\ element[leaf] = [kind |-> "value", value |-> "ok"] /\ local' = local
  BY LeafValueProduces
<1>2. PICK w : w = composite[1]
  OBVIOUS
<1>3. PICK e : /\ composite' = <<e>> /\ e.var = w.var /\ e.roles = w.roles /\ e.at = w.at
               /\ e = [w EXCEPT !.owns = @ \cup {[at |-> here, as |-> "ok"]}]
  BY <1>2, LeafValueProduces
<1>4. /\ Len(element) \in Nat /\ property.kind = "composite" /\ w \in Thing
      /\ elem \in 1..Len(property.elems)
      /\ w.roles = <<>> /\ w.at = <<stage, prop, elem, 0>>
      /\ Owns(w, w.at, element, leaf) /\ element = property.elems[elem]
      /\ InHandWhole(Current, stage, prop, elem, leaf, local, {w}, bundle.main.insert)
  BY <1>1, <1>2, OpenedComposite
<1>5. PICK o, p, main, x : o = Current /\ p = property /\ main = bundle.main.insert /\ x = leaf + 1
  OBVIOUS
<1>6. /\ p = Sections(o)[stage][prop] /\ p \in Property /\ stage \in {"props", "ext"}
      /\ prop \in Nat /\ p.kind = "composite" /\ elem \in 1..Len(p.elems)
  BY <1>1, <1>4, <1>5, PropertyInHand
<1>7. HandAt(stage, prop, p, elem, x) = HandAt(stage, prop, p, elem, leaf)
  <2>1. leaf \in 1..Len(p.elems[elem]) /\ p.elems[elem][leaf].kind # "pair"
    <3>1. element = p.elems[elem]
      BY <1>4, <1>5
    <3>2. leaf \in 1..Len(element)
      BY <1>1, <1>4
    <3>3. element[leaf].kind = "value"
      BY <1>1
    <3>4. QED
      BY <3>1, <3>2, <3>3
  <2>2. PICK s, i, n, m : s = stage /\ i = prop /\ n = elem /\ m = leaf
    OBVIOUS
  <2>3. HandAt(s, i, p, n, x) = HandAt(s, i, p, n, m)
    BY <1>5, <1>6, <2>1, <2>2, ValueStays
  <2>4. QED
    BY <2>2, <2>3
<1>8. Stand({w}, {e})
  BY <1>3 DEF Stand
<1>9. Owns(e, w.at, element, x)
  <2>1. e.owns = w.owns \cup {[at |-> here, as |-> "ok"]}
    BY <1>3, <1>4 DEF Thing
  <2>2. here = [w.at EXCEPT ![4] = leaf]
    BY <1>4 DEF here
  <2>3. PICK s : s = [at |-> here, as |-> "ok"]
    OBVIOUS
  <2>4. s \in e.owns /\ w.owns \subseteq e.owns
    BY <2>1, <2>3
  <2>5. s.at = [w.at EXCEPT ![4] = leaf]
    BY <2>2, <2>3
  <2>6. QED
    BY <1>1, <1>4, <1>5, <2>4, <2>5, OwnsMore
<1>10. \A t \in {e} : t.roles = <<>> /\ t.at = <<stage, prop, elem, 0>> /\ Owns(t, t.at, p.elems[elem], x)
  BY <1>3, <1>4, <1>5, <1>9
<1>11. InHandWhole(o, stage, prop, elem, x, local, {e}, main)
  <2>1. InHandWhole(o, stage, prop, elem, leaf, local, {w}, main)
    BY <1>4, <1>5
  <2>2. QED
    BY <1>6, <1>7, <1>8, <1>10, <2>1, OpenInHand
<1>12. {composite'[i] : i \in 1..Len(composite')} = {e}
  BY <1>3
<1>13. InHandWhole(Current, stage, prop, elem', leaf', local',
                   {composite'[i] : i \in 1..Len(composite')}, bundle.main.insert)
  BY <1>1, <1>5, <1>11, <1>12
<1>14. UNCHANGED <<file, next, stage, prop>> /\ bundle' = bundle
  BY <1>1 DEF Unconverted
<1>15. QED
  BY <1>1, <1>13, <1>14, WholeContinues

(* One more reference refers to one more target.                           *)
LEMMA ReferredPair ==
    ASSUME NEW o, NEW d, NEW g, NEW r, NEW x, NEW y, d.match = {x, y}, d.insert = {r},
           r.at = PlaceOf(g, 0), r.roles = <<{y.var}, {x.var}>>,
           y.ids = {Content[o].id}, x.ids = {ElementAt(o, g)}
    PROVE  Referred(o, d, {g})
<1>1. \A h \in {g} : \E t \in d.insert, a, b \in d.match :
            /\ t.at = PlaceOf(h, 0) /\ t.roles = <<{a.var}, {b.var}>>
            /\ a.ids = {Content[o].id} /\ b.ids = {ElementAt(o, h)}
  OBVIOUS
<1>2. \A t \in d.insert : \E h \in {g} : t.at = PlaceOf(h, 0)
  OBVIOUS
<1>3. \A t, u \in d.insert : t.at = u.at => t = u
  OBVIOUS
<1>4. QED
  BY <1>1, <1>2, <1>3 DEF Referred

LEMMA ReferenceWhole == TypeInv /\ LocalWhole /\ ConvertReference => LocalWhole'
<1> SUFFICES ASSUME TypeInv, LocalWhole, ConvertReference PROVE LocalWhole'
  OBVIOUS
<1>1. AtElement("reference") /\ UNCHANGED Unconverted /\ ElementDone
  BY ReferenceProduces
<1>2. PICK x, y, r \in Thing :
        /\ x.var = counter /\ x.roles = <<>> /\ x.at = here /\ x.ids = {element}
        /\ y.var = counter + 1 /\ y.roles = <<>> /\ y.at = MainPlace /\ y.ids = {stix.id}
        /\ r.var = counter + 2 /\ r.roles = <<{counter + 1}, {counter}>> /\ r.at = here
        /\ r.owns = {}
        /\ local' = [local EXCEPT !.embedded = [match |-> @.match \cup {x, y},
                                                insert |-> @.insert \cup {r}]]
  BY ReferenceProduces
<1>3. /\ Converting /\ leaf = 0 /\ composite = <<>> /\ Open = {}
      /\ here = <<stage, prop, elem, 0>> /\ property.kind = "reference"
  BY <1>1, ClosedElement
<1>4. PICK o, p, g : o = Current /\ p = Sections(Current)[stage][prop] /\ g = <<stage, prop, elem>>
  OBVIOUS
<1>5. /\ p = property /\ p \in Property /\ p.kind = "reference" /\ stage \in {"props", "ext"}
      /\ prop \in Nat /\ elem \in Nat \ {0}
  BY <1>3, <1>4, PropertyInHand
<1>6. /\ local'.owns = local.owns /\ local'.attributes = local.attributes
      /\ local'.embedded.match = local.embedded.match \cup {x, y}
      /\ local'.embedded.insert = local.embedded.insert \cup {r}
  BY <1>2, TypeFacts, LocalFields
<1>7. InHandWhole(o, stage, prop, elem, 0, local, {}, bundle.main.insert)
  BY <1>3, <1>4 DEF LocalWhole
<1>8. \A n, m : HandAt(stage, prop, p, n, m) = {}
  BY <1>5, HandNone DEF StructuredKinds
<1>9. ElementsBefore(stage, prop, p, elem + 1, "reference") =
            ElementsBefore(stage, prop, p, elem, "reference") \cup {g}
  BY <1>4, <1>5, ElementsGrow
<1>10. \A n : ElementsBefore(stage, prop, p, n, "attribute") = {}
  BY <1>5 DEF ElementsBefore
<1>11. Referred(o, local'.embedded, ElementsBefore(stage, prop, p, elem + 1, "reference"))
  <2>1. PICK c, d, b, G : /\ c = local.embedded /\ d = [match |-> {x, y}, insert |-> {r}]
                          /\ b = local'.embedded
                          /\ G = ElementsBefore(stage, prop, p, elem, "reference")
    OBVIOUS
  <2>2. PlaceOf(g, 0) = here /\ ElementAt(o, g) = element
    <3>1. ElementAt(o, g) = p.elems[elem] /\ PlaceOf(g, 0) = <<stage, prop, elem, 0>>
      BY <1>4, ElementPlace
    <3>2. QED
      BY <1>3, <1>5, <3>1 DEF element
  <2>3. Referred(o, d, {g})
    <3>1. y.ids = {Content[o].id}
      BY <1>2, <1>4 DEF stix
    <3>2. r.at = PlaceOf(g, 0) /\ r.roles = <<{y.var}, {x.var}>> /\ x.ids = {ElementAt(o, g)}
      BY <1>2, <2>2
    <3>3. QED
      BY <2>1, <3>1, <3>2, ReferredPair
  <2>4. Referred(o, c, G)
    BY <1>4, <1>7, <2>1 DEF InHandWhole
  <2>5. \A f \in G, h \in {g} : PlaceOf(f, 0) # PlaceOf(h, 0)
    <3>1. \A f \in G : \E e \in 1..(elem - 1) : f = <<stage, prop, e>>
      BY <1>5, <2>1 DEF ElementsBefore
    <3>2. \A e \in 1..(elem - 1) : PlaceOf(<<stage, prop, e>>, 0) = <<stage, prop, e, 0>> /\ e # elem
      BY <1>5, PlacesOfElements
    <3>3. PlaceOf(g, 0) = <<stage, prop, elem, 0>>
      BY <1>4, PlacesOfElements
    <3>4. QED
      BY <3>1, <3>2, <3>3
  <2>6. b.match = c.match \cup d.match /\ b.insert = c.insert \cup d.insert
    BY <1>6, <2>1
  <2>7. Referred(o, b, G \cup {g})
    BY <2>3, <2>4, <2>5, <2>6, ReferredJoined
  <2>8. QED
    BY <1>9, <2>1, <2>7
<1>12. PlacesOwned(local') = {PlaceOf(h, 0) : h \in ElementsBefore(stage, prop, p, elem + 1, "attribute")}
  <2>1. PlacesOwned(local) = {PlaceOf(h, 0) : h \in ElementsBefore(stage, prop, p, elem, "attribute")}
    BY <1>4, <1>7 DEF InHandWhole
  <2>2. PlacesOwned(local') = PlacesOwned(local)
    BY <1>6 DEF PlacesOwned
  <2>3. QED
    BY <1>10, <2>1, <2>2
<1>13. InHandWhole(o, stage, prop, elem + 1, 0, local', {}, bundle.main.insert)
  BY <1>4, <1>6, <1>7, <1>8, <1>11, <1>12 DEF InHandWhole
<1>14. elem' = elem + 1 /\ leaf' = 0 /\ {composite'[i] : i \in 1..Len(composite')} = {}
       /\ UNCHANGED <<file, next, stage, prop>> /\ bundle' = bundle
  BY <1>1 DEF ElementDone, Unconverted
<1>15. InHandWhole(Current, stage, prop, elem', leaf', local',
                   {composite'[i] : i \in 1..Len(composite')}, bundle.main.insert)
  BY <1>4, <1>13, <1>14
<1>16. QED
  BY <1>3, <1>14, <1>15, WholeContinues

(* A loop that begins has nothing in hand.                                 *)
LEMMA FreshWhole ==
    ASSUME NoElement, UNCHANGED <<file, next>>, Current \in Object, prop' \in Nat \ {0}
    PROVE  LocalWhole'
<1>1. SUFFICES ASSUME Converting'
               PROVE  InHandWhole(Current', stage', prop', elem', leaf', local', Open', bundle'.main.insert)
  BY DEF LocalWhole
<1>2. Current' = Current
  BY DEF Current
<1>3. stage' \in {"props", "ext"} /\ prop' <= Len(Sections(Current)[stage'])
  BY <1>1, <1>2 DEF Converting
<1>4. PICK s, i : s = stage' /\ i = prop'
  OBVIOUS
<1>5. s \in {"props", "ext"} /\ Len(Sections(Current)[s]) \in Nat
  BY <1>3, <1>4, SectionTypes
<1>6. i \in 1..Len(Sections(Current)[s])
  BY <1>3, <1>4, <1>5
<1>7. Open' = {}
  BY DEF NoElement, Open
<1>8. InHandWhole(Current, s, i, 1, 0, NoLocal, {}, bundle'.main.insert)
  BY <1>5, <1>6, NothingInHand
<1>9. QED
  BY <1>2, <1>4, <1>7, <1>8 DEF NoElement

LEMMA OutsideWhole == stage' \notin {"props", "ext"} => LocalWhole'
BY DEF LocalWhole, Converting

LEMMA LoopsWhole == TypeInv /\ LocalWhole /\ MainInv /\ Loops => LocalWhole'
BY AttributeWhole, BeginWhole, LeafValueWhole, LeafPairWhole, EndWhole, PairWhole, ItemWhole,
   ReferenceWhole DEF Loops

LEMMA PropertyWhole == TypeInv /\ (PropertyDone \/ DropProperty) => LocalWhole'
<1> SUFFICES ASSUME TypeInv, PropertyDone \/ DropProperty PROVE LocalWhole'
  OBVIOUS
<1>1. NoElement /\ UNCHANGED <<file, next>> /\ Converting /\ prop' = prop + 1
  BY PropertyAdds, Dropped
<1>2. Current \in Object /\ prop' \in Nat \ {0}
  BY <1>1, PropertyInHand
<1>3. QED
  BY <1>1, <1>2, FreshWhole

LEMMA MainWhole == TypeInv /\ (AddMainEntity \/ AddMainRelation) => LocalWhole'
<1> SUFFICES ASSUME TypeInv, AddMainEntity \/ AddMainRelation PROVE LocalWhole'
  OBVIOUS
<1>1. Enter("props") /\ UNCHANGED <<file, next>> /\ next <= Len(file)
  BY EntityAdded, RelationAdded
<1>2. Current \in Object
  BY <1>1, TypeFacts
<1>3. NoElement /\ prop' \in Nat \ {0}
  BY <1>1 DEF Enter
<1>4. QED
  BY <1>1, <1>2, <1>3, FreshWhole

LEMMA StagedWhole == TypeInv /\ (Read \/ Finish \/ Create \/ SectionDone) => LocalWhole'
<1> SUFFICES ASSUME TypeInv, Read \/ Finish \/ Create \/ SectionDone PROVE LocalWhole'
  OBVIOUS
<1>1. PICK s \in {"create", "main", "ext", "order", "done", "raised"} :
        Enter(s) /\ UNCHANGED <<file, next>> /\ (s \notin {"done", "raised"} => next <= Len(file))
  BY Staged DEF StageEntered
<1>2. stage' = s /\ NoElement /\ prop' \in Nat \ {0}
  BY <1>1 DEF Enter
<1>3. CASE s = "ext"
  <2>1. Current \in Object
    BY <1>1, <1>3, TypeFacts
  <2>2. QED
    BY <1>1, <1>2, <2>1, FreshWhole
<1>4. CASE s # "ext"
  BY <1>2, <1>4, OutsideWhole
<1>5. QED
  BY <1>3, <1>4

LEMMA SkippedWhole == TypeInv /\ (CreateRaises \/ AddMainRaises \/ DropObject \/ Order) => LocalWhole'
<1> SUFFICES ASSUME TypeInv, CreateRaises \/ AddMainRaises \/ DropObject \/ Order PROVE LocalWhole'
  OBVIOUS
<1>1. Skip
  BY Skipped, OrderLists
<1>2. QED
  BY <1>1, OutsideWhole DEF Skip, Enter

LEMMA LocalWholeNext ==
    TypeInv /\ MainInv /\ LocalWhole /\ [QueriesNext]_queryVars => LocalWhole'
<1> SUFFICES ASSUME TypeInv, MainInv, LocalWhole, [QueriesNext]_queryVars PROVE LocalWhole'
  OBVIOUS
<1>1. CASE BuildTexts
  BY <1>1, OutsideWhole DEF BuildTexts
<1>2. CASE UNCHANGED queryVars
  BY <1>2 DEF queryVars, loops, LocalWhole, Converting, Current, Open
<1>3. QED
  BY <1>1, <1>2, LoopsWhole, PropertyWhole, MainWhole, StagedWhole, SkippedWhole
     DEF QueriesNext, Loops

(* The places and elements of an object are in its sections.               *)
LEMMA PlaceFacts ==
    ASSUME NEW o \in Object, NEW at \in ValuePlaces(o)
    PROVE  /\ at \in Place /\ at[1] \in {"props", "ext"} /\ at[2] \in 1..Len(Sections(o)[at[1]])
           /\ at[2] \in Nat /\ at[2] > 0 /\ Good(Sections(o)[at[1]][at[2]])
           /\ at # MainPlace
<1>1. PICK s, i, e, j : at = <<s, i, e, j>> /\ ValueAt(o, s, i, e, j)
  BY ValuePlaceIs
<1>2. /\ s \in {"props", "ext"} /\ i \in 1..Len(Sections(o)[s]) /\ i \in Nat /\ at \in Place
      /\ Good(Sections(o)[s][i])
  BY <1>1, ValueAtTypes DEF ValueAt
<1>3. Len(Sections(o)[s]) \in Nat
  BY <1>2, SectionTypes
<1>4. at[1] = s /\ at[2] = i
  BY <1>1
<1>5. at # MainPlace
  BY <1>2, <1>4 DEF MainPlace
<1>6. QED
  BY <1>2, <1>3, <1>4, <1>5

LEMMA ElementFacts ==
    ASSUME NEW o \in Object, NEW kinds, NEW g \in GoodElements(o, kinds)
    PROVE  /\ g[1] \in {"props", "ext"} /\ g[2] \in 1..Len(Sections(o)[g[1]])
           /\ g[2] \in Nat /\ g[2] > 0 /\ Good(Sections(o)[g[1]][g[2]])
           /\ Sections(o)[g[1]][g[2]].kind \in kinds
           /\ g = <<g[1], g[2], g[3]>> /\ g[3] \in Nat /\ g[3] > 0
           /\ g[3] \in 1..Len(Sections(o)[g[1]][g[2]].elems)
<1>1. PICK s, i, e : g = <<s, i, e>> /\ GoodAt(o, s, i, e, kinds)
  BY GoodElementIs
<1>2. s \in {"props", "ext"} /\ i \in 1..Len(Sections(o)[s]) /\ i \in Nat /\ e \in Nat /\ e > 0
  BY <1>1, GoodAtTypes
<1>3. Len(Sections(o)[s]) \in Nat
  BY <1>2, SectionTypes
<1>4. g[1] = s /\ g[2] = i /\ g[3] = e /\ i > 0
  BY <1>1, <1>2, <1>3
<1>5. Good(Sections(o)[s][i]) /\ Sections(o)[s][i].kind \in kinds /\ e \in 1..Len(Sections(o)[s][i].elems)
  BY <1>1 DEF GoodAt
<1>6. QED
  BY <1>1, <1>2, <1>4, <1>5

LEMMA BeforeNothing ==
    ASSUME NEW o \in Object
    PROVE  /\ PlacesBefore(o, "props", 1) = {}
           /\ \A kind : GoodBefore(o, kind, "props", 1) = {}
<1>1. \A at \in ValuePlaces(o) : ~Before("props", 1, at[1], at[2])
  BY PlaceFacts DEF Before
<1>2. \A kind : \A g \in GoodElements(o, {kind}) : ~Before("props", 1, g[1], g[2])
  BY ElementFacts DEF Before
<1>3. QED
  BY <1>1, <1>2 DEF PlacesBefore, GoodBefore

LEMMA BeforeSection ==
    ASSUME NEW o \in Object, NEW s \in {"props", "ext"}, NEW n \in Nat, n > Len(Sections(o)[s]),
           NEW t, t = IF s = "props" THEN "ext" ELSE "order"
    PROVE  /\ PlacesBefore(o, t, 1) = PlacesBefore(o, s, n)
           /\ \A kind : GoodBefore(o, kind, t, 1) = GoodBefore(o, kind, s, n)
<1>1. Len(Sections(o)[s]) \in Nat
  BY SectionTypes
<1>2. \A r \in {"props", "ext"}, i \in Nat : i > 0 /\ (r = s => i < n) =>
            (Before(t, 1, r, i) <=> Before(s, n, r, i))
  BY DEF Before
<1>3. \A r \in {"props", "ext"} : \A i : i \in 1..Len(Sections(o)[r]) => (r = s => i < n)
  BY <1>1
<1>4. \A at \in ValuePlaces(o) : Before(t, 1, at[1], at[2]) <=> Before(s, n, at[1], at[2])
  <2>1. \A at \in ValuePlaces(o) : /\ at[1] \in {"props", "ext"} /\ at[2] \in Nat /\ at[2] > 0
                                   /\ at[2] \in 1..Len(Sections(o)[at[1]])
    BY PlaceFacts
  <2>2. QED
    BY <1>2, <1>3, <2>1, Zenon
<1>5. \A kind : \A g \in GoodElements(o, {kind}) : Before(t, 1, g[1], g[2]) <=> Before(s, n, g[1], g[2])
  <2>1. \A kind : \A g \in GoodElements(o, {kind}) : /\ g[1] \in {"props", "ext"} /\ g[2] \in Nat /\ g[2] > 0
                                                     /\ g[2] \in 1..Len(Sections(o)[g[1]])
    BY ElementFacts
  <2>2. QED
    BY <1>2, <1>3, <2>1, Zenon
<1>6. QED
  BY <1>4, <1>5 DEF PlacesBefore, GoodBefore

(* A property that fails has no place, and no element, of the object.      *)
LEMMA BeforeFailed ==
    ASSUME NEW o \in Object, NEW s \in {"props", "ext"}, NEW n \in Nat, NEW m, m = n + 1,
           ~Good(Sections(o)[s][n])
    PROVE  /\ PlacesBefore(o, s, m) = PlacesBefore(o, s, n)
           /\ \A kind : GoodBefore(o, kind, s, m) = GoodBefore(o, kind, s, n)
<1>1. \A r \in {"props", "ext"}, i \in Nat : ~(r = s /\ i = n) =>
            (Before(s, m, r, i) <=> Before(s, n, r, i))
  BY DEF Before
<1>2. \A at \in ValuePlaces(o) : Before(s, m, at[1], at[2]) <=> Before(s, n, at[1], at[2])
  BY <1>1, PlaceFacts
<1>3. \A kind : \A g \in GoodElements(o, {kind}) : Before(s, m, g[1], g[2]) <=> Before(s, n, g[1], g[2])
  BY <1>1, ElementFacts
<1>4. QED
  BY <1>2, <1>3 DEF PlacesBefore, GoodBefore

(* A good property adds its places and its elements.                       *)
Joining(o, s, i, j, p, n) ==
    /\ PlacesBefore(o, s, j) = PlacesBefore(o, s, i) \cup HandAt(s, i, p, n, 0)
    /\ PlacesBefore(o, s, i) \cap HandAt(s, i, p, n, 0) = {}
    /\ \A kind \in {"attribute", "reference"} :
        /\ GoodBefore(o, kind, s, j) = GoodBefore(o, kind, s, i) \cup ElementsBefore(s, i, p, n, kind)
        /\ \A g \in GoodBefore(o, kind, s, i), h \in ElementsBefore(s, i, p, n, kind) :
                PlaceOf(g, 0) # PlaceOf(h, 0)

LEMMA BeforeConverted ==
    ASSUME NEW o \in Object, NEW s \in {"props", "ext"}, NEW i \in 1..Len(Sections(o)[s]),
           NEW j, j = i + 1, NEW p, p = Sections(o)[s][i], Good(p), NEW n \in Nat,
           n = Len(p.elems) + 1 \/ p.kind = "role"
    PROVE  Joining(o, s, i, j, p, n)
<1>1. Sections(o)[s] \in Seq(Property) /\ Len(Sections(o)[s]) \in Nat
  BY SectionTypes
<1>2. i \in Nat /\ p \in Property /\ Len(p.elems) \in Nat
  BY <1>1, PropertyTypes
<1>3. \A r \in {"props", "ext"}, k \in Nat :
            /\ Before(s, j, r, k) <=> (Before(s, i, r, k) \/ (r = s /\ k = i))
            /\ ~(Before(s, i, r, k) /\ r = s /\ k = i)
  BY <1>2 DEF Before
<1>4. \A at : at \in HandAt(s, i, p, n, 0) <=> at \in ValuePlaces(o) /\ at[1] = s /\ at[2] = i
  <2>1. n > Len(p.elems) \/ p.kind \notin StructuredKinds
    BY <1>2 DEF StructuredKinds
  <2>2. QED
    BY <2>1, HandWhole
<1>5. /\ PlacesBefore(o, s, j) = PlacesBefore(o, s, i) \cup HandAt(s, i, p, n, 0)
      /\ PlacesBefore(o, s, i) \cap HandAt(s, i, p, n, 0) = {}
  <2>1. \A at \in ValuePlaces(o) : at[1] \in {"props", "ext"} /\ at[2] \in Nat
    BY PlaceFacts
  <2>2. QED
    BY <1>3, <1>4, <2>1 DEF PlacesBefore
<1>6. ASSUME NEW kind \in {"attribute", "reference"}
      PROVE  /\ GoodBefore(o, kind, s, j) = GoodBefore(o, kind, s, i) \cup ElementsBefore(s, i, p, n, kind)
             /\ \A g \in GoodBefore(o, kind, s, i), h \in ElementsBefore(s, i, p, n, kind) :
                        PlaceOf(g, 0) # PlaceOf(h, 0)
  <2>1. \A g : g \in ElementsBefore(s, i, p, n, kind) <=> g \in GoodElements(o, {kind}) /\ g[1] = s /\ g[2] = i
    <3>1. ASSUME NEW g \in ElementsBefore(s, i, p, n, kind)
          PROVE  g \in GoodElements(o, {kind}) /\ g[1] = s /\ g[2] = i
      <4>1. p.kind = kind
        BY DEF ElementsBefore
      <4>2. PICK e \in 1..(n - 1) : g = <<s, i, e>>
        BY <4>1 DEF ElementsBefore
      <4>3. GoodAt(o, s, i, e, {kind})
        BY <1>2, <4>1, <4>2 DEF GoodAt
      <4>4. g \in GoodElements(o, {kind})
        BY <4>2, <4>3, GoodElementIs
      <4>5. QED
        BY <4>2, <4>4
    <3>2. ASSUME NEW g \in GoodElements(o, {kind}), g[1] = s, g[2] = i
          PROVE  g \in ElementsBefore(s, i, p, n, kind)
      <4>1. /\ g = <<s, i, g[3]>> /\ p.kind = kind
            /\ g[3] \in 1..Len(p.elems)
        BY <3>2, ElementFacts
      <4>2. g[3] \in 1..(n - 1)
        BY <1>2, <4>1
      <4>3. QED
        BY <4>1, <4>2 DEF ElementsBefore
    <3>3. QED
      BY <3>1, <3>2
  <2>2. \A g \in GoodElements(o, {kind}) : g[1] \in {"props", "ext"} /\ g[2] \in Nat
    BY ElementFacts
  <2>3. GoodBefore(o, kind, s, j) = GoodBefore(o, kind, s, i) \cup ElementsBefore(s, i, p, n, kind)
    BY <1>3, <2>1, <2>2 DEF GoodBefore
  <2>4. \A g \in GoodBefore(o, kind, s, i), h \in ElementsBefore(s, i, p, n, kind) :
                ~(g[1] = h[1] /\ g[2] = h[2])
    BY <1>3, <2>1, <2>2 DEF GoodBefore
  <2>5. \A g, h : PlaceOf(g, 0) = PlaceOf(h, 0) => g[1] = h[1] /\ g[2] = h[2]
    BY DEF PlaceOf
  <2>6. QED
    BY <2>3, <2>4, <2>5
<1>7. QED
  BY <1>5, <1>6 DEF Joining

(* The number of roles up to a role tells which one it is.                 *)
RoleNumber(o, i) == Cardinality({j \in T!Roles(o) : j <= i})

LEMMA RoleNumbers ==
    ASSUME NEW o \in Object
    PROVE  /\ Cardinality(T!Roles(o)) \in Nat
           /\ \A i \in T!Roles(o) : RoleNumber(o, i) \in 1..Cardinality(T!Roles(o))
           /\ \A i, j \in T!Roles(o) : RoleNumber(o, i) = RoleNumber(o, j) => i = j
<1>1. PICK R : R = T!Roles(o)
  OBVIOUS
<1>2. R \in SUBSET Nat /\ IsFiniteSet(R) /\ Cardinality(R) \in Nat
  BY <1>1, RolesAreProperties, FS_CardinalityType
<1>3. ASSUME NEW i \in R
      PROVE  /\ RoleNumber(o, i) \in Nat \ {0} /\ RoleNumber(o, i) <= Cardinality(R)
             /\ RoleNumber(o, i) = Cardinality({j \in R : j <= i})
  <2>1. PICK U : U = {j \in R : j <= i}
    OBVIOUS
  <2>2. U \subseteq R /\ i \in U
    BY <1>2, <2>1
  <2>3. IsFiniteSet(U) /\ Cardinality(U) \in Nat /\ Cardinality(U) <= Cardinality(R)
    BY <1>2, <2>2, FS_Subset, FS_CardinalityType
  <2>4. Cardinality(U) # 0
    BY <2>2, <2>3, FS_EmptySet
  <2>5. RoleNumber(o, i) = Cardinality(U)
    BY <1>1, <2>1 DEF RoleNumber
  <2>6. QED
    BY <2>1, <2>3, <2>4, <2>5
<1>4. ASSUME NEW i \in R, NEW j \in R, i < j
      PROVE  RoleNumber(o, i) # RoleNumber(o, j)
  <2>1. PICK U, V : U = {k \in R : k <= i} /\ V = {k \in R : k <= j}
    OBVIOUS
  <2>2. U \subseteq V /\ j \in V /\ j \notin U /\ V \subseteq R
    <3>1. i \in Nat /\ j \in Nat /\ i < j /\ R \subseteq Nat
      BY <1>2, <1>4
    <3>2. \A k \in R : k <= i => k <= j
      BY <3>1
    <3>3. ~(j <= i) /\ j <= j
      BY <3>1
    <3>4. U \subseteq V
      BY <2>1, <3>2
    <3>5. j \in V /\ j \notin U /\ V \subseteq R
      BY <2>1, <3>3
    <3>6. QED
      BY <3>4, <3>5
  <2>3. IsFiniteSet(V)
    BY <1>2, <2>2, FS_Subset
  <2>4. Cardinality(U) = Cardinality(V) => U = V
    BY <2>2, <2>3, FS_Subset
  <2>5. QED
    BY <1>3, <2>1, <2>2, <2>4
<1>5. ASSUME NEW i \in R, NEW j \in R, RoleNumber(o, i) = RoleNumber(o, j)
      PROVE  i = j
  <2>1. ~(i < j) /\ ~(j < i)
    BY <1>4, <1>5, Zenon
  <2>2. i \in Nat /\ j \in Nat
    BY <1>2
  <2>3. QED
    BY <2>1, <2>2
<1>6. ASSUME NEW i \in R
      PROVE  RoleNumber(o, i) \in 1..Cardinality(R)
  <2>1. PICK n, c : n = RoleNumber(o, i) /\ c = Cardinality(R)
    OBVIOUS
  <2>2. n \in Nat \ {0} /\ n <= c
    BY <1>3, <2>1
  <2>3. n \in 1..c
    BY <1>2, <2>1, <2>2
  <2>4. QED
    BY <2>1, <2>3
<1>7. QED
  BY <1>1, <1>2, <1>5, <1>6

(* The players of each role, by its number.                                *)
LEMMA RolesOfNumber ==
    ASSUME NEW o \in Object, counter \in Nat
    PROVE  /\ Len(RolesOf(o)) = Cardinality(T!Roles(o))
           /\ \A i \in T!Roles(o) : RolesOf(o)[RoleNumber(o, i)] =
                    {PlayerVar(o, x) : x \in {y \in Players(o) : y[1] = i}}
<1>1. PICK m \in Nat : m = Cardinality(T!Roles(o))
  BY RoleNumbers
<1>2. PICK role : role = [n \in 1..m |-> CHOOSE i \in T!Roles(o) : RoleNumber(o, i) = n]
  OBVIOUS
<1>3. PICK f : f = [n \in 1..m |-> {PlayerVar(o, x) : x \in {y \in Players(o) : y[1] = role[n]}}]
  OBVIOUS
<1>4. RolesOf(o) = f
  <2>1. RolesOf(o) = [n \in 1..m |-> {PlayerVar(o, x) : x \in {y \in Players(o) :
                                        y[1] = CHOOSE i \in T!Roles(o) : RoleNumber(o, i) = n}}]
    BY <1>1 DEF RolesOf, RoleNumber
  <2>2. \A n \in 1..m : role[n] = CHOOSE i \in T!Roles(o) : RoleNumber(o, i) = n
    BY <1>2
  <2>3. QED
    BY <1>3, <2>1, <2>2
<1>5. Len(f) = m
  <2>1. f \in [1..m -> {{PlayerVar(o, x) : x \in {y \in Players(o) : y[1] = role[n]}} : n \in 1..m}]
    BY <1>3
  <2>2. QED
    BY <2>1, FunctionIsSequence
<1>6. ASSUME NEW i \in T!Roles(o)
      PROVE  f[RoleNumber(o, i)] = {PlayerVar(o, x) : x \in {y \in Players(o) : y[1] = i}}
  <2>1. PICK n : n = RoleNumber(o, i)
    OBVIOUS
  <2>2. n \in 1..m
    BY <1>1, <2>1, RoleNumbers
  <2>3. role[n] \in T!Roles(o) /\ RoleNumber(o, role[n]) = n
    <3>1. role[n] = CHOOSE j \in T!Roles(o) : RoleNumber(o, j) = n
      BY <1>2, <2>2
    <3>2. \E j \in T!Roles(o) : RoleNumber(o, j) = n
      BY <2>1
    <3>3. QED
      BY <3>1, <3>2
  <2>4. role[n] = i
    BY <2>1, <2>3, RoleNumbers
  <2>5. QED
    BY <1>3, <2>1, <2>2, <2>4
<1>7. QED
  BY <1>1, <1>4, <1>5, <1>6

(* The things that are matched for a player, and nothing else.             *)
LEMMA RolePlayersMatched ==
    ASSUME TypeInv, AddMainRelation
    PROVE  RolesPlayed(Current, bundle'.main.match, RolesOf(Current))
<1>1. PICK o, M : o = Current /\ M = bundle'.main.match
  OBVIOUS
<1>2. o \in Object /\ counter \in Nat
  BY <1>1, RelationAdded, TypeFacts
<1>3. /\ \A t \in M : \E x \in Players(o) :
                t = Match(PlayerVar(o, x), <<"props", x[1], x[2], 0>>, PlayerId(o, x))
                /\ t.var = PlayerVar(o, x)
      /\ \A x \in Players(o) : PlayerVar(o, x) \in Variables(M)
  BY <1>1, RelationAdded
<1>4. \A x \in Players(o) : Match(PlayerVar(o, x), <<"props", x[1], x[2], 0>>, PlayerId(o, x)).ids
                            = {PlayerId(o, x)}
  <2>1. ASSUME NEW x \in Players(o)
        PROVE  Match(PlayerVar(o, x), <<"props", x[1], x[2], 0>>, PlayerId(o, x)).ids = {PlayerId(o, x)}
    <3>1. PICK v, at, id : v = PlayerVar(o, x) /\ at = <<"props", x[1], x[2], 0>> /\ id = PlayerId(o, x)
      OBVIOUS
    <3>2. v \in Nat /\ at \in Place /\ id \in Id
      BY <1>2, <3>1, PlayerTypes, PlayerVariables
    <3>3. Match(v, at, id).ids = {id}
      BY <3>2, ThingTypes
    <3>4. QED
      BY <3>1, <3>3
  <2>2. QED
    BY <2>1
<1>5. \A t \in M : \E x \in Players(o) : t.var = PlayerVar(o, x) /\ t.ids = {PlayerId(o, x)}
  BY <1>3, <1>4
<1>6. \A x \in Players(o) : \E t \in M : t.var = PlayerVar(o, x) /\ t.ids = {PlayerId(o, x)}
  <2>1. ASSUME NEW x \in Players(o)
        PROVE  \E t \in M : t.var = PlayerVar(o, x) /\ t.ids = {PlayerId(o, x)}
    <3>1. PICK t \in M : t.var = PlayerVar(o, x)
      BY <1>3 DEF Variables
    <3>2. PICK y \in Players(o) : t.var = PlayerVar(o, y) /\ t.ids = {PlayerId(o, y)}
      BY <1>5
    <3>3. x = y
      BY <1>2, <3>1, <3>2, PlayerVariables
    <3>4. QED
      BY <3>1, <3>2, <3>3
  <2>2. QED
    BY <2>1
<1>7. ASSUME NEW i \in T!Roles(o)
      PROVE  {t.ids : t \in {m \in M : m.var \in RolesOf(o)[RoleNumber(o, i)]}}
             = {{Content[o].props[i].elems[e]} : e \in 1..Len(Content[o].props[i].elems)}
  <2>1. PICK R : R = {PlayerVar(o, x) : x \in {y \in Players(o) : y[1] = i}}
    OBVIOUS
  <2>2. RolesOf(o)[RoleNumber(o, i)] = R
    BY <1>2, <2>1, RolesOfNumber
  <2>3. ASSUME NEW t \in M, t.var \in R
        PROVE  \E e \in 1..Len(Content[o].props[i].elems) : t.ids = {Content[o].props[i].elems[e]}
    <3>1. PICK x \in Players(o) : x[1] = i /\ t.var = PlayerVar(o, x)
      BY <2>1, <2>3
    <3>2. PICK y \in Players(o) : t.var = PlayerVar(o, y) /\ t.ids = {PlayerId(o, y)}
      BY <1>5
    <3>3. x = y
      BY <1>2, <3>1, <3>2, PlayerVariables
    <3>4. PlayerId(o, x) = Content[o].props[i].elems[x[2]]
      BY <3>1 DEF PlayerId
    <3>5. x[2] \in 1..Len(Content[o].props[i].elems)
      BY <1>2, <3>1, PlayerTypes
    <3>6. QED
      BY <3>2, <3>3, <3>4, <3>5
  <2>4. ASSUME NEW e \in 1..Len(Content[o].props[i].elems)
        PROVE  \E t \in M : t.var \in R /\ t.ids = {Content[o].props[i].elems[e]}
    <3>1. PICK x : x = <<i, e>>
      OBVIOUS
    <3>2. x \in Players(o) /\ x[1] = i /\ x[2] = e
      BY <3>1 DEF Players
    <3>3. PICK t \in M : t.var = PlayerVar(o, x) /\ t.ids = {PlayerId(o, x)}
      BY <1>6, <3>2
    <3>4. PlayerId(o, x) = Content[o].props[i].elems[e] /\ PlayerVar(o, x) \in R
      BY <2>1, <3>2 DEF PlayerId
    <3>5. QED
      BY <3>3, <3>4
  <2>5. \A ids : ids \in {t.ids : t \in {m \in M : m.var \in R}}
                <=> ids \in {{Content[o].props[i].elems[e]} : e \in 1..Len(Content[o].props[i].elems)}
    <3>1. PICK n, elems : n = Len(Content[o].props[i].elems) /\ elems = Content[o].props[i].elems
      OBVIOUS
    <3>2. \A t \in M : t.var \in R => \E e \in 1..n : t.ids = {elems[e]}
      BY <2>3, <3>1
    <3>3. \A e \in 1..n : \E t \in M : t.var \in R /\ t.ids = {elems[e]}
      BY <2>4, <3>1
    <3>4. PICK U, V : U = {m \in M : m.var \in R} /\ V = {{elems[e]} : e \in 1..n}
      OBVIOUS
    <3>5. \A t \in U : t.ids \in V
      BY <3>2, <3>4
    <3>6. \A v \in V : \E t \in U : t.ids = v
      BY <3>3, <3>4
    <3>7. {t.ids : t \in U} = V
      BY <3>5, <3>6
    <3>8. QED
      BY <3>1, <3>4, <3>7
  <2>6. QED
    BY <2>2, <2>5
<1>8. Len(RolesOf(o)) = Cardinality(T!Roles(o))
  BY <1>2, RolesOfNumber
<1>9. \A i : RoleNumber(o, i) = Cardinality({j \in T!Roles(o) : j <= i})
  BY DEF RoleNumber
<1>10. RolesPlayed(o, M, RolesOf(o))
  <2>1. T!Roles(o) = NamedRoles(o)
    BY <1>2, RolesAreProperties DEF NamedRoles
  <2>2. Len(RolesOf(o)) = Cardinality(NamedRoles(o))
    BY <1>8, <2>1
  <2>3. ASSUME NEW i \in NamedRoles(o)
        PROVE  MatchedBy(M, RolesOf(o)[Cardinality({j \in NamedRoles(o) : j <= i})])
               = {{Content[o].props[i].elems[e]} : e \in 1..Len(Content[o].props[i].elems)}
    <3>1. RoleNumber(o, i) = Cardinality({j \in NamedRoles(o) : j <= i})
      BY <1>9, <2>1
    <3>2. MatchedBy(M, RolesOf(o)[RoleNumber(o, i)])
          = {{Content[o].props[i].elems[e]} : e \in 1..Len(Content[o].props[i].elems)}
      BY <1>7, <2>1 DEF MatchedBy
    <3>3. QED
      BY <3>1, <3>2
  <2>4. QED
    BY <2>2, <2>3 DEF RolesPlayed
<1>11. QED
  BY <1>1, <1>10

(* Steps that leave the bundle as it is, or empty it.                      *)
LEMMA BundleStays ==
    ASSUME BundleWhole, bundle' = bundle, UNCHANGED <<file, next>>, stage \in {"props", "ext"},
           PlacesBefore(Current, stage', prop') = PlacesBefore(Current, stage, prop),
           \A kind : GoodBefore(Current, kind, stage', prop') = GoodBefore(Current, kind, stage, prop)
    PROVE  BundleWhole'
<1>1. Current' = Current
  BY DEF Current
<1>2. PICK s, i : s = stage' /\ i = prop'
  OBVIOUS
<1>3. bundle.marking # "" =>
        BundleIs(Current, bundle, PlacesBefore(Current, s, i),
                 GoodBefore(Current, "attribute", s, i), GoodBefore(Current, "reference", s, i))
  <2>1. /\ PlacesBefore(Current, s, i) = PlacesBefore(Current, stage, prop)
        /\ GoodBefore(Current, "attribute", s, i) = GoodBefore(Current, "attribute", stage, prop)
        /\ GoodBefore(Current, "reference", s, i) = GoodBefore(Current, "reference", stage, prop)
    BY <1>2
  <2>2. QED
    BY <2>1 DEF BundleWhole
<1>4. QED
  BY <1>1, <1>2, <1>3 DEF BundleWhole

LEMMA BundleAbsent ==
    stage' \notin {"props", "ext", "order"} \/ bundle'.marking = "" => BundleWhole'
BY DEF BundleWhole

(* The main entity, or the main relation, before its first property.       *)
LEMMA MainIs ==
    ASSUME NEW o, NEW b, NEW t, b.main.insert = {t}, t.at = MainPlace, t.owns = {},
           b.attributes = {}, b.embedded = NoClauses,
           b.marking = "relation" => RolesPlayed(o, b.main.match, t.roles)
    PROVE  BundleIs(o, b, {}, {}, {})
<1>1. Exact(b.attributes, {}) /\ Connected(b.attributes, b.main.insert \cup b.attributes)
  BY ExactNone DEF Connected
<1>2. Referred(o, b.embedded, {})
  BY ReferredNone
<1>3. PlacesOwned(t) = {PlaceOf(g, 0) : g \in {}}
  BY DEF PlacesOwned
<1>4. QED
  BY <1>1, <1>2, <1>3 DEF BundleIs

LEMMA MainBundle ==
    ASSUME Current \in Object, UNCHANGED <<file, next>>, Enter("props"),
           BundleIs(Current, bundle', {}, {}, {})
    PROVE  BundleWhole'
<1>1. Current' = Current /\ stage' = "props" /\ prop' = 1
  BY DEF Current, Enter
<1>2. PICK b : b = bundle'
  OBVIOUS
<1>3. BundleIs(Current, b, PlacesBefore(Current, "props", 1),
               GoodBefore(Current, "attribute", "props", 1), GoodBefore(Current, "reference", "props", 1))
  BY <1>2, BeforeNothing
<1>4. QED
  BY <1>1, <1>2, <1>3 DEF BundleWhole

LEMMA EntityBundle == TypeInv /\ AddMainEntity => BundleWhole'
<1> SUFFICES ASSUME TypeInv, AddMainEntity PROVE BundleWhole'
  OBVIOUS
<1>1. PICK b : b = bundle'
  OBVIOUS
<1>2. /\ next <= Len(file) /\ Enter("props") /\ UNCHANGED <<file, next>>
      /\ b.marking = "entity" /\ b.attributes = {} /\ b.embedded = NoClauses
  BY <1>1, EntityAdded
<1>3. PICK e : b.main.insert = {e} /\ e.at = MainPlace /\ e.owns = {}
  BY <1>1, EntityAdded
<1>4. BundleIs(Current, b, {}, {}, {})
  BY <1>2, <1>3, MainIs
<1>5. Current \in Object
  BY <1>2, TypeFacts
<1>6. QED
  BY <1>1, <1>2, <1>4, <1>5, MainBundle

LEMMA RelationBundle == TypeInv /\ AddMainRelation => BundleWhole'
<1> SUFFICES ASSUME TypeInv, AddMainRelation PROVE BundleWhole'
  OBVIOUS
<1>1. PICK b : b = bundle'
  OBVIOUS
<1>2. /\ Current \in Object /\ Enter("props") /\ UNCHANGED <<file, next>>
      /\ b.attributes = {} /\ b.embedded = NoClauses
  BY <1>1, RelationAdded
<1>3. PICK e : b.main.insert = {e} /\ e.at = MainPlace /\ e.owns = {} /\ e.roles = RolesOf(Current)
  BY <1>1, RelationAdded
<1>4. RolesPlayed(Current, b.main.match, e.roles)
  BY <1>1, <1>3, RolePlayersMatched
<1>5. BundleIs(Current, b, {}, {}, {})
  BY <1>2, <1>3, <1>4, MainIs
<1>6. QED
  BY <1>1, <1>2, <1>5, MainBundle

LEMMA SectionBundle == TypeInv /\ BundleWhole /\ SectionDone => BundleWhole'
<1> SUFFICES ASSUME TypeInv, BundleWhole, SectionDone PROVE BundleWhole'
  OBVIOUS
<1>1. /\ stage \in {"props", "ext"} /\ prop > Len(Sections(Current)[stage])
      /\ stage' = (IF stage = "props" THEN "ext" ELSE "order") /\ prop' = 1
      /\ UNCHANGED <<file, next>> /\ bundle' = bundle
  BY DEF SectionDone, Enter
<1>2. Current \in Object /\ prop \in Nat
  BY <1>1, TypeFacts DEF TypeInv, LoopInv, QueriesTypeOK
<1>3. PICK s : s = IF stage = "props" THEN "ext" ELSE "order"
  OBVIOUS
<1>4. /\ PlacesBefore(Current, s, 1) = PlacesBefore(Current, stage, prop)
      /\ \A kind : GoodBefore(Current, kind, s, 1) = GoodBefore(Current, kind, stage, prop)
  BY <1>1, <1>2, <1>3, BeforeSection
<1>5. QED
  BY <1>1, <1>3, <1>4, BundleStays

LEMMA DroppedBundle == TypeInv /\ LocalInv /\ BundleWhole /\ DropProperty => BundleWhole'
<1> SUFFICES ASSUME TypeInv, LocalInv, BundleWhole, DropProperty PROVE BundleWhole'
  OBVIOUS
<1>1. Converting /\ prop' = prop + 1 /\ UNCHANGED <<file, next, stage, bundle>>
  BY Dropped
<1>2. /\ Current \in Object /\ stage \in {"props", "ext"} /\ prop \in Nat
      /\ property = Sections(Current)[stage][prop]
  BY <1>1, PropertyInHand
<1>3. ~Good(property)
  <2>1. FailsNow("invalid")
    BY DEF DropProperty
  <2>2. elem \in 1..Len(property.elems) /\ Outcome(property.kind, property.elems[elem]) = "invalid"
    BY <2>1, FailingElement
  <2>3. QED
    BY <2>2 DEF Good
<1>4. PICK i : i = prop + 1
  OBVIOUS
<1>5. /\ PlacesBefore(Current, stage, i) = PlacesBefore(Current, stage, prop)
      /\ \A kind : GoodBefore(Current, kind, stage, i) = GoodBefore(Current, kind, stage, prop)
  BY <1>2, <1>3, <1>4, BeforeFailed
<1>6. QED
  BY <1>1, <1>2, <1>4, <1>5, BundleStays

(* What a property has produced joins the bundle.                          *)
Receives(b, c, l) ==
    /\ c.marking = b.marking /\ c.main.match = b.main.match
    /\ c.main.insert = {Owning(l.owns, t) : t \in b.main.insert}
    /\ c.attributes = b.attributes \cup l.attributes
    /\ c.embedded.match = b.embedded.match \cup l.embedded.match
    /\ c.embedded.insert = b.embedded.insert \cup l.embedded.insert

LEMMA BundleReceives ==
    ASSUME NEW o, NEW b, NEW c, NEW l, NEW P, NEW A, NEW R, BundleIs(o, b, P, A, R),
           b.main.insert \subseteq Thing, l.owns \subseteq Stored, Receives(b, c, l),
           NEW s, NEW i, NEW n, InHandWhole(o, s, i, n, 0, l, {}, b.main.insert),
           NEW p, p = Sections(o)[s][i], NEW H, H = HandAt(s, i, p, n, 0),
           NEW X, X = ElementsBefore(s, i, p, n, "attribute"),
           NEW Y, Y = ElementsBefore(s, i, p, n, "reference"),
           P \cap H = {}, \A g \in R, h \in Y : PlaceOf(g, 0) # PlaceOf(h, 0)
    PROVE  BundleIs(o, c, P \cup H, A \cup X, R \cup Y)
<1>1. PICK t : b.main.insert = {t} /\ t.at = MainPlace
  BY DEF BundleIs
<1>2. PICK u : u = Owning(l.owns, t)
  OBVIOUS
<1>3. u.var = t.var /\ u.at = t.at /\ u.roles = t.roles /\ u.owns = t.owns \cup l.owns
  BY <1>1, <1>2, OwningType
<1>4. c.main.insert = {u} /\ u.at = MainPlace
  BY <1>1, <1>2, <1>3 DEF Receives
<1>5. /\ Exact(l.attributes, H)
      /\ Connected(l.attributes, b.main.insert \cup l.attributes \cup {})
      /\ \A x \in l.attributes : Filled(o, x)
      /\ PlacesOwned(l) = {PlaceOf(g, 0) : g \in X}
      /\ Referred(o, l.embedded, Y)
  BY DEF InHandWhole
<1>6. /\ Exact(b.attributes, P)
      /\ Connected(b.attributes, b.main.insert \cup b.attributes)
      /\ \A x \in b.attributes : Filled(o, x)
      /\ PlacesOwned(t) = {PlaceOf(g, 0) : g \in A}
      /\ b.marking = "relation" => RolesPlayed(o, b.main.match, t.roles)
      /\ Referred(o, b.embedded, R)
  BY <1>1 DEF BundleIs
<1>7. c.attributes = b.attributes \cup l.attributes
  BY DEF Receives
<1>8. Exact(c.attributes, P \cup H)
  BY <1>5, <1>6, <1>7, ExactJoined
<1>9. Connected(c.attributes, c.main.insert \cup c.attributes)
  <2>1. PICK V, W, Z : /\ V = b.main.insert \cup b.attributes
                       /\ W = b.main.insert \cup l.attributes \cup {}
                       /\ Z = c.main.insert \cup c.attributes
    OBVIOUS
  <2>2. Stand(V, Z) /\ Stand(W, Z)
    BY <1>1, <1>3, <1>4, <1>7, <2>1 DEF Stand
  <2>3. Connected(b.attributes, Z) /\ Connected(l.attributes, Z)
    BY <1>5, <1>6, <2>1, <2>2, ConnectedStill
  <2>4. QED
    BY <1>7, <2>1, <2>3, ConnectedJoined
<1>10. PlacesOwned(u) = {PlaceOf(g, 0) : g \in A \cup X}
  <2>1. PlacesOwned(u) = PlacesOwned(t) \cup PlacesOwned(l)
    BY <1>3 DEF PlacesOwned
  <2>2. QED
    BY <1>5, <1>6, <2>1
<1>11. Referred(o, c.embedded, R \cup Y)
  <2>1. PICK d, e, f : d = b.embedded /\ e = l.embedded /\ f = c.embedded
    OBVIOUS
  <2>2. f.match = d.match \cup e.match /\ f.insert = d.insert \cup e.insert
    BY <2>1 DEF Receives
  <2>3. Referred(o, d, R) /\ Referred(o, e, Y)
    BY <1>5, <1>6, <2>1
  <2>4. Referred(o, f, R \cup Y)
    BY <2>2, <2>3, ReferredJoined
  <2>5. QED
    BY <2>1, <2>4
<1>12. c.marking = "relation" => RolesPlayed(o, c.main.match, u.roles)
  BY <1>3, <1>6 DEF Receives
<1>13. \A x \in c.attributes : Filled(o, x)
  BY <1>5, <1>6, <1>7
<1>14. QED
  BY <1>4, <1>8, <1>9, <1>10, <1>11, <1>12, <1>13 DEF BundleIs

LEMMA PropertyBundle ==
    TypeInv /\ LocalInv /\ LocalWhole /\ BundleWhole /\ PropertyDone => BundleWhole'
<1> SUFFICES ASSUME TypeInv, LocalInv, LocalWhole, BundleWhole, PropertyDone PROVE BundleWhole'
  OBVIOUS
<1>1. /\ Converting /\ leaf = 0 /\ composite = <<>> /\ prop' = prop + 1
      /\ UNCHANGED <<file, next, stage>>
  BY PropertyAdds
<1>2. PICK o, b, c, l, p, s, i, n :
        /\ o = Current /\ b = bundle /\ c = bundle' /\ l = local /\ p = property
        /\ s = stage /\ i = prop /\ n = elem
  OBVIOUS
<1>3. SUFFICES ASSUME b.marking # "" PROVE BundleWhole'
  BY <1>2, BundleAbsent, PropertyAdds
<1>4. /\ o \in Object /\ s \in {"props", "ext"} /\ i \in 1..Len(Sections(o)[s])
      /\ p = Sections(o)[s][i] /\ p \in Property /\ n \in Nat /\ i \in Nat
  BY <1>1, <1>2, PropertyInHand
<1>5. Good(p) /\ (n = Len(p.elems) + 1 \/ p.kind = "role")
  BY <1>2, ConvertedElements DEF Good
<1>6. PICK P, A, R : /\ P = PlacesBefore(o, s, i) /\ A = GoodBefore(o, "attribute", s, i)
                     /\ R = GoodBefore(o, "reference", s, i)
  OBVIOUS
<1>7. BundleIs(o, b, P, A, R)
  BY <1>1, <1>2, <1>3, <1>4, <1>6 DEF BundleWhole
<1>8. Receives(b, c, l) /\ b.main.insert \subseteq Thing /\ l.owns \subseteq Stored
  <2>1. b.main.insert \subseteq Thing /\ l.owns \subseteq Stored
    BY <1>2, TypeFacts
  <2>2. /\ bundle'.marking = bundle.marking /\ bundle'.main.match = bundle.main.match
        /\ bundle'.main.insert = {Owning(local.owns, t) : t \in bundle.main.insert}
        /\ bundle'.attributes = bundle.attributes \cup local.attributes
        /\ bundle'.embedded.match = bundle.embedded.match \cup local.embedded.match
        /\ bundle'.embedded.insert = bundle.embedded.insert \cup local.embedded.insert
    BY PropertyAdds
  <2>3. Receives(b, c, l)
    BY <1>2, <2>2 DEF Receives
  <2>4. QED
    BY <2>1, <2>3
<1>9. InHandWhole(o, s, i, n, 0, l, {}, b.main.insert)
  BY <1>1, <1>2 DEF LocalWhole, Open
<1>10. PICK H, X, Y : /\ H = HandAt(s, i, p, n, 0) /\ X = ElementsBefore(s, i, p, n, "attribute")
                      /\ Y = ElementsBefore(s, i, p, n, "reference")
  OBVIOUS
<1>11. PICK j : j = i + 1
  OBVIOUS
<1>12. /\ PlacesBefore(o, s, j) = P \cup H /\ P \cap H = {}
       /\ GoodBefore(o, "attribute", s, j) = A \cup X
       /\ GoodBefore(o, "reference", s, j) = R \cup Y
       /\ \A g \in R, h \in Y : PlaceOf(g, 0) # PlaceOf(h, 0)
  <2>1. Joining(o, s, i, j, p, n)
    BY <1>4, <1>5, <1>11, BeforeConverted
  <2>2. QED
    BY <1>6, <1>10, <2>1 DEF Joining
<1>13. BundleIs(o, c, P \cup H, A \cup X, R \cup Y)
  BY <1>4, <1>7, <1>8, <1>9, <1>10, <1>12, BundleReceives
<1>14. BundleIs(o, c, PlacesBefore(o, s, j), GoodBefore(o, "attribute", s, j),
                GoodBefore(o, "reference", s, j))
  BY <1>12, <1>13
<1>15. Current' = o /\ stage' = s /\ prop' = j /\ bundle' = c
  BY <1>1, <1>2, <1>11 DEF Current
<1>16. QED
  BY <1>14, <1>15 DEF BundleWhole

LEMMA OtherBundles ==
    TypeInv /\ LocalInv /\ BundleWhole
    /\ (Read \/ Finish \/ Create \/ CreateRaises \/ AddMainRaises \/ DropObject \/ Order \/ BuildTexts
        \/ Loops \/ UNCHANGED queryVars) => BundleWhole'
<1> SUFFICES ASSUME TypeInv, LocalInv, BundleWhole PROVE
        (Read \/ Finish \/ Create \/ CreateRaises \/ AddMainRaises \/ DropObject \/ Order \/ BuildTexts
         \/ Loops \/ UNCHANGED queryVars) => BundleWhole'
  OBVIOUS
<1>1. CASE Read \/ Finish
  BY <1>1, BundleAbsent DEF Read, Finish, Enter
<1>2. CASE Create
  <2>1. bundle = EmptyBundle /\ bundle' = bundle
    BY <1>2 DEF Create, TypeInv, LoopInv
  <2>2. QED
    BY <2>1, BundleAbsent, Empties
<1>3. CASE CreateRaises \/ AddMainRaises \/ DropObject \/ Order
  <2>1. Skip
    BY <1>3, Skipped, OrderLists
  <2>2. QED
    BY <2>1, BundleAbsent DEF Skip, Enter
<1>4. CASE BuildTexts
  BY <1>4, BundleAbsent DEF BuildTexts
<1>5. CASE Loops \/ UNCHANGED queryVars
  <2>1. UNCHANGED <<file, next, stage, prop, bundle>>
    BY <1>5, LoopsLocal DEF Loops, queryVars
  <2>2. Current' = Current
    BY <2>1 DEF Current
  <2>3. QED
    BY <2>1, <2>2 DEF BundleWhole
<1>6. QED
  BY <1>1, <1>2, <1>3, <1>4, <1>5

LEMMA BundleWholeNext ==
    TypeInv /\ LocalInv /\ LocalWhole /\ BundleWhole /\ [QueriesNext]_queryVars => BundleWhole'
BY EntityBundle, RelationBundle, SectionBundle, DroppedBundle, PropertyBundle, OtherBundles
   DEF QueriesNext, Loops

LEMMA MarkingNext == TypeInv /\ LocalInv /\ MarkingInv /\ [QueriesNext]_queryVars => MarkingInv'
<1> SUFFICES ASSUME TypeInv, LocalInv, MarkingInv, [QueriesNext]_queryVars PROVE MarkingInv'
  OBVIOUS
<1>1. CASE AddMainEntity
  BY <1>1, EntityAdded DEF MarkingInv
<1>2. CASE AddMainRelation
  BY <1>2, RelationAdded DEF MarkingInv
<1>3. CASE CreateRaises \/ AddMainRaises \/ DropObject \/ Order
  <2>1. Skip
    BY <1>3, Skipped, OrderLists
  <2>2. QED
    BY <2>1, Empties DEF Skip, Enter, MarkingInv
<1>4. CASE PropertyDone
  <2>1. Converting /\ bundle'.marking = bundle.marking
    BY <1>4, PropertyAdds
  <2>2. bundle.marking # ""
    BY <2>1 DEF MarkingInv, Converting
  <2>3. QED
    BY <2>1, <2>2 DEF MarkingInv
<1>5. CASE DropProperty
  BY <1>5, Dropped DEF MarkingInv
<1>6. CASE Read \/ Finish \/ Create \/ SectionDone
  <2>1. bundle' = bundle /\ (stage' \in {"props", "ext"} => stage \in {"props", "ext"})
    BY <1>6 DEF Read, Finish, Create, SectionDone, Enter
  <2>2. QED
    BY <2>1 DEF MarkingInv
<1>7. CASE BuildTexts
  BY <1>7 DEF BuildTexts, MarkingInv
<1>8. CASE Loops \/ UNCHANGED queryVars
  <2>1. UNCHANGED <<stage, bundle>>
    BY <1>8, LoopsLocal DEF Loops, queryVars
  <2>2. QED
    BY <2>1 DEF MarkingInv
<1>9. QED
  BY <1>1, <1>2, <1>3, <1>4, <1>5, <1>6, <1>7, <1>8 DEF QueriesNext, Loops

(* The places and the elements of an object are finitely many.             *)
LEMMA UnionFinite ==
    ASSUME NEW S, IsFiniteSet(S), NEW f, f \in [S -> {f[x] : x \in S}], \A x \in S : IsFiniteSet(f[x])
    PROVE  IsFiniteSet(UNION {f[x] : x \in S})
<1>1. IsFiniteSet({f[x] : x \in S})
  BY ImageFinite
<1>2. \A X \in {f[x] : x \in S} : IsFiniteSet(X)
  OBVIOUS
<1>3. QED
  BY <1>1, <1>2, FS_UNION

LEMMA ElementsFinite ==
    ASSUME NEW o \in Object, NEW kinds
    PROVE  IsFiniteSet(GoodElements(o, kinds))
<1>1. ASSUME NEW s \in {"props", "ext"}, NEW i \in GoodProperties(o, s, kinds)
      PROVE  IsFiniteSet({<<s, i, e>> : e \in 1..Len(Sections(o)[s][i].elems)})
  <2>1. Sections(o)[s] \in Seq(Property) /\ i \in 1..Len(Sections(o)[s])
    BY SectionTypes DEF GoodProperties
  <2>2. PICK p \in Property : p = Sections(o)[s][i]
    BY <2>1
  <2>3. PICK n \in Nat : n = Len(p.elems)
    BY PropertyTypes
  <2>4. PICK S : S = 1..n
    OBVIOUS
  <2>5. IsFiniteSet(S)
    BY <2>4, FS_Interval
  <2>6. PICK f : f = [e \in S |-> <<s, i, e>>]
    OBVIOUS
  <2>7. f \in [S -> {f[e] : e \in S}] /\ {f[e] : e \in S} = {<<s, i, e>> : e \in S}
    BY <2>6
  <2>8. IsFiniteSet({f[e] : e \in S})
    BY <2>5, <2>7, ImageFinite
  <2>9. QED
    BY <2>2, <2>3, <2>4, <2>7, <2>8
<1>2. ASSUME NEW s \in {"props", "ext"}
      PROVE  IsFiniteSet(UNION {{<<s, i, e>> : e \in 1..Len(Sections(o)[s][i].elems)} :
                                    i \in GoodProperties(o, s, kinds)})
  <2>1. PICK G : G = GoodProperties(o, s, kinds)
    OBVIOUS
  <2>2. PICK n \in Nat : n = Len(Sections(o)[s])
    BY SectionTypes
  <2>3. G \in SUBSET (1..n)
    BY <2>1, <2>2 DEF GoodProperties
  <2>4. IsFiniteSet(G)
    <3>1. IsFiniteSet(1..n)
      BY FS_Interval
    <3>2. QED
      BY <2>3, <3>1, FS_Subset
  <2>5. PICK f : f = [i \in G |-> {<<s, i, e>> : e \in 1..Len(Sections(o)[s][i].elems)}]
    OBVIOUS
  <2>6. f \in [G -> {f[i] : i \in G}]
    BY <2>5
  <2>7. \A i \in G : IsFiniteSet(f[i])
    BY <1>1, <2>1, <2>5, Zenon
  <2>8. IsFiniteSet(UNION {f[i] : i \in G})
    BY <2>4, <2>6, <2>7, UnionFinite
  <2>9. \A i \in G : f[i] = {<<s, i, e>> : e \in 1..Len(Sections(o)[s][i].elems)}
    BY <2>5
  <2>10. UNION {f[i] : i \in G} =
            UNION {{<<s, i, e>> : e \in 1..Len(Sections(o)[s][i].elems)} : i \in G}
    BY <2>9
  <2>11. QED
    BY <2>1, <2>8, <2>10
<1>3. PICK f : f = [s \in {"props", "ext"} |->
                        UNION {{<<s, i, e>> : e \in 1..Len(Sections(o)[s][i].elems)} :
                                    i \in GoodProperties(o, s, kinds)}]
  OBVIOUS
<1>4. GoodElements(o, kinds) = f["props"] \cup f["ext"]
  BY <1>3 DEF GoodElements
<1>5. IsFiniteSet(f["props"]) /\ IsFiniteSet(f["ext"])
  BY <1>2, <1>3
<1>6. QED
  BY <1>4, <1>5, FS_Union

LEMMA PlacesFinite ==
    ASSUME NEW o \in Object
    PROVE  IsFiniteSet(ValuePlaces(o))
<1>1. PICK G, C : /\ G = GoodElements(o, {"composite", "pairs", "dictionary"})
                  /\ C = GoodElements(o, {"composite"})
  OBVIOUS
<1>2. IsFiniteSet(G) /\ IsFiniteSet(C)
  BY <1>1, ElementsFinite
<1>3. IsFiniteSet({PlaceOf(g, 0) : g \in G})
  <2>1. PICK f : f = [g \in G |-> PlaceOf(g, 0)]
    OBVIOUS
  <2>2. f \in [G -> {f[g] : g \in G}] /\ {f[g] : g \in G} = {PlaceOf(g, 0) : g \in G}
    BY <2>1
  <2>3. IsFiniteSet({f[g] : g \in G})
    BY <1>2, <2>2, ImageFinite
  <2>4. QED
    BY <2>2, <2>3
<1>4. ASSUME NEW g \in C
      PROVE  IsFiniteSet({PlaceOf(g, j) : j \in {k \in 1..Len(ElementAt(o, g)) : ElementAt(o, g)[k].kind = "pair"}})
  <2>1. PICK J : J = {k \in 1..Len(ElementAt(o, g)) : ElementAt(o, g)[k].kind = "pair"}
    OBVIOUS
  <2>2. PICK n \in Nat : n = Len(ElementAt(o, g))
    <3>1. PICK s, i, e : g = <<s, i, e>> /\ GoodAt(o, s, i, e, {"composite"})
      BY <1>1, GoodElementIs
    <3>2. Sections(o)[s][i] \in Property
      BY <3>1, GoodAtTypes
    <3>3. Len(Sections(o)[s][i].elems[e]) \in Nat
      BY <3>1, <3>2, PropertyTypes DEF GoodAt
    <3>4. ElementAt(o, g) = Sections(o)[s][i].elems[e]
      BY <3>1, ElementPlace
    <3>5. QED
      BY <3>3, <3>4
  <2>3. J \in SUBSET (1..n) /\ IsFiniteSet(1..n)
    BY <2>1, <2>2, FS_Interval
  <2>4. IsFiniteSet(J)
    BY <2>3, FS_Subset
  <2>5. PICK f : f = [j \in J |-> PlaceOf(g, j)]
    OBVIOUS
  <2>6. f \in [J -> {f[j] : j \in J}] /\ {f[j] : j \in J} = {PlaceOf(g, j) : j \in J}
    BY <2>5
  <2>7. IsFiniteSet({f[j] : j \in J})
    BY <2>4, <2>6, ImageFinite
  <2>8. QED
    BY <2>1, <2>6, <2>7
<1>5. IsFiniteSet(Leaves(o, "pair"))
  <2>1. PICK f : f = [g \in C |-> {PlaceOf(g, j) :
                        j \in {k \in 1..Len(ElementAt(o, g)) : ElementAt(o, g)[k].kind = "pair"}}]
    OBVIOUS
  <2>2. f \in [C -> {f[g] : g \in C}] /\ \A g \in C : IsFiniteSet(f[g])
    BY <1>4, <2>1
  <2>3. IsFiniteSet(UNION {f[g] : g \in C})
    BY <1>2, <2>2, UnionFinite
  <2>4. Leaves(o, "pair") = UNION {f[g] : g \in C}
    BY <1>1, <2>1 DEF Leaves
  <2>5. QED
    BY <2>3, <2>4
<1>6. QED
  BY <1>1, <1>3, <1>5, FS_Union DEF ValuePlaces

(* One thing for each of finitely many places.                             *)
LEMMA OneEach ==
    ASSUME NEW A, NEW G, IsFiniteSet(G), NEW at,
           \A t \in A : \E g \in G : t.at = at[g],
           \A g \in G : \E t \in A : t.at = at[g],
           \A t, u \in A : t.at = u.at => t = u,
           \A g, h \in G : at[g] = at[h] => g = h
    PROVE  Cardinality(A) = Cardinality(G)
<1>1. PICK f : f = [g \in G |-> CHOOSE t \in A : t.at = at[g]]
  OBVIOUS
<1>2. \A g \in G : f[g] \in A /\ f[g].at = at[g]
  BY <1>1
<1>3. f \in [G -> A]
  BY <1>1, <1>2
<1>4. \A g, h \in G : f[g] = f[h] => g = h
  BY <1>2
<1>5. \A t \in A : \E g \in G : f[g] = t
  BY <1>2
<1>6. f \in Bijection(G, A)
  BY <1>3, <1>4, <1>5 DEF Bijection, Injection, Surjection, IsInjective
<1>7. ExistsBijection(G, A)
  BY <1>6 DEF ExistsBijection
<1>8. QED
  BY <1>7, FS_Bijection

(* What is stored of an item that is kept.                                 *)
LEMMA ItemKept ==
    ASSUME NEW item \in Item, ItemOutcome(item) = "ok", NEW i \in 1..Len(item.values)
    PROVE  KeptAs(item, i, Parsed(ItemType(item), item.values[i]))
<1>1. PICK n \in Nat : n = Len(item.values)
  <2>1. CASE item \in [list : {TRUE}, values : Seq(JSON)]
    BY <2>1
  <2>2. CASE item \in [list : {FALSE}, values : [1..1 -> JSON]]
    <3>1. item.values \in [1..1 -> JSON] /\ 1 \in Nat
      BY <2>2
    <3>2. QED
      BY <3>1, FunctionIsSequence
  <2>3. QED
    BY <2>1, <2>2 DEF Item
<1>2. \A j \in 1..n : item.values[j] \in JSON
  <2>1. CASE item \in [list : {TRUE}, values : Seq(JSON)]
    BY <1>1, <2>1
  <2>2. CASE item \in [list : {FALSE}, values : [1..1 -> JSON]]
    <3>1. item.values \in [1..1 -> JSON] /\ 1 \in Nat
      BY <2>2
    <3>2. n = 1
      BY <1>1, <3>1, FunctionIsSequence
    <3>3. QED
      BY <3>1, <3>2
  <2>3. QED
    BY <2>1, <2>2 DEF Item
<1>3. BadValues(item) = {} /\ ItemType(item) \in {"long", "string"}
  BY DEF ItemOutcome
<1>4. PICK t, v, w : t = ItemType(item) /\ v = item.values[i] /\ w = item.values[1]
  OBVIOUS
<1>5. Parsed(t, v) \notin {"invalid", "fatal"}
  BY <1>3, <1>4 DEF BadValues
<1>6. v \in JSON
  BY <1>1, <1>2, <1>4
<1>7. t \in {"long", "string"} /\ (t = "long" => w \in {"int", "bool"})
  <2>1. item.values # <<>>
    BY <1>1
  <2>2. t = DefaultType(w)
    BY <1>4, <2>1 DEF ItemType
  <2>3. QED
    BY <1>3, <1>4, <2>2 DEF DefaultType
<1>8. CASE t = "long"
  <2>1. v \in Numeral /\ Parsed(t, v) = "int"
    BY <1>5, <1>8 DEF Parsed
  <2>2. v = "int" \/ (v \in {"bool", "float", "digits"} /\ w \in {"int", "bool"})
    BY <1>7, <1>8, <2>1 DEF Numeral
  <2>3. QED
    BY <1>4, <2>1, <2>2 DEF KeptAs
<1>9. CASE t = "string"
  <2>1. Parsed(t, v) = v
    BY <1>5, <1>9 DEF Parsed
  <2>2. QED
    BY <1>4, <2>1 DEF KeptAs
<1>10. QED
  BY <1>7, <1>8, <1>9

(* All is before the last stage.                                           *)
LEMMA AllBefore ==
    \A o, n : /\ PlacesBefore(o, "order", n) = ValuePlaces(o)
              /\ \A kind : GoodBefore(o, kind, "order", n) = GoodElements(o, {kind})
BY DEF PlacesBefore, GoodBefore, Before

(* The query of a main object, whole when its bundle is.                   *)
Complete(q, o, b) ==
    /\ BundleIs(o, b, ValuePlaces(o), GoodElements(o, {"attribute"}), GoodElements(o, {"reference"}))
    /\ b.marking # "" /\ b.marking \in {"", "entity", "relation"}
    /\ q.obj = o /\ q.part = b.marking /\ q.match = b.main.match
    /\ q.insert = b.main.insert \cup b.attributes

(* The values among its things: one for the object, one for each place.    *)
LEMMA CompleteValues ==
    ASSUME NEW o \in Object, NEW q, NEW b, Complete(q, o, b)
    PROVE  /\ {t.at : t \in Values(q)} = {MainPlace} \cup ValuePlaces(o)
           /\ \A t, u \in Values(q) : t.at = u.at => t = u
           /\ Helpers(q) = {t \in b.attributes : t.roles # <<>>}
           /\ b.main.insert \subseteq Values(q)
           /\ \A t \in b.attributes : t.roles = <<>> => t \in Values(q)
           /\ \A t \in Values(q) : ThingAt(q, t.at) = t
<1>1. PICK m, A, P : b.main.insert = {m} /\ m.at = MainPlace /\ A = b.attributes /\ P = ValuePlaces(o)
  BY DEF Complete, BundleIs
<1>2. Exact(A, P) /\ q.insert = {m} \cup A
  BY <1>1 DEF Complete, BundleIs
<1>3. \A t \in A : t.at \in P /\ t.at # MainPlace
  BY <1>1, <1>2, PlaceFacts DEF Exact
<1>4. Helpers(q) = {t \in A : t.roles # <<>>}
  BY <1>1, <1>2, <1>3 DEF Helpers
<1>5. Values(q) = {m} \cup {t \in A : t.roles = <<>>}
  BY <1>1, <1>2, <1>3, <1>4 DEF Values
<1>6. \A t, u \in Values(q) : t.at = u.at => t = u
  BY <1>1, <1>2, <1>3, <1>5 DEF Exact
<1>7. \A at \in P : \E t \in Values(q) : t.at = at
  BY <1>2, <1>5 DEF Exact
<1>8. {t.at : t \in Values(q)} = {MainPlace} \cup P
  BY <1>1, <1>3, <1>5, <1>7
<1>9. ASSUME NEW t \in Values(q)
      PROVE  ThingAt(q, t.at) = t
  <2>1. ThingAt(q, t.at) \in Values(q) /\ ThingAt(q, t.at).at = t.at
    BY DEF ThingAt
  <2>2. QED
    BY <1>6, <2>1
<1>10. QED
  BY <1>1, <1>4, <1>5, <1>6, <1>8, <1>9

LEMMA ParentOfLeaf ==
    ASSUME NEW o \in Object, NEW kind, NEW at \in Leaves(o, kind)
    PROVE  \E s, i, e, j, parent :
            /\ at = <<s, i, e, j>> /\ LeafAt(o, s, i, e, j, kind)
            /\ parent = [at EXCEPT ![4] = 0] /\ parent = <<s, i, e, 0>>
            /\ parent \in ValuePlaces(o)
            /\ at = [parent EXCEPT ![4] = j]
<1>1. PICK s, i, e, j : at = <<s, i, e, j>> /\ LeafAt(o, s, i, e, j, kind)
  BY LeafIs
<1>2. PICK parent : parent = <<s, i, e, 0>>
  OBVIOUS
<1>3. parent = [at EXCEPT ![4] = 0] /\ at = [parent EXCEPT ![4] = j]
  BY <1>1, <1>2
<1>4. ValueAt(o, s, i, e, 0)
  BY <1>1 DEF LeafAt, GoodAt, ValueAt, GivesValue, StructuredKinds
<1>5. parent \in ValuePlaces(o)
  BY <1>2, <1>4, ValuePlaceIs
<1>6. QED
  BY <1>1, <1>2, <1>3, <1>5

LEMMA MainQueryWhole ==
    ASSUME NEW o \in Object, NEW q, NEW b, Complete(q, o, b)
    PROVE  WholeObject(q)
<1>1. PICK m, A, P : b.main.insert = {m} /\ m.at = MainPlace /\ A = b.attributes /\ P = ValuePlaces(o)
  BY DEF Complete, BundleIs
<1>2. /\ Exact(A, P) /\ Connected(A, {m} \cup A) /\ \A t \in A : Filled(o, t)
      /\ PlacesOwned(m) = {PlaceOf(g, 0) : g \in GoodElements(o, {"attribute"})}
      /\ b.marking = "relation" => RolesPlayed(o, b.main.match, m.roles)
      /\ q.insert = {m} \cup A /\ q.obj = o /\ q.part = b.marking /\ q.match = b.main.match
  BY <1>1 DEF Complete, BundleIs
<1>3. PICK H, V : H = Helpers(q) /\ V = Values(q)
  OBVIOUS
<1>4. /\ {t.at : t \in V} = {MainPlace} \cup P
      /\ \A t, u \in V : t.at = u.at => t = u
      /\ H = {t \in A : t.roles # <<>>}
      /\ m \in V
      /\ \A t \in A : t.roles = <<>> => t \in V
      /\ \A t \in V : ThingAt(q, t.at) = t
  BY <1>1, <1>3, CompleteValues
<1>5. ThingAt(q, MainPlace) = m
  BY <1>1, <1>4
<1>6. Cardinality(H) = Cardinality(P)
  <2>1. PICK at : at = [p \in P |-> p]
    OBVIOUS
  <2>2. IsFiniteSet(P)
    BY <1>1, PlacesFinite
  <2>3. /\ \A t \in H : \E g \in P : t.at = at[g]
        /\ \A g \in P : \E t \in H : t.at = at[g]
        /\ \A t, u \in H : t.at = u.at => t = u
        /\ \A g, h \in P : at[g] = at[h] => g = h
    BY <1>2, <1>4, <2>1 DEF Exact
  <2>4. QED
    BY <2>2, <2>3, OneEach
<1>7. ASSUME NEW at \in P
      PROVE  \E h \in H : h.roles = <<{ThingAt(q, OwnerPlace(at)).var}, {ThingAt(q, at).var}>>
  <2>1. PICK h \in A : h.at = at /\ h.roles # <<>>
    BY <1>2 DEF Exact
  <2>2. PICK v \in A, w \in {m} \cup A :
            /\ v.at = h.at /\ v.roles = <<>>
            /\ w.at = OwnerPlace(h.at) /\ (w.at = MainPlace \/ w.roles = <<>>)
            /\ h.roles = <<{w.var}, {v.var}>>
    BY <1>2, <2>1 DEF Connected
  <2>3. v \in V
    BY <1>4, <2>2
  <2>4. w \in V
    <3>1. \A t \in A : t.at # MainPlace
      BY <1>1, <1>2, PlaceFacts DEF Exact
    <3>2. QED
      BY <1>4, <2>2, <3>1
  <2>5. ThingAt(q, OwnerPlace(at)) = w /\ ThingAt(q, at) = v
    BY <1>4, <2>1, <2>2, <2>3, <2>4
  <2>6. h \in H
    BY <1>4, <2>1
  <2>7. QED
    BY <2>2, <2>5, <2>6
<1>8. {s.at : s \in m.owns} = {PlaceOf(g, 0) : g \in GoodElements(o, {"attribute"})}
  BY <1>2 DEF PlacesOwned
<1>9. ASSUME NEW at \in Leaves(o, "value")
       PROVE  \E s \in ThingAt(q, [at EXCEPT ![4] = 0]).owns : s.at = at
  <2>1. PICK s, i, e, j, parent :
            /\ at = <<s, i, e, j>> /\ LeafAt(o, s, i, e, j, "value")
            /\ parent = [at EXCEPT ![4] = 0] /\ parent = <<s, i, e, 0>>
            /\ parent \in P /\ at = [parent EXCEPT ![4] = j]
    BY <1>1, ParentOfLeaf
  <2>2. PICK v \in A : v.at = parent /\ v.roles = <<>>
    BY <1>2, <2>1 DEF Exact
  <2>3. ThingAt(q, parent) = v
    BY <1>4, <2>2
  <2>4. PICK p, x : p = Sections(o)[s][i] /\ x = p.elems[e]
    OBVIOUS
  <2>5. /\ p.kind = "composite" /\ j \in 1..Len(x) /\ x[j].kind = "value"
        /\ Len(x) \in Nat
    <3>1. p.kind = "composite" /\ j \in 1..Len(x) /\ x[j].kind = "value" /\ e \in 1..Len(p.elems)
      BY <2>1, <2>4 DEF LeafAt, GoodAt
    <3>2. p \in Property
      BY <2>1, <2>4, GoodAtTypes DEF LeafAt
    <3>3. QED
      BY <2>4, <3>1, <3>2, PropertyTypes
  <2>6. Owns(v, parent, x, Len(x) + 1)
    <3>1. v.at[1] = s /\ v.at[2] = i /\ v.at[3] = e /\ v.at[4] = 0 /\ Filled(o, v)
      BY <1>2, <2>1, <2>2
    <3>2. QED
      BY <2>2, <2>4, <2>5, <3>1 DEF Filled
  <2>7. \E y \in v.owns : y.at = [parent EXCEPT ![4] = j]
    <3>1. j \in 1..(Len(x) + 1 - 1)
      BY <2>5
    <3>2. QED
      BY <2>5, <2>6, <3>1 DEF Owns
  <2>8. QED
    BY <2>1, <2>3, <2>7
<1>10. q.part = "relation" => RolesPlayed(o, q.match, ThingAt(q, MainPlace).roles)
  BY <1>2, <1>5
<1>11. /\ {t.at : t \in Values(q)} = {MainPlace} \cup ValuePlaces(o)
       /\ \A t, u \in Values(q) : t.at = u.at => t = u
       /\ Cardinality(Helpers(q)) = Cardinality(ValuePlaces(o))
  BY <1>1, <1>3, <1>4, <1>6
<1>12. \A at \in ValuePlaces(o) : \E h \in Helpers(q) :
            h.roles = <<{ThingAt(q, OwnerPlace(at)).var}, {ThingAt(q, at).var}>>
  BY <1>1, <1>3, <1>7
<1>13. {s.at : s \in ThingAt(q, MainPlace).owns} = {PlaceOf(g, 0) : g \in GoodElements(o, {"attribute"})}
  BY <1>5, <1>8
<1>14. q.obj = o
  BY <1>2
<1>15. QED
  BY <1>9, <1>10, <1>11, <1>12, <1>13, <1>14, Zenon DEF WholeObject

(* A dictionary is kept by the query that its value is in.                 *)
LEMMA DictionaryKept ==
    ASSUME NEW o \in Object, NEW q, NEW b, Complete(q, o, b),
           NEW g \in GoodElements(o, {"dictionary"})
    PROVE  Keeps(q, g)
<1>1. PICK s, i, e, p, item, at :
        /\ s = g[1] /\ i = g[2] /\ e = g[3] /\ p = Sections(o)[s][i] /\ item = p.elems[e]
        /\ at = PlaceOf(g, 0)
  OBVIOUS
<1>2. /\ g = <<s, i, e>> /\ s \in {"props", "ext"} /\ i \in 1..Len(Sections(o)[s])
      /\ Good(p) /\ p.kind = "dictionary" /\ e \in 1..Len(p.elems)
  BY <1>1, ElementFacts
<1>3. item = ElementAt(o, g) /\ at = <<s, i, e, 0>> /\ \A j : PlaceOf(g, j) = <<s, i, e, j>>
  <2>1. ElementAt(o, g) = Sections(o)[s][i].elems[e] /\ \A j : PlaceOf(g, j) = <<s, i, e, j>>
    BY <1>2, ElementPlace
  <2>2. QED
    BY <1>1, <2>1
<1>4. p \in Property
  <2>1. Sections(o)[s] \in Seq(Property)
    BY <1>2, SectionTypes
  <2>2. QED
    BY <1>1, <1>2, <2>1
<1>5. item \in Item
  BY <1>1, <1>2, <1>4, PropertyTypes
<1>6. ItemOutcome(item) = "ok"
  <2>1. Outcome(p.kind, item) = "ok"
    BY <1>1, <1>2 DEF Good
  <2>2. QED
    BY <1>2, <2>1 DEF Outcome
<1>7. at \in ValuePlaces(o)
  <2>1. g \in GoodElements(o, {"composite", "pairs", "dictionary"})
    <3>1. GoodAt(o, s, i, e, {"composite", "pairs", "dictionary"})
      BY <1>1, <1>2 DEF GoodAt
    <3>2. QED
      BY <1>2, <3>1, GoodElementIs
  <2>2. QED
    BY <1>1, <2>1 DEF ValuePlaces
<1>8. PICK v \in b.attributes : v.at = at /\ v.roles = <<>>
  BY <1>7 DEF Complete, BundleIs, Exact
<1>9. OwnsItems(v, at, item)
  <2>1. v.at[1] = s /\ v.at[2] = i /\ v.at[3] = e /\ v.at[4] = 0
    BY <1>3, <1>8
  <2>2. Filled(o, v)
    BY DEF Complete, BundleIs
  <2>3. QED
    BY <1>1, <1>2, <1>8, <2>1, <2>2 DEF Filled
<1>10. v \in Sole(q.insert, at) /\ q.obj = o
  BY <1>8 DEF Sole, Complete
<1>11. ASSUME NEW j \in 1..Len(item.values)
       PROVE  \E x \in UNION {t.owns : t \in Sole(q.insert, PlaceOf(g, 0))} :
                    x.at = PlaceOf(g, j) /\ KeptAs(item, j, x.as)
  <2>1. PICK kind : kind = Parsed(ItemType(item), item.values[j])
    OBVIOUS
  <2>2. [at |-> [at EXCEPT ![4] = j], as |-> kind] \in v.owns
    BY <1>9, <2>1 DEF OwnsItems
  <2>3. PICK x : x = [at |-> <<s, i, e, j>>, as |-> kind]
    OBVIOUS
  <2>4. [at EXCEPT ![4] = j] = <<s, i, e, j>>
    BY <1>3
  <2>5. x \in v.owns /\ x.at = PlaceOf(g, j) /\ x.as = kind
    BY <1>3, <2>2, <2>3, <2>4
  <2>6. KeptAs(item, j, kind)
    BY <1>5, <1>6, <2>1, ItemKept
  <2>7. QED
    BY <1>1, <1>10, <2>5, <2>6
<1>12. QED
  BY <1>3, <1>10, <1>11 DEF Keeps

(* Reached the last stage, an object of a query has its bundle whole.      *)
LEMMA CompleteAtOrder ==
    ASSUME TypeInv, BundleWhole, stage = "order", next <= Len(file), bundle.marking # ""
    PROVE  Current \in Object /\ Complete(MainQuery, Current, bundle)
<1>1. PICK o, b, n : o = Current /\ b = bundle /\ n = prop
  OBVIOUS
<1>2. o \in Object
  BY <1>1, TypeFacts
<1>3. BundleIs(o, b, PlacesBefore(o, "order", n), GoodBefore(o, "attribute", "order", n),
               GoodBefore(o, "reference", "order", n))
  BY <1>1 DEF BundleWhole
<1>4. BundleIs(o, b, ValuePlaces(o), GoodElements(o, {"attribute"}), GoodElements(o, {"reference"}))
  BY <1>3, AllBefore
<1>5. b.marking \in {"", "entity", "relation"}
  BY <1>1, TypeFacts DEF BundleType
<1>6. QED
  BY <1>1, <1>2, <1>4, <1>5, QueriesMade DEF Complete

LEMMA WholeMainQuery ==
    ASSUME TypeInv, BundleWhole, stage = "order", next <= Len(file), bundle.marking # ""
    PROVE  Whole(MainQuery)
<1>1. PICK o, q, b : o = Current /\ q = MainQuery /\ b = bundle
  OBVIOUS
<1>2. o \in Object /\ Complete(q, o, b)
  BY <1>1, CompleteAtOrder
<1>3. q.part # "embedded" /\ q.obj = o
  BY <1>2 DEF Complete
<1>4. WholeObject(q) /\ \A g \in GoodElements(o, {"dictionary"}) : Keeps(q, g)
  BY <1>2, MainQueryWhole, DictionaryKept
<1>5. QED
  BY <1>1, <1>3, <1>4 DEF Whole

(* The ids that a variable of a clause matches, when it is of one thing.   *)
Ids(match, vars) == Matched({t \in match : t.var \in vars})

LEMMA IdsMatched ==
    ASSUME NEW match, NEW x \in match, \A t, u \in match : t.var = u.var => t = u,
           NEW vars, vars = {x.var}
    PROVE  Ids(match, vars) = x.ids
<1>1. {t \in match : t.var \in vars} = {x}
  OBVIOUS
<1>2. QED
  BY <1>1 DEF Ids, Matched

(* One relation of the embedded query for each reference.                  *)
LEMMA ReferencesWhole ==
    ASSUME NEW o \in Object, NEW q, NEW b, b.match = q.match, b.insert = q.insert, q.obj = o,
           Referred(o, b, GoodElements(o, {"reference"})),
           \A t, u \in q.match : t.var = u.var => t = u
    PROVE  WholeReferences(q)
<1>1. PICK G, M, I : G = GoodElements(o, {"reference"}) /\ M = q.match /\ I = q.insert
  OBVIOUS
<1>2. /\ \A t \in I : \E g \in G : t.at = PlaceOf(g, 0)
      /\ \A t, u \in I : t.at = u.at => t = u
      /\ \A g \in G : \E t \in I, x, y \in M :
            /\ t.at = PlaceOf(g, 0) /\ t.roles = <<{x.var}, {y.var}>>
            /\ x.ids = {Content[o].id} /\ y.ids = {ElementAt(o, g)}
  BY <1>1 DEF Referred
<1>3. Cardinality(I) = Cardinality(G)
  <2>1. PICK at : at = [g \in G |-> PlaceOf(g, 0)]
    OBVIOUS
  <2>2. IsFiniteSet(G)
    BY <1>1, ElementsFinite
  <2>3. \A g, h \in G : PlaceOf(g, 0) = PlaceOf(h, 0) => g = h
    <3>1. \A g \in G : g = <<g[1], g[2], g[3]>>
      BY <1>1, ElementFacts
    <3>2. \A g, h : PlaceOf(g, 0) = PlaceOf(h, 0) => g[1] = h[1] /\ g[2] = h[2] /\ g[3] = h[3]
      BY DEF PlaceOf
    <3>3. ASSUME NEW g \in G, NEW h \in G, PlaceOf(g, 0) = PlaceOf(h, 0) PROVE g = h
      <4>1. PICK s, i, e : s = g[1] /\ i = g[2] /\ e = g[3]
        OBVIOUS
      <4>2. g = <<s, i, e>> /\ h = <<s, i, e>>
        BY <3>1, <3>2, <3>3, <4>1
      <4>3. QED
        BY <4>2
    <3>4. QED
      BY <3>3
  <2>4. /\ \A t \in I : \E g \in G : t.at = at[g]
        /\ \A g \in G : \E t \in I : t.at = at[g]
        /\ \A t, u \in I : t.at = u.at => t = u
        /\ \A g, h \in G : at[g] = at[h] => g = h
    BY <1>2, <2>1, <2>3
  <2>5. QED
    BY <2>2, <2>4, OneEach
<1>4. ASSUME NEW g \in G
      PROVE  \E t \in I :
                /\ t.at = PlaceOf(g, 0) /\ Len(t.roles) = 2
                /\ Ids(M, t.roles[1]) = {Content[o].id}
                /\ Ids(M, t.roles[2]) = {ElementAt(o, g)}
  <2>1. PICK t \in I, x \in M, y \in M :
            /\ t.at = PlaceOf(g, 0) /\ t.roles = <<{x.var}, {y.var}>>
            /\ x.ids = {Content[o].id} /\ y.ids = {ElementAt(o, g)}
    BY <1>2
  <2>2. Len(t.roles) = 2 /\ t.roles[1] = {x.var} /\ t.roles[2] = {y.var}
    BY <2>1
  <2>3. PICK v, w : v = t.roles[1] /\ w = t.roles[2]
    OBVIOUS
  <2>4. \A a, c \in M : a.var = c.var => a = c
    BY <1>1
  <2>5. Ids(M, v) = x.ids
    BY <2>2, <2>3, <2>4, IdsMatched
  <2>6. Ids(M, w) = y.ids
    BY <2>2, <2>3, <2>4, IdsMatched
  <2>7. QED
    BY <2>1, <2>2, <2>3, <2>5, <2>6
<1>5. QED
  BY <1>1, <1>3, <1>4 DEF WholeReferences, Ids

LEMMA WholeEmbeddedQuery ==
    ASSUME TypeInv, NamesInv, BundleWhole, MarkingInv, stage = "order", next <= Len(file),
           bundle.embedded.insert # {}
    PROVE  Whole(EmbeddedQuery)
<1>1. PICK o, q, b : o = Current /\ q = EmbeddedQuery /\ b = bundle.embedded
  OBVIOUS
<1>2. bundle.marking # ""
  BY Empties DEF MarkingInv
<1>3. Complete(MainQuery, Current, bundle) /\ o \in Object
  BY <1>1, <1>2, CompleteAtOrder
<1>4. Referred(o, b, GoodElements(o, {"reference"}))
  BY <1>1, <1>3 DEF Complete, BundleIs
<1>5. q.obj = o /\ q.part = "embedded" /\ b.match = q.match /\ b.insert = q.insert
  BY <1>1, QueriesMade
<1>6. \A t, u \in q.match : t.var = u.var => t = u
  <2>1. \A t, u \in Parts["ends"] : t.var = u.var => t = u
    BY DEF NamesInv, Named, PartNames
  <2>2. q.match \subseteq Parts["ends"]
    BY <1>1, <1>5, PartFields
  <2>3. QED
    BY <2>1, <2>2
<1>7. WholeReferences(q)
  BY <1>3, <1>4, <1>5, <1>6, ReferencesWhole
<1>8. QED
  BY <1>1, <1>5, <1>7 DEF Whole

(* What the lists and the texts hold.                                      *)
LEMMA OrderWhole ==
    ASSUME TypeInv, NamesInv, BundleWhole, MarkingInv, ListsWhole, Order
    PROVE  ListsWhole'
<1>1. stage = "order" /\ next <= Len(file) /\ texts' = texts
  BY OrderLists DEF Order
<1>2. ASSUME NEW l \in 1..3, l > Len(texts), NEW i \in 1..Len(lists'[l])
      PROVE  Whole(lists'[l][i])
  <2>1. PICK s, q : s = lists[l] /\ q = lists'[l][i]
    OBVIOUS
  <2>2. s \in Seq(Query) /\ \A j \in 1..Len(s) : Whole(s[j])
    BY <1>2, <2>1, TypesOK DEF TypeInv, Types, ListsWhole
  <2>3. ASSUME NEW x, Whole(x), lists'[l] = Append(s, x) PROVE Whole(q)
    <3>1. q = x \/ \E j \in 1..Len(s) : q = s[j]
      BY <1>2, <2>1, <2>2, <2>3
    <3>2. QED
      BY <2>2, <2>3, <3>1
  <2>4. CASE lists'[l] = s
    BY <1>2, <2>1, <2>2, <2>4
  <2>5. CASE lists'[l] = Append(s, EmbeddedQuery) /\ bundle.embedded.insert # {}
    <3>1. Whole(EmbeddedQuery)
      BY <1>1, <2>5, WholeEmbeddedQuery
    <3>2. PICK x : x = EmbeddedQuery
      OBVIOUS
    <3>3. Whole(x)
      BY <3>1, <3>2, Zenon
    <3>4. lists'[l] = Append(s, x)
      BY <2>5, <3>2
    <3>5. QED
      BY <2>1, <2>3, <3>3, <3>4
  <2>6. CASE lists'[l] = Append(s, MainQuery) /\ bundle.marking # ""
    <3>1. Whole(MainQuery)
      BY <1>1, <2>6, WholeMainQuery
    <3>2. PICK x : x = MainQuery
      OBVIOUS
    <3>3. Whole(x)
      BY <3>1, <3>2, Zenon
    <3>4. lists'[l] = Append(s, x)
      BY <2>6, <3>2
    <3>5. QED
      BY <2>1, <2>3, <3>3, <3>4
  <2>7. Whole(q)
    BY <2>1, <2>4, <2>5, <2>6, OrderLists
  <2>8. QED
    BY <2>1, <2>7
<1>3. QED
  BY <1>1, <1>2 DEF ListsWhole

LEMMA TextsKeepLists == TypeInv /\ ListsWhole /\ BuildTexts => ListsWhole'
<1> SUFFICES ASSUME TypeInv, ListsWhole, BuildTexts PROVE ListsWhole'
  OBVIOUS
<1>1. PICK k \in 1..3 : /\ k = Len(texts) + 1 /\ lists[k] \in Seq(Query)
                        /\ texts' = Append(texts, lists[k])
                        /\ \A j \in 1..3 : j # k => lists'[j] = lists[j]
  BY TextsBuilt
<1>2. texts \in Seq(Seq(Query))
  BY TypesOK DEF TypeInv, Types
<1>3. Len(texts') = k /\ Len(texts) \in Nat
  <2>1. PICK s \in Seq(Query) : s = lists[k]
    BY <1>1
  <2>2. QED
    BY <1>1, <1>2, <2>1
<1>4. \A l \in 1..3 : l > Len(texts') => l > Len(texts) /\ lists'[l] = lists[l]
  BY <1>1, <1>3
<1>5. QED
  BY <1>4 DEF ListsWhole

LEMMA TextsWholeNext == TypeInv /\ ListsWhole /\ SentWhole /\ BuildTexts => SentWhole'
<1> SUFFICES ASSUME TypeInv, ListsWhole, SentWhole, BuildTexts, NEW q \in Sent' PROVE Whole(q)
  BY DEF SentWhole, Whole
<1>1. PICK k \in 1..3 : /\ k = Len(texts) + 1 /\ lists[k] \in Seq(Query)
                        /\ texts' = Append(texts, lists[k])
  BY TextsBuilt
<1>2. texts \in Seq(Seq(Query)) /\ Len(texts) \in Nat
  BY TypesOK DEF TypeInv, Types
<1>3. PICK s \in Seq(Query) : s = lists[k]
  BY <1>1
<1>4. Len(texts') = k /\ texts'[k] = s /\ \A l \in 1..Len(texts) : texts'[l] = texts[l]
  BY <1>1, <1>2, <1>3
<1>5. PICK l \in 1..Len(texts') : \E i \in 1..Len(texts'[l]) : q = texts'[l][i]
  BY DEF Sent
<1>6. CASE l = k
  <2>1. \A i \in 1..Len(s) : Whole(s[i])
    BY <1>1, <1>2, <1>3 DEF ListsWhole
  <2>2. QED
    BY <1>4, <1>5, <1>6, <2>1
<1>7. CASE l \in 1..Len(texts)
  <2>1. q \in Sent
    BY <1>4, <1>5, <1>7 DEF Sent
  <2>2. QED
    BY <2>1 DEF SentWhole
<1>8. QED
  BY <1>1, <1>2, <1>4, <1>5, <1>6, <1>7

(***************************************************************************)
(* The inductive invariant of the texts: the variables and positions of    *)
(* before; what the loops have in hand and the bundle are whole as far as  *)
(* the conversion has come; and so are the queries that wait in the lists  *)
(* and those whose text is built.                                          *)
(***************************************************************************)
TextsInv == /\ VariablesInv /\ RefinementInv
            /\ LocalWhole /\ BundleWhole /\ MarkingInv
            /\ ListsWhole /\ SentWhole

LEMMA TextsInitially == QueriesInit => TextsInv
<1> SUFFICES ASSUME QueriesInit PROVE TextsInv
  OBVIOUS
<1>1. VariablesInv /\ RefinementInv
  BY VariablesInitially, RefinementInitially
<1>2. stage = "read" /\ bundle = EmptyBundle /\ lists = [l \in 1..3 |-> <<>>] /\ texts = <<>>
  BY DEF QueriesInit
<1>3. LocalWhole /\ BundleWhole /\ MarkingInv
  BY <1>2 DEF LocalWhole, Converting, BundleWhole, MarkingInv
<1>4. ListsWhole
  <2>1. \A l \in 1..3 : 1..Len(lists[l]) = {}
    BY <1>2
  <2>2. QED
    BY <2>1 DEF ListsWhole
<1>5. SentWhole
  <2>1. 1..Len(texts) = {}
    BY <1>2
  <2>2. QED
    BY <2>1 DEF SentWhole, Sent
<1>6. QED
  BY <1>1, <1>3, <1>4, <1>5 DEF TextsInv

LEMMA TextsNext == TextsInv /\ [QueriesNext]_queryVars => TextsInv'
<1> SUFFICES ASSUME TextsInv, [QueriesNext]_queryVars PROVE TextsInv'
  OBVIOUS
<1>1. /\ VariablesInv /\ RefinementInv /\ LocalWhole /\ BundleWhole /\ MarkingInv
      /\ ListsWhole /\ SentWhole
  BY DEF TextsInv
<1>2. TypeInv /\ NamesInv /\ LocalInv /\ MainInv
  BY <1>1 DEF VariablesInv, RefinementInv
<1>3. VariablesInv' /\ RefinementInv'
  BY <1>1, VariablesNext, RefinementNext
<1>4. LocalWhole' /\ BundleWhole' /\ MarkingInv'
  BY <1>1, <1>2, LocalWholeNext, BundleWholeNext, MarkingNext
<1>5. ListsWhole' /\ SentWhole'
  <2>1. CASE Order
    <3>1. texts' = texts
      BY <2>1 DEF Order
    <3>2. QED
      BY <1>1, <1>2, <2>1, <3>1, OrderWhole DEF SentWhole, Sent
  <2>2. CASE BuildTexts
    BY <1>1, <1>2, <2>2, TextsKeepLists, TextsWholeNext
  <2>3. CASE ~Order /\ ~BuildTexts
    <3>1. lists' = lists /\ texts' = texts
      BY <2>3 DEF QueriesNext, queryVars, Read, Finish, Create, CreateRaises, AddMainEntity,
                  AddMainRelation, AddMainRaises, ConvertAttribute, BeginComposite,
                  ConvertLeafValue, ConvertLeafPair, EndComposite, ConvertPair, ConvertItem,
                  ConvertReference, DropProperty, DropObject, PropertyDone, SectionDone
    <3>2. QED
      BY <1>1, <3>1 DEF ListsWhole, SentWhole, Sent
  <2>4. QED
    BY <2>1, <2>2, <2>3
<1>6. QED
  BY <1>3, <1>4, <1>5 DEF TextsInv

(* The text of a query inserts the whole object and nothing else: each of  *)
(* its structured values once, connected to its owner by one relation with *)
(* both roles, its attributes, and the players of its roles; the text of   *)
(* its embedded relations has one for each reference, between the object   *)
(* and the target.  So it is for every file, however the values of its     *)
(* objects nest and whichever of them fail.                                *)
THEOREM TextsWholeCorrect == QueriesSpec => []TextsWhole
<1>1. TextsInv => TextsWhole
  BY DEF TextsInv, SentWhole, Whole, TextsWhole
<1>2. QED
  BY <1>1, TextsInitially, TextsNext, PTL DEF QueriesSpec

(* The values of a dictionary are stored as they were given, but for the   *)
(* two coercions that the code makes: a boolean becomes a number, and so   *)
(* does every numeral in a list that begins with a number or a boolean.    *)
THEOREM DictionariesKeptCorrect == QueriesSpec => []DictionariesKept
<1>1. TextsInv => DictionariesKept
  <2> SUFFICES ASSUME SentWhole, NEW q \in Sent, NEW g \in GoodElements(q.obj, {"dictionary"}),
                      q.part # "embedded"
               PROVE  Keeps(q, g)
    BY DEF TextsInv, DictionariesKept, Keeps
  <2>1. QED
    BY DEF SentWhole, Whole
<1>2. QED
  BY <1>1, TextsInitially, TextsNext, PTL DEF QueriesSpec
=============================================================================
