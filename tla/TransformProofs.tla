--------------------------- MODULE TransformProofs ---------------------------
(***************************************************************************)
(* What the transformation hands to the loader, for every mapping, every   *)
(* set of objects and every file.                                          *)
(***************************************************************************)
EXTENDS Transform, SetLemmas

(***************************************************************************)
(* Types.  A reference that is converted has only targets whose type is    *)
(* known, so that the embedded relations refer to identifiers.             *)
(***************************************************************************)
InFile == stage \in {"create", "main", "props", "ext", "order"} => next <= Len(file)
TypeInv == TransformTypeOK /\ InFile

LEMMA EmptyType == EmptyBundle \in Bundle
BY DEF EmptyBundle, Bundle

LEMMA ExtendType ==
    ASSUME NEW b \in Bundle, NEW pos \in Position, NEW p, ~Fails(p)
    PROVE  Extend(b, pos, p) \in Bundle
<1>1. CASE p.kind = "attribute" /\ p.elems # <<>>
  <2>1. Extend(b, pos, p) = [b EXCEPT !.has = @ \cup {pos}]
    BY <1>1 DEF Extend
  <2>2. QED
    BY <2>1 DEF Bundle
<1>2. CASE p.kind = "structured" /\ p.elems # <<>>
  <2>1. Extend(b, pos, p) = [b EXCEPT !.attributes = @ \cup {pos}]
    BY <1>2 DEF Extend
  <2>2. QED
    BY <2>1 DEF Bundle
<1>3. CASE p.kind = "reference"
  <2>1. Extend(b, pos, p) = [b EXCEPT !.links = @ \cup ({pos} \X Elements(p))]
    BY <1>3 DEF Extend
  <2>2. Elements(p) \subseteq Id
    BY <1>3, TransformAssumption DEF Fails, Bad, Elements
  <2>3. {pos} \X Elements(p) \subseteq Position \X Id
    BY <2>2
  <2>4. QED
    BY <2>1, <2>3 DEF Bundle
<1>4. CASE /\ ~(p.kind = "attribute" /\ p.elems # <<>>)
           /\ ~(p.kind = "structured" /\ p.elems # <<>>) /\ p.kind # "reference"
  BY <1>4 DEF Extend
<1>5. QED
  BY <1>1, <1>2, <1>3, <1>4

(* The marking of a bundle is not changed once it is made.                 *)
LEMMA ExtendMarking ==
    ASSUME NEW b \in Bundle, NEW pos, NEW p
    PROVE  Extend(b, pos, p).marking = b.marking
<1>1. \/ Extend(b, pos, p) = b
      \/ Extend(b, pos, p) = [b EXCEPT !.has = @ \cup {pos}]
      \/ Extend(b, pos, p) = [b EXCEPT !.attributes = @ \cup {pos}]
      \/ Extend(b, pos, p) = [b EXCEPT !.links = @ \cup ({pos} \X Elements(p))]
  BY DEF Extend
<1>2. QED
  BY <1>1 DEF Bundle

LEMMA FileType ==
    ASSUME TypeInv
    PROVE  /\ file \in Seq(Object) /\ Len(file) \in Nat /\ next \in Nat
           /\ next <= Len(file) => Current \in Object /\ stix \in STIXObject
           /\ \A i, j \in 1..Len(file) : file[i] = file[j] => i = j
<1>1. file \in Seq(Object) /\ \A i, j \in 1..Len(file) : file[i] = file[j] => i = j
  BY TransformAssumption DEF TypeInv, TransformTypeOK
<1>2. Len(file) \in Nat /\ next \in Nat /\ next >= 1
  BY <1>1 DEF TypeInv, TransformTypeOK
<1>3. next <= Len(file) => Current \in Object
  BY <1>1, <1>2 DEF Current
<1>4. QED
  BY <1>1, <1>2, <1>3, TransformAssumption DEF stix

(* The queries a finished bundle gives.                                    *)
LEMMA QueryType ==
    ASSUME TypeInv, next <= Len(file)
    PROVE  /\ MainQuery("entity") \in InsertQuery /\ MainQuery("relation") \in InsertQuery
           /\ EmbeddedQuery \in InsertQuery
<1>1. Current \in Object /\ stix.id \in Id /\ bundle \in Bundle
  BY FileType DEF TypeInv, TransformTypeOK, STIXObject
<1>2. bundle.has \subseteq Position /\ bundle.attributes \subseteq Position /\ bundle.match \subseteq Id
      /\ bundle.links \subseteq Position \X Id
  BY <1>1 DEF Bundle
<1>3. {k[1] : k \in bundle.links} \subseteq Position /\ {k[2] : k \in bundle.links} \subseteq Id
  BY <1>2
<1>4. MainQuery("entity") \in InsertQuery /\ MainQuery("relation") \in InsertQuery
  BY <1>1, <1>2 DEF MainQuery, InsertQuery, Part
<1>5. EmbeddedQuery \in InsertQuery
  BY <1>1, <1>3 DEF EmbeddedQuery, InsertQuery, Part
<1>6. QED
  BY <1>4, <1>5

LEMMA TypeInitially == TransformInit => TypeInv
<1> SUFFICES ASSUME TransformInit PROVE TypeInv
  OBVIOUS
<1>1. file \in Seq(Object)
  BY TransformAssumption DEF TransformInit
<1>2. next \in 1..(Len(file) + 1)
  BY <1>1 DEF TransformInit
<1>3. lists \in [1..3 -> Seq(InsertQuery)]
  <2>1. << >> \in Seq(InsertQuery)
    OBVIOUS
  <2>2. \A s \in Seq(InsertQuery) : <<s, s, s>> \in [1..3 -> Seq(InsertQuery)]
    OBVIOUS
  <2>3. QED
    BY <2>1, <2>2 DEF TransformInit
<1>4. QED
  BY <1>2, <1>3, EmptyType DEF TransformInit, TypeInv, TransformTypeOK, InFile

LEMMA TypeNext == TypeInv /\ [TransformNext]_transformVars => TypeInv'
<1> SUFFICES ASSUME TypeInv, [TransformNext]_transformVars PROVE TypeInv'
  OBVIOUS
<1>0. /\ file \in Files /\ next \in 1..(Len(file) + 1) /\ prop \in Nat \ {0} /\ bundle \in Bundle
      /\ lists \in [1..3 -> Seq(InsertQuery)] /\ Len(file) \in Nat /\ next \in Nat
  BY FileType DEF TypeInv, TransformTypeOK
<1>1. CASE UNCHANGED transformVars
  BY <1>1 DEF transformVars, TypeInv, TransformTypeOK, InFile
<1>2. ASSUME Skip, next <= Len(file)
      PROVE  TypeInv'
  BY <1>0, <1>2, EmptyType DEF Skip, TypeInv, TransformTypeOK, InFile
<1>3. CASE Read \/ ReadRaises \/ Finish \/ Create \/ PropertiesDone \/ ExtensionDone
  <2>1. UNCHANGED <<file, next, bundle, lists>> /\ prop' = 1
    BY <1>3 DEF Read, ReadRaises, Finish, Create, PropertiesDone, ExtensionDone, Enter
  <2>2. /\ stage' \in {"read", "create", "main", "props", "ext", "order", "done", "raised"}
        /\ stage' \in {"create", "main", "props", "ext", "order"} => next <= Len(file)
    BY <1>0, <1>3 DEF Read, ReadRaises, Finish, Create, PropertiesDone, ExtensionDone, Enter,
       TypeInv, InFile
  <2>3. QED
    BY <1>0, <2>1, <2>2 DEF TypeInv, TransformTypeOK, InFile
<1>4. CASE AddMainEntity \/ AddMainRelation
  <2>1. bundle' \in Bundle
    <3>1. CASE AddMainEntity
      BY <1>0, <3>1 DEF AddMainEntity, Bundle
    <3>2. CASE AddMainRelation
      <4>1. RolePlayers(Current) \subseteq Id
        BY <3>2, TransformAssumption DEF AddMainRelation, RolesFound
      <4>2. QED
        BY <1>0, <3>2, <4>1 DEF AddMainRelation, Bundle
    <3>3. QED
      BY <1>4, <3>1, <3>2
  <2>2. /\ UNCHANGED <<file, next, lists>> /\ prop' = 1 /\ stage' = "props" /\ stage = "main"
    BY <1>4 DEF AddMainEntity, AddMainRelation, Enter
  <2>3. QED
    BY <1>0, <2>1, <2>2 DEF TypeInv, TransformTypeOK, InFile
<1>5. CASE ConvertProperty \/ ConvertExtensionProperty
  <2>1. <<"props", prop>> \in Position /\ <<"ext", prop>> \in Position
    BY <1>0 DEF Position
  <2>2. bundle' \in Bundle
    BY <1>0, <1>5, <2>1, ExtendType DEF ConvertProperty, ConvertExtensionProperty
  <2>3. UNCHANGED <<file, next, lists, stage>> /\ prop' = prop + 1
    BY <1>5 DEF ConvertProperty, ConvertExtensionProperty
  <2>4. QED
    BY <1>0, <2>2, <2>3 DEF TypeInv, TransformTypeOK, InFile
<1>6. CASE CreateRaises \/ AddMainRaises \/ ConvertPropertyRaises \/ ConvertExtensionPropertyRaises
  <2>1. Skip /\ stage \in {"create", "main", "props", "ext"}
    BY <1>6 DEF CreateRaises, AddMainRaises, ConvertPropertyRaises, ConvertExtensionPropertyRaises
  <2>2. QED
    BY <1>2, <2>1 DEF TypeInv, InFile
<1>7. CASE Order
  <2>1. /\ stage = "order" /\ next <= Len(file) /\ next' = next + 1 /\ stage' = "read" /\ prop' = 1
        /\ bundle' = EmptyBundle /\ file' = file
    BY <1>7 DEF Order, Enter, TypeInv, InFile
  <2>2. lists' \in [1..3 -> Seq(InsertQuery)]
    <3>1. \A b \in BOOLEAN, s \in Seq(InsertQuery), q \in InsertQuery :
              AppendIf(b, s, q) \in Seq(InsertQuery)
      BY DEF AppendIf
    <3>2. lists[1] \in Seq(InsertQuery) /\ lists[2] \in Seq(InsertQuery)
          /\ lists[3] \in Seq(InsertQuery)
      BY <1>0
    <3>3. /\ AppendIf(bundle.marking = "entity", lists[1], MainQuery("entity")) \in Seq(InsertQuery)
          /\ AppendIf(bundle.marking = "relation", lists[2], MainQuery("relation")) \in Seq(InsertQuery)
          /\ AppendIf(bundle.links # {}, lists[3], EmbeddedQuery) \in Seq(InsertQuery)
      BY <2>1, <3>1, <3>2, QueryType
    <3>4. QED
      BY <1>7, <3>3 DEF Order
  <2>3. QED
    BY <1>0, <2>1, <2>2, EmptyType DEF TypeInv, TransformTypeOK, InFile
<1>8. QED
  BY <1>1, <1>3, <1>4, <1>5, <1>6, <1>7 DEF TransformNext

(* Every variable keeps its type: what is sent to the loader are queries   *)
(* that match on identifiers only.                                         *)
THEOREM TransformTypeCorrect == TransformSpec => []TransformTypeOK
<1>1. TypeInv => TransformTypeOK
  BY DEF TypeInv
<1>2. QED
  BY <1>1, TypeInitially, TypeNext, PTL DEF TransformSpec, TransformSteps

(***************************************************************************)
(* The order of the queries.  An object is converted once, and only a      *)
(* bundle with a main object collects embedded relations: the list a main  *)
(* object goes to is settled before its first property is converted, and   *)
(* a bundle that never gets one reaches order_bundle empty.                *)
(***************************************************************************)
FromFile(f, n, part, s) ==
    /\ \A i \in 1..Len(s) : s[i].part = part /\ \E k \in 1..n : s[i].obj = f[k]
    /\ \A i, j \in 1..Len(s) : s[i].obj = s[j].obj => i = j
Inserts(s, o) == \E i \in 1..Len(s) : s[i].obj = o
Supported(entities, relations, s) == \A i \in 1..Len(s) :
    /\ Content[s[i].obj].id \in s[i].needs
    /\ Inserts(entities, s[i].obj) \/ Inserts(relations, s[i].obj)

BundleInv ==
    /\ stage \in {"read", "create", "main"} => bundle = EmptyBundle
    /\ stage \in {"props", "ext"} => bundle.marking # ""
    /\ stage = "order" => bundle.marking # "" \/ bundle = EmptyBundle
ListsInv ==
    /\ FromFile(file, next - 1, "entity", lists[1])
    /\ FromFile(file, next - 1, "relation", lists[2])
    /\ FromFile(file, next - 1, "embedded", lists[3])
    /\ Supported(lists[1], lists[2], lists[3])
OrderInv == TypeInv /\ BundleInv /\ ListsInv

LEMMA AppendIfOK ==
    ASSUME NEW s \in Seq(InsertQuery), NEW q \in InsertQuery, NEW b \in BOOLEAN
    PROVE  /\ AppendIf(b, s, q) \in Seq(InsertQuery)
           /\ Len(s) \in Nat
           /\ Len(AppendIf(b, s, q)) = IF b THEN Len(s) + 1 ELSE Len(s)
           /\ \A i \in 1..Len(s) : AppendIf(b, s, q)[i] = s[i]
           /\ b => AppendIf(b, s, q)[Len(s) + 1] = q
BY DEF AppendIf

LEMMA FromFileAppend ==
    ASSUME NEW f \in Seq(Object), NEW n \in 1..Len(f),
           \A i, j \in 1..Len(f) : f[i] = f[j] => i = j,
           NEW part, NEW s \in Seq(InsertQuery), FromFile(f, n - 1, part, s),
           NEW q \in InsertQuery, q.part = part, q.obj = f[n], NEW b \in BOOLEAN
    PROVE  FromFile(f, n, part, AppendIf(b, s, q))
<1> DEFINE t == AppendIf(b, s, q)
<1>0. n \in Nat /\ n >= 1 /\ Len(s) \in Nat /\ Len(f) \in Nat
  OBVIOUS
<1>1. \A i \in 1..Len(t) : (i \in 1..Len(s) /\ t[i] = s[i]) \/ (i = Len(s) + 1 /\ t[i] = q)
  <2>1. /\ Len(t) = IF b THEN Len(s) + 1 ELSE Len(s)
        /\ \A i \in 1..Len(s) : t[i] = s[i]
        /\ b => t[Len(s) + 1] = q
    BY AppendIfOK
  <2> HIDE DEF t
  <2>2. QED
    BY <1>0, <2>1
<1>2. \A i \in 1..Len(s) : s[i].part = part /\ \E k \in 1..(n - 1) : s[i].obj = f[k]
  BY DEF FromFile
<1>3. \A i \in 1..Len(s) : s[i].obj # f[n]
  <2>1. \A k \in 1..(n - 1) : k \in 1..Len(f) /\ k # n
    BY <1>0
  <2>2. QED
    BY <1>2, <2>1
<1>4. ASSUME NEW i \in 1..Len(t)
      PROVE  t[i].part = part /\ \E k \in 1..n : t[i].obj = f[k]
  <2>1. CASE i \in 1..Len(s) /\ t[i] = s[i]
    <3>1. \A k \in 1..(n - 1) : k \in 1..n
      BY <1>0
    <3>2. QED
      BY <1>2, <2>1, <3>1
  <2>2. CASE t[i] = q
    BY <1>0, <2>2
  <2>3. QED
    BY <1>1, <2>1, <2>2
<1>5. ASSUME NEW i \in 1..Len(t), NEW j \in 1..Len(t), t[i].obj = t[j].obj
      PROVE  i = j
  BY <1>1, <1>3, <1>5 DEF FromFile
<1>6. QED
  BY <1>4, <1>5 DEF FromFile

LEMMA InsertsAppend ==
    ASSUME NEW s \in Seq(InsertQuery), NEW q \in InsertQuery, NEW b \in BOOLEAN
    PROVE  /\ \A o : Inserts(s, o) => Inserts(AppendIf(b, s, q), o)
           /\ b => Inserts(AppendIf(b, s, q), q.obj)
<1> DEFINE t == AppendIf(b, s, q)
<1>0. /\ Len(s) \in Nat /\ Len(t) = IF b THEN Len(s) + 1 ELSE Len(s)
      /\ \A i \in 1..Len(s) : t[i] = s[i]
      /\ b => t[Len(s) + 1] = q
  BY AppendIfOK
<1> HIDE DEF t
<1>1. \A i \in 1..Len(s) : i \in 1..Len(t) /\ t[i] = s[i]
  BY <1>0
<1>2. b => Len(s) + 1 \in 1..Len(t) /\ t[Len(s) + 1] = q
  BY <1>0
<1>3. ASSUME NEW o, Inserts(s, o) PROVE Inserts(t, o)
  <2>1. PICK i \in 1..Len(s) : s[i].obj = o
    BY <1>3 DEF Inserts
  <2>2. QED
    BY <1>1, <2>1 DEF Inserts
<1>4. ASSUME b PROVE Inserts(t, q.obj)
  BY <1>2, <1>4 DEF Inserts
<1>5. QED
  BY <1>3, <1>4 DEF t

LEMMA OrderInitially == TransformInit => OrderInv
<1> SUFFICES ASSUME TransformInit PROVE OrderInv
  OBVIOUS
<1>1. lists[1] = << >> /\ lists[2] = << >> /\ lists[3] = << >>
  BY DEF TransformInit
<1>2. \A part : FromFile(file, next - 1, part, << >>)
  BY DEF FromFile
<1>3. Supported(<< >>, << >>, << >>)
  BY DEF Supported
<1>4. BundleInv
  BY DEF TransformInit, BundleInv
<1>5. QED
  BY <1>1, <1>2, <1>3, <1>4, TypeInitially DEF OrderInv, ListsInv

(* Only order_bundle adds to the lists; what is skipped adds nothing, and  *)
(* its place in the file is left unused.                                   *)
LEMMA ListsKept ==
    ASSUME TypeInv, ListsInv, UNCHANGED <<file, lists>>, next' = next \/ next' = next + 1
    PROVE  ListsInv'
<1>1. next \in Nat /\ 1..(next - 1) \subseteq 1..(next' - 1)
  BY FileType
<1>2. \A part, s : FromFile(file, next - 1, part, s) => FromFile(file, next' - 1, part, s)
  BY <1>1 DEF FromFile
<1>3. QED
  BY <1>2 DEF ListsInv

LEMMA BundleNext == TypeInv /\ BundleInv /\ [TransformNext]_transformVars => BundleInv'
<1> SUFFICES ASSUME TypeInv, BundleInv, [TransformNext]_transformVars PROVE BundleInv'
  OBVIOUS
<1>0. bundle \in Bundle
  BY DEF TypeInv, TransformTypeOK
<1>1. CASE UNCHANGED transformVars
  BY <1>1 DEF transformVars, BundleInv
<1>2. CASE Skip \/ Order
  BY <1>2 DEF Skip, Order, Enter, BundleInv
<1>3. CASE Read \/ ReadRaises \/ Finish \/ Create \/ PropertiesDone \/ ExtensionDone
  BY <1>3 DEF Read, ReadRaises, Finish, Create, PropertiesDone, ExtensionDone, Enter, BundleInv
<1>4. CASE AddMainEntity \/ AddMainRelation
  BY <1>0, <1>4 DEF AddMainEntity, AddMainRelation, Enter, BundleInv, Bundle
<1>5. CASE ConvertProperty \/ ConvertExtensionProperty
  <2>1. bundle'.marking = bundle.marking
    BY <1>0, <1>5, ExtendMarking DEF ConvertProperty, ConvertExtensionProperty
  <2>2. stage \in {"props", "ext"} /\ stage' = stage
    BY <1>5 DEF ConvertProperty, ConvertExtensionProperty
  <2>3. QED
    BY <2>1, <2>2 DEF BundleInv
<1>6. QED
  BY <1>1, <1>2, <1>3, <1>4, <1>5 DEF TransformNext, CreateRaises, AddMainRaises,
     ConvertPropertyRaises, ConvertExtensionPropertyRaises

LEMMA ListsOrder == TypeInv /\ BundleInv /\ ListsInv /\ Order => ListsInv'
<1> SUFFICES ASSUME TypeInv, BundleInv, ListsInv, Order PROVE ListsInv'
  OBVIOUS
<1> DEFINE b1 == bundle.marking = "entity"
           b2 == bundle.marking = "relation"
           b3 == bundle.links # {}
           s1 == AppendIf(b1, lists[1], MainQuery("entity"))
           s2 == AppendIf(b2, lists[2], MainQuery("relation"))
           s3 == AppendIf(b3, lists[3], EmbeddedQuery)
<1>1. /\ lists'[1] = s1 /\ lists'[2] = s2 /\ lists'[3] = s3
      /\ next' = next + 1 /\ file' = file /\ next <= Len(file)
  BY DEF Order, TypeInv, InFile
<1>2. /\ file \in Seq(Object) /\ next \in 1..Len(file) /\ next' - 1 = next
      /\ \A i, j \in 1..Len(file) : file[i] = file[j] => i = j
  <2>1. next \in 1..(Len(file) + 1)
    BY DEF TypeInv, TransformTypeOK
  <2>2. QED
    BY <1>1, <2>1, FileType
<1>3. /\ MainQuery("entity") \in InsertQuery /\ MainQuery("relation") \in InsertQuery
      /\ EmbeddedQuery \in InsertQuery
  BY <1>1, QueryType
<1>4. /\ lists[1] \in Seq(InsertQuery) /\ lists[2] \in Seq(InsertQuery)
      /\ lists[3] \in Seq(InsertQuery)
  BY DEF TypeInv, TransformTypeOK
<1>5. /\ MainQuery("entity").part = "entity" /\ MainQuery("entity").obj = file[next]
      /\ MainQuery("relation").part = "relation" /\ MainQuery("relation").obj = file[next]
      /\ EmbeddedQuery.part = "embedded" /\ EmbeddedQuery.obj = file[next]
      /\ Content[EmbeddedQuery.obj].id \in EmbeddedQuery.needs
  BY DEF MainQuery, EmbeddedQuery, Current, stix
<1>6. /\ FromFile(file, next - 1, "entity", lists[1])
      /\ FromFile(file, next - 1, "relation", lists[2])
      /\ FromFile(file, next - 1, "embedded", lists[3])
      /\ Supported(lists[1], lists[2], lists[3])
  BY DEF ListsInv
<1>7. b1 \in BOOLEAN /\ b2 \in BOOLEAN /\ b3 \in BOOLEAN
  OBVIOUS
<1> HIDE DEF b1, b2, b3
<1>8. /\ FromFile(file, next, "entity", s1)
      /\ FromFile(file, next, "relation", s2)
      /\ FromFile(file, next, "embedded", s3)
  <2>1. FromFile(file, next, "entity", s1)
    BY <1>2, <1>3, <1>4, <1>5, <1>6, <1>7, FromFileAppend
  <2>2. FromFile(file, next, "relation", s2)
    BY <1>2, <1>3, <1>4, <1>5, <1>6, <1>7, FromFileAppend
  <2>3. FromFile(file, next, "embedded", s3)
    BY <1>2, <1>3, <1>4, <1>5, <1>6, <1>7, FromFileAppend
  <2>4. QED
    BY <2>1, <2>2, <2>3
<1>9. Supported(s1, s2, s3)
  <2>1. /\ \A o : Inserts(lists[1], o) => Inserts(s1, o)
        /\ \A o : Inserts(lists[2], o) => Inserts(s2, o)
        /\ b1 => Inserts(s1, file[next])
        /\ b2 => Inserts(s2, file[next])
    BY <1>3, <1>4, <1>5, <1>7, InsertsAppend
  <2>2. b3 => b1 \/ b2
    <3>1. bundle.marking \in {"", "entity", "relation"}
      BY DEF TypeInv, TransformTypeOK, Bundle
    <3>2. bundle.marking # "" \/ bundle = EmptyBundle
      BY DEF Order, BundleInv
    <3>3. EmptyBundle.links = {}
      BY DEF EmptyBundle
    <3>4. QED
      BY <3>1, <3>2, <3>3 DEF b1, b2, b3
  <2>3. SUFFICES ASSUME NEW i \in 1..Len(s3)
                 PROVE  /\ Content[s3[i].obj].id \in s3[i].needs
                        /\ Inserts(s1, s3[i].obj) \/ Inserts(s2, s3[i].obj)
    BY DEF Supported
  <2>4. \/ i \in 1..Len(lists[3]) /\ s3[i] = lists[3][i]
        \/ b3 /\ s3[i] = EmbeddedQuery
    <3>1. /\ Len(lists[3]) \in Nat
          /\ Len(s3) = IF b3 THEN Len(lists[3]) + 1 ELSE Len(lists[3])
          /\ \A k \in 1..Len(lists[3]) : s3[k] = lists[3][k]
          /\ b3 => s3[Len(lists[3]) + 1] = EmbeddedQuery
      <4>1. PICK b, s, q : b = b3 /\ s = lists[3] /\ q = EmbeddedQuery
        OBVIOUS
      <4>2. b \in BOOLEAN /\ s \in Seq(InsertQuery) /\ q \in InsertQuery
        BY <1>3, <1>4, <1>7, <4>1
      <4>3. /\ Len(s) \in Nat
            /\ Len(AppendIf(b, s, q)) = IF b THEN Len(s) + 1 ELSE Len(s)
            /\ \A k \in 1..Len(s) : AppendIf(b, s, q)[k] = s[k]
            /\ b => AppendIf(b, s, q)[Len(s) + 1] = q
        BY <4>2, AppendIfOK
      <4>4. QED
        BY <4>1, <4>3, Zenon
    <3>2. i \in 1..Len(lists[3]) \/ (b3 /\ i = Len(lists[3]) + 1)
      BY <1>7, <3>1
    <3>3. QED
      BY <3>1, <3>2, Zenon
  <2>5. QED
    BY <1>5, <1>6, <2>1, <2>2, <2>4 DEF Supported
<1>10. QED
  BY <1>1, <1>2, <1>8, <1>9 DEF ListsInv

LEMMA OrderNext == OrderInv /\ [TransformNext]_transformVars => OrderInv'
<1> SUFFICES ASSUME OrderInv, [TransformNext]_transformVars PROVE OrderInv'
  OBVIOUS
<1>1. TypeInv' /\ BundleInv'
  BY TypeNext, BundleNext DEF OrderInv
<1>2. CASE Order
  BY <1>1, <1>2, ListsOrder DEF OrderInv
<1>3. CASE ~Order
  <2>1. UNCHANGED <<file, lists>> /\ (next' = next \/ next' = next + 1)
    BY <1>3 DEF TransformNext, transformVars, Read, ReadRaises, Finish, Create, CreateRaises,
       AddMainEntity, AddMainRelation, AddMainRaises, ConvertProperty, ConvertPropertyRaises,
       PropertiesDone, ConvertExtensionProperty, ConvertExtensionPropertyRaises, ExtensionDone,
       Skip
  <2>2. QED
    BY <1>1, <2>1, ListsKept DEF OrderInv
<1>4. QED
  BY <1>2, <1>3

(* The lists can be loaded one after the other: no query is in them twice, *)
(* and a query of embedded relations matches on its own object, which a    *)
(* query of an earlier list inserts.                                       *)
THEOREM MainBeforeEmbeddedCorrect == TransformSpec => []MainBeforeEmbedded
<1>1. OrderInv => MainBeforeEmbedded
  <2> SUFFICES ASSUME OrderInv PROVE MainBeforeEmbedded
    OBVIOUS
  <2> DEFINE PartOf(p) == IF p = 1 THEN "entity" ELSE IF p = 2 THEN "relation" ELSE "embedded"
  <2>1. \A p \in 1..3 : \A i \in 1..Len(lists[p]) :
            /\ lists[p][i].part = PartOf(p)
            /\ \A j \in 1..Len(lists[p]) : lists[p][i].obj = lists[p][j].obj => i = j
    <3>1. \A p \in 1..3 : FromFile(file, next - 1, PartOf(p), lists[p])
      BY DEF OrderInv, ListsInv
    <3>2. QED
      BY <3>1 DEF FromFile
  <2>2. ASSUME NEW p \in 1..3, NEW r \in 1..3, NEW i \in 1..Len(lists[p]),
               NEW j \in 1..Len(lists[r]), lists[p][i] = lists[r][j]
        PROVE  p = r /\ i = j
    <3>1. PartOf(p) = PartOf(r)
      BY <2>1, <2>2
    <3>2. p = r
      BY <3>1
    <3>3. QED
      BY <2>1, <2>2, <3>2
  <2>3. ASSUME NEW q \in Listed(3)
        PROVE  /\ Content[q.obj].id \in q.needs
               /\ \E m \in Listed(1) \cup Listed(2) : m.obj = q.obj
    <3>1. PICK i \in 1..Len(lists[3]) : q = lists[3][i]
      BY DEF Listed
    <3>2. /\ Content[q.obj].id \in q.needs
          /\ Inserts(lists[1], q.obj) \/ Inserts(lists[2], q.obj)
      BY <3>1 DEF OrderInv, ListsInv, Supported
    <3>3. QED
      BY <3>2 DEF Inserts, Listed
  <2>4. QED
    BY <2>2, <2>3 DEF MainBeforeEmbedded
<1>2. QED
  BY <1>1, OrderInitially, OrderNext, PTL DEF TransformSpec, TransformSteps
-----------------------------------------------------------------------------
(***************************************************************************)
(* What the lists hold: QueriesOf, by induction on the length of a file.   *)
(***************************************************************************)
(* F lists the queries of the first n objects of f, for every n up to m.   *)
Listing(f, kinds, made, m, F) ==
    /\ F = [n \in 0..m |-> F[n]]
    /\ F[0] = <<>>
    /\ \A n \in 1..m : F[n] = IF f[n] \in kinds THEN Append(F[n - 1], made[f[n]]) ELSE F[n - 1]

LEMMA ListingExists ==
    ASSUME NEW f, NEW kinds, NEW made, NEW m \in Nat
    PROVE  \E F : Listing(f, kinds, made, m, F)
<1>1. PICK A : A = {n \in Nat : \E F : Listing(f, kinds, made, n, F)}
  OBVIOUS
<1>2. 0 \in A
  <2>1. Listing(f, kinds, made, 0, [n \in 0..0 |-> <<>>])
    BY DEF Listing
  <2>2. QED
    BY <1>1, <2>1
<1>3. ASSUME NEW n \in A PROVE n + 1 \in A
  <2>1. PICK F : Listing(f, kinds, made, n, F)
    BY <1>1
  <2>2. PICK x : x = IF f[n + 1] \in kinds THEN Append(F[n], made[f[n + 1]]) ELSE F[n]
    OBVIOUS
  <2>3. PICK G : G = [i \in 0..(n + 1) |-> IF i = n + 1 THEN x ELSE F[i]]
    OBVIOUS
  <2>4. n \in Nat
    BY <1>1
  <2>5. ASSUME NEW i \in 1..(n + 1)
        PROVE  G[i] = IF f[i] \in kinds THEN Append(G[i - 1], made[f[i]]) ELSE G[i - 1]
    <3>1. CASE i = n + 1
      BY <2>2, <2>3, <2>4, <3>1
    <3>2. CASE i \in 1..n
      <4>1. G[i] = F[i] /\ G[i - 1] = F[i - 1]
        BY <2>3, <2>4, <3>2
      <4>2. F[i] = IF f[i] \in kinds THEN Append(F[i - 1], made[f[i]]) ELSE F[i - 1]
        BY <2>1, <3>2 DEF Listing
      <4>3. QED
        BY <4>1, <4>2
    <3>3. QED
      BY <2>4, <3>1, <3>2
  <2>6. G[0] = <<>>
    BY <2>1, <2>3, <2>4 DEF Listing
  <2>7. Listing(f, kinds, made, n + 1, G)
    BY <2>3, <2>5, <2>6 DEF Listing
  <2>8. QED
    BY <1>1, <2>4, <2>7
<1>4. A = Nat
  BY <1>1, <1>2, <1>3, Induction
<1>5. QED
  BY <1>1, <1>4

(* Only the objects up to n matter.                                        *)
LEMMA ListingOnce ==
    ASSUME NEW f, NEW g, NEW kinds, NEW made, NEW m \in Nat, NEW n \in Nat, NEW F, NEW G,
           m <= n, \A i \in 1..m : f[i] = g[i],
           Listing(f, kinds, made, m, F), Listing(g, kinds, made, n, G)
    PROVE  \A i \in 0..m : F[i] = G[i]
<1>1. PICK A : A = {i \in Nat : i <= m => F[i] = G[i]}
  OBVIOUS
<1>2. 0 \in A
  BY <1>1 DEF Listing
<1>3. ASSUME NEW i \in A PROVE i + 1 \in A
  <2>1. i \in Nat
    BY <1>1
  <2>2. SUFFICES ASSUME i + 1 <= m PROVE F[i + 1] = G[i + 1]
    BY <1>1, <2>1
  <2>3. F[i] = G[i] /\ f[i + 1] = g[i + 1]
    BY <1>1, <2>1, <2>2
  <2>4. PICK k : k = i + 1
    OBVIOUS
  <2>5. k \in 1..m /\ k \in 1..n /\ k - 1 = i
    BY <2>1, <2>2, <2>4
  <2>6. F[k] = IF f[k] \in kinds THEN Append(F[i], made[f[k]]) ELSE F[i]
    BY <2>5 DEF Listing
  <2>7. G[k] = IF g[k] \in kinds THEN Append(G[i], made[g[k]]) ELSE G[i]
    BY <2>5 DEF Listing
  <2>8. QED
    BY <2>3, <2>4, <2>6, <2>7
<1>4. A = Nat
  BY <1>1, <1>2, <1>3, Induction
<1>5. QED
  BY <1>1, <1>4

LEMMA QueriesAreListed ==
    ASSUME NEW f \in Seq(Object), NEW kinds, NEW made
    PROVE  \E F : Listing(f, kinds, made, Len(f), F) /\ QueriesOf(f, kinds, made) = F[Len(f)]
<1> DEFINE Equation(F) ==
        F = [n \in 0..Len(f) |-> IF n = 0 THEN <<>>
                                 ELSE IF f[n] \in kinds THEN Append(F[n - 1], made[f[n]])
                                 ELSE F[n - 1]]
<1>1. QueriesOf(f, kinds, made) = (CHOOSE F : Equation(F))[Len(f)]
  BY DEF QueriesOf
<1>2. Len(f) \in Nat
  OBVIOUS
<1>3. ASSUME NEW F
      PROVE  Equation(F) <=> Listing(f, kinds, made, Len(f), F)
  <2>1. ASSUME Equation(F) PROVE Listing(f, kinds, made, Len(f), F)
    <3> DEFINE Value(n) == IF n = 0 THEN <<>>
                           ELSE IF f[n] \in kinds THEN Append(F[n - 1], made[f[n]])
                           ELSE F[n - 1]
    <3>1. F = [n \in 0..Len(f) |-> Value(n)]
      BY <2>1
    <3>2. \A n : Value(n) = IF n = 0 THEN <<>>
                            ELSE IF f[n] \in kinds THEN Append(F[n - 1], made[f[n]])
                            ELSE F[n - 1]
      OBVIOUS
    <3> HIDE DEF Value, Equation
    <3>3. F = [n \in 0..Len(f) |-> F[n]] /\ \A n \in 0..Len(f) : F[n] = Value(n)
      BY <3>1
    <3>4. F[0] = <<>>
      BY <1>2, <3>2, <3>3
    <3>5. ASSUME NEW n \in 1..Len(f)
          PROVE  F[n] = IF f[n] \in kinds THEN Append(F[n - 1], made[f[n]]) ELSE F[n - 1]
      <4>1. n \in 0..Len(f) /\ n # 0
        BY <1>2
      <4>2. F[n] = Value(n)
        BY <3>3, <4>1
      <4>3. QED
        BY <3>2, <4>1, <4>2, Zenon
    <3>6. QED
      BY <3>3, <3>4, <3>5 DEF Listing
  <2>2. ASSUME Listing(f, kinds, made, Len(f), F) PROVE Equation(F)
    BY <1>2, <2>2 DEF Listing
  <2>3. QED
    BY <2>1, <2>2
<1>4. \E F : Listing(f, kinds, made, Len(f), F)
  BY <1>2, ListingExists
<1> HIDE DEF Equation
<1>5. Equation(CHOOSE F : Equation(F))
  <2>1. \E F : Equation(F)
    BY <1>3, <1>4
  <2>2. QED
    BY <2>1, Zenon
<1>6. QED
  BY <1>1, <1>3, <1>5

(* The queries of one object more.                                         *)
LEMMA OneMore ==
    ASSUME NEW f \in Seq(Object), NEW n \in 1..Len(f), NEW kinds, NEW made,
           NEW s, s = QueriesOf(SubSeq(f, 1, n - 1), kinds, made)
    PROVE  QueriesOf(SubSeq(f, 1, n), kinds, made) =
                IF f[n] \in kinds THEN Append(s, made[f[n]]) ELSE s
<1>1. PICK g : g = SubSeq(f, 1, n - 1)
  OBVIOUS
<1>2. PICK h : h = SubSeq(f, 1, n)
  OBVIOUS
<1>3. /\ g \in Seq(Object) /\ Len(g) = n - 1 /\ \A i \in 1..(n - 1) : g[i] = f[i]
  BY <1>1
<1>4. /\ h \in Seq(Object) /\ Len(h) = n /\ \A i \in 1..n : h[i] = f[i]
  BY <1>2
<1>5. n \in Nat /\ n - 1 \in Nat
  OBVIOUS
<1>6. PICK F : Listing(g, kinds, made, n - 1, F) /\ s = F[n - 1]
  <2>1. PICK F : Listing(g, kinds, made, Len(g), F) /\ QueriesOf(g, kinds, made) = F[Len(g)]
    BY <1>3, QueriesAreListed
  <2>2. QED
    BY <1>1, <1>3, <2>1
<1>7. PICK G : Listing(h, kinds, made, n, G) /\ QueriesOf(h, kinds, made) = G[n]
  <2>1. PICK G : Listing(h, kinds, made, Len(h), G) /\ QueriesOf(h, kinds, made) = G[Len(h)]
    BY <1>4, QueriesAreListed
  <2>2. QED
    BY <1>4, <2>1
<1>8. \A i \in 1..(n - 1) : g[i] = h[i]
  BY <1>3, <1>4
<1>9. \A i \in 0..(n - 1) : F[i] = G[i]
  BY <1>5, <1>6, <1>7, <1>8, ListingOnce
<1>10. G[n] = IF h[n] \in kinds THEN Append(G[n - 1], made[h[n]]) ELSE G[n - 1]
  <2>1. \A k \in 1..n : G[k] = IF h[k] \in kinds THEN Append(G[k - 1], made[h[k]]) ELSE G[k - 1]
    BY <1>7, Zenon DEF Listing
  <2>2. n \in 1..n
    BY <1>5
  <2>3. QED
    BY <2>1, <2>2, Zenon
<1>11. QED
  BY <1>2, <1>4, <1>5, <1>6, <1>7, <1>9, <1>10

LEMMA NoneYet ==
    ASSUME NEW f \in Seq(Object)
    PROVE  Translation(SubSeq(f, 1, 0)) = <<<<>>, <<>>, <<>>>>
<1>1. PICK g : g = SubSeq(f, 1, 0)
  OBVIOUS
<1>2. g \in Seq(Object) /\ Len(g) = 0
  BY <1>1
<1>3. ASSUME NEW kinds, NEW made PROVE QueriesOf(g, kinds, made) = <<>>
  <2>1. PICK F : Listing(g, kinds, made, Len(g), F) /\ QueriesOf(g, kinds, made) = F[Len(g)]
    BY <1>2, QueriesAreListed
  <2>2. QED
    BY <1>2, <2>1 DEF Listing
<1>4. QED
  BY <1>1, <1>3 DEF Translation

(***************************************************************************)
(* What the bundle has collected: of the properties before prop, and of    *)
(* the extension's, every one that converts and nothing else.  An object   *)
(* that is still being converted has met no reason to lose it.             *)
(***************************************************************************)
Settled(o) ==
    /\ Content[o].class \notin {"none", "custom"}
    /\ TypeFound(o)
    /\ Content[o].class = "SRO" => RolesFound(o)
Converted(o, k, n, m) ==
    ({"props"} \X {i \in 1..(n - 1) : Converts(Content[o].props[i], k)})
    \cup ({"ext"} \X {i \in 1..(m - 1) : Converts(RelevantProps(o)[i], k)})
LinksOf(o, S) == UNION {{r} \X Elements(Sections(o)[r[1]][r[2]]) : r \in S}
Collected(o, n, m) ==
    [marking |-> IF Content[o].class = "SRO" THEN "relation" ELSE "entity",
     has |-> Converted(o, "attribute", n, m),
     match |-> IF Content[o].class = "SRO" THEN RolePlayers(o) ELSE {},
     attributes |-> Converted(o, "structured", n, m),
     links |-> LinksOf(o, Converted(o, "reference", n, m))]

InProps(o) ==
    /\ Settled(o)
    /\ prop <= Len(Content[o].props) + 1
    /\ \A i \in 1..(prop - 1) : ~Aborts(Content[o].props[i])
    /\ bundle = Collected(o, prop, 1)
InExtension(o) ==
    /\ Settled(o)
    /\ prop <= Len(RelevantProps(o)) + 1
    /\ \A i \in 1..Len(Content[o].props) : ~Aborts(Content[o].props[i])
    /\ \A i \in 1..(prop - 1) : ~Fails(RelevantProps(o)[i])
    /\ bundle = Collected(o, Len(Content[o].props) + 1, prop)
Complete(o) ==
    \/ Content[o].class = "custom" /\ bundle = EmptyBundle
    \/ /\ Survives(o)
       /\ bundle = Collected(o, Len(Content[o].props) + 1, Len(RelevantProps(o)) + 1)

ConvertedInv ==
    /\ stage \in {"read", "create", "main"} => bundle = EmptyBundle
    /\ stage = "main" => stix.class \notin {"none", "custom"}
    /\ stage = "props" => InProps(Current)
    /\ stage = "ext" => InExtension(Current)
    /\ stage = "order" => Complete(Current)
TranslatedInv == TypeInv /\ ConvertedInv /\ TranslatedSoFar

LEMMA SectionTypes ==
    ASSUME NEW o \in Object
    PROVE  /\ Content[o].props \in Seq(Property) /\ RelevantProps(o) \in Seq(Property)
           /\ Len(Content[o].props) \in Nat /\ Len(RelevantProps(o)) \in Nat
<1>1. Content[o] \in STIXObject
  BY TransformAssumption
<1>2. Content[o].props \in Seq(Property) /\ Content[o].inline \in Seq(Property)
      /\ Content[o].extensions \in Seq(Extension)
  BY <1>1 DEF STIXObject
<1>3. Extensions(o) \in Seq(Extension)
  <2>1. [defined |-> TRUE, props |-> Content[o].inline] \in Extension
    BY <1>2 DEF Extension
  <2>2. \A e \in Extension : <<e>> \in Seq(Extension)
    OBVIOUS
  <2>3. QED
    BY <1>2, <2>1, <2>2 DEF Extensions
<1>4. RelevantProps(o) \in Seq(Property)
  <2>1. CASE Predefined(o) = {}
    BY <2>1 DEF RelevantProps
  <2>2. CASE Predefined(o) # {}
    <3>1. Predefined(o) \in SUBSET Nat
      BY <1>3 DEF Predefined, DefinedIn
    <3>2. \E i \in Predefined(o) : \A j \in Predefined(o) : i <= j
      BY <2>2, <3>1, SmallestNumber
    <3>3. FirstPredefined(o) \in Predefined(o)
      BY <3>2 DEF FirstPredefined, Lowest
    <3>4. Extensions(o)[FirstPredefined(o)] \in Extension
      BY <1>3, <3>3 DEF Predefined, DefinedIn
    <3>5. QED
      BY <2>2, <3>4 DEF RelevantProps, Extension
  <2>3. QED
    BY <2>1, <2>2
<1>5. QED
  BY <1>2, <1>4

(* What a property that converts adds to the bundle, kind by kind.         *)
LEMMA ExtendAdds ==
    ASSUME NEW b, NEW mk, NEW h, NEW mt, NEW st, NEW ln, NEW pos, NEW p, ~Fails(p),
           b = [marking |-> mk, has |-> h, match |-> mt, attributes |-> st, links |-> ln]
    PROVE  Extend(b, pos, p) =
        [marking |-> mk,
         has |-> h \cup (IF Converts(p, "attribute") THEN {pos} ELSE {}),
         match |-> mt,
         attributes |-> st \cup (IF Converts(p, "structured") THEN {pos} ELSE {}),
         links |-> ln \cup (IF Converts(p, "reference") THEN {pos} \X Elements(p) ELSE {})]
<1>1. CASE p.kind = "attribute" /\ p.elems # <<>>
  <2>1. Extend(b, pos, p) = [b EXCEPT !.has = @ \cup {pos}]
    BY <1>1 DEF Extend
  <2>2. QED
    BY <1>1, <2>1 DEF Converts
<1>2. CASE p.kind = "structured" /\ p.elems # <<>>
  <2>1. Extend(b, pos, p) = [b EXCEPT !.attributes = @ \cup {pos}]
    BY <1>2 DEF Extend
  <2>2. QED
    BY <1>2, <2>1 DEF Converts
<1>3. CASE p.kind = "reference"
  <2>1. Extend(b, pos, p) = [b EXCEPT !.links = @ \cup ({pos} \X Elements(p))]
    BY <1>3 DEF Extend
  <2>2. p.elems = <<>> => Elements(p) = {}
    BY DEF Elements
  <2>3. p.elems = <<>> => {pos} \X Elements(p) = {}
    BY <2>2
  <2>4. ~Converts(p, "attribute") /\ ~Converts(p, "structured")
        /\ (Converts(p, "reference") <=> p.elems # <<>>)
    BY <1>3 DEF Converts
  <2>5. QED
    BY <2>1, <2>3, <2>4
<1>4. CASE /\ ~(p.kind = "attribute" /\ p.elems # <<>>)
           /\ ~(p.kind = "structured" /\ p.elems # <<>>) /\ p.kind # "reference"
  <2>1. Extend(b, pos, p) = b
    BY <1>4 DEF Extend
  <2>2. ~Converts(p, "attribute") /\ ~Converts(p, "structured") /\ ~Converts(p, "reference")
    BY <1>4 DEF Converts
  <2>3. QED
    BY <2>1, <2>2
<1>5. QED
  BY <1>1, <1>2, <1>3, <1>4

LEMMA ConvertedMore ==
    ASSUME NEW o, NEW k, NEW n \in Nat \ {0}, NEW m \in Nat \ {0}
    PROVE  /\ Converted(o, k, n + 1, m) = Converted(o, k, n, m)
                \cup (IF Converts(Content[o].props[n], k) THEN {<<"props", n>>} ELSE {})
           /\ Converted(o, k, n, m + 1) = Converted(o, k, n, m)
                \cup (IF Converts(RelevantProps(o)[m], k) THEN {<<"ext", m>>} ELSE {})
<1>1. PICK P : P = {i \in 1..(n - 1) : Converts(Content[o].props[i], k)}
  OBVIOUS
<1>2. PICK E : E = {i \in 1..(m - 1) : Converts(RelevantProps(o)[i], k)}
  OBVIOUS
<1>3. {i \in 1..((n + 1) - 1) : Converts(Content[o].props[i], k)} =
        P \cup (IF Converts(Content[o].props[n], k) THEN {n} ELSE {})
  BY <1>1
<1>4. {i \in 1..((m + 1) - 1) : Converts(RelevantProps(o)[i], k)} =
        E \cup (IF Converts(RelevantProps(o)[m], k) THEN {m} ELSE {})
  BY <1>2
<1>5. Converted(o, k, n, m) = ({"props"} \X P) \cup ({"ext"} \X E)
  BY <1>1, <1>2 DEF Converted
<1>6. Converted(o, k, n + 1, m) =
        ({"props"} \X (P \cup (IF Converts(Content[o].props[n], k) THEN {n} ELSE {})))
        \cup ({"ext"} \X E)
  BY <1>2, <1>3 DEF Converted
<1>7. Converted(o, k, n, m + 1) = ({"props"} \X P) \cup
        ({"ext"} \X (E \cup (IF Converts(RelevantProps(o)[m], k) THEN {m} ELSE {})))
  BY <1>1, <1>4 DEF Converted
<1>8. QED
  BY <1>5, <1>6, <1>7

(* One property more: the bundle is extended by it or not, as it converts. *)
LEMMA CollectedMore ==
    ASSUME NEW o \in Object, NEW n \in Nat \ {0}, NEW m \in Nat \ {0}
    PROVE  /\ LET p == Content[o].props[n] IN
                Collected(o, n + 1, m) = IF Fails(p) THEN Collected(o, n, m)
                                         ELSE Extend(Collected(o, n, m), <<"props", n>>, p)
           /\ LET p == RelevantProps(o)[m] IN
                ~Fails(p) => Collected(o, n, m + 1) = Extend(Collected(o, n, m), <<"ext", m>>, p)
<1> DEFINE Mark == IF Content[o].class = "SRO" THEN "relation" ELSE "entity"
           Ends == IF Content[o].class = "SRO" THEN RolePlayers(o) ELSE {}
           p1 == Content[o].props[n]
           p2 == RelevantProps(o)[m]
           With(S, k, p, pos) == S \cup (IF Converts(p, k) THEN {pos} ELSE {})
<1>1. \A i, j : Collected(o, i, j) =
        [marking |-> Mark, has |-> Converted(o, "attribute", i, j), match |-> Ends,
         attributes |-> Converted(o, "structured", i, j),
         links |-> LinksOf(o, Converted(o, "reference", i, j))]
  BY DEF Collected
<1>2. ASSUME NEW k
      PROVE  /\ Converted(o, k, n + 1, m) = With(Converted(o, k, n, m), k, p1, <<"props", n>>)
             /\ Converted(o, k, n, m + 1) = With(Converted(o, k, n, m), k, p2, <<"ext", m>>)
  BY ConvertedMore
<1>3. \A k : Converts(p1, k) \in BOOLEAN /\ Converts(p2, k) \in BOOLEAN
  BY DEF Converts
<1>4. Sections(o)["props"][n] = p1 /\ Sections(o)["ext"][m] = p2
  BY DEF Sections
<1>5. LinksOf(o, Converted(o, "reference", n + 1, m)) = LinksOf(o, Converted(o, "reference", n, m))
        \cup (IF Converts(p1, "reference") THEN {<<"props", n>>} \X Elements(p1) ELSE {})
  <2>1. PICK pos : pos = <<"props", n>>
    OBVIOUS
  <2>2. Sections(o)[pos[1]][pos[2]] = p1
    BY <1>4, <2>1
  <2> HIDE DEF p1, p2
  <2>3. CASE Converts(p1, "reference")
    <3>1. Converted(o, "reference", n + 1, m) = Converted(o, "reference", n, m) \cup {pos}
      BY <1>2, <2>1, <2>3
    <3>2. QED
      BY <2>1, <2>2, <2>3, <3>1 DEF LinksOf
  <2>4. CASE ~Converts(p1, "reference")
    BY <1>2, <2>4
  <2>5. QED
    BY <1>3, <2>3, <2>4
<1>6. LinksOf(o, Converted(o, "reference", n, m + 1)) = LinksOf(o, Converted(o, "reference", n, m))
        \cup (IF Converts(p2, "reference") THEN {<<"ext", m>>} \X Elements(p2) ELSE {})
  <2>1. PICK pos : pos = <<"ext", m>>
    OBVIOUS
  <2>2. Sections(o)[pos[1]][pos[2]] = p2
    BY <1>4, <2>1
  <2> HIDE DEF p1, p2
  <2>3. CASE Converts(p2, "reference")
    <3>1. Converted(o, "reference", n, m + 1) = Converted(o, "reference", n, m) \cup {pos}
      BY <1>2, <2>1, <2>3
    <3>2. QED
      BY <2>1, <2>2, <2>3, <3>1 DEF LinksOf
  <2>4. CASE ~Converts(p2, "reference")
    BY <1>2, <2>4
  <2>5. QED
    BY <1>3, <2>3, <2>4
<1> HIDE DEF Mark, Ends, p1, p2
<1>7. ASSUME Fails(p1) PROVE Collected(o, n + 1, m) = Collected(o, n, m)
  <2>1. \A k : ~Converts(p1, k)
    BY <1>7 DEF Converts
  <2>2. QED
    BY <1>1, <1>2, <1>5, <2>1
<1>8. ASSUME ~Fails(p1)
      PROVE  Collected(o, n + 1, m) = Extend(Collected(o, n, m), <<"props", n>>, p1)
  <2>1. PICK pos : pos = <<"props", n>>
    OBVIOUS
  <2>2. PICK h, st, ln :
        /\ h = Converted(o, "attribute", n, m)
                \cup (IF Converts(p1, "attribute") THEN {pos} ELSE {})
        /\ st = Converted(o, "structured", n, m)
                \cup (IF Converts(p1, "structured") THEN {pos} ELSE {})
        /\ ln = LinksOf(o, Converted(o, "reference", n, m))
                \cup (IF Converts(p1, "reference") THEN {pos} \X Elements(p1) ELSE {})
    OBVIOUS
  <2>3. /\ Converted(o, "attribute", n + 1, m) = h
        /\ Converted(o, "structured", n + 1, m) = st
        /\ LinksOf(o, Converted(o, "reference", n + 1, m)) = ln
    BY <1>2, <1>5, <2>1, <2>2
  <2>4. Collected(o, n + 1, m) =
            [marking |-> Mark, has |-> h, match |-> Ends, attributes |-> st, links |-> ln]
    BY <1>1, <2>3
  <2>5. Extend(Collected(o, n, m), pos, p1) =
            [marking |-> Mark, has |-> h, match |-> Ends, attributes |-> st, links |-> ln]
    BY <1>1, <1>8, <2>2, ExtendAdds
  <2>6. QED
    BY <2>1, <2>4, <2>5
<1>9. ASSUME ~Fails(p2)
      PROVE  Collected(o, n, m + 1) = Extend(Collected(o, n, m), <<"ext", m>>, p2)
  <2>1. PICK pos : pos = <<"ext", m>>
    OBVIOUS
  <2>2. PICK h, st, ln :
        /\ h = Converted(o, "attribute", n, m)
                \cup (IF Converts(p2, "attribute") THEN {pos} ELSE {})
        /\ st = Converted(o, "structured", n, m)
                \cup (IF Converts(p2, "structured") THEN {pos} ELSE {})
        /\ ln = LinksOf(o, Converted(o, "reference", n, m))
                \cup (IF Converts(p2, "reference") THEN {pos} \X Elements(p2) ELSE {})
    OBVIOUS
  <2>3. /\ Converted(o, "attribute", n, m + 1) = h
        /\ Converted(o, "structured", n, m + 1) = st
        /\ LinksOf(o, Converted(o, "reference", n, m + 1)) = ln
    BY <1>2, <1>6, <2>1, <2>2
  <2>4. Collected(o, n, m + 1) =
            [marking |-> Mark, has |-> h, match |-> Ends, attributes |-> st, links |-> ln]
    BY <1>1, <2>3
  <2>5. Extend(Collected(o, n, m), pos, p2) =
            [marking |-> Mark, has |-> h, match |-> Ends, attributes |-> st, links |-> ln]
    BY <1>1, <1>9, <2>2, ExtendAdds
  <2>6. QED
    BY <2>1, <2>4, <2>5
<1>10. QED
  BY <1>7, <1>8, <1>9 DEF p1, p2

LEMMA SameBundle ==
    ASSUME NEW b \in Bundle, NEW c \in Bundle,
           b.marking = c.marking, b.has = c.has, b.match = c.match,
           b.attributes = c.attributes, b.links = c.links
    PROVE  b = c
<1>1. PICK M, H, E, A, L :
        /\ M = {"", "entity", "relation"} /\ H = SUBSET Position /\ E = SUBSET Id
        /\ A = SUBSET Position /\ L = SUBSET (Position \X Id)
  OBVIOUS
<1>2. Bundle = [marking : M, has : H, match : E, attributes : A, links : L]
  BY <1>1 DEF Bundle
<1>3. /\ b \in [marking : M, has : H, match : E, attributes : A, links : L]
      /\ c \in [marking : M, has : H, match : E, attributes : A, links : L]
  BY <1>2
<1>4. QED
  BY <1>3

(* Nothing converted yet; everything converted.                            *)
LEMMA CollectedNone ==
    ASSUME NEW o, Content[o].class = "SRO" => RolePlayers(o) \subseteq Id,
           NEW b \in Bundle,
           b.marking = IF Content[o].class = "SRO" THEN "relation" ELSE "entity",
           b.match = IF Content[o].class = "SRO" THEN RolePlayers(o) ELSE {},
           b.has = {}, b.attributes = {}, b.links = {}
    PROVE  b = Collected(o, 1, 1)
<1>1. \A k : Converted(o, k, 1, 1) = {}
  BY DEF Converted
<1>2. LinksOf(o, {}) = {}
  BY DEF LinksOf
<1>3. PICK c : c = Collected(o, 1, 1)
  OBVIOUS
<1>4. c \in Bundle
  BY <1>1, <1>2, <1>3 DEF Collected, Bundle
<1>5. /\ c.marking = b.marking /\ c.match = b.match
      /\ c.has = {} /\ c.attributes = {} /\ c.links = {}
  BY <1>1, <1>2, <1>3 DEF Collected
<1>6. QED
  BY <1>3, <1>4, <1>5, SameBundle

LEMMA CollectedAll ==
    ASSUME NEW o \in Object, NEW b,
           b = Collected(o, Len(Content[o].props) + 1, Len(RelevantProps(o)) + 1)
    PROVE  /\ b.marking = IF Content[o].class = "SRO" THEN "relation" ELSE "entity"
           /\ b.has \cup b.attributes = Good(o, "attribute") \cup Good(o, "structured")
           /\ b.match = IF Content[o].class = "SRO" THEN RolePlayers(o) ELSE {}
           /\ b.links # {} <=> References(o) # {}
           /\ {k[1] : k \in b.links} = References(o)
           /\ {k[2] : k \in b.links} = Targets(o)
<1>1. PICK n \in Nat : n = Len(Content[o].props)
  BY SectionTypes
<1>2. PICK m \in Nat : m = Len(RelevantProps(o))
  BY SectionTypes
<1>3. (n + 1) - 1 = n /\ (m + 1) - 1 = m
  OBVIOUS
<1>4. DOMAIN Content[o].props = 1..n /\ DOMAIN RelevantProps(o) = 1..m
  BY <1>1, <1>2, SectionTypes
<1>5. ASSUME NEW k PROVE Converted(o, k, n + 1, m + 1) = Good(o, k)
  <2>1. Converted(o, k, n + 1, m + 1) =
            ({"props"} \X {i \in 1..n : Converts(Content[o].props[i], k)})
            \cup ({"ext"} \X {i \in 1..m : Converts(RelevantProps(o)[i], k)})
    BY <1>3 DEF Converted
  <2>2. Sections(o)["props"] = Content[o].props /\ Sections(o)["ext"] = RelevantProps(o)
    BY DEF Sections
  <2>3. Good(o, k) =
            ({"props"} \X {i \in DOMAIN Sections(o)["props"] : Converts(Sections(o)["props"][i], k)})
            \cup ({"ext"} \X {i \in DOMAIN Sections(o)["ext"] : Converts(Sections(o)["ext"][i], k)})
    BY DEF Good
  <2>4. QED
    BY <1>4, <2>1, <2>2, <2>3
<1>6. b.links = LinksOf(o, References(o))
  BY <1>1, <1>2, <1>5 DEF Collected, References
<1>7. ASSUME NEW r \in References(o)
      PROVE  Elements(Sections(o)[r[1]][r[2]]) # {}
  <2>1. PICK s \in {"props", "ext"} :
            r \in {s} \X {i \in DOMAIN Sections(o)[s] : Converts(Sections(o)[s][i], "reference")}
    BY DEF References, Good
  <2>2. PICK i \in DOMAIN Sections(o)[s] :
            r = <<s, i>> /\ Converts(Sections(o)[s][i], "reference")
    BY <2>1
  <2>3. Sections(o)[s] \in Seq(Property)
    BY <2>1, SectionTypes DEF Sections
  <2>4. Sections(o)[s][i] \in Property
    BY <2>2, <2>3
  <2>5. Sections(o)[s][i].elems \in Seq(Id \cup {Invalid, Fatal}) /\ Sections(o)[s][i].elems # <<>>
    BY <2>2, <2>4 DEF Converts, Property
  <2>6. 1 \in 1..Len(Sections(o)[s][i].elems)
    BY <2>5
  <2>7. Elements(Sections(o)[s][i]) # {}
    BY <2>6 DEF Elements
  <2>8. QED
    BY <2>2, <2>7
<1>8. {k[1] : k \in b.links} = References(o)
  <2>1. \A k \in b.links : k[1] \in References(o)
    BY <1>6 DEF LinksOf
  <2>2. ASSUME NEW r \in References(o) PROVE \E k \in b.links : k[1] = r
    <3>1. PICK e \in Elements(Sections(o)[r[1]][r[2]]) : TRUE
      BY <1>7
    <3>2. <<r, e>> \in b.links
      BY <1>6, <3>1 DEF LinksOf
    <3>3. QED
      BY <3>2
  <2>3. QED
    BY <2>1, <2>2
<1>9. {k[2] : k \in b.links} = Targets(o)
  <2>1. \A k \in b.links : k[2] \in Targets(o)
    BY <1>6 DEF LinksOf, Targets
  <2>2. ASSUME NEW e \in Targets(o) PROVE \E k \in b.links : k[2] = e
    <3>1. PICK r \in References(o) : e \in Elements(Sections(o)[r[1]][r[2]])
      BY DEF Targets
    <3>2. <<r, e>> \in b.links
      BY <1>6, <3>1 DEF LinksOf
    <3>3. QED
      BY <3>2
  <2>3. QED
    BY <2>1, <2>2
<1>10. b.links # {} <=> References(o) # {}
  BY <1>8
<1>11. /\ b.marking = IF Content[o].class = "SRO" THEN "relation" ELSE "entity"
       /\ b.has = Good(o, "attribute") /\ b.attributes = Good(o, "structured")
       /\ b.match = IF Content[o].class = "SRO" THEN RolePlayers(o) ELSE {}
  BY <1>1, <1>2, <1>5 DEF Collected
<1>12. QED
  BY <1>8, <1>9, <1>10, <1>11

LEMMA ConvertedSettles ==
    ASSUME TypeInv, ConvertedInv, AddMainEntity \/ AddMainRelation
    PROVE  InProps(Current)'
<1>1. /\ file' = file /\ next' = next /\ prop' = 1 /\ Current' = Current
      /\ TypeFound(Current) /\ (stix.class = "SRO" => RolesFound(Current))
      /\ stix.class \notin {"none", "custom"} /\ bundle = EmptyBundle /\ next <= Len(file)
  BY DEF AddMainEntity, AddMainRelation, Enter, ConvertedInv, TypeInv, InFile, Current
<1>2. PICK o \in Object : o = Current
  BY <1>1, FileType
<1>3. Settled(o)
  BY <1>1, <1>2 DEF Settled, stix
<1>4. o = Current'
  BY <1>1, <1>2
<1>5. Content[o].class = "SRO" => RolePlayers(o) \subseteq Id
  BY <1>1, <1>2, TransformAssumption DEF RolesFound, stix
<1>6. /\ bundle'.marking = IF Content[o].class = "SRO" THEN "relation" ELSE "entity"
      /\ bundle'.match = IF Content[o].class = "SRO" THEN RolePlayers(o) ELSE {}
      /\ bundle'.has = {} /\ bundle'.attributes = {} /\ bundle'.links = {}
  <2>1. CASE AddMainEntity
    BY <1>1, <1>2, <2>1 DEF AddMainEntity, EmptyBundle, stix
  <2>2. CASE AddMainRelation
    BY <1>1, <1>2, <2>2 DEF AddMainRelation, EmptyBundle, stix
  <2>3. QED
    BY <2>1, <2>2
<1>7. bundle' \in Bundle
  BY TypeNext DEF TypeInv, TransformTypeOK, TransformNext
<1>8. PICK b \in Bundle : b = bundle'
  BY <1>7
<1>9. b = Collected(o, 1, 1)
  BY <1>5, <1>6, <1>8, CollectedNone
<1>10. prop' <= Len(Content[o].props) + 1 /\ 1..(prop' - 1) = {}
  BY <1>1, SectionTypes
<1>11. QED
  BY <1>1, <1>3, <1>4, <1>8, <1>9, <1>10 DEF InProps

LEMMA ConvertedProperty ==
    ASSUME TypeInv, ConvertedInv, ConvertProperty
    PROVE  InProps(Current)'
<1>1. /\ file' = file /\ next' = next /\ prop' = prop + 1 /\ Current' = Current
      /\ stage = "props" /\ prop <= Len(stix.props) /\ ~Aborts(stix.props[prop])
      /\ next <= Len(file) /\ InProps(Current) /\ prop \in Nat \ {0}
  BY DEF ConvertProperty, ConvertedInv, TypeInv, TransformTypeOK, InFile, Current
<1>2. PICK o \in Object : o = Current
  BY <1>1, FileType
<1>3. o = Current' /\ stix.props = Content[o].props /\ Len(Content[o].props) \in Nat
  BY <1>1, <1>2, SectionTypes DEF stix
<1>4. prop' <= Len(Content[o].props) + 1 /\ 1..(prop' - 1) = 1..(prop - 1) \cup {prop}
  BY <1>1, <1>3
<1>5. /\ Settled(o) /\ bundle = Collected(o, prop, 1)
      /\ \A i \in 1..(prop - 1) : ~Aborts(Content[o].props[i])
  BY <1>1, <1>2 DEF InProps
<1>6. bundle' = Collected(o, prop + 1, 1)
  <2>1. 1 \in Nat \ {0}
    OBVIOUS
  <2>2. Collected(o, prop + 1, 1) =
            IF Fails(Content[o].props[prop]) THEN Collected(o, prop, 1)
            ELSE Extend(Collected(o, prop, 1), <<"props", prop>>, Content[o].props[prop])
    BY <1>1, <2>1, CollectedMore
  <2>3. QED
    BY <1>3, <1>5, <2>2 DEF ConvertProperty
<1>7. \A i \in 1..(prop' - 1) : ~Aborts(Content[o].props[i])
  BY <1>1, <1>3, <1>4, <1>5
<1>8. QED
  BY <1>1, <1>3, <1>4, <1>5, <1>6, <1>7 DEF InProps

LEMMA ConvertedExtension ==
    ASSUME TypeInv, ConvertedInv, ConvertExtensionProperty
    PROVE  InExtension(Current)'
<1>1. /\ file' = file /\ next' = next /\ prop' = prop + 1 /\ Current' = Current
      /\ stage = "ext" /\ prop <= Len(RelevantProps(Current))
      /\ ~Fails(RelevantProps(Current)[prop])
      /\ next <= Len(file) /\ InExtension(Current) /\ prop \in Nat \ {0}
  BY DEF ConvertExtensionProperty, ConvertedInv, TypeInv, TransformTypeOK, InFile, Current
<1>2. PICK o \in Object : o = Current
  BY <1>1, FileType
<1>3. o = Current' /\ Len(RelevantProps(o)) \in Nat /\ Len(Content[o].props) \in Nat
  BY <1>1, <1>2, SectionTypes
<1>4. prop' <= Len(RelevantProps(o)) + 1 /\ 1..(prop' - 1) = 1..(prop - 1) \cup {prop}
  BY <1>1, <1>2, <1>3
<1>5. PICK n \in Nat \ {0} : n = Len(Content[o].props) + 1
  BY <1>3
<1>6. /\ Settled(o) /\ bundle = Collected(o, n, prop)
      /\ \A i \in 1..Len(Content[o].props) : ~Aborts(Content[o].props[i])
      /\ \A i \in 1..(prop - 1) : ~Fails(RelevantProps(o)[i])
  BY <1>1, <1>2, <1>5 DEF InExtension
<1>7. bundle' = Collected(o, n, prop + 1)
  <2>1. Collected(o, n, prop + 1) =
            Extend(Collected(o, n, prop), <<"ext", prop>>, RelevantProps(o)[prop])
    BY <1>1, <1>2, CollectedMore
  <2>2. QED
    BY <1>2, <1>6, <2>1 DEF ConvertExtensionProperty
<1>8. \A i \in 1..(prop' - 1) : ~Fails(RelevantProps(o)[i])
  BY <1>1, <1>2, <1>4, <1>6
<1>9. QED
  BY <1>1, <1>3, <1>4, <1>5, <1>6, <1>7, <1>8 DEF InExtension

LEMMA ConvertedDone ==
    ASSUME TypeInv, ConvertedInv, PropertiesDone \/ ExtensionDone
    PROVE  /\ PropertiesDone => InExtension(Current)'
           /\ ExtensionDone => Complete(Current)'
<1>1. /\ file' = file /\ next' = next /\ bundle' = bundle /\ prop' = 1 /\ Current' = Current
      /\ next <= Len(file) /\ prop \in Nat \ {0}
  BY DEF PropertiesDone, ExtensionDone, Enter, TypeInv, TransformTypeOK, InFile, Current
<1>2. PICK o \in Object : o = Current
  BY <1>1, FileType
<1>3. /\ o = Current' /\ stix.props = Content[o].props
      /\ Len(RelevantProps(o)) \in Nat /\ Len(Content[o].props) \in Nat
  BY <1>1, <1>2, SectionTypes DEF stix
<1>4. ASSUME PropertiesDone PROVE InExtension(Current)'
  <2>1. InProps(o) /\ prop > Len(Content[o].props)
    BY <1>2, <1>3, <1>4 DEF PropertiesDone, ConvertedInv
  <2>2. prop = Len(Content[o].props) + 1 /\ prop - 1 = Len(Content[o].props)
    BY <1>1, <1>3, <2>1 DEF InProps
  <2>3. prop' <= Len(RelevantProps(o)) + 1 /\ 1..(prop' - 1) = {}
    BY <1>1, <1>3
  <2>4. /\ Settled(o) /\ \A i \in 1..Len(Content[o].props) : ~Aborts(Content[o].props[i])
        /\ bundle' = Collected(o, Len(Content[o].props) + 1, prop')
    BY <1>1, <2>1, <2>2 DEF InProps
  <2>5. QED
    BY <1>3, <2>3, <2>4 DEF InExtension
<1>5. ASSUME ExtensionDone PROVE Complete(Current)'
  <2>1. InExtension(o) /\ prop > Len(RelevantProps(o))
    BY <1>2, <1>5 DEF ExtensionDone, ConvertedInv
  <2>2. prop = Len(RelevantProps(o)) + 1 /\ prop - 1 = Len(RelevantProps(o))
    BY <1>1, <1>3, <2>1 DEF InExtension
  <2>3. Survives(o)
    BY <2>1, <2>2 DEF InExtension, Settled, Survives
  <2>4. bundle' = Collected(o, Len(Content[o].props) + 1, Len(RelevantProps(o)) + 1)
    BY <1>1, <2>1, <2>2 DEF InExtension
  <2>5. QED
    BY <1>3, <2>3, <2>4 DEF Complete
<1>6. QED
  BY <1>4, <1>5

LEMMA ConvertedNext ==
    TypeInv /\ ConvertedInv /\ [TransformNext]_transformVars => ConvertedInv'
<1> SUFFICES ASSUME TypeInv, ConvertedInv, [TransformNext]_transformVars PROVE ConvertedInv'
  OBVIOUS
<1>1. CASE UNCHANGED transformVars
  BY <1>1 DEF transformVars, ConvertedInv, Current, stix, InProps, InExtension, Complete
<1>2. CASE Skip \/ Order
  BY <1>2 DEF Skip, Order, Enter, ConvertedInv
<1>3. CASE Read \/ ReadRaises \/ Finish
  BY <1>3 DEF Read, ReadRaises, Finish, Enter, ConvertedInv
<1>4. CASE Create
  <2>1. /\ stage' = IF stix.class = "custom" THEN "order" ELSE "main"
        /\ bundle' = EmptyBundle /\ stix' = stix /\ Current' = Current /\ stix.class # "none"
    BY <1>4 DEF Create, Enter, ConvertedInv, Current, stix
  <2>2. QED
    BY <2>1 DEF ConvertedInv, Complete, stix
<1>5. CASE AddMainEntity \/ AddMainRelation
  <2>1. stage' = "props"
    BY <1>5 DEF AddMainEntity, AddMainRelation, Enter
  <2>2. QED
    BY <1>5, <2>1, ConvertedSettles DEF ConvertedInv
<1>6. CASE ConvertProperty
  <2>1. stage' = "props"
    BY <1>6 DEF ConvertProperty
  <2>2. QED
    BY <1>6, <2>1, ConvertedProperty DEF ConvertedInv
<1>7. CASE ConvertExtensionProperty
  <2>1. stage' = "ext"
    BY <1>7 DEF ConvertExtensionProperty
  <2>2. QED
    BY <1>7, <2>1, ConvertedExtension DEF ConvertedInv
<1>8. CASE PropertiesDone \/ ExtensionDone
  <2>1. \/ PropertiesDone /\ stage' = "ext" /\ InExtension(Current)'
        \/ ExtensionDone /\ stage' = "order" /\ Complete(Current)'
    BY <1>8, ConvertedDone DEF PropertiesDone, ExtensionDone, Enter
  <2>2. QED
    BY <2>1 DEF ConvertedInv
<1>9. QED
  BY <1>1, <1>2, <1>3, <1>4, <1>5, <1>6, <1>7, <1>8 DEF TransformNext, CreateRaises,
     AddMainRaises, ConvertPropertyRaises, ConvertExtensionPropertyRaises

(* The lists of a file with one object more.                               *)
LEMMA TranslationMore ==
    ASSUME NEW f \in Seq(Object), NEW n \in 1..Len(f), NEW o, o = f[n],
           NEW s, s = Translation(SubSeq(f, 1, n - 1))
    PROVE  Translation(SubSeq(f, 1, n)) =
                <<AppendIf(o \in Entities, s[1], EntityOf[o]),
                  AppendIf(o \in Relations, s[2], RelationOf[o]),
                  AppendIf(o \in Referrers, s[3], EmbeddedOf[o])>>
<1>1. ASSUME NEW kinds, NEW made
      PROVE  QueriesOf(SubSeq(f, 1, n), kinds, made) =
                AppendIf(o \in kinds, QueriesOf(SubSeq(f, 1, n - 1), kinds, made), made[o])
  BY OneMore DEF AppendIf
<1>2. /\ s[1] = QueriesOf(SubSeq(f, 1, n - 1), Entities, EntityOf)
      /\ s[2] = QueriesOf(SubSeq(f, 1, n - 1), Relations, RelationOf)
      /\ s[3] = QueriesOf(SubSeq(f, 1, n - 1), Referrers, EmbeddedOf)
  BY DEF Translation
<1>3. QED
  BY <1>1, <1>2 DEF Translation

LEMMA TranslatedSkip ==
    ASSUME TypeInv, TranslatedSoFar, Skip, next <= Len(file), ~Survives(Current)
    PROVE  TranslatedSoFar'
<1>1. /\ file \in Seq(Object) /\ next \in 1..Len(file) /\ next' = next + 1
      /\ file' = file /\ lists' = lists
  BY FileType DEF Skip, TypeInv, TransformTypeOK
<1>2. PICK n \in 1..Len(file) : n = next /\ next' - 1 = n
  BY <1>1
<1>3. PICK f \in Seq(Object) : f = file
  BY <1>1
<1>4. PICK s : s = Translation(SubSeq(f, 1, n - 1))
  OBVIOUS
<1>5. Current \notin Entities /\ Current \notin Relations /\ Current \notin Referrers
  BY DEF Entities, Relations, Referrers
<1>6. Translation(SubSeq(f, 1, n)) = <<s[1], s[2], s[3]>>
  <2>1. f[n] = Current
    BY <1>2, <1>3 DEF Current
  <2>2. PICK o : o = f[n]
    OBVIOUS
  <2>3. Translation(SubSeq(f, 1, n)) =
            <<AppendIf(o \in Entities, s[1], EntityOf[o]),
              AppendIf(o \in Relations, s[2], RelationOf[o]),
              AppendIf(o \in Referrers, s[3], EmbeddedOf[o])>>
    BY <1>2, <1>3, <1>4, <2>2, TranslationMore
  <2>4. QED
    BY <1>5, <2>1, <2>2, <2>3 DEF AppendIf
<1>7. <<s[1], s[2], s[3]>> = s
  BY <1>4 DEF Translation
<1>8. lists = s
  BY <1>2, <1>3, <1>4 DEF TranslatedSoFar
<1>9. lists' = Translation(SubSeq(file', 1, next' - 1))
  BY <1>1, <1>2, <1>3, <1>6, <1>7, <1>8
<1>10. QED
  BY <1>9 DEF TranslatedSoFar

LEMMA TranslatedOrder ==
    ASSUME TypeInv, ConvertedInv, TranslatedSoFar, Order
    PROVE  TranslatedSoFar'
<1>1. /\ file \in Seq(Object) /\ next \in 1..Len(file) /\ next' = next + 1
      /\ file' = file /\ next <= Len(file) /\ stage = "order"
  BY FileType DEF Order, TypeInv, TransformTypeOK, InFile
<1>2. PICK n \in 1..Len(file) : n = next /\ next' - 1 = n
  BY <1>1
<1>3. PICK f \in Seq(Object) : f = file
  BY <1>1
<1>4. PICK s : s = Translation(SubSeq(f, 1, n - 1))
  OBVIOUS
<1>5. PICK o \in Object : o = Current /\ o = f[n]
  BY <1>1, <1>2, <1>3, FileType DEF Current
<1>6. Translation(SubSeq(f, 1, n)) =
            <<AppendIf(o \in Entities, s[1], EntityOf[o]),
              AppendIf(o \in Relations, s[2], RelationOf[o]),
              AppendIf(o \in Referrers, s[3], EmbeddedOf[o])>>
  BY <1>2, <1>3, <1>4, <1>5, TranslationMore
<1>7. lists = s
  BY <1>2, <1>3, <1>4 DEF TranslatedSoFar
<1>8. /\ bundle.marking = "entity" <=> o \in Entities
      /\ bundle.marking = "relation" <=> o \in Relations
      /\ bundle.links # {} <=> o \in Referrers
      /\ o \in Entities => MainQuery("entity") = EntityOf[o]
      /\ o \in Relations => MainQuery("relation") = RelationOf[o]
      /\ o \in Referrers => EmbeddedQuery = EmbeddedOf[o]
  <2>1. Complete(o)
    BY <1>1, <1>5 DEF ConvertedInv
  <2>2. CASE Content[o].class = "custom" /\ bundle = EmptyBundle
    <3>1. ~Survives(o)
      BY <2>2 DEF Survives
    <3>2. bundle.marking = "" /\ bundle.links = {}
      BY <2>2 DEF EmptyBundle
    <3>3. QED
      BY <3>1, <3>2 DEF Entities, Relations, Referrers
  <2>3. CASE /\ Survives(o)
             /\ bundle = Collected(o, Len(Content[o].props) + 1, Len(RelevantProps(o)) + 1)
    <3>1. PICK b : b = bundle
      OBVIOUS
    <3>2. /\ b.marking = IF Content[o].class = "SRO" THEN "relation" ELSE "entity"
          /\ b.has \cup b.attributes = Good(o, "attribute") \cup Good(o, "structured")
          /\ b.match = IF Content[o].class = "SRO" THEN RolePlayers(o) ELSE {}
          /\ b.links # {} <=> References(o) # {}
          /\ {k[1] : k \in b.links} = References(o)
          /\ {k[2] : k \in b.links} = Targets(o)
      BY <2>3, <3>1, CollectedAll
    <3>3. /\ o \in Entities <=> Content[o].class # "SRO"
          /\ o \in Relations <=> Content[o].class = "SRO"
          /\ o \in Referrers <=> References(o) # {}
      BY <2>3 DEF Entities, Relations, Referrers
    <3>4. ASSUME o \in Entities PROVE MainQuery("entity") = EntityOf[o]
      BY <1>5, <3>1, <3>2, <3>3, <3>4 DEF MainQuery, EntityOf
    <3>5. ASSUME o \in Relations PROVE MainQuery("relation") = RelationOf[o]
      BY <1>5, <3>1, <3>2, <3>3, <3>5 DEF MainQuery, RelationOf
    <3>6. EmbeddedQuery = EmbeddedOf[o]
      BY <1>5, <3>1, <3>2 DEF EmbeddedQuery, EmbeddedOf, stix
    <3>7. QED
      BY <3>1, <3>2, <3>3, <3>4, <3>5, <3>6
  <2>4. QED
    BY <2>1, <2>2, <2>3 DEF Complete
<1>9. lists' = Translation(SubSeq(f, 1, n))
  BY <1>6, <1>7, <1>8 DEF Order, AppendIf
<1>10. lists' = Translation(SubSeq(file', 1, next' - 1))
  BY <1>1, <1>2, <1>3, <1>9
<1>11. QED
  BY <1>10 DEF TranslatedSoFar

LEMMA TranslatedNext == TranslatedInv /\ [TransformNext]_transformVars => TranslatedInv'
<1> SUFFICES ASSUME TranslatedInv, [TransformNext]_transformVars PROVE TranslatedInv'
  OBVIOUS
<1> USE DEF TranslatedInv
<1>1. TypeInv' /\ ConvertedInv'
  BY TypeNext, ConvertedNext
<1>2. CASE Order
  BY <1>1, <1>2, TranslatedOrder
<1>3. CASE CreateRaises \/ AddMainRaises \/ ConvertPropertyRaises \/ ConvertExtensionPropertyRaises
  <2>1. Skip /\ stage \in {"create", "main", "props", "ext"}
    BY <1>3 DEF CreateRaises, AddMainRaises, ConvertPropertyRaises, ConvertExtensionPropertyRaises
  <2>2. next <= Len(file)
    BY <2>1 DEF TypeInv, InFile
  <2>3. PICK o \in Object : o = Current
    BY <2>2, FileType
  <2>4. prop \in Nat \ {0}
    BY DEF TypeInv, TransformTypeOK
  <2>5. ~Survives(Current)
    <3>1. CASE CreateRaises
      BY <3>1 DEF CreateRaises, Survives, stix
    <3>2. CASE AddMainRaises
      BY <3>2 DEF AddMainRaises, Survives, stix
    <3>3. CASE ConvertPropertyRaises
      <4>1. prop \in 1..Len(Content[o].props)
        BY <2>3, <2>4, <3>3, SectionTypes DEF ConvertPropertyRaises, stix
      <4>2. QED
        BY <2>3, <3>3, <4>1 DEF ConvertPropertyRaises, Survives, stix
    <3>4. CASE ConvertExtensionPropertyRaises
      <4>1. prop \in 1..Len(RelevantProps(o))
        BY <2>3, <2>4, <3>4, SectionTypes DEF ConvertExtensionPropertyRaises
      <4>2. QED
        BY <2>3, <3>4, <4>1 DEF ConvertExtensionPropertyRaises, Survives
    <3>5. QED
      BY <1>3, <3>1, <3>2, <3>3, <3>4
  <2>6. QED
    BY <1>1, <2>1, <2>2, <2>5, TranslatedSkip
<1>4. CASE /\ ~Order
           /\ ~(CreateRaises \/ AddMainRaises \/ ConvertPropertyRaises
                \/ ConvertExtensionPropertyRaises)
  <2>1. UNCHANGED <<file, lists, next>>
    BY <1>4 DEF TransformNext, transformVars, Read, ReadRaises, Finish, Create,
       AddMainEntity, AddMainRelation, ConvertProperty,
       PropertiesDone, ConvertExtensionProperty, ExtensionDone
  <2>2. QED
    BY <1>1, <2>1 DEF TranslatedSoFar
<1>5. QED
  BY <1>2, <1>3, <1>4

LEMMA TranslatedInitially == TransformInit => TranslatedInv
<1> SUFFICES ASSUME TransformInit PROVE TranslatedInv
  OBVIOUS
<1>1. ConvertedInv
  BY DEF TransformInit, ConvertedInv
<1>2. file \in Seq(Object) /\ next - 1 = 0
  BY TransformAssumption DEF TransformInit
<1>3. TranslatedSoFar
  BY <1>2, NoneYet DEF TransformInit, TranslatedSoFar
<1>4. QED
  BY <1>1, <1>3, TypeInitially DEF TranslatedInv

(* At any time the lists of insert queries are the translation of the part *)
(* of the file that has been dealt with: an object gives its queries, with *)
(* every property that converts and nothing of another object, or none.    *)
THEOREM TranslatedSoFarCorrect == TransformSpec => []TranslatedSoFar
<1>1. TranslatedInv => TranslatedSoFar
  BY DEF TranslatedInv
<1>2. QED
  BY <1>1, TranslatedInitially, TranslatedNext, PTL DEF TransformSpec, TransformSteps
=============================================================================
