------------------------ MODULE TransformLoadProofs ------------------------
(***************************************************************************)
(* What transform_load leaves in an empty database, for every mapping,     *)
(* every file and every batch size.  The results about the transformation  *)
(* say which queries are handed over, those about a load that is alone     *)
(* what becomes of queries; here they are put together.                    *)
(***************************************************************************)
EXTENDS TransformLoad, TransformProofs

P == INSTANCE BatchLoadProofs WITH
    Query <- Queries, KeyValue <- Id \cup NameKey, Keys <- QueryKeys, Needs <- QueryNeeds,
    Refused <- IllegalQueries, Loader <- {Process}, Bundles <- {Translation(f) : f \in Files},
    MaxFaults <- 0

(***************************************************************************)
(* The lists.  Each object of the file that is of the right kind gives one *)
(* query, and different objects give different queries.                    *)
(***************************************************************************)
Lists(f, n, kinds, made, s) ==
    /\ s \in Seq({made[o] : o \in kinds})
    /\ \A i \in 1..Len(s) : \E k \in 1..n : f[k] \in kinds /\ s[i] = made[f[k]]
    /\ \A k \in 1..n : f[k] \in kinds => \E i \in 1..Len(s) : s[i] = made[f[k]]
    /\ \A i, j \in 1..Len(s) : s[i] = s[j] => i = j

LEMMA ListsAppend ==
    ASSUME NEW f, NEW n \in Nat, NEW kinds, NEW made, NEW s, Lists(f, n, kinds, made, s),
           f[n + 1] \in kinds, \A k \in 1..n : made[f[k]] # made[f[n + 1]],
           NEW t, t = Append(s, made[f[n + 1]])
    PROVE  Lists(f, n + 1, kinds, made, t)
<1>1. PICK M : M = {made[o] : o \in kinds}
  OBVIOUS
<1>2. PICK q : q = made[f[n + 1]]
  OBVIOUS
<1>3. s \in Seq(M) /\ q \in M /\ t = Append(s, q)
  BY <1>1, <1>2 DEF Lists
<1>4. /\ t \in Seq(M) /\ Len(s) \in Nat /\ Len(t) = Len(s) + 1 /\ t[Len(s) + 1] = q
      /\ \A i \in 1..Len(s) : t[i] = s[i]
  BY <1>3
<1>5. ASSUME NEW i \in 1..Len(t)
      PROVE  \E k \in 1..(n + 1) : f[k] \in kinds /\ t[i] = made[f[k]]
  <2>1. CASE i = Len(s) + 1
    BY <1>2, <1>4, <2>1
  <2>2. CASE i \in 1..Len(s)
    <3>1. PICK k \in 1..n : f[k] \in kinds /\ s[i] = made[f[k]]
      BY <2>2 DEF Lists
    <3>2. k \in 1..(n + 1)
      OBVIOUS
    <3>3. QED
      BY <1>4, <2>2, <3>1, <3>2
  <2>3. QED
    BY <1>4, <2>1, <2>2
<1>6. ASSUME NEW k \in 1..(n + 1), f[k] \in kinds
      PROVE  \E i \in 1..Len(t) : t[i] = made[f[k]]
  <2>1. CASE k = n + 1
    BY <1>2, <1>4, <2>1
  <2>2. CASE k \in 1..n
    <3>1. PICK i \in 1..Len(s) : s[i] = made[f[k]]
      BY <1>6, <2>2 DEF Lists
    <3>2. i \in 1..Len(t)
      BY <1>4
    <3>3. QED
      BY <1>4, <3>1, <3>2
  <2>3. QED
    BY <2>1, <2>2
<1>7. \A i \in 1..Len(s) : s[i] # q
  BY <1>2 DEF Lists
<1>8. \A i, j \in 1..Len(t) : t[i] = t[j] => i = j
  BY <1>4, <1>7 DEF Lists
<1>9. QED
  BY <1>1, <1>4, <1>5, <1>6, <1>8 DEF Lists

LEMMA QueriesOfFile ==
    ASSUME NEW f \in Seq(Object), \A i, j \in 1..Len(f) : f[i] = f[j] => i = j,
           NEW kinds, NEW made, \A o \in Object : made[o].obj = o
    PROVE  Lists(f, Len(f), kinds, made, QueriesOf(f, kinds, made))
<1>1. PICK F : Listing(f, kinds, made, Len(f), F) /\ QueriesOf(f, kinds, made) = F[Len(f)]
  BY QueriesAreListed
<1>2. PICK A : A = {n \in Nat : n <= Len(f) => Lists(f, n, kinds, made, F[n])}
  OBVIOUS
<1>3. 0 \in A
  <2>1. F[0] = <<>>
    BY <1>1 DEF Listing
  <2>2. Lists(f, 0, kinds, made, F[0])
    BY <2>1 DEF Lists
  <2>3. QED
    BY <1>2, <2>2
<1>4. ASSUME NEW n \in A PROVE n + 1 \in A
  <2>1. n \in Nat /\ Len(f) \in Nat
    BY <1>2
  <2>2. SUFFICES ASSUME n + 1 <= Len(f) PROVE Lists(f, n + 1, kinds, made, F[n + 1])
    BY <1>2, <2>1
  <2>3. Lists(f, n, kinds, made, F[n])
    BY <1>2, <2>1, <2>2
  <2>4. PICK m : m = n + 1
    OBVIOUS
  <2>5. m \in 1..Len(f) /\ m - 1 = n
    BY <2>1, <2>2, <2>4
  <2>6. F[m] = IF f[m] \in kinds THEN Append(F[n], made[f[m]]) ELSE F[n]
    BY <1>1, <2>5 DEF Listing
  <2>7. \A k \in 1..n : made[f[k]] # made[f[m]]
    <3>1. \A k \in 1..n : k \in 1..Len(f) /\ f[k] # f[m] /\ f[k] \in Object /\ f[m] \in Object
      BY <2>1, <2>4, <2>5
    <3>2. QED
      BY <3>1
  <2>8. CASE f[m] \in kinds
    BY <2>1, <2>3, <2>4, <2>6, <2>7, <2>8, ListsAppend
  <2>9. CASE f[m] \notin kinds
    <3>1. F[m] = F[n] /\ \A k \in 1..(n + 1) : f[k] \in kinds => k \in 1..n
      BY <2>1, <2>4, <2>6, <2>9
    <3>2. \A k \in 1..n : k \in 1..(n + 1)
      BY <2>1
    <3>3. QED
      BY <2>3, <2>4, <3>1, <3>2 DEF Lists
  <2>10. QED
    BY <2>8, <2>9
<1>5. A = Nat
  BY <1>2, <1>3, <1>4, Induction
<1>6. QED
  BY <1>1, <1>2, <1>5

LEMMA ObjectOf ==
    ASSUME NEW o \in Object
    PROVE  /\ EntityOf[o].obj = o /\ EntityOf[o].part = "entity" /\ EntityOf[o].needs = {}
           /\ RelationOf[o].obj = o /\ RelationOf[o].part = "relation"
           /\ RelationOf[o].needs = RolePlayers(o)
           /\ EmbeddedOf[o].obj = o /\ EmbeddedOf[o].part = "embedded"
           /\ EmbeddedOf[o].needs = {Content[o].id} \cup Targets(o)
BY DEF EntityOf, RelationOf, EmbeddedOf

LEMMA TranslationLists ==
    ASSUME NEW f \in Files
    PROVE  /\ f \in Seq(Object) /\ \A i, j \in 1..Len(f) : f[i] = f[j] => i = j
           /\ Translation(f) = [p \in 1..3 |-> Translation(f)[p]]
           /\ Lists(f, Len(f), Entities, EntityOf, Translation(f)[1])
           /\ Lists(f, Len(f), Relations, RelationOf, Translation(f)[2])
           /\ Lists(f, Len(f), Referrers, EmbeddedOf, Translation(f)[3])
<1>1. f \in Seq(Object) /\ \A i, j \in 1..Len(f) : f[i] = f[j] => i = j
  BY TransformAssumption
<1>2. /\ Lists(f, Len(f), Entities, EntityOf, QueriesOf(f, Entities, EntityOf))
      /\ Lists(f, Len(f), Relations, RelationOf, QueriesOf(f, Relations, RelationOf))
      /\ Lists(f, Len(f), Referrers, EmbeddedOf, QueriesOf(f, Referrers, EmbeddedOf))
  BY <1>1, QueriesOfFile, ObjectOf
<1>3. PICK s1 : s1 = QueriesOf(f, Entities, EntityOf)
  OBVIOUS
<1>4. PICK s2 : s2 = QueriesOf(f, Relations, RelationOf)
  OBVIOUS
<1>5. PICK s3 : s3 = QueriesOf(f, Referrers, EmbeddedOf)
  OBVIOUS
<1>6. Translation(f) = <<s1, s2, s3>>
  BY <1>3, <1>4, <1>5 DEF Translation
<1>7. QED
  BY <1>1, <1>2, <1>3, <1>4, <1>5, <1>6

LEMMA NeedsAreIds ==
    ASSUME NEW o \in Object
    PROVE  /\ EntityOf[o] \in Queries
           /\ o \in Relations => RelationOf[o] \in Queries
           /\ EmbeddedOf[o] \in Queries
<1>1. Content[o] \in STIXObject /\ Known \subseteq Id
  BY TransformAssumption
<1>2. Content[o].id \in Id
  BY <1>1 DEF STIXObject
<1>3. ASSUME NEW x \in Targets(o)
      PROVE  x \in Id
  <2>1. PICK r \in References(o) : x \in Elements(Sections(o)[r[1]][r[2]])
    BY <1>3 DEF Targets
  <2>2. PICK s \in {"props", "ext"} : \E i \in DOMAIN Sections(o)[s] :
            r = <<s, i>> /\ Converts(Sections(o)[s][i], "reference")
    BY <2>1 DEF References, Good
  <2>3. PICK i \in DOMAIN Sections(o)[s] :
            r = <<s, i>> /\ Converts(Sections(o)[s][i], "reference")
    BY <2>2
  <2>4. PICK p : p = Sections(o)[s][i]
    OBVIOUS
  <2>5. p.kind = "reference" /\ ~Fails(p) /\ x \in Elements(p)
    BY <2>1, <2>3, <2>4 DEF Converts
  <2>6. PICK j \in 1..Len(p.elems) : x = p.elems[j]
    BY <2>5 DEF Elements
  <2>7. x \in Known
    BY <2>5, <2>6 DEF Fails, Bad
  <2>8. QED
    BY <1>1, <2>7
<1>4. o \in Relations => RolePlayers(o) \subseteq Id
  BY <1>1 DEF Relations, Survives, RolesFound
<1>5. /\ EntityOf[o].needs \subseteq Id
      /\ o \in Relations => RelationOf[o].needs \subseteq Id
      /\ EmbeddedOf[o].needs \subseteq Id
  BY <1>2, <1>3, <1>4, ObjectOf
<1>6. QED
  BY <1>5 DEF Queries

(* A query tells the list it is in.                                        *)
PartOf(p) == IF p = 1 THEN "entity" ELSE IF p = 2 THEN "relation" ELSE "embedded"
LEMMA TranslationItem ==
    ASSUME NEW f \in Files, NEW p \in 1..3, NEW i \in 1..Len(Translation(f)[p])
    PROVE  LET q == Translation(f)[p][i]
           IN  /\ q \in Queries /\ q.part = PartOf(p) /\ q.obj \in Object
               /\ \E k \in 1..Len(f) : q.obj = f[k]
               /\ p = 1 => q.obj \in Entities /\ q = EntityOf[q.obj]
               /\ p = 2 => q.obj \in Relations /\ q = RelationOf[q.obj]
               /\ p = 3 => q.obj \in Referrers /\ q = EmbeddedOf[q.obj]
<1> DEFINE q == Translation(f)[p][i]
<1>1. Entities \subseteq Object /\ Relations \subseteq Object /\ Referrers \subseteq Object
  BY DEF Entities, Relations, Referrers
<1>2. CASE p = 1
  <2>0. Lists(f, Len(f), Entities, EntityOf, Translation(f)[p])
    BY <1>2, TranslationLists
  <2>1. PICK k \in 1..Len(f) : f[k] \in Entities /\ q = EntityOf[f[k]]
    BY <2>0 DEF Lists
  <2>2. PICK o \in Entities : o = f[k]
    BY <2>1
  <2>3. q = EntityOf[o] /\ q.obj = o /\ q.part = "entity" /\ o \in Object
    BY <1>1, <2>1, <2>2, ObjectOf
  <2>4. q \in Queries /\ q.part = PartOf(p) /\ \E m \in 1..Len(f) : q.obj = f[m]
    BY <1>2, <2>2, <2>3, NeedsAreIds DEF PartOf
  <2>5. QED
    BY <1>2, <2>3, <2>4
<1>3. CASE p = 2
  <2>0. Lists(f, Len(f), Relations, RelationOf, Translation(f)[p])
    BY <1>3, TranslationLists
  <2>1. PICK k \in 1..Len(f) : f[k] \in Relations /\ q = RelationOf[f[k]]
    BY <2>0 DEF Lists
  <2>2. PICK o \in Relations : o = f[k]
    BY <2>1
  <2>3. q = RelationOf[o] /\ q.obj = o /\ q.part = "relation" /\ o \in Object
    BY <1>1, <2>1, <2>2, ObjectOf
  <2>4. q \in Queries /\ q.part = PartOf(p) /\ \E m \in 1..Len(f) : q.obj = f[m]
    BY <1>3, <2>2, <2>3, NeedsAreIds DEF PartOf
  <2>5. QED
    BY <1>3, <2>3, <2>4
<1>4. CASE p = 3
  <2>0. Lists(f, Len(f), Referrers, EmbeddedOf, Translation(f)[p])
    BY <1>4, TranslationLists
  <2>1. PICK k \in 1..Len(f) : f[k] \in Referrers /\ q = EmbeddedOf[f[k]]
    BY <2>0 DEF Lists
  <2>2. PICK o \in Referrers : o = f[k]
    BY <2>1
  <2>3. q = EmbeddedOf[o] /\ q.obj = o /\ q.part = "embedded" /\ o \in Object
    BY <1>1, <2>1, <2>2, ObjectOf
  <2>4. q \in Queries /\ q.part = PartOf(p) /\ \E m \in 1..Len(f) : q.obj = f[m]
    BY <1>4, <2>2, <2>3, NeedsAreIds DEF PartOf
  <2>5. QED
    BY <1>4, <2>3, <2>4
<1>5. p = 1 \/ p = 2 \/ p = 3
  OBVIOUS
<1>6. QED
  BY <1>2, <1>3, <1>4, <1>5, Zenon

LEMMA TranslationDistinct ==
    ASSUME NEW f \in Files, NEW p \in 1..3, NEW r \in 1..3,
           NEW i \in 1..Len(Translation(f)[p]), NEW j \in 1..Len(Translation(f)[r]),
           Translation(f)[p][i] = Translation(f)[r][j]
    PROVE  p = r /\ i = j
<1>1. PartOf(p) = PartOf(r)
  <2>1. Translation(f)[p][i].part = PartOf(p)
    BY TranslationItem
  <2>2. Translation(f)[r][j].part = PartOf(r)
    BY TranslationItem
  <2>3. QED
    BY <2>1, <2>2
<1>2. p = r
  BY <1>1 DEF PartOf
<1>3. PICK s : s = Translation(f)[p]
  OBVIOUS
<1>4. \A m, n \in 1..Len(s) : s[m] = s[n] => m = n
  <2>1. CASE p = 1
    <3>1. Lists(f, Len(f), Entities, EntityOf, s)
      BY <1>3, <2>1, TranslationLists
    <3>2. QED
      BY <3>1 DEF Lists
  <2>2. CASE p = 2
    <3>1. Lists(f, Len(f), Relations, RelationOf, s)
      BY <1>3, <2>2, TranslationLists
    <3>2. QED
      BY <3>1 DEF Lists
  <2>3. CASE p = 3
    <3>1. Lists(f, Len(f), Referrers, EmbeddedOf, s)
      BY <1>3, <2>3, TranslationLists
    <3>2. QED
      BY <3>1 DEF Lists
  <2>4. QED
    BY <2>1, <2>2, <2>3
<1>5. QED
  BY <1>2, <1>3, <1>4

LEMMA TranslationType ==
    ASSUME NEW f \in Files
    PROVE  Translation(f) \in [1..3 -> Seq(Queries)]
<1>1. \A p \in 1..3 : Translation(f)[p] \in Seq(Queries)
  <2> TAKE p \in 1..3
  <2>1. PICK M : Translation(f)[p] \in Seq(M)
    <3>1. CASE p = 1
      BY <3>1, TranslationLists DEF Lists
    <3>2. CASE p = 2
      BY <3>2, TranslationLists DEF Lists
    <3>3. CASE p = 3
      BY <3>3, TranslationLists DEF Lists
    <3>4. QED
      BY <3>1, <3>2, <3>3
  <2>2. \A i \in 1..Len(Translation(f)[p]) : Translation(f)[p][i] \in Queries
    BY TranslationItem
  <2>3. QED
    BY <2>1, <2>2
<1>2. QED
  BY <1>1, TranslationLists

LEMMA QueryTypes ==
    ASSUME NEW q \in Queries
    PROVE  q.needs \subseteq Id /\ QueryKey(q) \subseteq Id \cup NameKey /\ q.obj \in Object
<1>1. Content \in [Object -> STIXObject] /\ NameKeys \in [Object -> SUBSET NameKey]
  BY TransformAssumption, TransformLoadAssumption
<1>2. PICK o \in Object : q = EntityOf[o] \/ q = RelationOf[o] \/ q = EmbeddedOf[o]
  BY DEF Queries
<1>3. Content[o].id \in Id /\ NameKeys[o] \subseteq NameKey /\ q.obj = o
  BY <1>1, <1>2, ObjectOf DEF STIXObject
<1>4. q.needs \subseteq Id
  BY DEF Queries
<1>5. QED
  BY <1>3, <1>4 DEF QueryKey

(* What the module of a load assumes of its queries and bundles.           *)
LEMMA StoreAssumed == P!StoreAssumption
BY QueryTypes DEF P!StoreAssumption, QueryKeys, QueryNeeds, IllegalQueries

LEMMA LoadAssumed == P!LoadAssumption
<1>1. IsFiniteSet({Process}) /\ BatchSize \in Nat \ {0} /\ 0 \in Nat
  BY FS_Singleton, TransformLoadAssumption
<1>2. {Translation(f) : f \in Files} \subseteq P!Bundle
  BY TranslationType DEF P!Bundle, P!Phases
<1>3. \A d \in {Translation(f) : f \in Files}, p, r \in P!Phases :
        \A i \in 1..Len(d[p]), j \in 1..Len(d[r]) : d[p][i] = d[r][j] => p = r /\ i = j
  BY TranslationDistinct DEF P!Phases
<1>4. QED
  BY <1>1, <1>2, <1>3 DEF P!LoadAssumption, P!IsFiniteSet, IsFiniteSet
LEMMA SameStep == Store!Progress(Process) => P!LoadStep(Process)
<1>1. ASSUME Store!OpenHandler(Process) PROVE P!OpenHandler(Process)
  BY <1>1 DEF Store!OpenHandler, P!OpenHandler, Store!storeVars, P!storeVars, Store!aux, P!aux
<1>2. ASSUME Store!EndPhase(Process) PROVE P!EndPhase(Process)
  BY <1>2 DEF Store!EndPhase, P!EndPhase, Store!executables, P!executables, Store!amount,
     P!amount, Store!storeVars, P!storeVars, Store!aux, P!aux
<1>3. ASSUME Store!CheckDatabase(Process) PROVE P!CheckDatabase(Process)
  BY <1>3 DEF Store!CheckDatabase, P!CheckDatabase, Store!executables, P!executables,
     Store!amount, P!amount, Store!DatabaseExists, P!DatabaseExists, Store!storeVars,
     P!storeVars, Store!aux, P!aux
<1>4. ASSUME Store!OpenTransaction(Process) PROVE P!OpenTransaction(Process)
  BY <1>4 DEF Store!OpenTransaction, P!OpenTransaction, Store!Writable, P!Writable,
     Store!DatabaseExists, P!DatabaseExists, Store!First, P!First, Store!StoredKeys,
     P!StoredKeys, Store!KeysOf, P!KeysOf, Store!storeVars, P!storeVars, Store!aux, P!aux
<1>5. ASSUME Store!OpenTransactionRaises(Process) PROVE P!OpenTransactionRaises(Process)
  BY <1>5 DEF Store!OpenTransactionRaises, P!OpenTransactionRaises, Store!Writable, P!Writable,
     Store!DatabaseExists, P!DatabaseExists, Store!Fault, P!Fault, Store!storeVars, P!storeVars,
     Store!aux, P!aux
<1>6. ASSUME Store!InsertQuery(Process) PROVE P!InsertQuery(Process)
  BY <1>6 DEF Store!InsertQuery, P!InsertQuery, Store!executables, P!executables, Store!Matched,
     P!Matched, Store!Visible, P!Visible, Store!KeysOf, P!KeysOf, Store!Last, P!Last,
     Store!BatchEnd, P!BatchEnd, Store!amount, P!amount, Store!TxOpen, P!TxOpen,
     Store!Executable, P!Executable, Store!Defined, P!Defined, Store!Clashes, P!Clashes,
     Store!KeyFree, P!KeyFree, Store!storeVars, P!storeVars, Store!aux, P!aux
<1>7. ASSUME Store!InsertQueryRaises(Process) PROVE P!InsertQueryRaises(Process)
  BY <1>7 DEF Store!InsertQueryRaises, P!InsertQueryRaises, Store!executables, P!executables,
     Store!Matched, P!Matched, Store!Visible, P!Visible, Store!KeysOf, P!KeysOf, Store!Last,
     P!Last, Store!BatchEnd, P!BatchEnd, Store!amount, P!amount, Store!TxOpen, P!TxOpen,
     Store!Executable, P!Executable, Store!Defined, P!Defined, Store!Clashes, P!Clashes,
     Store!KeyFree, P!KeyFree, Store!Fault, P!Fault, Store!After, P!After, Store!Retry, P!Retry,
     Store!NextBatch, P!NextBatch, Store!NextQuery, P!NextQuery, Store!NoTx, P!NoTx,
     Store!Settled, P!Settled, Store!Final, P!Final, Store!First, P!First, Store!storeVars,
     P!storeVars, Store!aux, P!aux
<1>8. ASSUME Store!Commit(Process) PROVE P!Commit(Process)
  BY <1>8 DEF Store!Commit, P!Commit, Store!executables, P!executables, Store!KeysOf, P!KeysOf,
     Store!Last, P!Last, Store!BatchEnd, P!BatchEnd, Store!amount, P!amount, Store!TxOpen,
     P!TxOpen, Store!Committable, P!Committable, Store!StoredKeys, P!StoredKeys, Store!Apply,
     P!Apply, Store!After, P!After, Store!Retry, P!Retry, Store!NextBatch, P!NextBatch,
     Store!NextQuery, P!NextQuery, Store!NoTx, P!NoTx, Store!Settled, P!Settled,
     Store!storeVars, P!storeVars, Store!aux, P!aux
<1>9. ASSUME Store!CommitRaises(Process) PROVE P!CommitRaises(Process)
  BY <1>9 DEF Store!CommitRaises, P!CommitRaises, Store!executables, P!executables,
     Store!KeysOf, P!KeysOf, Store!Last, P!Last, Store!BatchEnd, P!BatchEnd, Store!amount,
     P!amount, Store!TxOpen, P!TxOpen, Store!Committable, P!Committable, Store!StoredKeys,
     P!StoredKeys, Store!Fault, P!Fault, Store!After, P!After, Store!Retry, P!Retry,
     Store!NextBatch, P!NextBatch, Store!NextQuery, P!NextQuery, Store!NoTx, P!NoTx,
     Store!Settled, P!Settled, Store!Final, P!Final, Store!First, P!First, Store!storeVars,
     P!storeVars, Store!aux, P!aux
<1>10. QED
  BY <1>1, <1>2, <1>3, <1>4, <1>5, <1>6, <1>7, <1>8, <1>9 DEF Store!Progress, P!Progress, P!LoadStep

(***************************************************************************)
(* The invariant.  The transformation has the lists right at every step;   *)
(* the load starts when it is done, on these lists, and is sequential.     *)
(***************************************************************************)
HandedOver == pc[Process] # "idle" => stage = "done" /\ data[Process] = Translation(file)
AllConverted == stage = "done" => next > Len(file)
PipelineInv == TranslatedInv /\ AllConverted /\ P!SoleInv(Process) /\ HandedOver

LEMMA ListsWhole ==
    ASSUME TranslatedInv, AllConverted, stage = "done"
    PROVE  lists = Translation(file)
<1>1. file \in Seq(Object) /\ Len(file) \in Nat /\ next \in 1..(Len(file) + 1)
  BY FileType DEF TranslatedInv, TypeInv, TransformTypeOK
<1>2. next - 1 = Len(file)
  BY <1>1 DEF AllConverted
<1>3. SubSeq(file, 1, Len(file)) = file
  BY <1>1
<1>4. QED
  BY <1>2, <1>3 DEF TranslatedInv, TranslatedSoFar

LEMMA LoadUnchanged == UNCHANGED loadSide => UNCHANGED P!vars
BY DEF loadSide, P!vars, P!storeVars, P!loadVars, P!control, P!aux

LEMMA SoleKept ==
    ASSUME P!SoleInv(Process), UNCHANGED loadSide \/ P!LoadStep(Process)
    PROVE  P!SoleInv(Process)'
<1>1. [P!Next]_(P!vars)
  BY LoadUnchanged DEF P!Next
<1>2. QED
  BY <1>1, StoreAssumed, LoadAssumed, P!SoleNext

LEMMA TransformPartKept ==
    ASSUME PipelineInv, TransformPart
    PROVE  PipelineInv'
<1>1. TranslatedInv /\ AllConverted /\ P!SoleInv(Process) /\ HandedOver
      /\ TransformNext /\ UNCHANGED loadSide
  BY DEF PipelineInv, TransformPart
<1>2. TranslatedInv'
  BY <1>1, TranslatedNext
<1>3. P!SoleInv(Process)'
  BY <1>1, SoleKept
<1>4. stage # "done"
  BY <1>1 DEF TransformNext, Read, ReadRaises, Finish, Create, CreateRaises, AddMainEntity,
     AddMainRelation, AddMainRaises, ConvertProperty, ConvertPropertyRaises, PropertiesDone,
     ConvertExtensionProperty, ConvertExtensionPropertyRaises, ExtensionDone, Order
<1>5. stage' = "done" => next' > Len(file')
  BY <1>1, <1>4 DEF TransformNext, Read, ReadRaises, Finish, Create, CreateRaises, AddMainEntity,
     AddMainRelation, AddMainRaises, ConvertProperty, ConvertPropertyRaises, PropertiesDone,
     ConvertExtensionProperty, ConvertExtensionPropertyRaises, ExtensionDone, Order, Skip, Enter
<1>6. HandedOver'
  BY <1>1, <1>4 DEF HandedOver, loadSide
<1>7. QED
  BY <1>2, <1>3, <1>5, <1>6 DEF PipelineInv, AllConverted

LEMMA HandOverKept ==
    ASSUME PipelineInv, HandOver
    PROVE  PipelineInv'
<1>1. TranslatedInv /\ AllConverted /\ P!SoleInv(Process) /\ stage = "done"
      /\ Store!StartLoad(Process, lists) /\ UNCHANGED transformVars
  BY DEF PipelineInv, HandOver
<1>2. lists = Translation(file) /\ file \in Files
  BY <1>1, ListsWhole DEF TranslatedInv, TypeInv, TransformTypeOK
<1>3. P!StartLoad(Process, lists)
  BY <1>1 DEF Store!StartLoad, P!StartLoad, Store!Defined, P!Defined, Store!storeVars, P!storeVars
<1>4. P!LoadStep(Process)
  BY <1>2, <1>3 DEF P!LoadStep
<1>5. P!SoleInv(Process)'
  BY <1>1, <1>4, SoleKept
<1>6. TranslatedInv'
  BY <1>1, TranslatedNext
<1>7. AllConverted' /\ stage' = "done" /\ file' = file
  BY <1>1 DEF AllConverted, transformVars
<1>8. data'[Process] = Translation(file)
  <2>1. data' = [data EXCEPT ![Process] = lists]
    BY <1>3 DEF P!StartLoad
  <2>2. data \in [{Process} -> P!Bundle]
    BY <1>1 DEF P!SoleInv, P!RefinementInv, P!LoadInv, P!TypeOK
  <2>3. QED
    BY <1>2, <2>1, <2>2
<1>9. QED
  BY <1>5, <1>6, <1>7, <1>8 DEF PipelineInv, HandedOver

LEMMA LoadPartKept ==
    ASSUME PipelineInv, LoadPart
    PROVE  PipelineInv'
<1>1. TranslatedInv /\ AllConverted /\ P!SoleInv(Process) /\ HandedOver
      /\ Store!Progress(Process) /\ UNCHANGED transformVars
  BY DEF PipelineInv, LoadPart
<1>2. P!SoleInv(Process)'
  BY <1>1, SameStep, SoleKept
<1>3. TranslatedInv'
  BY <1>1, TranslatedNext
<1>4. AllConverted' /\ stage' = stage /\ file' = file
  BY <1>1 DEF AllConverted, transformVars
<1>5. pc[Process] # "idle" /\ data' = data
  BY <1>1 DEF Store!Progress, Store!OpenHandler, Store!EndPhase, Store!CheckDatabase,
     Store!OpenTransaction, Store!OpenTransactionRaises, Store!InsertQuery,
     Store!InsertQueryRaises, Store!Commit, Store!CommitRaises, Store!After
<1>6. HandedOver'
  BY <1>1, <1>4, <1>5 DEF HandedOver
<1>7. QED
  BY <1>2, <1>3, <1>4, <1>6 DEF PipelineInv

LEMMA PipelineNextInv == PipelineInv /\ [PipelineNext]_pipelineVars => PipelineInv'
<1> SUFFICES ASSUME PipelineInv, [PipelineNext]_pipelineVars PROVE PipelineInv'
  OBVIOUS
<1>1. CASE PipelineNext
  BY <1>1, TransformPartKept, HandOverKept, LoadPartKept DEF PipelineNext
<1>2. CASE UNCHANGED pipelineVars
  <2>1. UNCHANGED transformVars /\ UNCHANGED loadSide
    BY <1>2 DEF pipelineVars
  <2>2. TranslatedInv'
    BY <2>1, TranslatedNext DEF PipelineInv
  <2>3. P!SoleInv(Process)'
    BY <2>1, SoleKept DEF PipelineInv
  <2>4. AllConverted' /\ HandedOver'
    BY <2>1 DEF PipelineInv, AllConverted, HandedOver, transformVars, loadSide
  <2>5. QED
    BY <2>2, <2>3, <2>4 DEF PipelineInv
<1>3. QED
  BY <1>1, <1>2

LEMMA PipelineInitInv == PipelineInit => PipelineInv
<1> SUFFICES ASSUME PipelineInit PROVE PipelineInv
  OBVIOUS
<1>1. TransformInit /\ Store!Init
  BY DEF PipelineInit
<1>2. TranslatedInv
  BY <1>1, TranslatedInitially
<1>3. P!Init
  BY <1>1 DEF Store!Init, Store!StoreInit, Store!LoadInit, P!Init, P!StoreInit, P!LoadInit,
     Store!Empty, P!Empty, Store!NoData, P!NoData, Store!NoTx, P!NoTx, Store!Phases, P!Phases
<1>4. P!SoleInv(Process)
  BY <1>3, StoreAssumed, LoadAssumed, P!SoleInitially
<1>5. AllConverted /\ HandedOver
  BY <1>1, <1>3 DEF TransformInit, P!Init, P!LoadInit, AllConverted, HandedOver
<1>6. QED
  BY <1>2, <1>4, <1>5 DEF PipelineInv

(***************************************************************************)
(* What a load that is done has stored, in the terms of the lists.         *)
(***************************************************************************)
Earlier(r, j, p, i) == r < p \/ (r = p /\ j < i)
FoundBefore(f, p, i, key) == \E r \in 1..3 : \E j \in 1..Len(Translation(f)[r]) :
    /\ Earlier(r, j, p, i)
    /\ copies[Translation(f)[r][j]] > 0
    /\ key \in QueryKey(Translation(f)[r][j])
Fits(f, p, i) ==
    /\ ~IsIllegal(Translation(f)[p][i])
    /\ \A key \in Translation(f)[p][i].needs : FoundBefore(f, p, i, key)
    /\ \A key \in QueryKey(Translation(f)[p][i]) : ~FoundBefore(f, p, i, key)

LEMMA LoadedInTurn ==
    ASSUME PipelineInv, pc[Process] = "done"
    PROVE  /\ file \in Files
           /\ \A q \in Queries : copies[q] > 0 =>
                \E p \in 1..3 : \E i \in 1..Len(Translation(file)[p]) : q = Translation(file)[p][i]
           /\ \A p \in 1..3 : \A i \in 1..Len(Translation(file)[p]) :
                copies[Translation(file)[p][i]] = IF Fits(file, p, i) THEN 1 ELSE 0
<1> DEFINE T == Translation(file)
<1>1. data[Process] = T /\ file \in Files
  BY DEF PipelineInv, HandedOver, TranslatedInv, TypeInv, TransformTypeOK
<1>2. P!InSequence(Process)
  BY StoreAssumed, LoadAssumed, P!SoleDone DEF PipelineInv
<1>3. \A q \in Queries : copies[q] > 0 => \E p \in 1..3 : \E i \in 1..Len(T[p]) : q = T[p][i]
  BY <1>1, <1>2 DEF P!InSequence, P!Phases
<1>4. ASSUME NEW p \in 1..3, NEW i \in 1..Len(T[p])
      PROVE  copies[T[p][i]] = IF Fits(file, p, i) THEN 1 ELSE 0
  <2>1. copies[T[p][i]] =
            IF P!Insertable(T[p][i], P!KeysBefore(Process, p, i)) THEN 1 ELSE 0
    BY <1>1, <1>2 DEF P!InSequence, P!InTurn, P!Phases
  <2>2. ASSUME NEW key \in Id \cup NameKey
        PROVE  key \in P!KeysBefore(Process, p, i) <=> FoundBefore(file, p, i, key)
    <3>1. \A r \in 1..3 : \A j \in 1..Len(T[r]) : QueryKeys[T[r][j]] = QueryKey(T[r][j])
      BY <1>1, TranslationItem DEF QueryKeys
    <3>2. key \in P!KeysBefore(Process, p, i) <=>
            \E r \in 1..3 : \E j \in 1..Len(T[r]) :
                Earlier(r, j, p, i) /\ copies[T[r][j]] > 0 /\ key \in QueryKeys[T[r][j]]
      BY <1>1, <2>2 DEF P!KeysBefore, P!Precedes, P!Phases, Earlier
    <3>3. QED
      BY <3>1, <3>2 DEF FoundBefore
  <2>3. T[p][i] \in Queries
    BY <1>1, TranslationItem
  <2>4. /\ T[p][i].needs \subseteq Id \cup NameKey /\ QueryNeeds[T[p][i]] = T[p][i].needs
        /\ QueryKey(T[p][i]) \subseteq Id \cup NameKey /\ QueryKeys[T[p][i]] = QueryKey(T[p][i])
        /\ T[p][i] \in IllegalQueries <=> IsIllegal(T[p][i])
    BY <2>3, QueryTypes DEF QueryNeeds, QueryKeys, IllegalQueries
  <2>5. P!Insertable(T[p][i], P!KeysBefore(Process, p, i)) <=> Fits(file, p, i)
    BY <2>2, <2>4 DEF P!Insertable, Fits
  <2>6. QED
    BY <2>1, <2>5
<1>5. QED
  BY <1>1, <1>3, <1>4

(* Where query i of list p is when the lists are put one after the other.  *)
Offset(f, p) == IF p = 1 THEN 0
                ELSE IF p = 2 THEN Len(Translation(f)[1])
                ELSE Len(Translation(f)[1]) + Len(Translation(f)[2])

LEMMA InOrderPlaces ==
    ASSUME NEW f \in Files
    PROVE  /\ Len(InOrder(f)) \in Nat
           /\ \A p \in 1..3 : Offset(f, p) \in Nat
           /\ \A p \in 1..3 : \A i \in 1..Len(Translation(f)[p]) :
                /\ Offset(f, p) + i \in 1..Len(InOrder(f))
                /\ InOrder(f)[Offset(f, p) + i] = Translation(f)[p][i]
           /\ \A n \in 1..Len(InOrder(f)) :
                \E p \in 1..3 : \E i \in 1..Len(Translation(f)[p]) : n = Offset(f, p) + i
           /\ \A p, r \in 1..3 :
                \A i \in 1..Len(Translation(f)[p]), j \in 1..Len(Translation(f)[r]) :
                    Earlier(r, j, p, i) <=> Offset(f, r) + j < Offset(f, p) + i
<1>1. PICK A : A = Translation(f)[1]
  OBVIOUS
<1>2. PICK B : B = Translation(f)[2]
  OBVIOUS
<1>3. PICK C : C = Translation(f)[3]
  OBVIOUS
<1>4. A \in Seq(Queries) /\ B \in Seq(Queries) /\ C \in Seq(Queries)
  BY <1>1, <1>2, <1>3, TranslationType
<1>5. PICK s : s = A \o B \o C
  OBVIOUS
<1>6. PICK a \in Nat : a = Len(A)
  BY <1>4
<1>7. PICK b \in Nat : b = Len(B)
  BY <1>4
<1>8. PICK c \in Nat : c = Len(C)
  BY <1>4
<1>9. /\ Len(s) = a + b + c
      /\ \A i \in 1..a : s[i] = A[i]
      /\ \A i \in 1..b : s[a + i] = B[i]
      /\ \A i \in 1..c : s[a + b + i] = C[i]
  BY <1>4, <1>5, <1>6, <1>7, <1>8
<1>10. InOrder(f) = s
  BY <1>1, <1>2, <1>3, <1>5 DEF InOrder
<1>11. /\ Offset(f, 1) = 0 /\ Offset(f, 2) = a /\ Offset(f, 3) = a + b
  BY <1>1, <1>2, <1>6, <1>7 DEF Offset
<1>12. /\ Len(Translation(f)[1]) = a /\ Len(Translation(f)[2]) = b /\ Len(Translation(f)[3]) = c
  BY <1>1, <1>2, <1>3, <1>6, <1>7, <1>8
<1>13. ASSUME NEW p \in 1..3, NEW i \in 1..Len(Translation(f)[p])
       PROVE  Offset(f, p) + i \in 1..Len(s) /\ s[Offset(f, p) + i] = Translation(f)[p][i]
  <2>1. CASE p = 1
    BY <1>1, <1>9, <1>11, <1>12, <1>13, <2>1
  <2>2. CASE p = 2
    BY <1>2, <1>9, <1>11, <1>12, <1>13, <2>2
  <2>3. CASE p = 3
    BY <1>3, <1>9, <1>11, <1>12, <1>13, <2>3
  <2>4. QED
    BY <2>1, <2>2, <2>3
<1>14. ASSUME NEW n \in 1..Len(s)
       PROVE  \E p \in 1..3 : \E i \in 1..Len(Translation(f)[p]) : n = Offset(f, p) + i
  <2>1. CASE n <= a
    <3>1. n \in 1..Len(Translation(f)[1]) /\ n = Offset(f, 1) + n /\ 1 \in 1..3
      BY <1>11, <1>12, <2>1
    <3>2. QED
      BY <3>1
  <2>2. CASE a < n /\ n <= a + b
    <3>1. n - a \in 1..Len(Translation(f)[2]) /\ n = Offset(f, 2) + (n - a) /\ 2 \in 1..3
      BY <1>11, <1>12, <2>2
    <3>2. QED
      BY <3>1
  <2>3. CASE a + b < n
    <3>1. /\ n - (a + b) \in 1..Len(Translation(f)[3])
          /\ n = Offset(f, 3) + (n - (a + b)) /\ 3 \in 1..3
      BY <1>9, <1>11, <1>12, <2>3
    <3>2. QED
      BY <3>1
  <2>4. QED
    BY <2>1, <2>2, <2>3
<1>15. ASSUME NEW p \in 1..3, NEW r \in 1..3,
              NEW i \in 1..Len(Translation(f)[p]), NEW j \in 1..Len(Translation(f)[r])
       PROVE  Earlier(r, j, p, i) <=> Offset(f, r) + j < Offset(f, p) + i
  <2>1. (p = 1 \/ p = 2 \/ p = 3) /\ (r = 1 \/ r = 2 \/ r = 3)
    OBVIOUS
  <2>2. i \in Nat /\ j \in Nat /\ i >= 1 /\ j >= 1
    OBVIOUS
  <2>3. /\ p = 1 => i <= a /\ Offset(f, p) = 0
        /\ p = 2 => i <= b /\ Offset(f, p) = a
        /\ p = 3 => i <= c /\ Offset(f, p) = a + b
    BY <1>11, <1>12
  <2>4. /\ r = 1 => j <= a /\ Offset(f, r) = 0
        /\ r = 2 => j <= b /\ Offset(f, r) = a
        /\ r = 3 => j <= c /\ Offset(f, r) = a + b
    BY <1>11, <1>12
  <2>5. QED
    BY <2>1, <2>2, <2>3, <2>4 DEF Earlier
<1>16. \A p \in 1..3 : Offset(f, p) \in Nat
  BY <1>11
<1>17. Len(s) \in Nat
  BY <1>9
<1>18. QED
  BY <1>10, <1>13, <1>14, <1>15, <1>16, <1>17

LEMMA RepresentedWhenDone == PipelineInv => FileRepresented
<1> SUFFICES ASSUME PipelineInv, pc[Process] = "done", NEW queries, queries = InOrder(file)
             PROVE  /\ \A q \in Queries : copies[q] > 0 =>
                            \E i \in 1..Len(queries) : q = queries[i]
                    /\ \A i \in 1..Len(queries) : copies[queries[i]] =
                        IF /\ ~IsIllegal(queries[i])
                           /\ \A key \in queries[i].needs : KeyBefore(queries, i, key)
                           /\ \A key \in QueryKey(queries[i]) : ~KeyBefore(queries, i, key)
                        THEN 1 ELSE 0
  BY DEF FileRepresented
<1> DEFINE T == Translation(file)
<1>1. file \in Files
  BY LoadedInTurn
<1>2. ASSUME NEW q \in Queries, copies[q] > 0
      PROVE  \E i \in 1..Len(queries) : q = queries[i]
  <2>1. PICK p \in 1..3 : \E i \in 1..Len(T[p]) : q = T[p][i]
    BY <1>2, LoadedInTurn
  <2>2. PICK i \in 1..Len(T[p]) : q = T[p][i]
    BY <2>1
  <2>3. Offset(file, p) + i \in 1..Len(queries) /\ queries[Offset(file, p) + i] = q
    BY <1>1, <2>2, InOrderPlaces
  <2>4. QED
    BY <2>3
<1>3. ASSUME NEW n \in 1..Len(queries)
      PROVE  copies[queries[n]] =
                IF /\ ~IsIllegal(queries[n])
                   /\ \A key \in queries[n].needs : KeyBefore(queries, n, key)
                   /\ \A key \in QueryKey(queries[n]) : ~KeyBefore(queries, n, key)
                THEN 1 ELSE 0
  <2>1. PICK p \in 1..3 : \E i \in 1..Len(T[p]) : n = Offset(file, p) + i
    BY <1>1, InOrderPlaces
  <2>2. PICK i \in 1..Len(T[p]) : n = Offset(file, p) + i
    BY <2>1
  <2>3. queries[n] = T[p][i]
    BY <1>1, <2>2, InOrderPlaces
  <2>4. ASSUME NEW key
        PROVE  FoundBefore(file, p, i, key) <=> KeyBefore(queries, n, key)
    <3>1. ASSUME FoundBefore(file, p, i, key)
          PROVE  KeyBefore(queries, n, key)
      <4>1. PICK r \in 1..3 : \E j \in 1..Len(T[r]) :
                Earlier(r, j, p, i) /\ copies[T[r][j]] > 0 /\ key \in QueryKey(T[r][j])
        BY <3>1 DEF FoundBefore
      <4>2. PICK j \in 1..Len(T[r]) :
                Earlier(r, j, p, i) /\ copies[T[r][j]] > 0 /\ key \in QueryKey(T[r][j])
        BY <4>1
      <4>3. PICK m : m = Offset(file, r) + j
        OBVIOUS
      <4>4. m \in 1..Len(queries) /\ queries[m] = T[r][j] /\ m < n
        BY <1>1, <2>2, <4>2, <4>3, InOrderPlaces
      <4>5. m \in 1..(n - 1)
        BY <1>1, <4>4, InOrderPlaces
      <4>6. QED
        BY <4>2, <4>4, <4>5 DEF KeyBefore
    <3>2. ASSUME KeyBefore(queries, n, key)
          PROVE  FoundBefore(file, p, i, key)
      <4>1. PICK m \in 1..(n - 1) : copies[queries[m]] > 0 /\ key \in QueryKey(queries[m])
        BY <3>2 DEF KeyBefore
      <4>2. m \in 1..Len(queries) /\ m < n
        BY <1>1, InOrderPlaces
      <4>3. PICK r \in 1..3 : \E j \in 1..Len(T[r]) : m = Offset(file, r) + j
        BY <1>1, <4>2, InOrderPlaces
      <4>4. PICK j \in 1..Len(T[r]) : m = Offset(file, r) + j
        BY <4>3
      <4>5. queries[m] = T[r][j] /\ Earlier(r, j, p, i)
        BY <1>1, <2>2, <4>2, <4>4, InOrderPlaces
      <4>6. QED
        BY <4>1, <4>5 DEF FoundBefore
    <3>3. QED
      BY <3>1, <3>2
  <2>5. copies[T[p][i]] = IF Fits(file, p, i) THEN 1 ELSE 0
    BY LoadedInTurn
  <2>6. QED
    BY <2>3, <2>4, <2>5 DEF Fits
<1>4. QED
  BY <1>2, <1>3

(* A file that has been loaded into an empty database is represented by    *)
(* what its objects give, as if each query had been executed on its own in *)
(* the order of the lists: for every file, mapping and batch size.         *)
THEOREM FileRepresentedCorrect == PipelineSpec => []FileRepresented
BY PipelineInitInv, PipelineNextInv, RepresentedWhenDone, PTL DEF PipelineSpec

(***************************************************************************)
(* References.  The query of an accepted object of the file finds its keys *)
(* free, as no other object of the file has one of them.                   *)
(***************************************************************************)
LEMMA AcceptedKeys ==
    ASSUME NEW f \in Files, NEW o \in AcceptedObjects(f), NEW x \in Object,
           NEW k \in 1..Len(f), x = f[k], x # o, NEW q \in Queries, q.obj = x,
           NEW r \in Queries, r.obj = o
    PROVE  QueryKey(q) \cap QueryKey(r) = {}
<1>1. Content[x].id # Content[o].id /\ NameKeys[x] \cap NameKeys[o] = {} /\ o \in Object
  BY TransformAssumption DEF AcceptedObjects, Accepted
<1>2. /\ Content[x].id \in Id /\ Content[o].id \in Id
      /\ NameKeys[x] \subseteq NameKey /\ NameKeys[o] \subseteq NameKey
      /\ NameKey \cap Id = {}
  BY <1>1, TransformAssumption, TransformLoadAssumption DEF STIXObject
<1>3. QED
  BY <1>1, <1>2 DEF QueryKey

LEMMA KeysFree ==
    ASSUME NEW f \in Files, NEW o \in AcceptedObjects(f), NEW p \in 1..2,
           NEW i \in 1..Len(Translation(f)[p]), Translation(f)[p][i].obj = o,
           NEW key \in QueryKey(Translation(f)[p][i])
    PROVE  ~FoundBefore(f, p, i, key)
<1> DEFINE T == Translation(f)
<1>1. SUFFICES ASSUME FoundBefore(f, p, i, key) PROVE FALSE
  OBVIOUS
<1>2. PICK r \in 1..3 : \E j \in 1..Len(T[r]) :
        Earlier(r, j, p, i) /\ key \in QueryKey(T[r][j])
  BY <1>1 DEF FoundBefore
<1>3. PICK j \in 1..Len(T[r]) : Earlier(r, j, p, i) /\ key \in QueryKey(T[r][j])
  BY <1>2
<1>4. r \in 1..2 /\ (r = 1 \/ (r = 2 /\ p = 2)) /\ ~(r = p /\ j = i)
  BY <1>3 DEF Earlier
<1>5. T[r][j] # T[p][i] /\ T[r][j] \in Queries /\ T[p][i] \in Queries
  BY <1>4, TranslationDistinct, TranslationItem
<1>6. T[r][j].obj # o
  <2>1. Entities \cap Relations = {}
    BY DEF Entities, Relations
  <2>2. /\ r = 1 => T[r][j].obj \in Entities /\ T[r][j] = EntityOf[T[r][j].obj]
        /\ r = 2 => T[r][j].obj \in Relations /\ T[r][j] = RelationOf[T[r][j].obj]
    BY TranslationItem
  <2>3. /\ p = 1 => o \in Entities /\ T[p][i] = EntityOf[o]
        /\ p = 2 => o \in Relations /\ T[p][i] = RelationOf[o]
    BY TranslationItem
  <2>4. QED
    BY <1>4, <1>5, <2>1, <2>2, <2>3
<1>7. PICK k \in 1..Len(f) : T[r][j].obj = f[k]
  BY TranslationItem
<1>8. T[r][j].obj \in Object
  BY TranslationItem
<1>9. QED
  BY <1>3, <1>5, <1>6, <1>7, <1>8, AcceptedKeys

LEMMA EntityStored ==
    ASSUME PipelineInv, pc[Process] = "done", NEW o \in AcceptedObjects(file) \cap Entities
    PROVE  \E i \in 1..Len(Translation(file)[1]) :
                /\ Translation(file)[1][i] = EntityOf[o]
                /\ copies[Translation(file)[1][i]] = 1
<1> DEFINE T == Translation(file)
<1>1. file \in Files /\ o \in Object /\ o \notin Illegal
  BY LoadedInTurn DEF AcceptedObjects, Accepted, Entities
<1>2. PICK k \in 1..Len(file) : o = file[k]
  BY DEF AcceptedObjects
<1>3. Lists(file, Len(file), Entities, EntityOf, T[1])
  BY <1>1, TranslationLists
<1>4. PICK i \in 1..Len(T[1]) : T[1][i] = EntityOf[o]
  BY <1>2, <1>3 DEF Lists
<1>5. T[1][i].obj = o /\ T[1][i].part = "entity" /\ T[1][i].needs = {}
  BY <1>1, <1>4, ObjectOf
<1>6. \A key \in QueryKey(T[1][i]) : ~FoundBefore(file, 1, i, key)
  BY <1>1, <1>5, KeysFree
<1>7. Fits(file, 1, i)
  BY <1>1, <1>5, <1>6 DEF Fits, IsIllegal
<1>8. copies[T[1][i]] = 1
  BY <1>7, LoadedInTurn
<1>9. QED
  BY <1>4, <1>8

LEMMA EntityFound ==
    ASSUME PipelineInv, pc[Process] = "done", NEW key \in EntityIds(file),
           NEW p \in 2..3, NEW i \in 1..Len(Translation(file)[p])
    PROVE  FoundBefore(file, p, i, key)
<1>1. PICK o \in AcceptedObjects(file) \cap Entities : key = Content[o].id
  BY DEF EntityIds
<1>2. PICK j \in 1..Len(Translation(file)[1]) :
        Translation(file)[1][j] = EntityOf[o] /\ copies[Translation(file)[1][j]] = 1
  BY EntityStored
<1>3. o \in Object
  BY DEF Entities
<1>4. key \in QueryKey(Translation(file)[1][j])
  BY <1>1, <1>2, <1>3, ObjectOf DEF QueryKey
<1>5. Earlier(1, j, p, i)
  BY DEF Earlier
<1>6. QED
  BY <1>2, <1>4, <1>5 DEF FoundBefore

LEMMA RelationFound ==
    ASSUME PipelineInv, pc[Process] = "done", NEW key \in RelationIds(file),
           NEW i \in 1..Len(Translation(file)[3])
    PROVE  FoundBefore(file, 3, i, key)
<1> DEFINE T == Translation(file)
<1>1. PICK o \in AcceptedObjects(file) \cap Relations :
        RolePlayers(o) \subseteq EntityIds(file) /\ key = Content[o].id
  BY DEF RelationIds
<1>2. file \in Files /\ o \in Object /\ o \notin Illegal
  BY LoadedInTurn DEF AcceptedObjects, Accepted, Relations
<1>3. PICK k \in 1..Len(file) : o = file[k]
  BY DEF AcceptedObjects
<1>4. Lists(file, Len(file), Relations, RelationOf, T[2])
  BY <1>2, TranslationLists
<1>5. PICK j \in 1..Len(T[2]) : T[2][j] = RelationOf[o]
  BY <1>3, <1>4 DEF Lists
<1>6. T[2][j].obj = o /\ T[2][j].part = "relation" /\ T[2][j].needs = RolePlayers(o)
  BY <1>2, <1>5, ObjectOf
<1>7. \A x \in T[2][j].needs : FoundBefore(file, 2, j, x)
  BY <1>1, <1>6, EntityFound
<1>8. \A x \in QueryKey(T[2][j]) : ~FoundBefore(file, 2, j, x)
  BY <1>2, <1>6, KeysFree
<1>9. Fits(file, 2, j)
  BY <1>2, <1>6, <1>7, <1>8 DEF Fits, IsIllegal
<1>10. copies[T[2][j]] = 1
  BY <1>9, LoadedInTurn
<1>11. key \in QueryKey(T[2][j])
  BY <1>1, <1>6 DEF QueryKey
<1>12. Earlier(2, j, 3, i)
  BY DEF Earlier
<1>13. QED
  BY <1>10, <1>11, <1>12 DEF FoundBefore

LEMMA ReferencesWhenDone == PipelineInv => ReferencesKept
<1> SUFFICES ASSUME PipelineInv, pc[Process] = "done",
                    NEW o \in AcceptedObjects(file) \cap Referrers,
                    {Content[o].id} \cup Targets(o) \subseteq EntityIds(file) \cup RelationIds(file)
             PROVE  copies[EmbeddedOf[o]] = 1
  BY DEF ReferencesKept
<1> DEFINE T == Translation(file)
<1>1. file \in Files /\ o \in Object
  BY LoadedInTurn DEF Referrers
<1>2. PICK k \in 1..Len(file) : o = file[k]
  BY DEF AcceptedObjects
<1>3. Lists(file, Len(file), Referrers, EmbeddedOf, T[3])
  BY <1>1, TranslationLists
<1>4. PICK i \in 1..Len(T[3]) : T[3][i] = EmbeddedOf[o]
  BY <1>2, <1>3 DEF Lists
<1>5. T[3][i].part = "embedded" /\ T[3][i].needs = {Content[o].id} \cup Targets(o)
  BY <1>1, <1>4, ObjectOf
<1>6. \A key \in T[3][i].needs : FoundBefore(file, 3, i, key)
  <2>1. \A key \in EntityIds(file) : FoundBefore(file, 3, i, key)
    BY EntityFound
  <2>2. \A key \in RelationIds(file) : FoundBefore(file, 3, i, key)
    BY RelationFound
  <2>3. QED
    BY <1>5, <2>1, <2>2
<1>7. Fits(file, 3, i)
  BY <1>5, <1>6 DEF Fits, IsIllegal, QueryKey
<1>8. copies[T[3][i]] = 1
  BY <1>7, LoadedInTurn
<1>9. QED
  BY <1>4, <1>8

(* An accepted object keeps all its references if the file brings what it  *)
(* refers to and the schema and the keys let that in, whatever else the    *)
(* file holds and whatever is rejected in the same batch.                  *)
THEOREM ReferencesKeptCorrect == PipelineSpec => []ReferencesKept
BY PipelineInitInv, PipelineNextInv, ReferencesWhenDone, PTL DEF PipelineSpec
=============================================================================
