------------------------- MODULE CTIAnalysisProofs -------------------------
(***************************************************************************)
(* What the inference rules derive, for every set of stored relations; and *)
(* theorems about calls of the analysis toolbox, for every content of the  *)
(* database, every set of calls and any number of resets of the database.  *)
(***************************************************************************)
EXTENDS CTIAnalysis, SetLemmas

(* A call begins with room for its driver, and while it runs the drivers   *)
(* that are open are its own and those there were before it.               *)
Counting ==
    /\ DriversAccounted
    /\ drivers \in 0..MaxDrivers /\ aux_before \in 0..MaxDrivers
    /\ at = "driver" => drivers < MaxDrivers /\ drivers = aux_before
    /\ at \in {"session", "close", "closed"} \cup Queries => drivers = aux_before + 1
    /\ at \in {"idle", "driver", "session", "close", "closed"} \cup Queries

LEMMA FirstIsQuery == First \in Queries
BY DEF First, Queries

LEMMA CountingInitially == AnalysisInit => Counting
<1> SUFFICES ASSUME AnalysisInit PROVE Counting
  OBVIOUS
<1>1. MaxDrivers \in Nat
  BY AnalysisAssumption
<1>2. QED
  BY <1>1 DEF AnalysisInit, Counting, DriversAccounted, Queries

(* A query leaves the drivers as they are, whether the body of the call    *)
(* goes on or ends.                                                        *)
LEMMA ExitCounts ==
    ASSUME Counting, at \in Queries, NEW o, Exit(o), UNCHANGED aux_before
    PROVE  Counting'
<1>1. MaxDrivers \in Nat
  BY AnalysisAssumption
<1>2. drivers' = drivers /\ at' = "close" /\ drivers = aux_before + 1
  BY DEF Counting, DriversAccounted, Exit
<1>3. QED
  BY <1>1, <1>2 DEF Counting, DriversAccounted, Queries

LEMMA ContinueCounts ==
    ASSUME Counting, at \in Queries, NEW q \in Queries, Continue(q), UNCHANGED aux_before
    PROVE  Counting'
<1>1. MaxDrivers \in Nat
  BY AnalysisAssumption
<1>2. drivers' = drivers /\ at' = q /\ drivers = aux_before + 1
  BY DEF Counting, DriversAccounted, Continue
<1>3. QED
  BY <1>1, <1>2 DEF Counting, DriversAccounted, Queries

LEMMA CountingNext == Counting /\ [AnalysisNext]_analysisVars => Counting'
<1> SUFFICES ASSUME Counting, [AnalysisNext]_analysisVars PROVE Counting'
  OBVIOUS
<1>0. MaxDrivers \in Nat
  BY AnalysisAssumption
<1>1. ASSUME UNCHANGED <<at, drivers, aux_before, outcome>> PROVE Counting'
  BY <1>1 DEF Counting, DriversAccounted
<1>2. CASE UNCHANGED analysisVars
  BY <1>1, <1>2 DEF analysisVars
<1>3. CASE \E a \in Arguments : Call(a)
  BY <1>0, <1>3 DEF Call, Counting, DriversAccounted, Queries
<1>4. CASE OpenDriver
  BY <1>0, <1>4 DEF OpenDriver, Counting, DriversAccounted, Queries
<1>5. CASE OpenDriverRaises
  BY <1>0, <1>5 DEF OpenDriverRaises, Counting, DriversAccounted, Queries
<1>6. CASE OpenSession
  <2>1. at = "session" /\ at' \in Queries /\ UNCHANGED <<drivers, aux_before>>
    BY <1>6, FirstIsQuery DEF OpenSession
  <2>2. QED
    BY <1>0, <2>1 DEF Counting, DriversAccounted, Queries
<1>7. CASE OpenSessionRaises
  BY <1>0, <1>7 DEF OpenSessionRaises, Counting, DriversAccounted, Queries
<1>8. CASE LoadObjects \/ LoadRelations \/ Delete \/ Create
  BY <1>1, <1>8 DEF LoadObjects, LoadRelations, Delete, Create, Others
<1>9. ASSUME at \in Queries, UNCHANGED aux_before,
             (\E o : Exit(o)) \/ (\E q \in Queries : Continue(q))
      PROVE  Counting'
  BY <1>9, ExitCounts, ContinueCounts
<1>10. CASE QueryRaises
  BY <1>9, <1>10 DEF QueryRaises, Throw, Same
<1>11. CASE AskCounts
  BY <1>9, <1>11 DEF AskCounts, Ask, ReturnRows, Same, Queries
<1>12. CASE AskNames
  BY <1>9, <1>12 DEF AskNames, Ask, ReturnRows, Same, Queries
<1>13. CASE AskNamesRaises
  BY <1>9, <1>13 DEF AskNamesRaises, Ask, Throw, Same, Queries
<1>14. CASE AskName
  BY <1>9, <1>14 DEF AskName, Ask, Same, Queries
<1>15. CASE AskMitigations
  BY <1>9, <1>15 DEF AskMitigations, Ask, ReturnSet, Same, Queries
<1>16. CASE NoGroupGiven
  BY <1>9, <1>16 DEF NoGroupGiven, NoGroup, Same, Queries
<1>17. CASE Search
  BY <1>9, <1>17 DEF Search, Ask, Same, Queries
<1>18. CASE SearchRaises
  BY <1>9, <1>18 DEF SearchRaises, Ask, Throw, Same, Queries
<1>19. CASE AskAttributes
  BY <1>9, <1>19 DEF AskAttributes, Ask, Same, Queries
<1>20. CASE AskCreator
  BY <1>9, <1>20 DEF AskCreator, Ask, Same, Queries
<1>21. CASE AskSources
  BY <1>9, <1>21 DEF AskSources, Ask, ReturnRows, Same, Queries
<1>22. CASE Explain
  BY <1>9, <1>22 DEF Explain, Ask, ReturnSet, Same, Queries
<1>23. CASE AskSingle
  BY <1>9, <1>23 DEF AskSingle, Ask, ReturnSet, Same, Queries
<1>24. CASE CloseSession
  BY <1>0, <1>24 DEF CloseSession, Counting, DriversAccounted, Queries
<1>25. CASE CloseDriver
  BY <1>0, <1>25 DEF CloseDriver, Counting, DriversAccounted, Queries
<1>26. CASE CloseSessionRaises
  BY <1>0, <1>26 DEF CloseSessionRaises, Counting, DriversAccounted, Queries
<1>27. CASE CloseDriverRaises
  <2>1. /\ at' = "idle" /\ outcome' = "TypeDBDriverException" /\ aux_before' = aux_before
        /\ drivers' = drivers - 1 \/ drivers' = drivers
        /\ drivers = aux_before + 1 /\ drivers \in 0..MaxDrivers /\ aux_before \in 0..MaxDrivers
    BY <1>27 DEF CloseDriverRaises, Counting
  <2>2. drivers' \in 0..MaxDrivers /\ (drivers' - aux_before' = 0 \/ drivers' - aux_before' = 1)
    BY <1>0, <2>1
  <2>3. QED
    BY <2>1, <2>2 DEF Counting, DriversAccounted, Queries
<1>28. QED
  BY <1>2, <1>3, <1>4, <1>5, <1>6, <1>7, <1>8, <1>10, <1>11, <1>12, <1>13, <1>14, <1>15,
     <1>16, <1>17, <1>18, <1>19, <1>20, <1>21, <1>22, <1>23, <1>24, <1>25, <1>26, <1>27
     DEF AnalysisNext, AnalysisStep

(* Whatever the calls, their outcomes, the failures of opening, asking and *)
(* closing and the resets of the database: a call that returns, finds      *)
(* nothing or cannot connect leaves as many drivers open as there were     *)
(* when it began; one that ends with an exception of the driver leaves at  *)
(* most its own (TypeDBHandler.__init__ and close, without a finally).     *)
THEOREM DriversAccountedCorrect == AnalysisSpec => []DriversAccounted
<1>1. Counting => DriversAccounted
  BY DEF Counting
<1>2. QED
  BY <1>1, CountingInitially, CountingNext, PTL DEF AnalysisSpec
----------------------------------------------------------------------------
(* Type correctness.  What the types do not say: a call has no results     *)
(* before the query that gives them, and asks for the properties of an     *)
(* object that it has found.                                               *)
Row == Object \X ({NameOf[o] : o \in Named} \cup {NoName})
ResultsOK ==
    /\ DOMAIN sets_count \subseteq Technique
    /\ ToSet(data) \subseteq DOMAIN sets_count
    /\ found \in Seq(Object)
    /\ related \in Seq(Row)
    /\ Len(related) <= Len(found)
    /\ at \in {"attributes", "creator"} => Len(related) < Len(found)
    /\ at \in {"driver", "session", "name", "search"} => related = <<>>
    /\ at = "counts" => args.call = "usage"

Outcome == {"none", "returned", "SatrapError", "ValueError", "TypeDBDriverException"}
CallOK ==
    /\ exists \in BOOLEAN /\ gen \in 0..MaxGen
    /\ objs \subseteq Object /\ rels \subseteq Relation
    /\ args \in Arguments
    /\ session \subseteq 0..MaxGen
    /\ outcome \in Outcome
    /\ session # {} <=> at \in Queries \cup {"close"}

AnalysisInv == Counting /\ CallOK /\ ResultsOK

LEMMA InvGivesType == AnalysisInv => AnalysisTypeOK
<1> SUFFICES ASSUME AnalysisInv PROVE AnalysisTypeOK
  OBVIOUS
<1>1. ToSet(found) \subseteq Object
  BY DEF AnalysisInv, ResultsOK, ToSet
<1>2. QED
  BY <1>1 DEF AnalysisInv, AnalysisTypeOK, Counting, CallOK, ResultsOK, Outcome

LEMMA InvInitially == AnalysisInit => AnalysisInv
<1> SUFFICES ASSUME AnalysisInit PROVE AnalysisInv
  OBVIOUS
<1>1. Counting
  BY CountingInitially
<1>2. CallOK
  BY AnalysisAssumption DEF AnalysisInit, CallOK, Outcome, Queries
<1>3. ResultsOK
  BY DEF AnalysisInit, ResultsOK, ToSet
<1>4. QED
  BY <1>1, <1>2, <1>3 DEF AnalysisInv

(* The objects found are put in some order, and none is found twice.       *)
LEMMA OrderOfSet ==
    ASSUME NEW S, IsFiniteSet(S), NEW s \in SetToSeqs(S)
    PROVE  s \in Seq(S) /\ Len(s) = Cardinality(S) /\ ToSet(s) \subseteq S
<1>1. Cardinality(S) \in Nat
  BY FS_CardinalityType
<1>2. s \in [1..Cardinality(S) -> S]
  BY DEF SetToSeqs
<1>3. s \in Seq(S) /\ Len(s) = Cardinality(S)
  BY <1>1, <1>2
<1>4. QED
  BY <1>2, <1>3 DEF ToSet

LEMMA KnownFinite ==
    ASSUME AnalysisInv
    PROVE  Known \subseteq Object /\ IsFiniteSet(Known)
<1>1. Known \subseteq objs /\ objs \subseteq Object
  BY DEF Known, WithId, AnalysisInv, CallOK
<1>2. QED
  BY <1>1, InferenceAssumption, FS_Subset

(* What is selected are techniques that have a count.                      *)
LEMMA CutKeeps ==
    ASSUME NEW S, NEW s \in Seq(S), args.limit \in Int
    PROVE  ToSet(Cut(s)) \subseteq ToSet(s)
<1>1. CASE args.limit >= 0 /\ args.limit < Len(s)
  <2>1. Cut(s) = SubSeq(s, 1, args.limit) /\ args.limit \in Nat
    BY <1>1 DEF Cut
  <2>2. Len(Cut(s)) = args.limit /\ \A i \in 1..args.limit : Cut(s)[i] = s[i]
    BY <1>1, <2>1
  <2>3. Cut(s) \in Seq(S)
    BY <1>1, <2>1
  <2>4. DOMAIN Cut(s) = 1..args.limit /\ DOMAIN s = 1..Len(s)
    BY <2>2, <2>3
  <2>5. QED
    BY <1>1, <2>1, <2>2, <2>4 DEF ToSet
<1>2. CASE ~(args.limit >= 0 /\ args.limit < Len(s))
  BY <1>2 DEF Cut
<1>3. QED
  BY <1>1, <1>2

LEMMA SelectedAreCounted ==
    ASSUME NEW count, IsFiniteSet(DOMAIN count), args.limit \in Int,
           NEW s \in Selections(count)
    PROVE  ToSet(s) \subseteq DOMAIN count
<1> DEFINE S == {i \in DOMAIN count : Within(count[i])}
<1>1. IsFiniteSet(S)
  BY FS_Subset
<1>2. PICK t \in Sorted(S, count) : s = Cut(t)
  BY DEF Selections
<1>3. t \in SetToSeqs(S)
  BY <1>2 DEF Sorted
<1>4. t \in Seq(S) /\ ToSet(t) \subseteq S
  BY <1>1, <1>3, OrderOfSet
<1>5. ToSet(s) \subseteq ToSet(t)
  BY <1>2, <1>4, CutKeeps
<1>6. QED
  BY <1>4, <1>5

(* A query either leaves the call running or ends it.                      *)
LEMMA QueryKeeps ==
    ASSUME AnalysisInv, at \in Queries, Same, ResultsOK',
           (\E o \in Outcome : Exit(o)) \/ (\E q \in Queries : Continue(q))
    PROVE  AnalysisInv'
<1>1. Counting'
  BY ExitCounts, ContinueCounts DEF AnalysisInv, Same
<1>2. CallOK'
  <2>1. CASE \E o \in Outcome : Exit(o)
    BY <2>1 DEF AnalysisInv, CallOK, Exit, Same, skb, Queries
  <2>2. CASE \E q \in Queries : Continue(q)
    BY <2>2 DEF AnalysisInv, CallOK, Continue, Same, skb
  <2>3. QED
    BY <2>1, <2>2
<1>3. QED
  BY <1>1, <1>2 DEF AnalysisInv

(* ... and has as results what it had before, in most cases.               *)
LEMMA ResultsKept ==
    ASSUME AnalysisInv, at \in Queries, UNCHANGED <<results, args>>,
           \/ at' = "close"
           \/ at' \in {"mitigations", "sources", "explain"}
           \/ at' = "creator" /\ at = "attributes"
           \/ at' = "attributes" /\ Len(related) < Len(found)
    PROVE  ResultsOK'
BY DEF AnalysisInv, ResultsOK, results

LEMMA AskNextKeeps ==
    ASSUME AnalysisInv, AnalysisStep, at \in Queries
    PROVE  AnalysisInv'
<1>0. {"returned", "ValueError", "TypeDBDriverException"} \subseteq Outcome
  BY DEF Outcome
<1>1. ASSUME UNCHANGED results, Same, \E o \in Outcome : Exit(o)
      PROVE  AnalysisInv'
  <2>1. at' = "close"
    BY <1>1 DEF Exit
  <2>2. ResultsOK'
    BY <1>1, <2>1, ResultsKept DEF Same
  <2>3. QED
    BY <1>1, <2>2, QueryKeeps
<1>2. CASE QueryRaises
  BY <1>0, <1>1, <1>2 DEF QueryRaises, Throw
<1>3. CASE AskCounts
  <2>1. args.call = "usage" /\ args \in Arguments
    BY <1>3 DEF AskCounts, Ask, AnalysisInv, ResultsOK, CallOK
  <2>2. args.limit \in Int
    BY <2>1, AnalysisAssumption
  <2>3. DOMAIN Counts \subseteq Technique /\ Technique \subseteq AttckId
    BY DEF Counts, Technique
  <2>4. IsFiniteSet(DOMAIN Counts)
    BY <2>3, AnalysisAssumption, FS_Subset
  <2>5. sets_count' = Counts /\ data' \in Selections(Counts)
    BY <1>3 DEF AskCounts
  <2>6. ToSet(data') \subseteq DOMAIN sets_count'
    BY <2>2, <2>4, <2>5, SelectedAreCounted
  <2>7. /\ \/ Exit("returned") \/ Continue("names")
        /\ Same /\ UNCHANGED <<found, related>>
    BY <1>3 DEF AskCounts, ReturnRows
  <2>8. at' \in {"close", "names"}
    BY <2>7 DEF Exit, Continue
  <2>9. ResultsOK'
    <3>1. DOMAIN sets_count' \subseteq Technique
      BY <2>3, <2>5
    <3>2. QED
      BY <2>6, <2>7, <2>8, <3>1 DEF AnalysisInv, ResultsOK
  <2>10. QED
    BY <1>0, <2>7, <2>9, QueryKeeps DEF Queries
<1>4. CASE AskNames
  BY <1>0, <1>1, <1>4 DEF AskNames, ReturnRows
<1>5. CASE AskNamesRaises
  BY <1>0, <1>1, <1>5 DEF AskNamesRaises, Throw
<1>6. CASE AskName
  <2>1. WithId(args.id) \subseteq Object
    BY DEF WithId, AnalysisInv, CallOK
  <2>2. found' \in Seq(Object) /\ related = <<>>
    <3>1. (\E o \in Object : found' = <<o>>) \/ found' = <<>>
      BY <1>6, <2>1 DEF AskName
    <3>2. <<>> \in Seq(Object) /\ \A o \in Object : <<o>> \in Seq(Object)
      OBVIOUS
    <3>3. found' \in Seq(Object)
      BY <3>1, <3>2, Zenon
    <3>4. QED
      BY <1>6, <3>3 DEF AskName, Ask, AnalysisInv, ResultsOK
  <2>3. Continue("mitigations") /\ Same /\ UNCHANGED <<sets_count, data, related>>
    BY <1>6 DEF AskName
  <2>4. at' = "mitigations"
    BY <2>3 DEF Continue
  <2>5. ResultsOK'
    BY <2>2, <2>3, <2>4 DEF AnalysisInv, ResultsOK
  <2>6. QED
    BY <2>3, <2>5, QueryKeeps DEF Queries
<1>7. CASE AskMitigations
  BY <1>0, <1>1, <1>7 DEF AskMitigations, ReturnSet
<1>8. CASE NoGroupGiven
  BY <1>0, <1>1, <1>8 DEF NoGroupGiven
<1>9. CASE Search
  <2>1. found' \in Seq(Known) /\ Len(found') = Cardinality(Known)
    BY <1>9, KnownFinite, OrderOfSet DEF Search
  <2>2. Cardinality(Known) \in Nat \ {0}
    BY <1>9, KnownFinite, FS_CardinalityType, FS_EmptySet DEF Search
  <2>3. found' \in Seq(Object) /\ related = <<>>
    <3>1. found' \in Seq(Object)
      BY <2>1, KnownFinite
    <3>2. QED
      BY <1>9, <3>1 DEF Search, Ask, AnalysisInv, ResultsOK
  <2>4. Continue("attributes") /\ Same /\ UNCHANGED <<sets_count, data, related>>
    BY <1>9 DEF Search
  <2>5. at' = "attributes"
    BY <2>4 DEF Continue
  <2>6. ResultsOK'
    BY <2>1, <2>2, <2>3, <2>4, <2>5 DEF AnalysisInv, ResultsOK
  <2>7. QED
    BY <2>4, <2>6, QueryKeeps DEF Queries
<1>10. CASE SearchRaises
  BY <1>0, <1>1, <1>10 DEF SearchRaises, Throw
<1>11. CASE AskAttributes
  <2>1. Continue("creator") /\ Same /\ UNCHANGED results /\ at = "attributes"
    BY <1>11 DEF AskAttributes, Ask
  <2>2. ResultsOK'
    BY <2>1, ResultsKept DEF Continue, Same
  <2>3. QED
    BY <2>1, <2>2, QueryKeeps DEF Queries
<1>12. CASE AskCreator
  <2>1. Len(related) < Len(found) /\ found \in Seq(Object) /\ related \in Seq(Row)
    BY <1>12 DEF AskCreator, Ask, AnalysisInv, ResultsOK
  <2>2. stix_obj \in Object
    BY <2>1 DEF stix_obj
  <2>3. \A n \in CreatorsOf(stix_obj) \cup {NoName} : <<stix_obj, n>> \in Row
    BY <2>2 DEF CreatorsOf, Row
  <2>4. PICK n \in CreatorsOf(stix_obj) \cup {NoName} : related' = Append(related, <<stix_obj, n>>)
    BY <1>12 DEF AskCreator
  <2>5. related' \in Seq(Row) /\ Len(related') = Len(related) + 1
    BY <2>1, <2>3, <2>4
  <2>6. Continue("sources") /\ Same /\ UNCHANGED <<sets_count, data, found>>
    BY <1>12 DEF AskCreator
  <2>7. at' = "sources"
    BY <2>6 DEF Continue
  <2>8. ResultsOK'
    BY <2>1, <2>5, <2>6, <2>7 DEF AnalysisInv, ResultsOK
  <2>9. QED
    BY <2>6, <2>8, QueryKeeps DEF Queries
<1>13. CASE AskSources
  <2>1. CASE Exit("returned")
    BY <1>0, <1>1, <1>13, <2>1 DEF AskSources
  <2>2. CASE \/ Len(related) < Len(found) /\ Continue("attributes")
             \/ Continue("explain")
    <3>1. ResultsOK'
      BY <1>13, <2>2, ResultsKept DEF AskSources, Continue, Same
    <3>2. QED
      BY <1>13, <2>2, <3>1, QueryKeeps DEF AskSources, Queries
  <2>3. QED
    BY <1>13, <2>1, <2>2 DEF AskSources, ReturnRows
<1>14. CASE Explain
  BY <1>0, <1>1, <1>14 DEF Explain, ReturnSet
<1>15. CASE AskSingle
  BY <1>0, <1>1, <1>15 DEF AskSingle, ReturnSet
<1>16. CASE OpenDriver \/ OpenSession \/ OpenSessionRaises \/ CloseSession \/ CloseDriver
  BY <1>16 DEF OpenDriver, OpenSession, OpenSessionRaises, CloseSession, CloseDriver, Queries
<1>17. QED
  BY <1>2, <1>3, <1>4, <1>5, <1>6, <1>7, <1>8, <1>9, <1>10, <1>11, <1>12, <1>13, <1>14,
     <1>15, <1>16 DEF AnalysisStep

LEMMA InvNext == AnalysisInv /\ [AnalysisNext]_analysisVars => AnalysisInv'
<1> SUFFICES ASSUME AnalysisInv, [AnalysisNext]_analysisVars PROVE AnalysisInv'
  OBVIOUS
<1>0. Counting'
  BY CountingNext DEF AnalysisInv
<1>1. CASE UNCHANGED analysisVars
  <2>1. CallOK' /\ ResultsOK'
    BY <1>1 DEF AnalysisInv, CallOK, ResultsOK, analysisVars, skb, results
  <2>2. QED
    BY <1>0, <2>1 DEF AnalysisInv
<1>2. ASSUME NEW a \in Arguments, Call(a) PROVE AnalysisInv'
  <2>1. CallOK' /\ ResultsOK'
    <3>1. CallOK'
      BY <1>2 DEF AnalysisInv, CallOK, Call, skb, Outcome, Queries
    <3>2. ResultsOK'
      BY <1>2 DEF ResultsOK, Call, NoResults, ToSet
    <3>3. QED
      BY <3>1, <3>2
  <2>2. QED
    BY <1>0, <2>1 DEF AnalysisInv
<1>3. CASE OpenDriver \/ OpenDriverRaises \/ OpenSessionRaises
  <2>1. CallOK'
    BY <1>3 DEF AnalysisInv, CallOK, OpenDriver, OpenDriverRaises, OpenSessionRaises, skb, Outcome, Queries
  <2>2. ResultsOK'
    BY <1>3 DEF AnalysisInv, ResultsOK, OpenDriver, OpenDriverRaises, OpenSessionRaises, results
  <2>3. QED
    BY <1>0, <2>1, <2>2 DEF AnalysisInv
<1>4. CASE OpenSession
  <2>1. CallOK'
    <3>1. at' \in Queries
      BY <1>4, FirstIsQuery DEF OpenSession
    <3>2. QED
      BY <1>4, <3>1 DEF AnalysisInv, CallOK, OpenSession, skb
  <2>2. ResultsOK'
    <3>1. First = "counts" => args.call = "usage"
      BY DEF First
    <3>2. First \notin {"attributes", "creator", "driver", "session"}
      BY DEF First
    <3>3. QED
      BY <1>4, <3>1, <3>2 DEF AnalysisInv, ResultsOK, OpenSession, results
  <2>3. QED
    BY <1>0, <2>1, <2>2 DEF AnalysisInv
<1>9. CASE CloseSession \/ CloseDriver \/ CloseSessionRaises \/ CloseDriverRaises
  <2>1. CallOK'
    BY <1>9 DEF AnalysisInv, CallOK, CloseSession, CloseDriver, CloseSessionRaises, CloseDriverRaises,
       skb, Outcome, Queries
  <2>2. ResultsOK'
    <3>1. CASE CloseSession
      BY <3>1 DEF AnalysisInv, ResultsOK, CloseSession, results
    <3>2. ASSUME at' = "idle", NoResults PROVE ResultsOK'
      BY <3>2 DEF ResultsOK, NoResults, ToSet
    <3>3. QED
      BY <1>9, <3>1, <3>2 DEF CloseDriver, CloseSessionRaises, CloseDriverRaises
  <2>3. QED
    BY <1>0, <2>1, <2>2 DEF AnalysisInv
<1>5. CASE QueryRaises
  <2>1. ResultsOK'
    BY <1>5, ResultsKept DEF QueryRaises, Throw, Exit, Same
  <2>2. QED
    BY <1>5, <2>1, QueryKeeps DEF QueryRaises, Throw, Outcome
<1>6. CASE AnalysisStep
  BY <1>3, <1>4, <1>6, <1>9, AskNextKeeps DEF AnalysisStep, AskCounts, AskNames, AskNamesRaises, AskName,
     AskMitigations, NoGroupGiven, NoGroup, Search, SearchRaises, AskAttributes, AskCreator,
     AskSources, Explain, AskSingle, QueryRaises, Ask, Queries
<1>7. CASE LoadObjects \/ LoadRelations \/ Delete \/ Create
  <2>1. ResultsOK' /\ UNCHANGED <<at, args, session, outcome>>
    BY <1>7 DEF AnalysisInv, ResultsOK, LoadObjects, LoadRelations, Delete, Create, Others, results
  <2>2. exists' \in BOOLEAN /\ gen' \in 0..MaxGen /\ objs' \subseteq Object /\ rels' \subseteq Relation
    <3>1. CASE LoadObjects
      BY <3>1, AnalysisAssumption DEF AnalysisInv, CallOK, LoadObjects
    <3>2. CASE LoadRelations
      BY <3>2, AnalysisAssumption DEF AnalysisInv, CallOK, LoadRelations
    <3>3. CASE Delete
      BY <3>3 DEF AnalysisInv, CallOK, Delete
    <3>4. CASE Create
      BY <3>4, AnalysisAssumption DEF AnalysisInv, CallOK, Create
    <3>5. QED
      BY <1>7, <3>1, <3>2, <3>3, <3>4
  <2>3. QED
    BY <1>0, <2>1, <2>2 DEF AnalysisInv, CallOK
<1>8. QED
  BY <1>1, <1>2, <1>3, <1>4, <1>5, <1>6, <1>7, <1>9 DEF AnalysisNext

(* Every call keeps to its types: a session exactly while queries are      *)
(* asked, only techniques with a count selected, never more answers than   *)
(* objects found, and no more drivers than the bound.                      *)
THEOREM AnalysisTypeCorrect == AnalysisSpec => []AnalysisTypeOK
<1>1. QED
  BY InvInitially, InvNext, InvGivesType, PTL DEF AnalysisSpec
----------------------------------------------------------------------------
(* The rules only add, and the more the more they are given.               *)
ObjectPairs == Object \X Object

LEMMA PairsType ==
    ASSUME NEW R \in SUBSET Relation, NEW type
    PROVE  Pairs(R, type) \subseteq ObjectPairs
BY InferenceAssumption DEF Pairs, ObjectPairs

LEMMA DeriveType ==
    ASSUME NEW R \in SUBSET Relation, NEW U \in SUBSET ObjectPairs
    PROVE  Derive(R, U) \in SUBSET ObjectPairs
<1>1. Pairs(R, "attributed-to") \subseteq ObjectPairs
  BY PairsType
<1>2. TransitiveUse(U) \subseteq ObjectPairs
  BY DEF TransitiveUse, ObjectPairs
<1>3. UsageViaAttribution(Pairs(R, "attributed-to"), U) \subseteq ObjectPairs
  BY <1>1 DEF UsageViaAttribution, ObjectPairs
<1>4. QED
  BY <1>2, <1>3 DEF Derive

LEMMA DeriveGrows ==
    ASSUME NEW R, NEW U, NEW V, U \subseteq V
    PROVE  Derive(R, U) \subseteq Derive(R, V)
<1>1. TransitiveUse(U) \subseteq TransitiveUse(V)
  BY DEF TransitiveUse
<1>2. \A A : UsageViaAttribution(A, U) \subseteq UsageViaAttribution(A, V)
  BY DEF UsageViaAttribution
<1>3. QED
  BY <1>1, <1>2 DEF Derive

LEMMA DeriveAdds ==
    ASSUME NEW R \in SUBSET Relation
    PROVE  Adding(ObjectPairs, [U \in SUBSET ObjectPairs |-> Derive(R, U)])
<1>1. \A U : U \subseteq Derive(R, U)
  BY DEF Derive
<1>2. QED
  BY <1>1, DeriveType, DeriveGrows DEF Adding

(* InferredUses is the least set of uses that contains the stored ones and *)
(* that the rules do not extend.                                           *)
LEMMA InferredAreLeast ==
    ASSUME NEW R \in SUBSET Relation
    PROVE  /\ InferredUses(R) \in SUBSET ObjectPairs
           /\ Pairs(R, "uses") \subseteq InferredUses(R)
           /\ Derive(R, InferredUses(R)) = InferredUses(R)
           /\ \A V \in SUBSET ObjectPairs :
                  Pairs(R, "uses") \subseteq V /\ Derive(R, V) = V => InferredUses(R) \subseteq V
<1>1. PICK step : step = [U \in SUBSET ObjectPairs |-> Derive(R, U)]
  OBVIOUS
<1>2. Adding(ObjectPairs, step)
  BY <1>1, DeriveAdds
<1>3. PICK least : least = [U \in SUBSET ObjectPairs |-> Least(ObjectPairs, step, U)]
  OBVIOUS
<1>4. Iterates(ObjectPairs, step, least)
  BY <1>2, <1>3, LeastIterates
<1> DEFINE Equation(g) == g = [U \in SUBSET (Object \X Object) |->
                                 IF Derive(R, U) = U THEN U ELSE g[Derive(R, U)]]
<1>5. \A g : Equation(g) <=> Iterates(ObjectPairs, step, g)
  <2>1. \A U \in SUBSET ObjectPairs : step[U] = Derive(R, U)
    BY <1>1
  <2>2. \A g : [U \in SUBSET ObjectPairs |-> IF Derive(R, U) = U THEN U ELSE g[Derive(R, U)]]
             = [U \in SUBSET ObjectPairs |-> IF step[U] = U THEN U ELSE g[step[U]]]
    BY <2>1
  <2>3. QED
    BY <2>2 DEF Iterates, ObjectPairs
<1>6. PICK closed : closed = CHOOSE g : Equation(g)
  OBVIOUS
<1>7. InferredUses(R) = closed[Pairs(R, "uses")]
  BY <1>6 DEF InferredUses
<1>8. Equation(closed)
  <2> HIDE DEF Equation
  <2>1. QED
    BY <1>4, <1>5, <1>6, Zenon
<1>9. IsFiniteSet(ObjectPairs)
  BY InferenceAssumption, FS_Product DEF ObjectPairs
<1>10. closed = least
  <2> HIDE DEF Equation
  <2>1. QED
    BY <1>2, <1>4, <1>5, <1>8, <1>9, IteratesOnce
<1>11. Pairs(R, "uses") \in SUBSET ObjectPairs
  BY PairsType
<1>12. InferredUses(R) = Least(ObjectPairs, step, Pairs(R, "uses"))
  BY <1>3, <1>7, <1>10, <1>11
<1>13. QED
  BY <1>1, <1>2, <1>11, <1>12, LeastIsClosed
----------------------------------------------------------------------------
(* Chains: those to whom a chain of links leads from x, through S.         *)
Follow(R, S, T) == T \cup {k[2] : k \in {l \in Links(R) : l[1] \in T /\ l[2] \in S}}
From(R, S, x) == Least(Object, [T \in SUBSET Object |-> Follow(R, S, T)], {x})

LEMMA LinksType ==
    ASSUME NEW R \in SUBSET Relation
    PROVE  Links(R) \subseteq ObjectPairs
<1>1. Pairs(R, "uses") \subseteq ObjectPairs /\ Pairs(R, "attributed-to") \subseteq ObjectPairs
  BY PairsType
<1>2. QED
  BY <1>1 DEF Links, ObjectPairs

LEMMA FollowAdds ==
    ASSUME NEW R \in SUBSET Relation, NEW S
    PROVE  Adding(Object, [T \in SUBSET Object |-> Follow(R, S, T)])
<1>1. \A T \in SUBSET Object : Follow(R, S, T) \in SUBSET Object
  BY LinksType DEF Follow, ObjectPairs
<1>2. \A T : T \subseteq Follow(R, S, T)
  BY DEF Follow
<1>3. \A T, U : T \subseteq U => Follow(R, S, T) \subseteq Follow(R, S, U)
  BY DEF Follow
<1>4. QED
  BY <1>1, <1>2, <1>3 DEF Adding

LEMMA FromIsLeast ==
    ASSUME NEW R \in SUBSET Relation, NEW S, NEW x \in Object
    PROVE  /\ From(R, S, x) \in SUBSET Object
           /\ x \in From(R, S, x)
           /\ \A l \in Links(R) : l[1] \in From(R, S, x) /\ l[2] \in S => l[2] \in From(R, S, x)
           /\ \A T \in SUBSET Object :
                  /\ x \in T
                  /\ \A l \in Links(R) : l[1] \in T /\ l[2] \in S => l[2] \in T
                  => From(R, S, x) \subseteq T
<1>1. PICK step : step = [T \in SUBSET Object |-> Follow(R, S, T)]
  OBVIOUS
<1>2. Adding(Object, step) /\ From(R, S, x) = Least(Object, step, {x}) /\ {x} \in SUBSET Object
  BY <1>1, FollowAdds DEF From
<1>3. PICK L : L = From(R, S, x)
  OBVIOUS
<1>4. /\ L \in SUBSET Object /\ x \in L /\ step[L] = L
      /\ \A T \in SUBSET Object : {x} \subseteq T /\ step[T] = T => L \subseteq T
  BY <1>2, <1>3, LeastIsClosed
<1>5. \A T \in SUBSET Object :
          step[T] = T <=> \A l \in Links(R) : l[1] \in T /\ l[2] \in S => l[2] \in T
  BY <1>1 DEF Follow
<1>6. QED
  BY <1>3, <1>4, <1>5

LEMMA ChainsAreLinked ==
    ASSUME NEW R \in SUBSET Relation, NEW S \in SUBSET Object
    PROVE  /\ Chains(R, S) \in SUBSET (S \X S)
           /\ \A x, z \in S : <<x, z>> \in Chains(R, S) <=>
                  \E y \in From(R, S, x) : <<y, z>> \in Pairs(R, "uses")
<1>1. PICK step : step = [T \in SUBSET Object |-> Follow(R, S, T)]
  OBVIOUS
<1>2. Adding(Object, step)
  BY <1>1, FollowAdds
<1>3. PICK least : least = [T \in SUBSET Object |-> Least(Object, step, T)]
  OBVIOUS
<1>4. Iterates(Object, step, least)
  BY <1>2, <1>3, LeastIterates
<1> DEFINE Equation(g) == g = [T \in SUBSET Object |->
                IF T \cup {k[2] : k \in {l \in Links(R) : l[1] \in T /\ l[2] \in S}} = T THEN T
                ELSE g[T \cup {k[2] : k \in {l \in Links(R) : l[1] \in T /\ l[2] \in S}}]]
<1>5. \A g : Equation(g) <=> Iterates(Object, step, g)
  <2>1. \A T \in SUBSET Object :
            step[T] = T \cup {k[2] : k \in {l \in Links(R) : l[1] \in T /\ l[2] \in S}}
    BY <1>1 DEF Follow
  <2>2. \A g : [T \in SUBSET Object |->
                  IF T \cup {k[2] : k \in {l \in Links(R) : l[1] \in T /\ l[2] \in S}} = T THEN T
                  ELSE g[T \cup {k[2] : k \in {l \in Links(R) : l[1] \in T /\ l[2] \in S}}]]
             = [T \in SUBSET Object |-> IF step[T] = T THEN T ELSE g[step[T]]]
    BY <2>1
  <2>3. QED
    BY <2>2 DEF Iterates
<1>6. PICK reached : reached = CHOOSE g : Equation(g)
  OBVIOUS
<1>7. Chains(R, S) =
        UNION {{x} \X {u[2] : u \in {v \in Pairs(R, "uses") : v[1] \in reached[{x}] /\ v[2] \in S}} :
                  x \in S}
  BY <1>6 DEF Chains
<1>8. Equation(reached)
  <2> HIDE DEF Equation
  <2>1. QED
    BY <1>4, <1>5, <1>6, Zenon
<1>9. reached = least
  <2> HIDE DEF Equation
  <2>1. QED
    BY <1>2, <1>4, <1>5, <1>8, IteratesOnce, InferenceAssumption
<1>10. \A x \in S : reached[{x}] = From(R, S, x)
  BY <1>1, <1>3, <1>9 DEF From
<1>11. Pairs(R, "uses") \subseteq ObjectPairs
  BY PairsType
<1>12. PICK ends : ends = [x \in S |->
            {u[2] : u \in {v \in Pairs(R, "uses") : v[1] \in reached[{x}] /\ v[2] \in S}}]
  OBVIOUS
<1>13. \A x, z \in S : z \in ends[x] <=> \E y \in From(R, S, x) : <<y, z>> \in Pairs(R, "uses")
  <2> TAKE x, z \in S
  <2>1. ASSUME NEW v \in Pairs(R, "uses"), v[1] \in reached[{x}], v[2] = z
        PROVE  \E y \in From(R, S, x) : <<y, z>> \in Pairs(R, "uses")
    <3>1. v = <<v[1], z>> /\ v[1] \in From(R, S, x)
      BY <1>10, <1>11, <2>1 DEF ObjectPairs
    <3>2. QED
      BY <3>1
  <2>2. ASSUME NEW y \in From(R, S, x), <<y, z>> \in Pairs(R, "uses")
        PROVE  z \in ends[x]
    <3>1. <<y, z>> \in {v \in Pairs(R, "uses") : v[1] \in reached[{x}] /\ v[2] \in S}
      BY <1>10, <2>2
    <3>2. QED
      BY <1>12, <3>1
  <2>3. QED
    BY <1>12, <2>1, <2>2
<1>14. Chains(R, S) = UNION {{x} \X ends[x] : x \in S} /\ \A x \in S : ends[x] \subseteq S
  BY <1>7, <1>12
<1>15. QED
  BY <1>13, <1>14
----------------------------------------------------------------------------
(* Whoever is linked to somebody has a chain to all that that one has.     *)
LEMMA FromFurther ==
    ASSUME NEW R \in SUBSET Relation, NEW S \in SUBSET Object, NEW x \in S, NEW y \in From(R, S, x)
    PROVE  From(R, S, y) \subseteq From(R, S, x)
<1>1. From(R, S, x) \in SUBSET Object /\ y \in Object
  BY FromIsLeast
<1>2. \A l \in Links(R) : l[1] \in From(R, S, x) /\ l[2] \in S => l[2] \in From(R, S, x)
  BY FromIsLeast
<1>3. QED
  BY <1>1, <1>2, FromIsLeast

LEMMA ChainsAreClosed ==
    ASSUME NEW R \in SUBSET Relation
    PROVE  Derive(R, Chains(R, Object)) = Chains(R, Object)
<1>1. PICK C : C = Chains(R, Object)
  OBVIOUS
<1>2. /\ C \in SUBSET ObjectPairs
      /\ \A x, z \in Object :
            <<x, z>> \in C <=> \E y \in From(R, Object, x) : <<y, z>> \in Pairs(R, "uses")
  BY <1>1, ChainsAreLinked DEF ObjectPairs
<1>3. ASSUME NEW x \in Object, NEW y \in Object, NEW z \in Object, y \in From(R, Object, x), <<y, z>> \in C
      PROVE  <<x, z>> \in C
  BY <1>2, <1>3, FromFurther
<1>4. TransitiveUse(C) \subseteq C
  <2>1. ASSUME NEW p \in C, NEW q \in C, p[2] = q[1]
        PROVE  <<p[1], q[2]>> \in C
    <3>1. p = <<p[1], p[2]>> /\ q = <<q[1], q[2]>> /\ p[1] \in Object /\ p[2] \in Object /\ q[2] \in Object
      BY <1>2 DEF ObjectPairs
    <3>2. PICK y \in From(R, Object, p[1]) : <<y, p[2]>> \in Pairs(R, "uses")
      BY <1>2, <3>1
    <3>3. p[2] \in From(R, Object, p[1])
      <4>1. <<y, p[2]>> \in Links(R)
        BY <3>2 DEF Links
      <4>2. QED
        BY <3>1, <3>2, <4>1, FromIsLeast
    <3>4. QED
      BY <1>3, <2>1, <3>1, <3>3
  <2>2. QED
    BY <2>1 DEF TransitiveUse
<1>5. UsageViaAttribution(Pairs(R, "attributed-to"), C) \subseteq C
  <2>1. ASSUME NEW a \in Pairs(R, "attributed-to"), NEW u \in C, a[1] = u[1]
        PROVE  <<a[2], u[2]>> \in C
    <3>1. a[1] \in Object /\ a[2] \in Object /\ u = <<u[1], u[2]>> /\ u[2] \in Object
      BY <1>2, PairsType DEF ObjectPairs
    <3>2. <<a[2], a[1]>> \in Links(R)
      BY DEF Links
    <3>3. a[1] \in From(R, Object, a[2])
      BY <3>1, <3>2, FromIsLeast
    <3>4. QED
      BY <1>3, <2>1, <3>1, <3>3
  <2>2. QED
    BY <2>1 DEF UsageViaAttribution
<1>6. QED
  BY <1>1, <1>4, <1>5 DEF Derive

(* Soundness: a use that is derived has a chain.                           *)
LEMMA InferredHaveChains ==
    ASSUME NEW R \in SUBSET Relation
    PROVE  InferredUses(R) \subseteq Chains(R, Object)
<1>1. /\ Chains(R, Object) \in SUBSET ObjectPairs
      /\ \A x, z \in Object : <<x, z>> \in Chains(R, Object) <=>
                  \E y \in From(R, Object, x) : <<y, z>> \in Pairs(R, "uses")
  BY ChainsAreLinked DEF ObjectPairs
<1>2. \A p \in Pairs(R, "uses") : p \in Chains(R, Object)
  <2>1. ASSUME NEW p \in Pairs(R, "uses") PROVE p \in Chains(R, Object)
    <3>1. p = <<p[1], p[2]>> /\ p[1] \in Object /\ p[2] \in Object
      BY PairsType DEF ObjectPairs
    <3>2. p[1] \in From(R, Object, p[1])
      BY <3>1, FromIsLeast
    <3>3. QED
      BY <1>1, <3>1, <3>2
  <2>2. QED
    BY <2>1
<1>3. QED
  BY <1>1, <1>2, ChainsAreClosed, InferredAreLeast

(* Completeness: if the objects on a chain have names, and it does not     *)
(* lead back to where it began, its use is derived.  Along the chain from  *)
(* x, everything that the rules let the object reached use, x uses too.    *)
LEMMA NamedChainsAreInferred ==
    ASSUME NEW R \in SUBSET Relation, NEW x \in Named, NEW z \in Named, x # z,
           <<x, z>> \in Chains(R, Named)
    PROVE  <<x, z>> \in InferredUses(R)
<1>1. PICK U : U = InferredUses(R)
  OBVIOUS
<1>2. Named \in SUBSET Object
  BY InferenceAssumption
<1>3. U \in SUBSET ObjectPairs /\ Pairs(R, "uses") \subseteq U
      /\ TransitiveUse(U) \subseteq U /\ UsageViaAttribution(Pairs(R, "attributed-to"), U) \subseteq U
  BY <1>1, InferredAreLeast DEF Derive
<1>4. ASSUME NEW p \in Named, NEW q \in Named, NEW r \in Named, <<p, q>> \in U, <<q, r>> \in U, p # r
      PROVE  <<p, r>> \in U
  <2>1. <<<<p, q>>, <<q, r>>>> \in {k \in U \X U : /\ k[1][2] = k[2][1] /\ k[1][1] # k[2][2]
                                      /\ {k[1][1], k[1][2], k[2][2]} \subseteq Named}
    BY <1>4
  <2>2. <<p, r>> \in TransitiveUse(U)
    BY <2>1 DEF TransitiveUse
  <2>3. QED
    BY <1>3, <2>2
<1>5. ASSUME NEW a \in Pairs(R, "attributed-to"), NEW r, <<a[1], r>> \in U
      PROVE  <<a[2], r>> \in U
  <2>1. <<a, <<a[1], r>>>> \in {k \in Pairs(R, "attributed-to") \X U : k[1][1] = k[2][1]}
    BY <1>5
  <2>2. <<a[2], r>> \in UsageViaAttribution(Pairs(R, "attributed-to"), U)
    BY <2>1 DEF UsageViaAttribution
  <2>3. QED
    BY <1>3, <2>2
<1>6. PICK T : T = {y \in Object : (y = x \/ y \in Named)
                        /\ \A w \in Named : <<y, w>> \in U /\ x # w => <<x, w>> \in U}
  OBVIOUS
<1>7. ASSUME NEW l \in Links(R), l[1] \in T, l[2] \in Named
      PROVE  l[2] \in T
  <2>1. l[1] \in Named /\ l[2] \in Object
    BY <1>2, <1>6, <1>7
  <2>2. CASE l \in Pairs(R, "uses")
    <3>1. l = <<l[1], l[2]>>
      BY <2>2, PairsType DEF ObjectPairs
    <3>2. <<l[1], l[2]>> \in U
      BY <1>3, <2>2, <3>1
    <3>3. ASSUME NEW w \in Named, <<l[2], w>> \in U, x # w PROVE <<x, w>> \in U
      <4>1. CASE x = l[2]
        BY <3>3, <4>1
      <4>2. CASE x # l[2]
        <5>1. <<x, l[2]>> \in U
          BY <1>6, <1>7, <3>2, <4>2
        <5>2. QED
          BY <1>4, <1>7, <3>3, <5>1
      <4>3. QED
        BY <4>1, <4>2
    <3>4. QED
      BY <1>6, <1>7, <2>1, <3>3
  <2>3. CASE \E a \in Pairs(R, "attributed-to") : l = <<a[2], a[1]>>
    <3>1. PICK a \in Pairs(R, "attributed-to") : l = <<a[2], a[1]>>
      BY <2>3
    <3>2. ASSUME NEW w \in Named, <<l[2], w>> \in U, x # w PROVE <<x, w>> \in U
      <4>1. <<l[1], w>> \in U
        BY <1>5, <3>1, <3>2
      <4>2. QED
        BY <1>6, <1>7, <3>2, <4>1
    <3>3. QED
      BY <1>6, <1>7, <2>1, <3>2
  <2>4. QED
    BY <2>2, <2>3 DEF Links
<1>8. From(R, Named, x) \subseteq T
  <2>1. T \in SUBSET Object /\ x \in T
    BY <1>2, <1>6
  <2>2. QED
    BY <1>2, <1>7, <2>1, FromIsLeast
<1>9. PICK y \in From(R, Named, x) : <<y, z>> \in Pairs(R, "uses")
  BY <1>2, ChainsAreLinked
<1>10. y \in T /\ <<y, z>> \in U
  BY <1>3, <1>8, <1>9
<1>11. QED
  BY <1>1, <1>6, <1>10

(* The more relations are stored, the more chains there are.               *)
LEMMA ChainsGrow ==
    ASSUME NEW R \in SUBSET Relation, NEW Q \in SUBSET Relation, Q \subseteq R
    PROVE  Chains(Q, Object) \subseteq Chains(R, Object)
<1>1. \A type : Pairs(Q, type) \subseteq Pairs(R, type)
  BY DEF Pairs
<1>2. Links(Q) \subseteq Links(R)
  BY <1>1 DEF Links
<1>3. ASSUME NEW x \in Object PROVE From(Q, Object, x) \subseteq From(R, Object, x)
  <2>1. /\ From(R, Object, x) \in SUBSET Object /\ x \in From(R, Object, x)
        /\ \A l \in Links(R) : l[1] \in From(R, Object, x) /\ l[2] \in Object => l[2] \in From(R, Object, x)
    BY FromIsLeast
  <2>2. \A l \in Links(Q) : l[1] \in From(R, Object, x) /\ l[2] \in Object => l[2] \in From(R, Object, x)
    BY <1>2, <2>1
  <2>3. QED
    BY <2>1, <2>2, FromIsLeast
<1>4. /\ Chains(Q, Object) \in SUBSET (Object \X Object)
      /\ \A x, z \in Object : <<x, z>> \in Chains(Q, Object) <=>
                  \E y \in From(Q, Object, x) : <<y, z>> \in Pairs(Q, "uses")
  BY ChainsAreLinked
<1>5. \A x, z \in Object : <<x, z>> \in Chains(R, Object) <=>
                  \E y \in From(R, Object, x) : <<y, z>> \in Pairs(R, "uses")
  BY ChainsAreLinked
<1>6. ASSUME NEW p \in Chains(Q, Object) PROVE p \in Chains(R, Object)
  <2>1. PICK x \in Object, z \in Object : p = <<x, z>>
    BY <1>4
  <2>2. PICK y \in From(Q, Object, x) : <<y, z>> \in Pairs(Q, "uses")
    BY <1>4, <2>1
  <2>3. y \in From(R, Object, x) /\ <<y, z>> \in Pairs(R, "uses")
    BY <1>1, <1>3, <2>2
  <2>4. QED
    BY <1>5, <2>1, <2>3
<1>7. QED
  BY <1>6
-----------------------------------------------------------------------------
(* The rules of cti-skb-rules.tql derive a use only where a chain of       *)
(* stored relations leads from the user to what it uses: the relations of  *)
(* the database are among its objects, and every rule lengthens a chain.   *)
THEOREM InferredUsesAreChainsCorrect == AnalysisSpec => []InferredUsesAreChains
<1>1. AnalysisInv => InferredUsesAreChains
  <2> SUFFICES ASSUME AnalysisInv PROVE InferredUsesAreChains
    OBVIOUS
  <2>1. rels \in SUBSET Relation
    BY DEF AnalysisInv, CallOK
  <2>2. InferredUses(rels) \subseteq Chains(rels, Object)
    BY <2>1, InferredHaveChains
  <2>3. ASSUME NEW p \in Distinct(Chains(rels, Named)) PROVE p \in InferredUses(rels)
    <3>1. Named \in SUBSET Object
      BY InferenceAssumption
    <3>2. PICK x \in Named, z \in Named : p = <<x, z>>
      <4>1. Chains(rels, Named) \in SUBSET (Named \X Named)
        BY <2>1, <3>1, ChainsAreLinked
      <4>2. QED
        BY <4>1 DEF Distinct
    <3>3. x # z /\ <<x, z>> \in Chains(rels, Named)
      BY <3>2 DEF Distinct
    <3>4. <<x, z>> \in InferredUses(rels)
      BY <2>1, <3>3, NamedChainsAreInferred
    <3>5. QED
      BY <3>2, <3>4
  <2>4. QED
    BY <2>2, <2>3 DEF InferredUsesAreChains
<1>2. QED
  BY <1>1, InvInitially, InvNext, PTL DEF AnalysisSpec
----------------------------------------------------------------------------
(***************************************************************************)
(* The composition of several queries.                                     *)
(***************************************************************************)
(* The call that a query belongs to; a call that runs has not answered.    *)
CallFlow ==
    /\ at \notin {"idle", "close", "closed"} => outcome = "none" /\ answer = NoAnswer
    /\ at \in {"counts", "names"} <=> at \in Queries /\ args.call = "usage"
    /\ at \in {"name", "mitigations"} <=> at \in Queries /\ args.call = "related"
    /\ at \in {"search", "attributes", "creator", "sources", "explain"}
        <=> at \in Queries /\ args.call \in Searching
    /\ at = "explain" => args.call \in {"explain", "via"}

Selected ==
    /\ \A k \in 1..Len(data) : Within(sets_count[data[k]])
    /\ \A j, k \in 1..Len(data) : j < k => Before(sets_count[data[j]], sets_count[data[k]])
    /\ \A i \in DOMAIN sets_count \ ToSet(data) : Within(sets_count[i]) =>
            /\ Len(data) = args.limit
            /\ \A k \in 1..Len(data) : Before(sets_count[data[k]], sets_count[i])
RowsInv ==
    /\ CallFlow
    /\ data \in Seq(AttckId)
    /\ args.call = "usage" /\ (at = "names" \/ (at = "close" /\ outcome = "returned")) => Selected
    /\ args.call = "usage" /\ at = "close" /\ outcome = "returned" =>
            data = [k \in 1..Len(answer.rows) |-> answer.rows[k][1]]

(* What the queries of a session have told is true of the database that it *)
(* is open on, which only grows until it is deleted.                       *)
Linked == \A r \in rels : r.source \in objs /\ r.target \in objs
CountsTrue == \A i \in DOMAIN sets_count :
    /\ NamesOf(i) # {}
    /\ sets_count[i] \in Nat /\ sets_count[i] <= Cardinality(UsesOf(i))
FoundTrue ==
    /\ found # <<>> /\ ToSet(found) \subseteq objs
    /\ args.call # "object" => ToSet(found) \subseteq WithId(args.id)
    /\ \A k \in 1..Len(related) :
            /\ related[k][1] \in objs
            /\ related[k][2] \in CreatorsOf(related[k][1]) \cup {NoName}
ToldTrue ==
    /\ at = "names" => CountsTrue
    /\ at = "mitigations" /\ args.id # NoName => ToSet(found) \subseteq WithId(args.id) \cap Named
    /\ at \in {"attributes", "creator", "sources", "explain"} => FoundTrue
AnswersInv ==
    /\ CallFlow
    /\ session \subseteq 0..gen
    /\ Linked
    /\ SessionOpen => ToldTrue

LEMMA FirstFlow ==
    /\ First \in {"counts", "names"} <=> args.call = "usage"
    /\ First \in {"name", "mitigations"} <=> args.call = "related"
    /\ First \in {"search", "attributes", "creator", "sources", "explain"} <=> args.call \in Searching
    /\ First # "explain"
    /\ First = "names" <=> FALSE
<1>1. CASE args.call = "usage"
  BY <1>1 DEF First, Searching
<1>2. CASE args.call = "related"
  BY <1>2 DEF First, Searching
<1>3. CASE args.call \in Searching
  BY <1>3 DEF First, Searching
<1>4. CASE args.call \notin {"usage", "related"} \cup Searching
  BY <1>4 DEF First, Searching
<1>5. QED
  BY <1>1, <1>2, <1>3, <1>4

(* The steps of a call: its beginning, its two preparations, a query that  *)
(* ends it, a query that leads to the next one.                            *)
LEMMA FlowNext ==
    ASSUME CallFlow, AnalysisInv, [AnalysisNext]_analysisVars
    PROVE  CallFlow'
<1>1. CASE UNCHANGED <<at, args, outcome, answer>>
  BY <1>1 DEF CallFlow
<1>2. ASSUME at' \in {"idle", "close", "closed"}
      PROVE  CallFlow'
  BY <1>2 DEF CallFlow, Queries
<1>3. ASSUME NEW a \in Arguments, Call(a) PROVE CallFlow'
  BY <1>3 DEF Call, CallFlow, Queries
<1>4. CASE OpenDriver
  BY <1>4 DEF OpenDriver, CallFlow, Queries
<1>5. CASE OpenSession
  <2>1. at' = First /\ UNCHANGED <<args, outcome, answer>> /\ at = "session" /\ First \in Queries
    BY <1>5, FirstIsQuery DEF OpenSession
  <2>2. QED
    BY <2>1, FirstFlow DEF CallFlow
<1>6. CASE OpenDriverRaises \/ OpenSessionRaises \/ NoGroupGiven \/ QueryRaises \/ AskNames
           \/ AskNamesRaises \/ AskMitigations \/ SearchRaises \/ Explain \/ AskSingle
  BY <1>2, <1>6 DEF OpenDriverRaises, OpenSessionRaises, NoGroupGiven, QueryRaises, AskNames,
     AskNamesRaises, AskMitigations, SearchRaises, Explain, AskSingle, Throw, ReturnRows, ReturnSet, Exit
<1>14. CASE CloseSession \/ CloseDriver \/ CloseSessionRaises \/ CloseDriverRaises
  BY <1>2, <1>14 DEF CloseSession, CloseDriver, CloseSessionRaises, CloseDriverRaises
<1>7. CASE AskCounts
  <2>1. CASE Exit("returned")
    BY <1>2, <2>1 DEF Exit
  <2>2. CASE Continue("names")
    BY <1>7, <2>2 DEF AskCounts, Ask, Continue, Same, CallFlow, Queries
  <2>3. QED
    BY <1>7, <2>1, <2>2 DEF AskCounts, ReturnRows
<1>8. CASE AskName
  BY <1>8 DEF AskName, Ask, Continue, Same, CallFlow, Queries
<1>9. CASE Search \/ AskAttributes \/ AskCreator
  BY <1>9 DEF Search, AskAttributes, AskCreator, Ask, Continue, Same, CallFlow, Queries
<1>10. CASE AskSources
  <2>1. CASE Exit("returned")
    BY <1>2, <2>1 DEF Exit
  <2>2. CASE Continue("attributes")
    BY <1>10, <2>2 DEF AskSources, Ask, Continue, Same, CallFlow, Queries
  <2>3. CASE args.call \notin {"info", "object"} /\ Continue("explain")
    BY <1>10, <2>3 DEF AskSources, Ask, Continue, Same, CallFlow, Queries, Searching
  <2>4. QED
    BY <1>10, <2>1, <2>2, <2>3 DEF AskSources, ReturnRows
<1>11. CASE LoadObjects \/ LoadRelations \/ Delete \/ Create
  BY <1>1, <1>11 DEF LoadObjects, LoadRelations, Delete, Create, Others
<1>12. CASE UNCHANGED analysisVars
  BY <1>1, <1>12 DEF analysisVars
<1>13. QED
  BY <1>3, <1>4, <1>5, <1>6, <1>7, <1>8, <1>9, <1>10, <1>11, <1>12, <1>14 DEF AnalysisNext, AnalysisStep
----------------------------------------------------------------------------
(* Sorting and cutting.  What comes later in a sorted sequence is not      *)
(* before what comes earlier: by induction over the distance.              *)
LEMMA SortedThroughout ==
    ASSUME NEW S, NEW count, IsFiniteSet(S), \A i \in S : count[i] \in Nat, NEW s \in Sorted(S, count)
    PROVE  \A i, j \in 1..Len(s) : i < j => Before(count[s[i]], count[s[j]])
<1>1. s \in Seq(S) /\ Len(s) \in Nat
  BY OrderOfSet DEF Sorted
<1>2. \A i \in 1..(Len(s) - 1) : Before(count[s[i]], count[s[i + 1]])
  BY DEF Sorted
<1>3. ASSUME NEW i \in 1..Len(s), NEW j \in 1..Len(s), i < j, ~Before(count[s[i]], count[s[j]])
      PROVE  FALSE
  <2>1. PICK A : A = {n \in 1..Len(s) : i < n /\ ~Before(count[s[i]], count[s[n]])}
    OBVIOUS
  <2>2. A \in SUBSET Nat /\ j \in A
    BY <1>3, <2>1
  <2>3. PICK m \in A : \A n \in A : m <= n
    BY <2>2, SmallestNumber
  <2>4. /\ m \in 1..Len(s) /\ i < m /\ ~Before(count[s[i]], count[s[m]])
        /\ m - 1 \in 1..(Len(s) - 1) /\ m - 1 \notin A
    BY <1>1, <2>1, <2>3
  <2>5. Before(count[s[m - 1]], count[s[m]])
    <3>1. Before(count[s[m - 1]], count[s[(m - 1) + 1]])
      BY <1>2, <2>4
    <3>2. (m - 1) + 1 = m
      BY <2>4
    <3>3. QED
      BY <3>1, <3>2
  <2>6. m - 1 = i \/ Before(count[s[i]], count[s[m - 1]])
    BY <2>1, <2>4
  <2>7. count[s[i]] \in Nat /\ count[s[m - 1]] \in Nat /\ count[s[m]] \in Nat
    BY <1>1, <1>3, <2>4
  <2>8. QED
    BY <2>4, <2>5, <2>6, <2>7 DEF Before
<1>4. QED
  BY <1>3

LEMMA SortedHasAll ==
    ASSUME NEW S, NEW count, IsFiniteSet(S), NEW s \in Sorted(S, count)
    PROVE  \A i \in S : \E n \in 1..Len(s) : s[n] = i
<1>1. Cardinality(S) \in Nat
  BY FS_CardinalityType
<1>2. s \in [1..Cardinality(S) -> S] /\ \A i, j \in 1..Cardinality(S) : i # j => s[i] # s[j]
  BY DEF Sorted, SetToSeqs
<1>3. IsFiniteSet(1..Cardinality(S)) /\ Cardinality(1..Cardinality(S)) = Cardinality(S)
  BY <1>1, FS_Interval
<1>4. s \in Injection(1..Cardinality(S), S)
  BY <1>2 DEF Injection, IsInjective
<1>5. s \in Surjection(1..Cardinality(S), S)
  BY <1>3, <1>4, FS_Injection
<1>6. Len(s) = Cardinality(S)
  BY <1>1, <1>2
<1>7. QED
  BY <1>5, <1>6 DEF Surjection

LEMMA CutIsPrefix ==
    ASSUME NEW S, NEW s \in Seq(S), args.limit \in Int
    PROVE  /\ Cut(s) \in Seq(S) /\ Len(Cut(s)) <= Len(s)
           /\ \A i \in 1..Len(Cut(s)) : Cut(s)[i] = s[i]
           /\ Len(Cut(s)) = Len(s) \/ Len(Cut(s)) = args.limit
<1>1. CASE args.limit >= 0 /\ args.limit < Len(s)
  <2>1. Cut(s) = SubSeq(s, 1, args.limit) /\ args.limit \in Nat
    BY <1>1 DEF Cut
  <2>2. Len(Cut(s)) = args.limit /\ (\A i \in 1..args.limit : Cut(s)[i] = s[i]) /\ Cut(s) \in Seq(S)
    BY <1>1, <2>1
  <2>3. QED
    BY <1>1, <2>2
<1>2. CASE ~(args.limit >= 0 /\ args.limit < Len(s))
  BY <1>2 DEF Cut
<1>3. QED
  BY <1>1, <1>2

LEMMA SelectionIsRight ==
    ASSUME NEW count, NEW s \in Selections(count), IsFiniteSet(DOMAIN count), args.limit \in Int,
           \A i \in DOMAIN count : count[i] \in Nat
    PROVE  /\ s \in Seq(DOMAIN count)
           /\ \A i \in 1..Len(s) : Within(count[s[i]])
           /\ \A i, j \in 1..Len(s) : i < j => Before(count[s[i]], count[s[j]])
           /\ \A i \in DOMAIN count \ ToSet(s) : Within(count[i]) =>
                    /\ Len(s) = args.limit
                    /\ \A j \in 1..Len(s) : Before(count[s[j]], count[i])
<1>1. PICK S : S = {i \in DOMAIN count : Within(count[i])}
  OBVIOUS
<1>2. IsFiniteSet(S) /\ \A i \in S : count[i] \in Nat
  BY <1>1, FS_Subset
<1>3. PICK t \in Sorted(S, count) : s = Cut(t)
  BY <1>1 DEF Selections
<1>4. t \in Seq(S) /\ Len(t) \in Nat
  BY <1>2, <1>3, OrderOfSet DEF Sorted
<1>5. /\ s \in Seq(S) /\ Len(s) <= Len(t) /\ \A i \in 1..Len(s) : s[i] = t[i]
      /\ Len(s) = Len(t) \/ Len(s) = args.limit
  BY <1>3, <1>4, CutIsPrefix
<1>6. \A i, j \in 1..Len(t) : i < j => Before(count[t[i]], count[t[j]])
  BY <1>2, SortedThroughout
<1>7. s \in Seq(DOMAIN count) /\ Len(s) \in Nat
  BY <1>1, <1>5
<1>8. ASSUME NEW i \in DOMAIN count \ ToSet(s), Within(count[i])
      PROVE  /\ Len(s) = args.limit
             /\ \A j \in 1..Len(s) : Before(count[s[j]], count[i])
  <2>1. PICK n \in 1..Len(t) : t[n] = i
    BY <1>1, <1>2, <1>8, SortedHasAll
  <2>2. n \notin 1..Len(s)
    <3>1. \A j \in 1..Len(s) : s[j] \in ToSet(s)
      BY <1>7 DEF ToSet
    <3>2. QED
      BY <1>5, <1>8, <2>1, <3>1
  <2>3. n > Len(s)
    BY <1>7, <2>1, <2>2
  <2>4. Len(s) = args.limit
    BY <1>4, <1>5, <1>7, <2>1, <2>3
  <2>5. ASSUME NEW j \in 1..Len(s) PROVE Before(count[s[j]], count[i])
    <3>1. j \in 1..Len(t) /\ j < n /\ s[j] = t[j]
      BY <1>4, <1>5, <1>7, <2>1, <2>3
    <3>2. QED
      BY <1>6, <2>1, <3>1
  <2>6. QED
    BY <2>4, <2>5
<1>9. \A i \in 1..Len(s) : Within(count[s[i]])
  BY <1>1, <1>5
<1>10. \A i, j \in 1..Len(s) : i < j => Before(count[s[i]], count[s[j]])
  BY <1>4, <1>5, <1>6, <1>7
<1>11. QED
  BY <1>7, <1>8, <1>9, <1>10

(* A count is that of a set of pairs of names, each of which a use has     *)
(* given that a chain leads to.                                            *)
LEMMA UsesHaveChains ==
    ASSUME AnalysisInv
    PROVE  Uses \subseteq Chains(rels, Object) /\ Uses \subseteq ObjectPairs
<1>1. rels \in SUBSET Relation
  BY DEF AnalysisInv, CallOK
<1>2. Pairs(rels, "uses") \subseteq InferredUses(rels) /\ InferredUses(rels) \subseteq ObjectPairs
  BY <1>1, InferredAreLeast
<1>3. InferredUses(rels) \subseteq Chains(rels, Object)
  BY <1>1, InferredHaveChains
<1>4. QED
  BY <1>2, <1>3 DEF Uses

LEMMA UsageCounted ==
    ASSUME AnalysisInv, NEW i
    PROVE  /\ IsFiniteSet(Usage(i)) /\ IsFiniteSet(UsesOf(i))
           /\ Cardinality(Usage(i)) \in Nat
           /\ Cardinality(Usage(i)) <= Cardinality(UsesOf(i))
           /\ Usage(i) # {} => NamesOf(i) # {}
<1>1. PICK V : V = {v \in Uses :
                /\ {v[1], v[2]} \subseteq Named
                /\ v[2] \in WithId(i) \cap Of("attack-pattern")
                /\ args.norevoked => v[2] \notin Revoked
                /\ v[1] \in Of("intrusion-set")}
  OBVIOUS
<1>2. rels \in SUBSET Relation
  BY DEF AnalysisInv, CallOK
<1>3. Chains(rels, Object) \in SUBSET ObjectPairs /\ IsFiniteSet(ObjectPairs)
  BY <1>2, ChainsAreLinked, InferenceAssumption, FS_Product DEF ObjectPairs
<1>4. UsesOf(i) \in SUBSET ObjectPairs
  BY <1>3 DEF UsesOf
<1>5. IsFiniteSet(UsesOf(i))
  BY <1>3, <1>4, FS_Subset
<1>6. V \in SUBSET UsesOf(i)
  BY <1>1, UsesHaveChains DEF UsesOf
<1>7. IsFiniteSet(V) /\ Cardinality(V) <= Cardinality(UsesOf(i))
  BY <1>5, <1>6, FS_Subset
<1>8. PICK f : f = [u \in V |-> <<NameOf[u[2]], NameOf[u[1]]>>]
  OBVIOUS
<1>9. Usage(i) = {f[u] : u \in V}
  <2>1. Usage(i) = {<<NameOf[u[2]], NameOf[u[1]]>> : u \in V}
    BY <1>1 DEF Usage
  <2>2. QED
    BY <1>8, <2>1
<1>10. f \in [V -> {f[u] : u \in V}]
  BY <1>8
<1>11. IsFiniteSet(Usage(i)) /\ Cardinality(Usage(i)) <= Cardinality(V)
  BY <1>7, <1>9, <1>10, ImageFinite
<1>12. Cardinality(Usage(i)) \in Nat /\ Cardinality(V) \in Nat /\ Cardinality(UsesOf(i)) \in Nat
  BY <1>5, <1>7, <1>11, FS_CardinalityType
<1>13. ASSUME Usage(i) # {} PROVE NamesOf(i) # {}
  <2>1. PICK v \in V : TRUE
    BY <1>9, <1>13
  <2>2. v[2] \in WithId(i) \cap Named
    BY <1>1
  <2>3. QED
    BY <2>2 DEF NamesOf
<1>14. QED
  BY <1>5, <1>7, <1>11, <1>12, <1>13

LEMMA CountsType ==
    ASSUME AnalysisInv
    PROVE  /\ IsFiniteSet(DOMAIN Counts) /\ DOMAIN Counts \subseteq AttckId
           /\ \A i \in DOMAIN Counts : /\ Counts[i] \in Nat /\ Counts[i] <= Cardinality(UsesOf(i))
                                       /\ NamesOf(i) # {}
<1>1. DOMAIN Counts \subseteq Technique /\ Technique \subseteq AttckId
  BY DEF Counts, Technique
<1>2. IsFiniteSet(DOMAIN Counts)
  BY <1>1, AnalysisAssumption, FS_Subset
<1>3. \A i \in DOMAIN Counts : Usage(i) # {} /\ Counts[i] = Cardinality(Usage(i))
  BY DEF Counts
<1>4. QED
  BY <1>1, <1>2, <1>3, UsageCounted

LEMMA LimitIsNumber == AnalysisInv /\ args.call = "usage" => args.limit \in Int
BY AnalysisAssumption DEF AnalysisInv, CallOK

LEMMA RowsInitially == AnalysisInit => RowsInv
<1> SUFFICES ASSUME AnalysisInit PROVE RowsInv
  OBVIOUS
<1>1. CallFlow
  BY DEF AnalysisInit, CallFlow, Queries
<1>2. QED
  BY <1>1 DEF AnalysisInit, RowsInv

LEMMA RowsNext == RowsInv /\ AnalysisInv /\ [AnalysisNext]_analysisVars => RowsInv'
<1> SUFFICES ASSUME RowsInv, AnalysisInv, [AnalysisNext]_analysisVars PROVE RowsInv'
  OBVIOUS
<1>1. CallFlow' /\ CallFlow
  BY FlowNext DEF RowsInv
<1>2. CASE UNCHANGED <<at, args, sets_count, data, outcome, answer>>
  <2>1. Selected' <=> Selected
    BY <1>2 DEF Selected, Within, Before
  <2>2. QED
    BY <1>1, <1>2, <2>1 DEF RowsInv
<1>3. ASSUME data' \in Seq(AttckId),
             args'.call = "usage" => at' # "names" /\ ~(at' = "close" /\ outcome' = "returned")
      PROVE  RowsInv'
  BY <1>1, <1>3 DEF RowsInv
<1>4. data \in Seq(AttckId)
  BY DEF RowsInv
<1>5. CASE AskCounts
  <2>1. args.call = "usage" /\ args.limit \in Int /\ args' = args
    BY <1>1, <1>5, LimitIsNumber DEF AskCounts, Ask, CallFlow, Same
  <2>2. sets_count' = Counts /\ data' \in Selections(Counts)
    BY <1>5 DEF AskCounts
  <2>3. /\ data' \in Seq(DOMAIN Counts)
        /\ \A i \in 1..Len(data') : Within(Counts[data'[i]])
        /\ \A i, j \in 1..Len(data') : i < j => Before(Counts[data'[i]], Counts[data'[j]])
        /\ \A i \in DOMAIN Counts \ ToSet(data') : Within(Counts[i]) =>
                /\ Len(data') = args.limit
                /\ \A j \in 1..Len(data') : Before(Counts[data'[j]], Counts[i])
    BY <2>1, <2>2, CountsType, SelectionIsRight
  <2>4. Selected'
    BY <2>1, <2>2, <2>3 DEF Selected, Within, Before
  <2>5. data' \in Seq(AttckId)
    BY <2>3, CountsType
  <2>6. outcome' = "returned" => data' = [i \in 1..Len(answer'.rows) |-> answer'.rows[i][1]]
    <3>1. CASE Counts = <<>>
      <4>1. answer'.rows = <<>>
        BY <1>1, <1>5, <3>1 DEF AskCounts, Ask, ReturnRows, CallFlow, NoAnswer
      <4>2. DOMAIN Counts = {}
        BY <3>1
      <4>3. data' = <<>>
        BY <2>3, <4>2
      <4>4. QED
        BY <4>1, <4>3
    <3>2. CASE Counts # <<>>
      BY <1>1, <1>5, <3>2 DEF AskCounts, Ask, Continue, CallFlow
    <3>3. QED
      BY <3>1, <3>2
  <2>7. QED
    BY <1>1, <2>4, <2>5, <2>6 DEF RowsInv
<1>6. CASE AskNames
  <2>1. args.call = "usage" /\ at = "names" /\ answer = NoAnswer
    BY <1>1, <1>6 DEF AskNames, Ask, CallFlow
  <2>2. UNCHANGED <<args, sets_count, data>>
    BY <1>6 DEF AskNames, Same, results
  <2>3. Selected'
    <3>1. Selected
      BY <2>1 DEF RowsInv
    <3>2. QED
      BY <2>2, <3>1 DEF Selected, Within, Before
  <2>4. PICK n : answer'.rows = [j \in 1..Len(data) |-> <<data[j], n[data[j]], sets_count[data[j]]>>]
    BY <1>6, <2>1 DEF AskNames, ReturnRows, NoAnswer
  <2>5. Len(answer'.rows) = Len(data) /\ \A j \in 1..Len(data) : answer'.rows[j][1] = data[j]
    BY <1>4, <2>4
  <2>6. data' = [j \in 1..Len(answer'.rows) |-> answer'.rows[j][1]]
    BY <1>4, <2>2, <2>5
  <2>7. QED
    BY <1>1, <1>4, <2>2, <2>3, <2>6 DEF RowsInv
<1>7. ASSUME NEW a \in Arguments, Call(a) PROVE RowsInv'
  BY <1>3, <1>7 DEF Call, NoResults
<1>8. CASE OpenDriver
  BY <1>1, <1>3, <1>4, <1>8 DEF OpenDriver, CallFlow, results
<1>9. CASE OpenSession
  BY <1>1, <1>3, <1>4, <1>9, FirstFlow DEF OpenSession, CallFlow, results
<1>10. CASE OpenDriverRaises \/ OpenSessionRaises \/ QueryRaises \/ AskNamesRaises \/ SearchRaises
  BY <1>1, <1>3, <1>4, <1>10 DEF OpenDriverRaises, OpenSessionRaises, QueryRaises, AskNamesRaises,
     SearchRaises, Throw, Exit, results, CallFlow
<1>16. CASE CloseSession \/ CloseDriver \/ CloseSessionRaises \/ CloseDriverRaises
  <2>1. data' = data \/ data' = <<>>
    BY <1>16 DEF CloseSession, CloseDriver, CloseSessionRaises, CloseDriverRaises, NoResults, results
  <2>2. at' \in {"closed", "idle"}
    BY <1>16 DEF CloseSession, CloseDriver, CloseSessionRaises, CloseDriverRaises
  <2>3. data' \in Seq(AttckId)
    <3>1. <<>> \in Seq(AttckId)
      OBVIOUS
    <3>2. QED
      BY <1>4, <2>1, <3>1, Zenon
  <2>4. QED
    BY <1>3, <2>2, <2>3
<1>11. ASSUME at \in Queries, at \notin {"counts", "names"}, UNCHANGED <<args, data>>
      PROVE  RowsInv'
  BY <1>1, <1>3, <1>4, <1>11 DEF CallFlow
<1>12. CASE AskName \/ AskMitigations \/ NoGroupGiven \/ Search \/ AskAttributes \/ AskCreator
            \/ AskSources \/ Explain \/ AskSingle
  BY <1>11, <1>12 DEF AskName, AskMitigations, NoGroupGiven, NoGroup, Search, AskAttributes, AskCreator,
     AskSources, Explain, AskSingle, Ask, Same, results, Queries
<1>13. CASE LoadObjects \/ LoadRelations \/ Delete \/ Create
  BY <1>2, <1>13 DEF LoadObjects, LoadRelations, Delete, Create, Others, results
<1>14. CASE UNCHANGED analysisVars
  BY <1>2, <1>14 DEF analysisVars, results
<1>15. QED
  BY <1>5, <1>6, <1>7, <1>8, <1>9, <1>10, <1>12, <1>13, <1>14, <1>16 DEF AnalysisNext, AnalysisStep

(* For every content of the database, any bounds and any limit: what       *)
(* techniques_usage selects and returns is sorted, and complete up to the  *)
(* limit.                                                                  *)
THEOREM RowsSelectedCorrect == AnalysisSpec => []RowsSelected
<1>1. RowsInv => RowsSelected
  BY DEF RowsInv, CallFlow, Selected, RowsSelected
<1>2. QED
  BY <1>1, RowsInitially, RowsNext, InvInitially, InvNext, PTL DEF AnalysisSpec
----------------------------------------------------------------------------
(***************************************************************************)
(* Answers that are composed of several queries.                           *)
(***************************************************************************)
LEMMA ToldInitially == AnalysisInit => AnswersInv
<1> SUFFICES ASSUME AnalysisInit PROVE AnswersInv
  OBVIOUS
<1>1. CallFlow
  BY DEF AnalysisInit, CallFlow, Queries
<1>2. QED
  BY <1>1 DEF AnalysisInit, AnswersInv, Linked, SessionOpen

LEMMA UsesFinite ==
    ASSUME NEW R \in SUBSET Relation, NEW U, U \subseteq Chains(R, Object)
    PROVE  IsFiniteSet(U) /\ Cardinality(U) \in Nat
<1>1. Chains(R, Object) \in SUBSET ObjectPairs /\ IsFiniteSet(ObjectPairs)
  BY ChainsAreLinked, InferenceAssumption, FS_Product DEF ObjectPairs
<1>2. IsFiniteSet(U)
  BY <1>1, FS_Subset
<1>3. QED
  BY <1>2, FS_CardinalityType

(* A database that is not deleted grows, and with it what is true of it.   *)
LEMMA DatabaseGrows ==
    ASSUME AnalysisInv, AnalysisInv', objs \subseteq objs', rels \subseteq rels'
    PROVE  /\ \A i : WithId(i) \subseteq WithId(i)' /\ NamesOf(i) \subseteq NamesOf(i)'
           /\ \A i : /\ Cardinality(UsesOf(i)) \in Nat /\ Cardinality(UsesOf(i)') \in Nat
                     /\ Cardinality(UsesOf(i)) <= Cardinality(UsesOf(i)')
           /\ \A o : CreatorsOf(o) \subseteq CreatorsOf(o)'
<1>1. \A i : WithId(i) \subseteq WithId(i)'
  BY DEF WithId
<1>2. \A i : NamesOf(i) \subseteq NamesOf(i)'
  BY <1>1 DEF NamesOf
<1>3. rels \in SUBSET Relation /\ rels' \in SUBSET Relation
  BY DEF AnalysisInv, CallOK
<1>4. Chains(rels, Object) \subseteq Chains(rels', Object)
  BY <1>3, ChainsGrow
<1>5. \A i : UsesOf(i) \subseteq UsesOf(i)'
  BY <1>1, <1>4 DEF UsesOf
<1>6. \A i : /\ IsFiniteSet(UsesOf(i)') /\ Cardinality(UsesOf(i)') \in Nat
            /\ Cardinality(UsesOf(i)) \in Nat
  <2>1. \A i : UsesOf(i) \subseteq Chains(rels, Object) /\ UsesOf(i)' \subseteq Chains(rels', Object)
    BY DEF UsesOf
  <2>2. QED
    BY <1>3, <2>1, UsesFinite
<1>7. \A i : Cardinality(UsesOf(i)) <= Cardinality(UsesOf(i)')
  BY <1>5, <1>6, FS_Subset
<1>8. \A o : CreatorsOf(o) \subseteq CreatorsOf(o)'
  <2>1. \A type : Pairs(rels, type) \subseteq Pairs(rels', type)
    BY DEF Pairs
  <2>2. QED
    BY <2>1 DEF CreatorsOf
<1>9. QED
  BY <1>1, <1>2, <1>6, <1>7, <1>8

(* What the queries have told stays true of it.                            *)
LEMMA ToldKept ==
    ASSUME AnswersInv, AnalysisInv, AnalysisInv', objs \subseteq objs', rels \subseteq rels',
           SessionOpen, UNCHANGED <<at, args, sets_count, found, related>>
    PROVE  ToldTrue'
<1>1. ToldTrue
  BY DEF AnswersInv
<1>2. at = "names" => CountsTrue'
  <2>1. ASSUME at = "names", NEW i \in DOMAIN sets_count
        PROVE  /\ NamesOf(i)' # {} /\ sets_count[i] \in Nat
               /\ sets_count[i] <= Cardinality(UsesOf(i)')
    <3>1. NamesOf(i) # {} /\ sets_count[i] \in Nat /\ sets_count[i] <= Cardinality(UsesOf(i))
      BY <1>1, <2>1 DEF ToldTrue, CountsTrue
    <3>2. Cardinality(UsesOf(i)) \in Nat /\ Cardinality(UsesOf(i)') \in Nat
      BY DatabaseGrows
    <3>3. NamesOf(i) \subseteq NamesOf(i)' /\ Cardinality(UsesOf(i)) <= Cardinality(UsesOf(i)')
      BY DatabaseGrows
    <3>4. QED
      BY <3>1, <3>2, <3>3
  <2>2. QED
    BY <2>1 DEF CountsTrue
<1>3. WithId(args.id) \subseteq WithId(args.id)'
  BY DatabaseGrows
<1>4. at = "mitigations" /\ args.id # NoName => ToSet(found)' \subseteq WithId(args.id)' \cap Named
  BY <1>1, <1>3 DEF ToldTrue
<1>5. FoundTrue => FoundTrue'
  BY <1>3, DatabaseGrows DEF FoundTrue
<1>6. QED
  BY <1>1, <1>2, <1>4, <1>5 DEF ToldTrue

LEMMA SessionsPast ==
    ASSUME AnswersInv, AnalysisInv, [AnalysisNext]_analysisVars
    PROVE  (session \subseteq 0..gen)' /\ Linked'
<1>1. session \subseteq 0..gen /\ gen \in Nat /\ Linked
  BY DEF AnswersInv, AnalysisInv, CallOK
<1>2. CASE UNCHANGED skb /\ (session' = session \/ session' = {} \/ session' = {gen})
  <2>1. Linked'
    BY <1>1, <1>2 DEF Linked, skb
  <2>2. session' \subseteq 0..gen'
    <3>1. gen' = gen /\ gen \in 0..gen
      BY <1>1, <1>2 DEF skb
    <3>2. CASE session' = session
      BY <1>1, <3>1, <3>2
    <3>3. CASE session' = {} \/ session' = {gen}
      BY <3>1, <3>3
    <3>4. QED
      BY <1>2, <3>2, <3>3
  <2>3. QED
    BY <2>1, <2>2
<1>3. CASE \E a \in Arguments : Call(a)
  BY <1>2, <1>3 DEF Call
<1>4. CASE OpenDriver \/ OpenDriverRaises \/ OpenSession \/ OpenSessionRaises
  BY <1>2, <1>4 DEF OpenDriver, OpenDriverRaises, OpenSession, OpenSessionRaises
<1>13. CASE CloseSession \/ CloseDriver \/ CloseSessionRaises \/ CloseDriverRaises
  BY <1>2, <1>13 DEF CloseSession, CloseDriver, CloseSessionRaises, CloseDriverRaises
<1>5. CASE QueryRaises \/ AskCounts \/ AskNames \/ AskNamesRaises \/ AskName \/ AskMitigations
           \/ NoGroupGiven \/ Search \/ SearchRaises
  BY <1>2, <1>5 DEF QueryRaises, AskCounts, AskNames, AskNamesRaises, AskName, AskMitigations,
     NoGroupGiven, Search, SearchRaises, Throw, ReturnRows, ReturnSet, Exit, Continue, Same
<1>6. CASE AskAttributes \/ AskCreator \/ AskSources \/ Explain \/ AskSingle
  BY <1>2, <1>6 DEF AskAttributes, AskCreator, AskSources, Explain, AskSingle, ReturnRows, ReturnSet,
     Exit, Continue, Same
<1>7. CASE LoadObjects
  BY <1>1, <1>7 DEF LoadObjects, Others, Linked
<1>8. CASE LoadRelations
  <2>1. \A r \in rels' : r \in rels \/ {r.source, r.target} \subseteq objs
    BY <1>8 DEF LoadRelations
  <2>2. UNCHANGED <<session, gen, objs>>
    BY <1>8 DEF LoadRelations, Others
  <2>3. QED
    BY <1>1, <2>1, <2>2 DEF Linked
<1>9. CASE Delete
  BY <1>1, <1>9 DEF Delete, Others, Linked
<1>10. CASE Create
  <2>1. UNCHANGED <<session, objs, rels>> /\ gen' = gen + 1
    BY <1>10 DEF Create, Others
  <2>2. QED
    BY <1>1, <2>1 DEF Linked
<1>11. CASE UNCHANGED analysisVars
  BY <1>2, <1>11 DEF analysisVars
<1>12. QED
  BY <1>3, <1>4, <1>5, <1>6, <1>7, <1>8, <1>9, <1>10, <1>11, <1>13 DEF AnalysisNext, AnalysisStep

LEMMA FoundKept ==
    ASSUME FoundTrue, UNCHANGED <<skb, args, found, related>>
    PROVE  FoundTrue'
BY DEF FoundTrue, WithId, CreatorsOf, skb

LEMMA ToldByQuery ==
    ASSUME AnswersInv, AnalysisInv, AnalysisInv', AnalysisNext, at \in Queries, SessionOpen, UNCHANGED skb,
           at' \in Queries, UNCHANGED args
    PROVE  ToldTrue'
<1>1. ToldTrue /\ CallFlow
  BY DEF AnswersInv
<1>2. \A i : WithId(i)' = WithId(i) /\ NamesOf(i)' = NamesOf(i) /\ UsesOf(i)' = UsesOf(i)
  BY DEF WithId, NamesOf, UsesOf, skb
<1>3. CASE UNCHANGED <<at, found, related, sets_count>>
  <2>1. CountsTrue' <=> CountsTrue
    BY <1>2, <1>3 DEF CountsTrue
  <2>2. FoundTrue => FoundTrue'
    BY <1>3, FoundKept
  <2>3. QED
    BY <1>1, <1>2, <1>3, <2>1, <2>2 DEF ToldTrue
<1>4. CASE AskCounts
  <2>1. at' = "names" /\ sets_count' = Counts
    BY <1>4 DEF AskCounts, ReturnRows, Exit, Continue, Queries
  <2>2. CountsTrue'
    BY <1>2, <2>1, CountsType DEF CountsTrue
  <2>3. QED
    BY <2>1, <2>2 DEF ToldTrue
<1>5. CASE AskName
  <2>1. at' = "mitigations" /\ (found' = <<>> \/ \E o \in WithId(args.id) \cap Named : found' = <<o>>)
    BY <1>5 DEF AskName, Continue
  <2>2. ToSet(found') \subseteq WithId(args.id) \cap Named
    BY <2>1 DEF ToSet
  <2>3. ToSet(found)' \subseteq WithId(args.id)' \cap Named
    BY <1>2, <2>2
  <2>4. QED
    BY <2>1, <2>3 DEF ToldTrue
<1>6. CASE Search
  <2>1. found' \in SetToSeqs(Known) /\ Known # {} /\ at' = "attributes" /\ related' = related
    BY <1>6 DEF Search, Continue
  <2>2. found' \in Seq(Known) /\ Len(found') = Cardinality(Known) /\ ToSet(found') \subseteq Known
    BY <2>1, KnownFinite, OrderOfSet
  <2>3. Cardinality(Known) # 0
    BY <2>1, KnownFinite, FS_EmptySet
  <2>4. Known \subseteq objs /\ (args.call # "object" => Known \subseteq WithId(args.id))
    BY DEF Known, WithId
  <2>5. related = <<>>
    BY <1>6 DEF Search, Ask, AnalysisInv, ResultsOK
  <2>6. FoundTrue'
    <3>1. found' # <<>>
      BY <2>2, <2>3
    <3>2. ToSet(found)' = ToSet(found')
      BY DEF ToSet
    <3>3. objs' = objs
      BY DEF skb
    <3>4. QED
      BY <1>2, <2>1, <2>2, <2>4, <2>5, <3>1, <3>2, <3>3 DEF FoundTrue
  <2>7. QED
    BY <2>1, <2>6 DEF ToldTrue
<1>7. CASE AskAttributes \/ AskSources
  <2>1. /\ at \in {"attributes", "sources"} /\ at' \in {"attributes", "creator", "explain"}
        /\ UNCHANGED <<found, related>>
    BY <1>7 DEF AskAttributes, AskSources, Ask, ReturnRows, Exit, Continue, results, Queries
  <2>2. FoundTrue
    BY <1>1, <2>1 DEF ToldTrue
  <2>3. FoundTrue'
    BY <2>1, <2>2, FoundKept
  <2>4. QED
    BY <2>1, <2>3 DEF ToldTrue
<1>8. CASE AskCreator
  <2>1. /\ at = "creator" /\ at' = "sources" /\ found' = found
        /\ \E n \in CreatorsOf(stix_obj) \cup {NoName} : related' = Append(related, <<stix_obj, n>>)
    BY <1>8 DEF AskCreator, Ask, Continue
  <2>2. FoundTrue /\ Len(related) < Len(found) /\ found \in Seq(Object) /\ related \in Seq(Row)
    BY <1>1, <2>1 DEF ToldTrue, AnalysisInv, ResultsOK
  <2>3. stix_obj \in objs
    <3>1. stix_obj \in ToSet(found)
      BY <2>2 DEF stix_obj, ToSet
    <3>2. QED
      BY <2>2, <3>1 DEF FoundTrue
  <2>4. PICK n \in CreatorsOf(stix_obj) \cup {NoName} : related' = Append(related, <<stix_obj, n>>)
    BY <2>1
  <2>5. PICK row : row = <<stix_obj, n>>
    OBVIOUS
  <2>6. \A j \in 1..Len(related') : related'[j] = row \/ (j \in 1..Len(related) /\ related'[j] = related[j])
    BY <2>2, <2>4, <2>5
  <2>7. \A j \in 1..Len(related') : /\ related'[j][1] \in objs
                                    /\ related'[j][2] \in CreatorsOf(related'[j][1]) \cup {NoName}
    <3>1. row[1] \in objs /\ row[2] \in CreatorsOf(row[1]) \cup {NoName}
      BY <2>3, <2>4, <2>5
    <3>2. \A j \in 1..Len(related) : /\ related[j][1] \in objs
                                     /\ related[j][2] \in CreatorsOf(related[j][1]) \cup {NoName}
      BY <2>2 DEF FoundTrue
    <3>3. QED
      BY <2>6, <3>1, <3>2
  <2>8. \A o : CreatorsOf(o)' = CreatorsOf(o)
    BY DEF CreatorsOf, skb
  <2>9. FoundTrue'
    <3>1. objs' = objs
      BY DEF skb
    <3>2. QED
      BY <1>2, <2>1, <2>2, <2>7, <2>8, <3>1 DEF FoundTrue
  <2>10. QED
    BY <2>1, <2>9 DEF ToldTrue
<1>9. CASE \E a \in Arguments : Call(a)
  BY <1>9 DEF Call, Queries
<1>10. CASE OpenDriver \/ OpenSession \/ OpenSessionRaises \/ OpenDriverRaises
  BY <1>10 DEF OpenDriver, OpenSession, OpenSessionRaises, OpenDriverRaises, Queries
<1>14. CASE CloseSession \/ CloseDriver \/ CloseSessionRaises \/ CloseDriverRaises
  BY <1>14 DEF CloseSession, CloseDriver, CloseSessionRaises, CloseDriverRaises, Queries
<1>11. CASE QueryRaises \/ AskNames \/ AskNamesRaises \/ AskMitigations \/ NoGroupGiven \/ SearchRaises
            \/ Explain \/ AskSingle
  BY <1>11 DEF QueryRaises, AskNames, AskNamesRaises, AskMitigations, NoGroupGiven, SearchRaises,
     Explain, AskSingle, Throw, ReturnRows, ReturnSet, Exit, Queries
<1>12. CASE LoadObjects \/ LoadRelations \/ Delete \/ Create
  BY <1>3, <1>12 DEF LoadObjects, LoadRelations, Delete, Create, Others, results
<1>13. QED
  BY <1>4, <1>5, <1>6, <1>7, <1>8, <1>9, <1>10, <1>11, <1>12, <1>14 DEF AnalysisNext, AnalysisStep

LEMMA ToldNext ==
    ASSUME AnswersInv, AnalysisInv, AnalysisInv', [AnalysisNext]_analysisVars
    PROVE  AnswersInv'
<1>1. CallFlow' /\ (session \subseteq 0..gen)' /\ Linked'
  BY FlowNext, SessionsPast DEF AnswersInv
<1>2. SUFFICES ASSUME SessionOpen' PROVE ToldTrue'
  BY <1>1 DEF AnswersInv
<1>3. CASE at' \notin Queries
  BY <1>3 DEF ToldTrue, Queries
<1>4. CASE UNCHANGED analysisVars
  BY <1>2, <1>4, ToldKept DEF analysisVars, skb, results, SessionOpen
<1>5. CASE LoadObjects
  BY <1>2, <1>5, ToldKept DEF LoadObjects, Others, results, SessionOpen
<1>6. CASE LoadRelations
  BY <1>2, <1>6, ToldKept DEF LoadRelations, Others, results, SessionOpen
<1>7. CASE Delete
  BY <1>2, <1>7 DEF Delete, SessionOpen
<1>8. CASE Create
  <2>1. session' \subseteq 0..gen /\ gen' = gen + 1 /\ gen \in Nat
    BY <1>8 DEF Create, Others, AnswersInv, AnalysisInv, CallOK
  <2>2. QED
    BY <1>2, <2>1 DEF SessionOpen
<1>9. CASE OpenSession
  <2>1. at' = First /\ args' = args
    BY <1>9 DEF OpenSession
  <2>2. First \in {"counts", "name", "search", "single"} \/ (First = "mitigations" /\ args.id = NoName)
    BY DEF First
  <2>3. QED
    BY <2>1, <2>2 DEF ToldTrue
<1>10. CASE at' \in Queries /\ (AskCounts \/ AskName \/ Search \/ AskAttributes \/ AskCreator \/ AskSources)
  <2>1. SessionOpen /\ at \in Queries /\ UNCHANGED skb /\ UNCHANGED args
    BY <1>10 DEF AskCounts, AskName, Search, AskAttributes, AskCreator, AskSources, Ask, Same, Queries
  <2>2. AnalysisNext
    BY <1>10 DEF AnalysisNext, AnalysisStep
  <2>3. QED
    BY <1>10, <2>1, <2>2, ToldByQuery
<1>11. ASSUME at' \in {"driver", "session", "idle", "close", "closed"} PROVE ToldTrue'
  BY <1>11 DEF ToldTrue
<1>12. CASE (\E a \in Arguments : Call(a)) \/ OpenDriver \/ OpenDriverRaises \/ OpenSessionRaises
  BY <1>11, <1>12 DEF Call, OpenDriver, OpenDriverRaises, OpenSessionRaises
<1>13. CASE QueryRaises \/ AskNames \/ AskNamesRaises \/ AskMitigations \/ NoGroupGiven \/ SearchRaises
            \/ Explain \/ AskSingle
  BY <1>11, <1>13 DEF QueryRaises, AskNames, AskNamesRaises, AskMitigations, NoGroupGiven, SearchRaises,
     Explain, AskSingle, Throw, ReturnRows, ReturnSet, Exit
<1>14. CASE CloseSession \/ CloseDriver \/ CloseSessionRaises \/ CloseDriverRaises
  BY <1>11, <1>14 DEF CloseSession, CloseDriver, CloseSessionRaises, CloseDriverRaises
<1>15. QED
  BY <1>3, <1>4, <1>5, <1>6, <1>7, <1>8, <1>9, <1>10, <1>12, <1>13, <1>14 DEF AnalysisNext, AnalysisStep
----------------------------------------------------------------------------
LEMMA RelatedAreMitigated ==
    ASSUME AnswersInv, AnalysisInv, NEW r \in RelatedTo(rels)
    PROVE  r[2] \in Of("intrusion-set") /\ Mitigated(r[1], r[2])
<1>1. rels \in SUBSET Relation
  BY DEF AnalysisInv, CallOK
<1>2. PICK p \in Pairs(rels, "mitigates"), u \in InferredUses(rels) :
          /\ r = <<p[1], u[1]>> /\ Class[u[1]] = "intrusion-set" /\ p[2] = u[2]
  BY DEF RelatedTo
<1>3. p = <<p[1], p[2]>> /\ u = <<u[1], u[2]>> /\ u[1] \in Object
  BY <1>1, PairsType, InferredAreLeast DEF ObjectPairs
<1>4. p[2] \in objs
  BY DEF AnswersInv, Linked, Pairs
<1>5. <<p[1], p[2]>> \in Pairs(rels, "mitigates") /\ <<u[1], p[2]>> \in Chains(rels, Object)
  BY <1>1, <1>2, <1>3, InferredHaveChains
<1>6. QED
  BY <1>2, <1>3, <1>4, <1>5 DEF Of, Mitigated

(* A call gets its result from a query, never by closing.                  *)
LEMMA ResultIsOfQuery ==
    ASSUME [AnalysisNext]_analysisVars, outcome = "none", outcome' = "returned"
    PROVE  at \notin {"idle", "close", "closed"}
<1>1. SUFFICES ASSUME at \in {"idle", "close", "closed"} PROVE FALSE
  OBVIOUS
<1>2. CASE \E a \in Arguments : Call(a)
  BY <1>2 DEF Call
<1>3. CASE CloseSession \/ CloseDriver \/ CloseSessionRaises \/ CloseDriverRaises
  BY <1>3 DEF CloseSession, CloseDriver, CloseSessionRaises, CloseDriverRaises
<1>4. CASE LoadObjects \/ LoadRelations \/ Delete \/ Create \/ UNCHANGED analysisVars
  BY <1>4 DEF LoadObjects, LoadRelations, Delete, Create, Others, analysisVars
<1>5. CASE OpenDriver \/ OpenDriverRaises \/ OpenSession \/ OpenSessionRaises
  BY <1>1, <1>5 DEF OpenDriver, OpenDriverRaises, OpenSession, OpenSessionRaises
<1>6. CASE QueryRaises \/ AskCounts \/ AskNames \/ AskNamesRaises \/ AskName \/ AskMitigations
           \/ NoGroupGiven \/ Search \/ SearchRaises
  BY <1>1, <1>6 DEF QueryRaises, AskCounts, AskNames, AskNamesRaises, AskName, AskMitigations,
     NoGroupGiven, NoGroup, Search, SearchRaises, Ask, Queries
<1>7. CASE AskAttributes \/ AskCreator \/ AskSources \/ Explain \/ AskSingle
  BY <1>1, <1>7 DEF AskAttributes, AskCreator, AskSources, Explain, AskSingle, Ask
<1>8. QED
  BY <1>2, <1>3, <1>4, <1>5, <1>6, <1>7 DEF AnalysisNext, AnalysisStep

LEMMA TrueOnReturn ==
    ASSUME AnswersInv, AnalysisInv, AnalysisInv', [AnalysisNext]_analysisVars,
           outcome = "none", outcome' = "returned"
    PROVE  TrueNow'
<1>0. at \notin {"idle", "close", "closed"}
  BY ResultIsOfQuery
<1>1. CallFlow /\ outcome = "none" /\ answer = NoAnswer
  BY <1>0 DEF AnswersInv, CallFlow
<1>2. ASSUME answer' = NoAnswer PROVE TrueNow'
  BY <1>2 DEF TrueNow, NoAnswer
<1>3. ASSUME UNCHANGED skb
      PROVE  /\ \A i : NamesOf(i)' = NamesOf(i) /\ UsesOf(i)' = UsesOf(i) /\ WithId(i)' = WithId(i)
             /\ \A o : CreatorsOf(o)' = CreatorsOf(o)
             /\ \A x, y : Mitigated(x, y)' <=> Mitigated(x, y)
             /\ objs' = objs /\ rels' = rels
  BY <1>3 DEF NamesOf, UsesOf, WithId, CreatorsOf, Mitigated, skb
<1>4. CASE AskNames
  <2>1. args.call = "usage" /\ args' = args /\ UNCHANGED skb /\ CountsTrue /\ ToSet(data) \subseteq DOMAIN sets_count
    BY <1>1, <1>4 DEF AskNames, Ask, Same, CallFlow, AnswersInv, ToldTrue, AnalysisInv, ResultsOK
  <2>2. PICK n \in NameChoices(ToSet(data)) :
            answer'.rows = [j \in 1..Len(data) |-> <<data[j], n[data[j]], sets_count[data[j]]>>]
    BY <1>1, <1>4 DEF AskNames, ReturnRows, NoAnswer
  <2>3. ASSUME NEW j \in 1..Len(answer'.rows)
        PROVE  /\ answer'.rows[j][2] \in NamesOf(answer'.rows[j][1])
               /\ answer'.rows[j][3] <= Cardinality(UsesOf(answer'.rows[j][1]))
    <3>1. PICK i : i = data[j]
      OBVIOUS
    <3>2. Len(answer'.rows) = Len(data) /\ j \in 1..Len(data)
      BY <2>2, <2>3
    <3>3. i \in ToSet(data)
      BY <3>1, <3>2 DEF ToSet
    <3>4. NamesOf(i) # {} /\ sets_count[i] <= Cardinality(UsesOf(i))
      BY <2>1, <3>3 DEF CountsTrue
    <3>5. n[i] \in NamesOf(i)
      BY <3>3, <3>4 DEF NameChoices
    <3>6. answer'.rows[j] = <<i, n[i], sets_count[i]>>
      BY <2>2, <3>1, <3>2
    <3>7. QED
      BY <3>4, <3>5, <3>6
  <2>4. QED
    BY <1>3, <2>1, <2>3 DEF TrueNow
<1>5. CASE AskMitigations
  <2>1. args.call = "related" /\ args' = args /\ UNCHANGED skb
        /\ (args.id # NoName => ToSet(found) \subseteq WithId(args.id) \cap Named)
    BY <1>1, <1>5 DEF AskMitigations, Ask, Same, CallFlow, AnswersInv, ToldTrue
  <2>2. answer'.set = {r[1] : r \in {q \in RelatedTo(rels) :
                            {q[1], q[2]} \subseteq Named /\ NameOf[q[2]] \in GroupNames}}
    BY <1>1, <1>5 DEF AskMitigations, ReturnSet, NoAnswer
  <2>3. GroupNames \subseteq IF args.id = NoName THEN {args.name} ELSE NamesOf(args.id)
    BY <2>1 DEF GroupNames, NamesOf
  <2>4. ASSUME NEW x \in answer'.set
        PROVE  \E y \in Of("intrusion-set") :
                  /\ Mitigated(x, y)
                  /\ NameOf[y] \in IF args.id = NoName THEN {args.name} ELSE NamesOf(args.id)
    <3>1. PICK r \in RelatedTo(rels) : x = r[1] /\ NameOf[r[2]] \in GroupNames
      BY <2>2
    <3>2. QED
      BY <2>3, <3>1, RelatedAreMitigated
  <2>5. QED
    BY <1>3, <2>1, <2>4 DEF TrueNow
<1>6. CASE Explain
  <2>1. args.call \in {"explain", "via"} /\ args' = args /\ UNCHANGED skb /\ FoundTrue
    BY <1>1, <1>6 DEF Explain, Ask, Same, CallFlow, AnswersInv, ToldTrue
  <2>2. answer'.set = {r \in RelatedTo(rels) : {r[1], r[2]} \subseteq Named /\ Explained(r)}
    BY <1>1, <1>6 DEF Explain, ReturnSet, NoAnswer
  <2>3. found[1] \in WithId(args.id)
    <3>1. found \in Seq(Object) /\ found # <<>> /\ ToSet(found) \subseteq WithId(args.id)
      BY <2>1 DEF FoundTrue, AnalysisInv, ResultsOK
    <3>2. found[1] \in ToSet(found)
      BY <3>1 DEF ToSet
    <3>3. QED
      BY <3>1, <3>2
  <2>4. \A r \in answer'.set : Mitigated(r[1], r[2]) /\ Explained(r)
    BY <2>2, RelatedAreMitigated
  <2>5. CASE args.call = "explain"
    <3>1. \A r \in answer'.set : r[2] \in WithId(args.id) /\ Mitigated(r[1], r[2])
      BY <2>3, <2>4, <2>5 DEF Explained
    <3>2. QED
      BY <1>3, <2>1, <2>5, <3>1 DEF TrueNow
  <2>6. CASE args.call = "via"
    <3>1. \A r \in answer'.set :
              /\ Mitigated(r[1], r[2]) /\ NameOf[r[2]] = args.name
              /\ \E d \in WithId(args.id) : <<r[1], d>> \in Pairs(rels, "mitigates")
      BY <2>3, <2>4, <2>6 DEF Explained
    <3>2. QED
      BY <1>3, <2>1, <2>6, <3>1 DEF TrueNow
  <2>7. QED
    BY <2>1, <2>5, <2>6
<1>7. CASE AskSources
  <2>1. /\ args.call \in {"info", "object"} /\ args' = args /\ UNCHANGED skb /\ FoundTrue
        /\ answer'.rows = related
    BY <1>1, <1>7 DEF AskSources, Ask, Same, CallFlow, AnswersInv, ToldTrue, ReturnRows, Continue, NoAnswer
  <2>2. QED
    BY <1>3, <2>1 DEF TrueNow, FoundTrue
<1>8. CASE AskSingle
  <2>1. args.call \notin {"usage", "related"} \cup Searching /\ args' = args /\ UNCHANGED skb
    BY <1>1, <1>8 DEF AskSingle, Ask, Same, CallFlow, Queries
  <2>2. answer'.set = SingleAnswer
    BY <1>1, <1>8 DEF AskSingle, ReturnSet, NoAnswer
  <2>3. CASE args.call = "used"
    <3>1. answer'.set \subseteq Chains(rels, Object)
      BY <2>2, <2>3, UsesHaveChains DEF SingleAnswer, UsedBy
    <3>2. QED
      BY <1>3, <2>1, <2>3, <3>1 DEF TrueNow
  <2>4. CASE args.call = "why"
    <3>1. rels \in SUBSET Relation
      BY DEF AnalysisInv, CallOK
    <3>2. DerivedUses(rels) \subseteq InferredUses(rels)
      BY <3>1, InferredAreLeast DEF DerivedUses, Derive
    <3>3. answer'.set \subseteq Chains(rels, Object)
      BY <2>2, <2>4, <3>1, <3>2, InferredHaveChains DEF SingleAnswer, UsedBy
    <3>4. QED
      BY <1>3, <2>1, <2>4, <3>3 DEF TrueNow
  <2>5. CASE args.call \notin {"used", "why"}
    BY <2>1, <2>5 DEF TrueNow, Searching
  <2>6. QED
    BY <2>3, <2>4, <2>5
<1>9. CASE AskCounts
  <2>1. args.call = "usage" /\ args' = args /\ answer'.rows = <<>>
    BY <1>1, <1>9 DEF AskCounts, Ask, Same, CallFlow, ReturnRows, Continue, NoAnswer
  <2>2. QED
    BY <2>1 DEF TrueNow
<1>10. CASE NoGroupGiven
  BY <1>1, <1>2, <1>10 DEF NoGroupGiven
<1>11. CASE (\E a \in Arguments : Call(a)) \/ OpenDriver \/ OpenDriverRaises \/ OpenSession \/ OpenSessionRaises
            \/ QueryRaises \/ AskNamesRaises \/ SearchRaises
  BY <1>1, <1>11 DEF Call, OpenDriver, OpenDriverRaises, OpenSession, OpenSessionRaises, QueryRaises,
     AskNamesRaises, SearchRaises, Throw, Exit
<1>15. CASE CloseSession \/ CloseDriver \/ CloseSessionRaises \/ CloseDriverRaises
  BY <1>0, <1>15 DEF CloseSession, CloseDriver, CloseSessionRaises, CloseDriverRaises
<1>12. CASE AskName \/ Search \/ AskAttributes \/ AskCreator
  BY <1>1, <1>12 DEF AskName, Search, AskAttributes, AskCreator, Continue
<1>13. CASE LoadObjects \/ LoadRelations \/ Delete \/ Create \/ UNCHANGED analysisVars
  BY <1>1, <1>13 DEF LoadObjects, LoadRelations, Delete, Create, Others, analysisVars
<1>14. QED
  BY <1>4, <1>5, <1>6, <1>7, <1>8, <1>9, <1>10, <1>11, <1>12, <1>13, <1>15 DEF AnalysisNext, AnalysisStep

(* For every content of the database and every interleaving with loads and *)
(* with its deletion: an answer composed of the answers of several queries *)
(* is true of the database at the last of them, when the call has what it  *)
(* is to return.                                                           *)
THEOREM AnswersTrueOnReturnCorrect == AnalysisSpec => AnswersTrueOnReturn
<1>1. AnalysisInv /\ AnalysisInv' /\ AnswersInv /\ [AnalysisNext]_analysisVars => AnswersInv'
  BY ToldNext
<1>2. AnalysisInv /\ AnalysisInv' /\ AnswersInv /\ [AnalysisNext]_analysisVars
        => [outcome = "none" /\ outcome' = "returned" => TrueNow']_analysisVars
  BY TrueOnReturn
<1>3. QED
  BY <1>1, <1>2, ToldInitially, InvInitially, InvNext, PTL DEF AnalysisSpec, AnswersTrueOnReturn
=============================================================================
