--------------------------- MODULE BatchLoadProofs ---------------------------
(***************************************************************************)
(* Theorems about BatchLoad, for every set of queries and bundles, batch   *)
(* size, number of processes and number of connection failures, in four    *)
(* parts: what a load deals with, and in which order; that it implements   *)
(* LoadContract, so that batches, transactions and retries deal with each  *)
(* query once, list by list; what is in the database when it has ended;    *)
(* and, for a load that is alone, that this is what executing the queries  *)
(* one by one would have stored.                                           *)
(***************************************************************************)
EXTENDS BatchLoad, FiniteSetTheorems, TLAPS

(***************************************************************************)
(* The inductive invariant.  Type correctness alone is not inductive: that *)
(* an insert call only stages queries rests on its cursor staying inside   *)
(* the list (Bounds).  Ledger says which queries have been dealt with: the *)
(* earlier lists, and in the current list everything before the cursor;    *)
(* Held says which queries the open transaction has seen.                  *)
(***************************************************************************)
Bounds(l) ==
    /\ data[l] \in Bundles \cup {NoData}
    /\ pc[l] \in {"idle", "start"} => lo[l] = 1 /\ sgl[l] = 0
    /\ pc[l] = "idle" => phase[l] = 1 /\ \A q \in Query : Pending(l, q)
    /\ sgl[l] # 0 => BatchSize > 1 /\ lo[l] <= sgl[l] /\ sgl[l] <= BatchEnd(l)
    /\ pc[l] \in {"open", "insert"} => lo[l] <= amount(l)
    /\ pc[l] = "insert" => First(l) <= pos[l] /\ pos[l] <= Last(l) + 1
    /\ pc[l] = "done" => phase[l] = 3 /\ amount(l) < lo[l]

Ledger(l) ==
    \A p \in Phases : \A i \in 1..Len(data[l][p]) :
        (Pending(l, data[l][p][i]) <=> p > phase[l] \/ (p = phase[l] /\ i >= First(l)))

Held(l) ==
    /\ pc[l] = "insert" => tx[l].staged \cup tx[l].missed =
                                {executables(l)[i] : i \in First(l)..(pos[l] - 1)}
    /\ pc[l] # "insert" => tx[l].staged = {} /\ tx[l].missed = {}

LoadInv == TypeOK /\ \A l \in Loader : Bounds(l) /\ Ledger(l) /\ Held(l)

(***************************************************************************)
(* Type correctness.  The actions that end an insert call share After and  *)
(* Settled, whose types are stated once.                                   *)
(***************************************************************************)
LEMMA AfterType ==
    ASSUME TypeOK, NEW l \in Loader, NEW ok \in BOOLEAN, After(l, ok)
    PROVE  /\ pc' \in [Loader -> {"idle"} \cup Running \cup Ended]
           /\ data' \in [Loader -> Bundle]
           /\ phase' \in [Loader -> Phases]
           /\ lo' \in [Loader -> Nat \ {0}]
           /\ sgl' \in [Loader -> Nat]
           /\ pos' \in [Loader -> Nat \ {0}]
           /\ tx' \in [Loader -> Transaction]
<1>1. NoTx \in Transaction
  BY DEF NoTx, Transaction
<1>2. /\ lo \in [Loader -> Nat \ {0}]
      /\ sgl \in [Loader -> Nat]
      /\ BatchSize \in Nat \ {0}
  BY LoadAssumption DEF TypeOK
<1>3. lo[l] + BatchSize \in Nat \ {0} /\ sgl[l] + 1 \in Nat /\ lo[l] \in Nat
  BY <1>2
<1>4. \/ lo' = lo /\ sgl' = [sgl EXCEPT ![l] = lo[l]]
      \/ lo' = lo /\ sgl' = [sgl EXCEPT ![l] = sgl[l] + 1]
      \/ lo' = [lo EXCEPT ![l] = lo[l] + BatchSize] /\ sgl' = [sgl EXCEPT ![l] = 0]
  BY DEF After, Retry, NextQuery, NextBatch
<1>5. lo' \in [Loader -> Nat \ {0}] /\ sgl' \in [Loader -> Nat]
  BY <1>2, <1>3, <1>4
<1>6. /\ pc' = [pc EXCEPT ![l] = "head"]
      /\ tx' = [tx EXCEPT ![l] = NoTx]
      /\ pos' = [pos EXCEPT ![l] = 1]
      /\ data' = data /\ phase' = phase
  BY DEF After
<1>7. QED
  BY <1>1, <1>5, <1>6 DEF TypeOK, Running

LEMMA SettledType ==
    ASSUME TypeOK, NEW l \in Loader, NEW S, NEW U, NEW R, Settled(l, S, U, R)
    PROVE  aux_verdict' \in [Loader -> [Query -> Verdict]]
BY DEF Settled, TypeOK, Verdict

LEMMA FaultType ==
    ASSUME TypeOK, Fault \/ UNCHANGED faults
    PROVE  faults' \in Nat
BY DEF TypeOK, Fault

LEMMA ApplyType ==
    ASSUME TypeOK, NEW S, Apply(S)
    PROVE  copies' \in [Query -> Nat]
BY DEF TypeOK, StoreTypeOK, Apply

LEMMA TypeAt ==
    ASSUME TypeOK, NEW l \in Loader
    PROVE  /\ data[l] \in Bundle /\ phase[l] \in Phases
           /\ executables(l) \in Seq(Query) /\ amount(l) \in Nat
           /\ lo[l] \in Nat \ {0} /\ sgl[l] \in Nat /\ pos[l] \in Nat \ {0}
           /\ BatchSize \in Nat \ {0} /\ BatchEnd(l) \in Nat
           /\ First(l) \in Nat \ {0} /\ Last(l) \in Nat
           /\ tx[l] \in Transaction /\ aux_verdict[l] \in [Query -> Verdict]
<1>1. /\ data[l] \in Bundle /\ phase[l] \in Phases
      /\ lo[l] \in Nat \ {0} /\ sgl[l] \in Nat /\ pos[l] \in Nat \ {0}
      /\ tx[l] \in Transaction /\ aux_verdict[l] \in [Query -> Verdict]
  BY DEF TypeOK
<1>2. executables(l) \in Seq(Query)
  BY <1>1 DEF executables, Bundle
<1>3. amount(l) \in Nat
  BY <1>2 DEF amount
<1>4. BatchSize \in Nat \ {0}
  BY LoadAssumption
<1>5. BatchEnd(l) \in Nat
  BY <1>1, <1>3, <1>4 DEF BatchEnd
<1>6. QED
  BY <1>1, <1>2, <1>3, <1>4, <1>5 DEF First, Last

LEMMA StoreInitType ==
    ASSUME StoreInit
    PROVE  StoreTypeOK
BY DEF StoreInit, StoreTypeOK, DbStatus, Empty

LEMMA InitType == StoreTypeOK /\ LoadInit => TypeOK
<1> SUFFICES ASSUME StoreTypeOK, LoadInit PROVE TypeOK
  OBVIOUS
<1>1. NoTx \in Transaction /\ NoData \in Bundle
  BY DEF NoTx, Transaction, NoData, Bundle
<1>2. /\ pc \in [Loader -> {"idle"} \cup Running \cup Ended]
      /\ data \in [Loader -> Bundle]
      /\ phase \in [Loader -> Phases]
      /\ lo \in [Loader -> Nat \ {0}] /\ sgl \in [Loader -> Nat]
      /\ pos \in [Loader -> Nat \ {0}] /\ tx \in [Loader -> Transaction]
  BY <1>1 DEF LoadInit, Phases
<1>3. aux_verdict \in [Loader -> [Query -> Verdict]]
  BY DEF LoadInit, Verdict
<1>4. faults \in Nat /\ aux_lost \in Nat /\ aux_home \in [Loader -> SUBSET Nat]
  BY DEF LoadInit
<1>5. QED
  BY <1>2, <1>3, <1>4 DEF TypeOK

(* The query an open transaction turns to is one of the list being loaded. *)
LEMMA CursorInside ==
    ASSUME TypeOK, NEW l \in Loader, Bounds(l), pc[l] \in {"open", "insert"}
    PROVE  /\ First(l) \in 1..amount(l) /\ Last(l) <= amount(l)
           /\ First(l) <= Last(l)
           /\ pc[l] = "insert" /\ pos[l] <= Last(l) =>
                  pos[l] \in 1..amount(l) /\ executables(l)[pos[l]] \in Query
<1>1. /\ lo[l] <= amount(l)
      /\ sgl[l] # 0 => lo[l] <= sgl[l] /\ sgl[l] <= BatchEnd(l)
      /\ pc[l] = "insert" => First(l) <= pos[l]
  BY DEF Bounds
<1>2. BatchEnd(l) <= amount(l) /\ lo[l] <= BatchEnd(l)
  BY <1>1, TypeAt DEF BatchEnd
<1>3. Last(l) <= amount(l) /\ First(l) \in 1..amount(l) /\ First(l) <= Last(l)
  BY <1>1, <1>2, TypeAt DEF Last, First
<1>4. ASSUME pc[l] = "insert", pos[l] <= Last(l)
      PROVE  pos[l] \in 1..amount(l) /\ executables(l)[pos[l]] \in Query
  <2>1. pos[l] \in 1..Len(executables(l))
    BY <1>3, <1>4, TypeAt DEF amount
  <2>2. QED
    BY <2>1, TypeAt DEF amount
<1>5. QED
  BY <1>3, <1>4

LEMMA NextType == LoadInv /\ [Next]_vars => TypeOK'
<1> SUFFICES ASSUME LoadInv, [Next]_vars
             PROVE  TypeOK'
  OBVIOUS
<1>0. TypeOK
  BY DEF LoadInv
<1>1. CASE UNCHANGED vars
  BY <1>0, <1>1 DEF vars, storeVars, loadVars, control, aux, TypeOK, StoreTypeOK
<1>2. ASSUME NEW l \in Loader, LoadStep(l)
      PROVE  TypeOK'
  <2> USE <1>0 DEF storeVars, aux
  <2>1. ASSUME NEW d \in Bundles, StartLoad(l, d)
        PROVE  TypeOK'
    BY <2>1, LoadAssumption DEF StartLoad, TypeOK, StoreTypeOK, Running
  <2>2. CASE OpenHandler(l)
    BY <2>2 DEF OpenHandler, TypeOK, StoreTypeOK, Running
  <2>3. CASE OpenHandlerRaises(l)
    BY <2>3, FaultType DEF OpenHandlerRaises, TypeOK, StoreTypeOK, Ended
  <2>4. CASE EndPhase(l)
    <3>1. phase[l] \in Phases /\ (phase[l] # 3 => phase[l] + 1 \in Phases)
      BY TypeAt DEF Phases
    <3>2. /\ \/ phase' = phase
             \/ phase[l] # 3 /\ phase' = [phase EXCEPT ![l] = phase[l] + 1]
          /\ lo' = lo \/ lo' = [lo EXCEPT ![l] = 1]
          /\ pc' = [pc EXCEPT ![l] = "done"] \/ pc' = [pc EXCEPT ![l] = "start"]
          /\ UNCHANGED <<storeVars, data, sgl, pos, tx, faults, aux>>
      BY <2>4 DEF EndPhase
    <3>3. phase' \in [Loader -> Phases] /\ lo' \in [Loader -> Nat \ {0}]
      <4>1. phase \in [Loader -> Phases] /\ lo \in [Loader -> Nat \ {0}]
        BY DEF TypeOK
      <4>2. phase' \in [Loader -> Phases]
        BY <3>1, <3>2, <4>1
      <4>3. lo' \in [Loader -> Nat \ {0}]
        BY <3>2, <4>1
      <4>4. QED
        BY <4>2, <4>3
    <3>4. pc' \in [Loader -> {"idle"} \cup Running \cup Ended]
      BY <3>2 DEF TypeOK, Running, Ended
    <3>5. QED
      BY <3>2, <3>3, <3>4 DEF TypeOK, StoreTypeOK
  <2>5. CASE CheckDatabase(l)
    BY <2>5 DEF CheckDatabase, TypeOK, StoreTypeOK, Running, Ended
  <2>6. CASE CheckDatabaseRaises(l)
    BY <2>6, FaultType DEF CheckDatabaseRaises, TypeOK, StoreTypeOK, Ended
  <2>7. CASE OpenTransaction(l)
    <3>1. First(l) \in Nat \ {0}
      BY TypeAt
    <3>2. StoredKeys \subseteq KeyValue
      BY StoreAssumption DEF StoredKeys, KeysOf
    <3>3. [ids |-> StoredKeys, gen |-> dbGen, staged |-> {}, missed |-> {}] \in Transaction
      BY <3>2 DEF Transaction, TypeOK, StoreTypeOK
    <3>4. QED
      BY <2>7, <3>1, <3>3 DEF OpenTransaction, TypeOK, StoreTypeOK, Running
  <2>8. CASE OpenTransactionRaises(l)
    <3>1. faults' \in Nat
      BY <2>8, FaultType DEF OpenTransactionRaises
    <3>2. QED
      BY <2>8, <3>1 DEF OpenTransactionRaises, TypeOK, StoreTypeOK, Ended
  <2>9. CASE InsertQuery(l)
    <3> DEFINE q == executables(l)[pos[l]]
    <3>1. q \in Query
      <4>1. pc[l] = "insert" /\ pos[l] <= Last(l)
        BY <2>9 DEF InsertQuery
      <4>2. QED
        BY <4>1, CursorInside DEF LoadInv
    <3>2. tx[l] \in Transaction /\ pos[l] \in Nat \ {0}
      BY TypeAt
    <3>3. /\ [tx[l] EXCEPT !.staged = tx[l].staged \cup {q}] \in Transaction
          /\ [tx[l] EXCEPT !.missed = tx[l].missed \cup {q}] \in Transaction
      BY <3>1, <3>2 DEF Transaction
    <3>4. \/ tx' = [tx EXCEPT ![l] = [tx[l] EXCEPT !.staged = tx[l].staged \cup {q}]]
          \/ tx' = [tx EXCEPT ![l] = [tx[l] EXCEPT !.missed = tx[l].missed \cup {q}]]
      <4>1. tx \in [Loader -> Transaction]
        BY DEF TypeOK
      <4>2. QED
        BY <2>9, <4>1 DEF InsertQuery
    <3>5. tx' \in [Loader -> Transaction]
      BY <3>3, <3>4 DEF TypeOK
    <3>6. pos' \in [Loader -> Nat \ {0}]
      BY <2>9, <3>2 DEF InsertQuery, TypeOK
    <3>7. UNCHANGED <<storeVars, pc, data, phase, lo, sgl, faults, aux>>
      BY <2>9 DEF InsertQuery
    <3>8. QED
      BY <3>5, <3>6, <3>7 DEF TypeOK, StoreTypeOK
  <2>10. CASE InsertQueryRaises(l) \/ CommitRaises(l)
    <3>1. faults' \in Nat
      BY <2>10, FaultType DEF InsertQueryRaises, CommitRaises
    <3>2. QED
      BY <2>10, <3>1, AfterType, SettledType
         DEF InsertQueryRaises, CommitRaises, TypeOK, StoreTypeOK
  <2>11. CASE Commit(l)
    BY <2>11, AfterType, SettledType, ApplyType DEF Commit, TypeOK, StoreTypeOK
  <2>12. CASE CommitAnswerLost(l)
    <3>1. faults' \in Nat
      BY <2>12, FaultType DEF CommitAnswerLost
    <3>2. /\ After(l, FALSE) /\ Settled(l, {}, {}, Final(l)) /\ Apply(tx[l].staged)
          /\ aux_lost' = aux_lost + 1
          /\ UNCHANGED <<dbStatus, dbGen, schemaLock, aux_home>>
      BY <2>12 DEF CommitAnswerLost
    <3>3. StoreTypeOK' /\ aux_lost' \in Nat /\ aux_home' \in [Loader -> SUBSET Nat]
      BY <3>2, ApplyType DEF TypeOK, StoreTypeOK
    <3>4. QED
      BY <3>1, <3>2, <3>3, AfterType, SettledType DEF TypeOK
  <2>13. CASE Crash(l)
    <3>1. NoTx \in Transaction
      BY DEF NoTx, Transaction
    <3>2. QED
      BY <2>13, <3>1 DEF Crash, TypeOK, StoreTypeOK, Ended
  <2>14. QED
    BY <1>2, <2>1, <2>2, <2>3, <2>4, <2>5, <2>6, <2>7, <2>8, <2>9, <2>10, <2>11,
       <2>12, <2>13
       DEF LoadStep, Progress
<1>3. QED
  BY <1>1, <1>2 DEF Next

(***************************************************************************)
(* A step of one process leaves the state of the others alone.             *)
(***************************************************************************)
Local(k) == <<pc[k], data[k], phase[k], lo[k], sgl[k], pos[k], tx[k], aux_verdict[k]>>

LEMMA Frame ==
    ASSUME TypeOK, NEW l \in Loader, NEW k \in Loader, k # l, LoadStep(l)
    PROVE  UNCHANGED Local(k)
<1> DEFINE Off(f) == f'[k] = f[k]
<1>1. /\ pc \in [Loader -> {"idle"} \cup Running \cup Ended]
      /\ data \in [Loader -> Bundle] /\ phase \in [Loader -> Phases]
      /\ lo \in [Loader -> Nat \ {0}] /\ sgl \in [Loader -> Nat]
      /\ pos \in [Loader -> Nat \ {0}] /\ tx \in [Loader -> Transaction]
      /\ aux_verdict \in [Loader -> [Query -> Verdict]]
  BY DEF TypeOK
<1>2. ASSUME NEW ok \in BOOLEAN, After(l, ok)
      PROVE  /\ Off(pc) /\ Off(data) /\ Off(phase) /\ Off(lo) /\ Off(sgl)
             /\ Off(pos) /\ Off(tx)
  BY <1>1, <1>2 DEF After, Retry, NextQuery, NextBatch
<1>3. ASSUME NEW S, NEW U, NEW R, Settled(l, S, U, R)
      PROVE  Off(aux_verdict)
  BY <1>1, <1>3 DEF Settled
<1>4. ASSUME NEW d \in Bundles, StartLoad(l, d)
      PROVE  UNCHANGED Local(k)
  BY <1>1, <1>4 DEF StartLoad, Local
<1>5. CASE OpenHandler(l) \/ OpenHandlerRaises(l)
  BY <1>1, <1>5 DEF OpenHandler, OpenHandlerRaises, Local, aux
<1>6. CASE EndPhase(l)
  BY <1>1, <1>6 DEF EndPhase, Local, aux
<1>7. CASE CheckDatabase(l) \/ CheckDatabaseRaises(l)
  BY <1>1, <1>7 DEF CheckDatabase, CheckDatabaseRaises, Local, aux
<1>8. CASE OpenTransaction(l) \/ OpenTransactionRaises(l)
  BY <1>1, <1>8 DEF OpenTransaction, OpenTransactionRaises, Local, aux
<1>9. CASE InsertQuery(l)
  BY <1>1, <1>9 DEF InsertQuery, Local, aux
<1>10. CASE InsertQueryRaises(l) \/ CommitRaises(l)
  <2>1. After(l, FALSE) /\ Settled(l, {}, {}, Final(l))
    BY <1>10 DEF InsertQueryRaises, CommitRaises
  <2>2. QED
    BY <1>2, <1>3, <2>1 DEF Local
<1>11. CASE Commit(l)
  <2>1. After(l, TRUE) /\ Settled(l, tx[l].staged, tx[l].missed, {})
    BY <1>11 DEF Commit
  <2>2. QED
    BY <1>2, <1>3, <2>1 DEF Local
<1>12. CASE CommitAnswerLost(l)
  <2>1. After(l, FALSE) /\ Settled(l, {}, {}, Final(l))
    BY <1>12 DEF CommitAnswerLost
  <2>2. QED
    BY <1>2, <1>3, <2>1 DEF Local
<1>13. CASE Crash(l)
  BY <1>1, <1>13 DEF Crash, Local, aux
<1>14. QED
  BY <1>4, <1>5, <1>6, <1>7, <1>8, <1>9, <1>10, <1>11, <1>12, <1>13
     DEF LoadStep, Progress

LEMMA FrameInv ==
    ASSUME NEW k \in Loader, Bounds(k), Ledger(k), Held(k), UNCHANGED Local(k)
    PROVE  Bounds(k)' /\ Ledger(k)' /\ Held(k)'
<1>1. /\ pc'[k] = pc[k] /\ data'[k] = data[k] /\ phase'[k] = phase[k]
      /\ lo'[k] = lo[k] /\ sgl'[k] = sgl[k] /\ pos'[k] = pos[k]
      /\ tx'[k] = tx[k] /\ aux_verdict'[k] = aux_verdict[k]
  BY DEF Local
<1>2. /\ executables(k)' = executables(k) /\ amount(k)' = amount(k)
      /\ BatchEnd(k)' = BatchEnd(k)
      /\ First(k)' = First(k) /\ Last(k)' = Last(k)
  BY <1>1 DEF executables, amount, BatchEnd, First, Last
<1>3. Bounds(k)'
  BY <1>1, <1>2 DEF Bounds, Pending
<1>4. Ledger(k)'
  BY <1>1, <1>2 DEF Ledger, Pending
<1>5. Held(k)'
  BY <1>1, <1>2 DEF Held
<1>6. QED
  BY <1>3, <1>4, <1>5

(***************************************************************************)
(* The cursor after an insert call: either load is about to send the same  *)
(* queries again, or it goes on behind the last one it sent.               *)
(***************************************************************************)
LEMMA Distinct ==
    ASSUME NEW d \in Bundles \cup {NoData}, NEW p \in Phases, NEW r \in Phases,
           NEW i \in 1..Len(d[p]), NEW j \in 1..Len(d[r]), d[p][i] = d[r][j]
    PROVE  p = r /\ i = j
<1>1. CASE d \in Bundles
  BY <1>1, LoadAssumption
<1>2. CASE d = NoData
  <2>1. Len(d[p]) = 0
    BY <1>2 DEF NoData
  <2>2. QED
    BY <2>1
<1>3. QED
  BY <1>1, <1>2

Repeats(l, ok) == sgl[l] = 0 /\ ~ok /\ BatchSize > 1

LEMMA AfterCursor ==
    ASSUME TypeOK, NEW l \in Loader, NEW ok \in BOOLEAN,
           Bounds(l), pc[l] = "insert", After(l, ok)
    PROVE  /\ Bounds(l)' /\ Held(l)'
           /\ data'[l] = data[l] /\ phase'[l] = phase[l]
           /\ Repeats(l, ok) => First(l)' = First(l)
           /\ ~Repeats(l, ok) =>
                \A i \in 1..amount(l) : i >= First(l)' <=> i > Last(l)
<1>1. /\ pc \in [Loader -> {"idle"} \cup Running \cup Ended]
      /\ lo \in [Loader -> Nat \ {0}] /\ sgl \in [Loader -> Nat]
      /\ pos \in [Loader -> Nat \ {0}] /\ tx \in [Loader -> Transaction]
  BY DEF TypeOK
<1>2. /\ pc'[l] = "head" /\ tx'[l] = NoTx /\ data' = data /\ phase' = phase
      /\ \/ /\ Repeats(l, ok)
            /\ sgl'[l] = lo[l] /\ lo'[l] = lo[l]
         \/ /\ sgl[l] = 0 /\ (ok \/ BatchSize = 1)
            /\ lo'[l] = lo[l] + BatchSize /\ sgl'[l] = 0
         \/ /\ sgl[l] # 0 /\ sgl[l] < BatchEnd(l)
            /\ sgl'[l] = sgl[l] + 1 /\ lo'[l] = lo[l]
         \/ /\ sgl[l] # 0 /\ sgl[l] >= BatchEnd(l)
            /\ lo'[l] = lo[l] + BatchSize /\ sgl'[l] = 0
  BY <1>1 DEF After, Retry, NextQuery, NextBatch, Repeats
<1>3. /\ lo[l] \in Nat \ {0} /\ sgl[l] \in Nat /\ BatchSize \in Nat \ {0}
      /\ amount(l) \in Nat /\ lo[l] <= amount(l)
      /\ sgl[l] # 0 => BatchSize > 1 /\ lo[l] <= sgl[l] /\ sgl[l] <= BatchEnd(l)
  BY TypeAt DEF Bounds
<1>4. /\ executables(l)' = executables(l) /\ amount(l)' = amount(l)
      /\ First(l)' = IF sgl'[l] = 0 THEN lo'[l] ELSE sgl'[l]
      /\ BatchEnd(l)' = IF lo'[l] + BatchSize - 1 < amount(l)
                        THEN lo'[l] + BatchSize - 1 ELSE amount(l)
  BY <1>2 DEF executables, amount, First, BatchEnd
<1>5. BatchEnd(l) = IF lo[l] + BatchSize - 1 < amount(l)
                    THEN lo[l] + BatchSize - 1 ELSE amount(l)
  BY DEF BatchEnd
<1>6. sgl'[l] # 0 => BatchSize > 1 /\ lo'[l] <= sgl'[l] /\ sgl'[l] <= BatchEnd(l)'
  BY <1>2, <1>3, <1>4, <1>5 DEF Repeats
<1>7. Bounds(l)'
  BY <1>2, <1>6 DEF Bounds
<1>8. Held(l)'
  BY <1>2 DEF Held, NoTx
<1>9. Repeats(l, ok) => First(l)' = First(l)
  BY <1>2, <1>3, <1>4 DEF Repeats, First
<1>10. ASSUME ~Repeats(l, ok), NEW i \in 1..amount(l)
       PROVE  i >= First(l)' <=> i > Last(l)
  <2>1. CASE sgl[l] = 0
    BY <1>2, <1>3, <1>4, <1>5, <1>10, <2>1 DEF Repeats, Last
  <2>2. CASE sgl[l] # 0
    BY <1>2, <1>3, <1>4, <1>5, <1>10, <2>2 DEF Repeats, Last
  <2>3. QED
    BY <2>1, <2>2
<1>11. QED
  BY <1>2, <1>7, <1>8, <1>9, <1>10

(* What the call has settled, S, is nothing or exactly what was sent.      *)
Sent(l) == {executables(l)[i] : i \in First(l)..Last(l)}

LEMMA AfterLedger ==
    ASSUME LoadInv, NEW l \in Loader, NEW ok \in BOOLEAN, pc[l] = "insert", After(l, ok),
           NEW S, S = IF Repeats(l, ok) THEN {} ELSE Sent(l),
           \A q \in Query : Pending(l, q)' <=> Pending(l, q) /\ q \notin S
    PROVE  Bounds(l)' /\ Ledger(l)' /\ Held(l)'
<1>1. TypeOK /\ Bounds(l) /\ Ledger(l)
  BY DEF LoadInv
<1>2. /\ Bounds(l)' /\ Held(l)'
      /\ data'[l] = data[l] /\ phase'[l] = phase[l]
      /\ Repeats(l, ok) => First(l)' = First(l)
      /\ ~Repeats(l, ok) => \A i \in 1..amount(l) : i >= First(l)' <=> i > Last(l)
  BY <1>1, AfterCursor
<1>3. /\ First(l) \in 1..amount(l) /\ Last(l) \in Nat /\ Last(l) <= amount(l)
      /\ First(l) <= Last(l) /\ amount(l) \in Nat
      /\ data[l] \in Bundle /\ data[l] \in Bundles \cup {NoData} /\ phase[l] \in Phases
  BY <1>1, CursorInside, TypeAt DEF Bounds
<1>4. SUFFICES ASSUME NEW p \in Phases, NEW i \in 1..Len(data[l][p])
               PROVE  Pending(l, data[l][p][i])' <=>
                        p > phase[l] \/ (p = phase[l] /\ i >= First(l)')
  BY <1>2 DEF Ledger, Pending
<1> DEFINE q == data[l][p][i]
<1>5. q \in Query
  <2>1. data[l][p] \in Seq(Query)
    BY <1>3 DEF Bundle
  <2>2. QED
    BY <2>1
<1>6. Pending(l, q) <=> p > phase[l] \/ (p = phase[l] /\ i >= First(l))
  BY <1>1 DEF Ledger
<1>7. q \in Sent(l) <=> p = phase[l] /\ First(l) <= i /\ i <= Last(l)
  <2>1. ASSUME q \in Sent(l)
        PROVE  p = phase[l] /\ First(l) <= i /\ i <= Last(l)
    <3>1. PICK j \in First(l)..Last(l) : q = data[l][phase[l]][j]
      BY <2>1 DEF Sent, executables
    <3>2. j \in 1..Len(data[l][phase[l]])
      BY <1>3 DEF amount, executables
    <3>3. p = phase[l] /\ i = j
      BY <1>3, <3>1, <3>2, Distinct
    <3>4. QED
      BY <1>3, <3>3
  <2>2. ASSUME p = phase[l], First(l) <= i, i <= Last(l)
        PROVE  q \in Sent(l)
    <3>1. i \in First(l)..Last(l) /\ q = executables(l)[i]
      BY <1>3, <2>2 DEF executables
    <3>2. QED
      BY <3>1 DEF Sent
  <2>3. QED
    BY <2>1, <2>2
<1>8. p = phase[l] => i \in 1..amount(l)
  BY DEF amount, executables
<1>9. CASE Repeats(l, ok)
  BY <1>2, <1>5, <1>6, <1>9
<1>10. CASE ~Repeats(l, ok)
  <2>1. Pending(l, q)' <=> Pending(l, q) /\ q \notin Sent(l)
    <3>1. S = Sent(l)
      BY <1>10
    <3>2. QED
      BY <1>2, <1>5, <3>1 DEF Pending
  <2>2. CASE p = phase[l]
    <3>1. i \in 1..amount(l) /\ (i >= First(l)' <=> i > Last(l))
      BY <1>2, <1>8, <1>10, <2>2
    <3>2. Pending(l, q)' <=> i >= First(l) /\ i > Last(l)
      BY <1>3, <1>6, <1>7, <2>1, <2>2, <3>1 DEF Phases
    <3>3. QED
      BY <1>3, <2>2, <3>1, <3>2 DEF Phases
  <2>3. CASE p # phase[l]
    BY <1>6, <1>7, <2>1, <2>3
  <2>4. QED
    BY <2>2, <2>3
<1>11. QED
  BY <1>9, <1>10

(***************************************************************************)
(* A step of a process keeps its own part of the invariant.                *)
(***************************************************************************)
LEMMA StartStep ==
    ASSUME LoadInv, NEW l \in Loader, NEW d \in Bundles, StartLoad(l, d)
    PROVE  Bounds(l)' /\ Ledger(l)' /\ Held(l)'
<1>1. /\ pc \in [Loader -> {"idle"} \cup Running \cup Ended]
      /\ data \in [Loader -> Bundle] /\ Bounds(l) /\ Held(l)
  BY DEF LoadInv, TypeOK
<1>2. /\ pc[l] = "idle" /\ pc'[l] = "start" /\ data'[l] = d
      /\ UNCHANGED <<phase, lo, sgl, tx, aux_verdict>>
  BY <1>1 DEF StartLoad
<1>3. phase[l] = 1 /\ lo[l] = 1 /\ sgl[l] = 0 /\ \A q \in Query : Pending(l, q)
  BY <1>1, <1>2 DEF Bounds
<1>4. Bounds(l)'
  BY <1>2, <1>3 DEF Bounds
<1>5. Held(l)'
  BY <1>1, <1>2 DEF Held
<1>6. ASSUME NEW p \in Phases, NEW i \in 1..Len(d[p])
      PROVE  /\ Pending(l, d[p][i])'
             /\ p > phase'[l] \/ (p = phase'[l] /\ i >= First(l)')
  <2>1. d[p][i] \in Query
    <3>1. d[p] \in Seq(Query)
      BY LoadAssumption DEF Bundle
    <3>2. QED
      BY <3>1
  <2>2. First(l)' = 1
    BY <1>2, <1>3 DEF First
  <2>3. QED
    BY <1>2, <1>3, <2>1, <2>2 DEF Pending, Phases
<1>7. Ledger(l)'
  BY <1>2, <1>6 DEF Ledger
<1>8. QED
  BY <1>4, <1>5, <1>7

(* Steps that move the process without touching its queries. *)
LEMMA QuietStep ==
    ASSUME LoadInv, NEW l \in Loader,
           UNCHANGED <<data, phase, lo, sgl, aux_verdict>>,
           pc[l] # "insert", tx'[l] = tx[l] \/ tx'[l] = NoTx,
           pc'[l] \notin {"idle", "insert", "done"},
           pc'[l] = "start" => lo[l] = 1 /\ sgl[l] = 0,
           pc'[l] = "open" => lo[l] <= amount(l)
    PROVE  Bounds(l)' /\ Ledger(l)' /\ Held(l)'
<1>1. Bounds(l) /\ Ledger(l) /\ Held(l)
  BY DEF LoadInv
<1>2. /\ executables(l)' = executables(l) /\ amount(l)' = amount(l)
      /\ BatchEnd(l)' = BatchEnd(l) /\ First(l)' = First(l)
  BY DEF executables, amount, BatchEnd, First
<1>3. Bounds(l)'
  BY <1>1, <1>2 DEF Bounds
<1>4. Ledger(l)'
  BY <1>1, <1>2 DEF Ledger, Pending
<1>5. Held(l)'
  BY <1>1 DEF Held, NoTx
<1>6. QED
  BY <1>3, <1>4, <1>5

LEMMA CrashStep ==
    ASSUME LoadInv, NEW l \in Loader, Crash(l)
    PROVE  Bounds(l)' /\ Ledger(l)' /\ Held(l)'
<1>1. /\ pc \in [Loader -> {"idle"} \cup Running \cup Ended]
      /\ tx \in [Loader -> Transaction]
      /\ Bounds(l) /\ Ledger(l) /\ Held(l)
  BY DEF LoadInv, TypeOK
<1>2. /\ pc'[l] = "crashed" /\ tx'[l] = NoTx
      /\ UNCHANGED <<data, phase, lo, sgl, aux_verdict>>
  BY <1>1 DEF Crash, aux
<1>3. /\ executables(l)' = executables(l) /\ amount(l)' = amount(l)
      /\ BatchEnd(l)' = BatchEnd(l) /\ First(l)' = First(l)
  BY <1>2 DEF executables, amount, BatchEnd, First
<1>4. Bounds(l)'
  BY <1>1, <1>2, <1>3 DEF Bounds
<1>5. Ledger(l)'
  BY <1>1, <1>2, <1>3 DEF Ledger, Pending
<1>6. Held(l)'
  BY <1>2 DEF Held, NoTx
<1>7. QED
  BY <1>4, <1>5, <1>6

LEMMA EndPhaseStep ==
    ASSUME LoadInv, NEW l \in Loader, EndPhase(l)
    PROVE  Bounds(l)' /\ Ledger(l)' /\ Held(l)'
<1>1. /\ pc \in [Loader -> {"idle"} \cup Running \cup Ended]
      /\ lo \in [Loader -> Nat \ {0}] /\ phase \in [Loader -> Phases]
      /\ Bounds(l) /\ Ledger(l) /\ Held(l) /\ TypeOK
  BY DEF LoadInv, TypeOK
<1>2. /\ pc[l] = "head" /\ amount(l) < lo[l]
      /\ UNCHANGED <<data, sgl, tx, aux_verdict>>
      /\ phase[l] \in 1..3 /\ amount(l) \in Nat /\ lo[l] \in Nat
  BY <1>1, TypeAt DEF EndPhase, aux, Phases
<1>3. sgl[l] = 0
  BY <1>1, <1>2, TypeAt DEF Bounds, BatchEnd
<1>4. CASE phase[l] = 3
  <2>1. pc'[l] = "done" /\ UNCHANGED <<phase, lo>>
    BY <1>1, <1>4 DEF EndPhase
  <2>2. amount(l)' = amount(l) /\ First(l)' = First(l)
    BY <1>2, <2>1 DEF amount, executables, First
  <2>3. Bounds(l)'
    BY <1>1, <1>2, <1>3, <1>4, <2>1, <2>2 DEF Bounds
  <2>4. Ledger(l)'
    BY <1>1, <1>2, <2>1, <2>2 DEF Ledger, Pending
  <2>5. Held(l)'
    BY <1>1, <1>2, <2>1 DEF Held
  <2>6. QED
    BY <2>3, <2>4, <2>5
<1>5. CASE phase[l] # 3
  <2>1. pc'[l] = "start" /\ phase'[l] = phase[l] + 1 /\ lo'[l] = 1
    BY <1>1, <1>5 DEF EndPhase
  <2>2. First(l)' = 1 /\ First(l) = lo[l]
    BY <1>2, <1>3, <2>1 DEF First
  <2>3. Bounds(l)'
    BY <1>1, <1>2, <1>3, <2>1 DEF Bounds
  <2>4. ASSUME NEW p \in Phases, NEW i \in 1..Len(data[l][p])
        PROVE  Pending(l, data[l][p][i])' <=>
                   p > phase'[l] \/ (p = phase'[l] /\ i >= First(l)')
    <3>1. Pending(l, data[l][p][i]) <=> p > phase[l] \/ (p = phase[l] /\ i >= lo[l])
      BY <1>1, <2>2 DEF Ledger
    <3>2. p = phase[l] => ~(i >= lo[l])
      BY <1>2 DEF amount, executables
    <3>3. Pending(l, data[l][p][i])' <=> Pending(l, data[l][p][i])
      BY <1>2 DEF Pending
    <3>4. QED
      BY <1>2, <2>1, <2>2, <3>1, <3>2, <3>3 DEF Phases
  <2>5. Ledger(l)'
    BY <1>2, <2>4 DEF Ledger
  <2>6. Held(l)'
    BY <1>1, <1>2, <2>1 DEF Held
  <2>7. QED
    BY <2>3, <2>5, <2>6
<1>6. QED
  BY <1>4, <1>5

LEMMA OpenTransactionStep ==
    ASSUME LoadInv, NEW l \in Loader, OpenTransaction(l)
    PROVE  Bounds(l)' /\ Ledger(l)' /\ Held(l)'
<1>1. /\ pc \in [Loader -> {"idle"} \cup Running \cup Ended]
      /\ pos \in [Loader -> Nat \ {0}] /\ tx \in [Loader -> Transaction]
      /\ Bounds(l) /\ Ledger(l) /\ TypeOK
  BY DEF LoadInv, TypeOK
<1>2. /\ pc[l] = "open" /\ pc'[l] = "insert" /\ pos'[l] = First(l)
      /\ tx'[l].staged = {} /\ tx'[l].missed = {}
      /\ UNCHANGED <<data, phase, lo, sgl, aux_verdict>>
  BY <1>1 DEF OpenTransaction, aux
<1>3. /\ executables(l)' = executables(l) /\ amount(l)' = amount(l)
      /\ BatchEnd(l)' = BatchEnd(l) /\ First(l)' = First(l) /\ Last(l)' = Last(l)
  BY <1>2 DEF executables, amount, BatchEnd, First, Last
<1>4. First(l) \in Nat /\ Last(l) \in Nat /\ First(l) <= Last(l)
  BY <1>1, <1>2, CursorInside, TypeAt
<1>5. Bounds(l)'
  BY <1>1, <1>2, <1>3, <1>4 DEF Bounds
<1>6. Ledger(l)'
  BY <1>1, <1>2, <1>3 DEF Ledger, Pending
<1>7. Held(l)'
  <2>1. First(l)..(First(l) - 1) = {}
    BY <1>4
  <2>2. QED
    BY <1>2, <1>3, <2>1 DEF Held
<1>8. QED
  BY <1>5, <1>6, <1>7

LEMMA InsertStep ==
    ASSUME LoadInv, NEW l \in Loader, InsertQuery(l)
    PROVE  Bounds(l)' /\ Ledger(l)' /\ Held(l)'
<1> DEFINE q == executables(l)[pos[l]]
<1>1. /\ pos \in [Loader -> Nat \ {0}] /\ tx \in [Loader -> Transaction]
      /\ Bounds(l) /\ Ledger(l) /\ Held(l) /\ TypeOK
  BY DEF LoadInv, TypeOK
<1>2. /\ pc[l] = "insert" /\ pos[l] <= Last(l) /\ pos'[l] = pos[l] + 1
      /\ UNCHANGED <<pc, data, phase, lo, sgl, aux_verdict>>
  BY <1>1 DEF InsertQuery, aux
<1>3. \/ tx' = [tx EXCEPT ![l].staged = tx[l].staged \cup {q}]
      \/ tx' = [tx EXCEPT ![l].missed = tx[l].missed \cup {q}]
  BY DEF InsertQuery
<1>4. tx'[l].staged \cup tx'[l].missed = (tx[l].staged \cup tx[l].missed) \cup {q}
  <2>1. tx[l] \in Transaction
    BY <1>1
  <2>2. \/ tx'[l] = [tx[l] EXCEPT !.staged = tx[l].staged \cup {q}]
        \/ tx'[l] = [tx[l] EXCEPT !.missed = tx[l].missed \cup {q}]
    BY <1>1, <1>3
  <2>3. QED
    BY <2>1, <2>2 DEF Transaction
<1>5. /\ executables(l)' = executables(l) /\ amount(l)' = amount(l)
      /\ BatchEnd(l)' = BatchEnd(l) /\ First(l)' = First(l) /\ Last(l)' = Last(l)
  BY <1>2 DEF executables, amount, BatchEnd, First, Last
<1>6. /\ First(l) \in Nat /\ Last(l) \in Nat /\ pos[l] \in Nat
      /\ First(l) <= pos[l]
  BY <1>1, <1>2, TypeAt DEF Bounds
<1>7. Bounds(l)'
  BY <1>1, <1>2, <1>5, <1>6 DEF Bounds
<1>8. Ledger(l)'
  BY <1>1, <1>2, <1>5 DEF Ledger, Pending
<1>9. Held(l)'
  <2>1. tx[l].staged \cup tx[l].missed = {executables(l)[i] : i \in First(l)..(pos[l] - 1)}
    BY <1>1, <1>2 DEF Held
  <2>2. First(l)..(pos'[l] - 1) = First(l)..(pos[l] - 1) \cup {pos[l]}
    BY <1>2, <1>6
  <2>3. {executables(l)[i] : i \in First(l)..(pos'[l] - 1)}
            = {executables(l)[i] : i \in First(l)..(pos[l] - 1)} \cup {q}
    BY <2>2
  <2>4. QED
    BY <1>2, <1>4, <1>5, <2>1, <2>3 DEF Held
<1>10. QED
  BY <1>7, <1>8, <1>9

(* A failed insert call: its query is settled unless it will be retried.   *)
LEMMA FailStep ==
    ASSUME LoadInv, NEW l \in Loader, pc[l] = "insert",
           After(l, FALSE), Settled(l, {}, {}, Final(l))
    PROVE  Bounds(l)' /\ Ledger(l)' /\ Held(l)'
<1>1. /\ aux_verdict \in [Loader -> [Query -> Verdict]] /\ Bounds(l) /\ TypeOK
  BY DEF LoadInv, TypeOK
<1>2. Final(l) = IF Repeats(l, FALSE) THEN {} ELSE Sent(l)
  <2>1. CASE Repeats(l, FALSE)
    BY <2>1 DEF Final, Repeats
  <2>2. CASE ~Repeats(l, FALSE)
    <3>1. lo[l] <= amount(l) /\ amount(l) \in Nat /\ lo[l] \in Nat \ {0}
          /\ sgl[l] \in Nat /\ BatchSize \in Nat \ {0}
      BY <1>1, TypeAt DEF Bounds
    <3>2. sgl[l] # 0 \/ BatchSize = 1
      BY <2>2, <3>1 DEF Repeats
    <3>3. Last(l) = First(l) /\ First(l) \in Nat
      BY <3>1, <3>2 DEF First, Last, BatchEnd
    <3>4. First(l)..Last(l) = {First(l)}
      BY <3>3
    <3>5. Sent(l) = {executables(l)[First(l)]}
      BY <3>4 DEF Sent
    <3>6. QED
      BY <2>2, <3>1, <3>2, <3>5 DEF Final, Repeats
  <2>3. QED
    BY <2>1, <2>2
<1>3. \A q \in Query : Pending(l, q)' <=> Pending(l, q) /\ q \notin Final(l)
  <2>1. \A q \in Query : aux_verdict'[l][q] =
            IF q \in Final(l) THEN "refused" ELSE aux_verdict[l][q]
    BY <1>1 DEF Settled
  <2>2. QED
    BY <2>1 DEF Pending
<1>4. QED
  BY <1>2, <1>3, AfterLedger

LEMMA CommitStep ==
    ASSUME LoadInv, NEW l \in Loader, Commit(l)
    PROVE  Bounds(l)' /\ Ledger(l)' /\ Held(l)'
<1> DEFINE S == tx[l].staged \cup tx[l].missed
<1>1. /\ aux_verdict \in [Loader -> [Query -> Verdict]]
      /\ Bounds(l) /\ Held(l) /\ TypeOK
  BY DEF LoadInv, TypeOK
<1>2. /\ pc[l] = "insert" /\ pos[l] > Last(l) /\ After(l, TRUE)
      /\ Settled(l, tx[l].staged, tx[l].missed, {})
  BY DEF Commit
<1>3. pos[l] - 1 = Last(l)
  <2>1. pos[l] <= Last(l) + 1
    BY <1>1, <1>2 DEF Bounds
  <2>2. pos[l] \in Nat /\ Last(l) \in Nat
    BY <1>1, TypeAt
  <2>3. QED
    BY <1>2, <2>1, <2>2
<1>4. S = IF Repeats(l, TRUE) THEN {} ELSE Sent(l)
  BY <1>1, <1>2, <1>3 DEF Held, Sent, Repeats
<1>5. \A q \in Query : Pending(l, q)' <=> Pending(l, q) /\ q \notin S
  <2>1. \A q \in Query : aux_verdict'[l][q] =
            IF q \in tx[l].staged THEN "stored"
            ELSE IF q \in tx[l].missed THEN "unmatched" ELSE aux_verdict[l][q]
    BY <1>1, <1>2 DEF Settled
  <2>2. QED
    BY <2>1 DEF Pending
<1>6. QED
  BY <1>2, <1>4, <1>5, AfterLedger

LEMMA LocalStep ==
    ASSUME LoadInv, NEW l \in Loader, LoadStep(l)
    PROVE  Bounds(l)' /\ Ledger(l)' /\ Held(l)'
<1>1. /\ pc \in [Loader -> {"idle"} \cup Running \cup Ended]
      /\ Bounds(l) /\ TypeOK
  BY DEF LoadInv, TypeOK
<1>2. ASSUME NEW d \in Bundles, StartLoad(l, d)
      PROVE  Bounds(l)' /\ Ledger(l)' /\ Held(l)'
  BY <1>2, StartStep
<1>3. CASE OpenHandler(l) \/ OpenHandlerRaises(l)
  <2>1. /\ UNCHANGED <<data, phase, lo, sgl, tx, aux_verdict>>
        /\ pc[l] = "start" /\ pc'[l] \in {"head", "failed"}
    BY <1>1, <1>3 DEF OpenHandler, OpenHandlerRaises, aux
  <2>2. QED
    BY <2>1, QuietStep
<1>4. CASE CheckDatabase(l) \/ CheckDatabaseRaises(l)
  <2>1. /\ UNCHANGED <<data, phase, lo, sgl, tx, aux_verdict>>
        /\ pc[l] = "head" /\ pc'[l] \in {"open", "rejected", "failed"}
        /\ lo[l] <= amount(l)
    BY <1>1, <1>4 DEF CheckDatabase, CheckDatabaseRaises, aux
  <2>2. QED
    BY <2>1, QuietStep
<1>5. CASE OpenTransactionRaises(l)
  <2>1. /\ UNCHANGED <<data, phase, lo, sgl, tx, aux_verdict>>
        /\ pc[l] = "open" /\ pc'[l] = "failed"
    BY <1>1, <1>5 DEF OpenTransactionRaises, aux
  <2>2. QED
    BY <2>1, QuietStep
<1>6. CASE InsertQueryRaises(l) \/ CommitRaises(l) \/ CommitAnswerLost(l)
  <2>1. pc[l] = "insert" /\ After(l, FALSE) /\ Settled(l, {}, {}, Final(l))
    BY <1>6 DEF InsertQueryRaises, CommitRaises, CommitAnswerLost
  <2>2. QED
    BY <2>1, FailStep
<1>7. QED
  BY <1>2, <1>3, <1>4, <1>5, <1>6, EndPhaseStep, OpenTransactionStep, InsertStep,
     CommitStep, CrashStep
     DEF LoadStep, Progress

LEMMA InitInv == StoreTypeOK /\ LoadInit => LoadInv
<1> SUFFICES ASSUME StoreTypeOK, LoadInit PROVE LoadInv
  OBVIOUS
<1>1. TypeOK
  BY InitType
<1>2. ASSUME NEW l \in Loader
      PROVE  Bounds(l) /\ Ledger(l) /\ Held(l)
  <2>1. /\ pc[l] = "idle" /\ data[l] = NoData /\ phase[l] = 1 /\ lo[l] = 1 /\ sgl[l] = 0
        /\ tx[l] = NoTx /\ aux_verdict[l] = [q \in Query |-> "pending"]
    BY DEF LoadInit
  <2>2. \A p \in Phases : Len(data[l][p]) = 0
    BY <2>1 DEF NoData
  <2>3. Bounds(l)
    BY <2>1 DEF Bounds, Pending
  <2>4. Ledger(l)
    BY <2>2 DEF Ledger
  <2>5. Held(l)
    BY <2>1 DEF Held, NoTx
  <2>6. QED
    BY <2>3, <2>4, <2>5
<1>3. QED
  BY <1>1, <1>2 DEF LoadInv

LEMMA NextInv == LoadInv /\ [Next]_vars => LoadInv'
<1> SUFFICES ASSUME LoadInv, [Next]_vars
             PROVE  LoadInv'
  OBVIOUS
<1>1. TypeOK'
  BY NextType
<1>2. ASSUME NEW k \in Loader
      PROVE  Bounds(k)' /\ Ledger(k)' /\ Held(k)'
  <2>1. TypeOK /\ Bounds(k) /\ Ledger(k) /\ Held(k)
    BY DEF LoadInv
  <2>2. CASE UNCHANGED vars
    <3>1. UNCHANGED Local(k)
      BY <2>2 DEF vars, loadVars, control, aux, Local
    <3>2. QED
      BY <2>1, <3>1, FrameInv
  <2>3. ASSUME NEW l \in Loader, LoadStep(l)
        PROVE  Bounds(k)' /\ Ledger(k)' /\ Held(k)'
    <3>1. CASE k = l
      BY <2>3, <3>1, LocalStep
    <3>2. CASE k # l
      BY <2>1, <2>3, <3>2, Frame, FrameInv
    <3>3. QED
      BY <3>1, <3>2
  <2>4. QED
    BY <2>2, <2>3 DEF Next
<1>3. QED
  BY <1>1, <1>2 DEF LoadInv

(* The inductive invariant holds of every behaviour of the loads.          *)
THEOREM LoadInvariant == Spec => []LoadInv
<1>1. Init => LoadInv
  BY StoreInitType, InitInv DEF Init
<1>2. QED
  BY <1>1, NextInv, PTL DEF Spec

(* Every variable keeps its type; in particular a load never reads behind  *)
(* the end of one of its lists of queries.                                 *)
THEOREM TypeCorrect == Spec => []TypeOK
<1>1. LoadInv => TypeOK
  BY DEF LoadInv
<1>2. QED
  BY <1>1, LoadInvariant, PTL

(* For every batch size and bundle, and whatever fails: a load that ends   *)
(* normally has dealt with every query it was given.                       *)
THEOREM NothingSkippedCorrect == Spec => []NothingSkipped
<1>1. LoadInv => NothingSkipped
  <2> SUFFICES ASSUME LoadInv, NEW l \in Loader, NEW p \in Phases, pc[l] = "done",
                      NEW i \in 1..Len(data[l][p])
               PROVE  ~Pending(l, data[l][p][i])
    BY DEF NothingSkipped, Items
  <2>1. TypeOK /\ Bounds(l) /\ Ledger(l)
    BY DEF LoadInv
  <2>2. phase[l] = 3 /\ amount(l) < lo[l]
    BY <2>1 DEF Bounds
  <2>3. First(l) = lo[l]
    BY <2>1, <2>2, TypeAt DEF First, Bounds, BatchEnd
  <2>4. ~(p = phase[l] /\ i >= First(l))
    BY <2>1, <2>2, <2>3, TypeAt DEF amount, executables
  <2>5. ~(p > phase[l])
    BY <2>2 DEF Phases
  <2>6. QED
    BY <2>1, <2>4, <2>5 DEF Ledger
<1>2. QED
  BY <1>1, LoadInvariant, PTL

(* Entities before relationship objects before embedded relations: no      *)
(* query is sent while one of an earlier list has not been dealt with.     *)
THEOREM PhaseOrderCorrect == Spec => []PhaseOrder
<1>1. LoadInv => PhaseOrder
  <2> SUFFICES ASSUME LoadInv, NEW l \in Loader, NEW p \in Phases, NEW r \in Phases, p < r,
                      NEW i \in 1..Len(data[l][p]), NEW j \in 1..Len(data[l][r]),
                      Pending(l, data[l][p][i])
               PROVE  Pending(l, data[l][r][j]) /\ data[l][r][j] \notin tx[l].staged
    BY DEF PhaseOrder, Items
  <2>1. /\ TypeOK /\ Bounds(l) /\ Ledger(l) /\ Held(l)
        /\ data[l] \in Bundles \cup {NoData} /\ phase[l] \in Phases
    BY TypeAt DEF LoadInv, Bounds
  <2>2. p >= phase[l]
    BY <2>1 DEF Ledger, Phases
  <2>3. r > phase[l]
    BY <2>1, <2>2 DEF Phases
  <2>4. Pending(l, data[l][r][j])
    BY <2>1, <2>3 DEF Ledger
  <2>5. ASSUME data[l][r][j] \in tx[l].staged
        PROVE  FALSE
    <3>1. pc[l] = "insert"
      BY <2>1, <2>5 DEF Held
    <3>2. PICK m \in First(l)..(pos[l] - 1) : data[l][r][j] = executables(l)[m]
      BY <2>1, <2>5, <3>1 DEF Held
    <3>3. m \in 1..Len(data[l][phase[l]])
      <4>1. /\ First(l) \in 1..amount(l) /\ Last(l) <= amount(l)
            /\ Last(l) \in Nat /\ pos[l] \in Nat /\ amount(l) \in Nat
        BY <2>1, <3>1, CursorInside, TypeAt
      <4>2. pos[l] <= Last(l) + 1
        BY <2>1, <3>1 DEF Bounds
      <4>3. m \in 1..amount(l)
        BY <4>1, <4>2
      <4>4. QED
        BY <4>3 DEF amount, executables
    <3>4. r = phase[l]
      BY <2>1, <3>2, <3>3, Distinct DEF executables
    <3>5. QED
      BY <2>1, <2>3, <3>4 DEF Phases
  <2>6. QED
    BY <2>4, <2>5
<1>2. QED
  BY <1>1, LoadInvariant, PTL
----------------------------------------------------------------------------
(***************************************************************************)
(* What makes a commit of several queries a step of the contract: when the *)
(* queries were staged, each found what it refers to in the snapshot or    *)
(* staged before it, and no two of them have a key in common; and what was *)
(* in the snapshot is still in the database, as nobody deletes it.         *)
(***************************************************************************)
Founded(t) ==
    /\ t.gen = dbGen
    /\ t.ids \subseteq StoredKeys
    /\ \A q \in t.staged : q \notin Refused /\ Needs[q] \subseteq t.ids \cup KeysOf(t.staged)
    /\ \A q, r \in t.staged : Keys[q] \cap Keys[r] # {} => q = r
    /\ \A q \in t.missed : Needs[q] # {}
    /\ t.staged \cap t.missed = {}
TxInv == \A l \in Loader : pc[l] = "insert" => Founded(tx[l])
RefinementInv == LoadInv /\ TxInv

(* Nothing a load does removes a query from the database.                  *)
LEMMA StoreGrows ==
    ASSUME TypeOK, NEW l \in Loader, LoadStep(l)
    PROVE  StoredKeys \subseteq StoredKeys' /\ UNCHANGED <<dbStatus, dbGen>>
<1>1. copies \in [Query -> Nat]
  BY DEF TypeOK, StoreTypeOK
<1>2. UNCHANGED storeVars \/ \E S : Apply(S) /\ UNCHANGED <<dbStatus, dbGen, schemaLock>>
  BY DEF LoadStep, Progress, StartLoad, OpenHandler, OpenHandlerRaises, EndPhase, CheckDatabase,
         CheckDatabaseRaises, OpenTransaction, OpenTransactionRaises, InsertQuery,
         InsertQueryRaises, Commit, CommitRaises, CommitAnswerLost, Crash
<1>3. \A q \in Query : copies'[q] = copies[q] \/ copies'[q] = copies[q] + 1
  BY <1>1, <1>2 DEF storeVars, Apply
<1>4. \A q \in Query : copies[q] > 0 => copies'[q] > 0
  BY <1>1, <1>3
<1>5. StoredKeys \subseteq StoredKeys'
  BY <1>4 DEF StoredKeys, KeysOf
<1>6. QED
  BY <1>2, <1>5 DEF storeVars

LEMMA OpenFounded ==
    ASSUME TypeOK, NEW l \in Loader, OpenTransaction(l)
    PROVE  Founded(tx'[l])
<1>1. tx'[l] = [ids |-> StoredKeys, gen |-> dbGen, staged |-> {}, missed |-> {}]
  BY DEF OpenTransaction, TypeOK
<1>2. QED
  BY <1>1 DEF Founded

(* The next query of a transaction is not yet in it.                       *)
LEMMA CursorIsNew ==
    ASSUME LoadInv, NEW l \in Loader, pc[l] = "insert", pos[l] <= Last(l)
    PROVE  /\ executables(l)[pos[l]] \in Query
           /\ executables(l)[pos[l]] \notin tx[l].staged \cup tx[l].missed
<1>1. TypeOK /\ Bounds(l) /\ Held(l) /\ data[l] \in Bundles \cup {NoData} /\ phase[l] \in Phases
  BY TypeAt DEF LoadInv, Bounds
<1>2. /\ pos[l] \in 1..amount(l) /\ executables(l)[pos[l]] \in Query
      /\ First(l) \in 1..amount(l) /\ amount(l) \in Nat
  BY <1>1, CursorInside, TypeAt
<1>3. ASSUME NEW i \in First(l)..(pos[l] - 1)
      PROVE  executables(l)[i] # executables(l)[pos[l]]
  <2>1. i \in 1..amount(l) /\ i # pos[l]
    BY <1>2
  <2>2. i \in 1..Len(data[l][phase[l]]) /\ pos[l] \in 1..Len(data[l][phase[l]])
    BY <1>2, <2>1 DEF amount, executables
  <2>3. QED
    BY <1>1, <2>1, <2>2, Distinct DEF executables
<1>4. tx[l].staged \cup tx[l].missed = {executables(l)[i] : i \in First(l)..(pos[l] - 1)}
  BY <1>1 DEF Held
<1>5. QED
  BY <1>2, <1>3, <1>4

LEMMA InsertFounded ==
    ASSUME LoadInv, NEW l \in Loader, InsertQuery(l), Founded(tx[l])
    PROVE  Founded(tx'[l])
<1> DEFINE q == executables(l)[pos[l]]
<1> DEFINE t == tx[l]
<1>1. TypeOK /\ pc[l] = "insert" /\ pos[l] <= Last(l) /\ t \in Transaction
  BY TypeAt DEF LoadInv, InsertQuery
<1>2. Founded(t) /\ q \in Query /\ q \notin t.staged \cup t.missed
  BY <1>1, CursorIsNew
<1>3. q \notin Refused /\ ~Clashes(l, q)
  BY DEF InsertQuery, Executable
<1>4. CASE Matched(q, Visible(l)) /\ tx' = [tx EXCEPT ![l].staged = tx[l].staged \cup {q}]
  <2>1. /\ tx'[l].ids = t.ids /\ tx'[l].gen = t.gen /\ tx'[l].missed = t.missed
        /\ tx'[l].staged = t.staged \cup {q}
    BY <1>1, <1>4 DEF TypeOK, Transaction
  <2>2. Needs[q] \subseteq t.ids \cup KeysOf(t.staged)
    BY <1>4 DEF Matched, Visible
  <2>3. Keys[q] \cap KeysOf(t.staged) = {}
    BY <1>3, <1>4 DEF Clashes, KeyFree, Visible
  <2>4. \A r \in t.staged : Keys[q] \cap Keys[r] = {}
    BY <2>3 DEF KeysOf
  <2>5. KeysOf(t.staged) \subseteq KeysOf(tx'[l].staged)
    BY <2>1 DEF KeysOf
  <2>6. QED
    BY <1>2, <1>3, <2>1, <2>2, <2>4, <2>5 DEF Founded
<1>5. CASE ~Matched(q, Visible(l)) /\ tx' = [tx EXCEPT ![l].missed = tx[l].missed \cup {q}]
  <2>1. /\ tx'[l].ids = t.ids /\ tx'[l].gen = t.gen /\ tx'[l].staged = t.staged
        /\ tx'[l].missed = t.missed \cup {q}
    BY <1>1, <1>5 DEF TypeOK, Transaction
  <2>2. Needs[q] # {}
    BY <1>5 DEF Matched
  <2>3. QED
    BY <1>2, <2>1, <2>2 DEF Founded
<1>6. QED
  BY <1>4, <1>5 DEF InsertQuery

(* A load founds its transactions itself, whatever has become of others.   *)
LEMMA OwnFounded ==
    ASSUME LoadInv, NEW l \in Loader, LoadStep(l), pc'[l] = "insert",
           pc[l] = "insert" => Founded(tx[l])
    PROVE  Founded(tx'[l])
<1>1. TypeOK /\ pc \in [Loader -> {"idle"} \cup Running \cup Ended]
  BY DEF LoadInv, TypeOK
<1>2. OpenTransaction(l) \/ InsertQuery(l)
  BY <1>1 DEF LoadStep, Progress, StartLoad, OpenHandler, OpenHandlerRaises,
     EndPhase, CheckDatabase, CheckDatabaseRaises, OpenTransactionRaises,
     InsertQueryRaises, Commit, CommitRaises, CommitAnswerLost, Crash, After
<1>3. InsertQuery(l) => pc[l] = "insert"
  BY DEF InsertQuery
<1>4. QED
  BY <1>1, <1>2, <1>3, OpenFounded, InsertFounded

LEMMA TxInvNext == RefinementInv /\ [Next]_vars => TxInv'
<1> SUFFICES ASSUME RefinementInv, [Next]_vars, NEW k \in Loader, pc'[k] = "insert"
             PROVE  Founded(tx[k])'
  BY DEF TxInv
<1>1. LoadInv /\ TypeOK /\ TxInv
  BY DEF RefinementInv, LoadInv
<1>2. CASE UNCHANGED vars
  <2>1. pc[k] = "insert" /\ UNCHANGED <<dbGen, copies, tx>>
    BY <1>2 DEF vars, loadVars, control, storeVars
  <2>2. Founded(tx[k])
    BY <1>1, <2>1 DEF TxInv
  <2>3. QED
    BY <2>1, <2>2 DEF Founded, StoredKeys, KeysOf
<1>3. ASSUME NEW l \in Loader, LoadStep(l)
      PROVE  Founded(tx[k])'
  <2>1. StoredKeys \subseteq StoredKeys' /\ UNCHANGED dbGen
    BY <1>1, <1>3, StoreGrows
  <2>2. Founded(tx'[k])
    <3>1. CASE k # l
      <4>1. pc[k] = "insert" /\ tx'[k] = tx[k]
        BY <1>1, <1>3, <3>1, Frame DEF Local
      <4>2. QED
        BY <1>1, <4>1 DEF TxInv
    <3>2. CASE k = l
      <4>1. pc[l] = "insert" => Founded(tx[l])
        BY <1>1 DEF TxInv
      <4>2. QED
        BY <1>1, <1>3, <3>2, <4>1, OwnFounded
    <3>3. QED
      BY <3>1, <3>2
  <2>3. QED
    BY <2>1, <2>2 DEF Founded
<1>4. QED
  BY <1>2, <1>3 DEF Next

LEMMA RefinementInvariant == Spec => []RefinementInv
<1>1. Init => RefinementInv
  <2> SUFFICES ASSUME Init PROVE RefinementInv
    OBVIOUS
  <2>1. TxInv
    BY DEF Init, LoadInit, TxInv
  <2>2. QED
    BY <2>1, StoreInitType, InitInv DEF RefinementInv, Init
<1>2. RefinementInv /\ [Next]_vars => RefinementInv'
  BY NextInv, TxInvNext DEF RefinementInv
<1>3. QED
  BY <1>1, <1>2, PTL DEF Spec

(***************************************************************************)
(* The state of the contract: the life of a process, and whose turn it is. *)
(***************************************************************************)
LifeOf(c) == CASE c = "idle" -> "waiting"
               [] c = "done" -> "done"
               [] c \in Running -> "loading"
               [] OTHER -> "stopped"

LEMMA LifeStep ==
    ASSUME TypeOK, NEW l \in Loader, LoadStep(l)
    PROVE  life[l] = LifeOf(pc[l]) /\ life' = [life EXCEPT ![l] = LifeOf(pc'[l])]
<1>1. life[l] = LifeOf(pc[l])
  BY DEF life, LifeOf
<1>2. ASSUME NEW k \in Loader
      PROVE  life'[k] = [life EXCEPT ![l] = LifeOf(pc'[l])][k]
  <2>1. CASE k = l
    BY <2>1 DEF life, LifeOf
  <2>2. CASE k # l
    <3>1. pc'[k] = pc[k]
      BY <2>2, Frame DEF Local
    <3>2. QED
      BY <2>2, <3>1 DEF life
  <2>3. QED
    BY <2>1, <2>2
<1>3. QED
  BY <1>1, <1>2 DEF life

(* The queries from the cursor of the current list on are still pending,   *)
(* and nothing is pending of the earlier lists.                            *)
LEMMA CurrentTurn ==
    ASSUME LoadInv, NEW l \in Loader
    PROVE  /\ phase[l] \in 1..3
           /\ Contract!Turn(l, phase[l])
           /\ \A i \in 1..amount(l) : i >= First(l) =>
                  executables(l)[i] \in Contract!PendingIn(l, phase[l])
<1>1. phase[l] \in 1..3 /\ Ledger(l) /\ First(l) \in Nat
  BY TypeAt DEF LoadInv, Phases
<1>2. ASSUME NEW r \in 1..(phase[l] - 1)
      PROVE  Contract!PendingIn(l, r) = {}
  <2>1. r \in Phases /\ ~(r > phase[l]) /\ r # phase[l]
    BY <1>1 DEF Phases
  <2>2. \A i \in 1..Len(data[l][r]) : ~Pending(l, data[l][r][i])
    BY <1>1, <2>1 DEF Ledger
  <2>3. QED
    BY <2>2 DEF Contract!PendingIn, Contract!Elements, Pending
<1>3. ASSUME NEW i \in 1..amount(l), i >= First(l)
      PROVE  executables(l)[i] \in Contract!PendingIn(l, phase[l])
  <2>1. i \in 1..Len(data[l][phase[l]]) /\ phase[l] \in Phases
    BY <1>1, <1>3 DEF amount, executables, Phases
  <2>2. Pending(l, data[l][phase[l]][i])
    BY <1>1, <1>3, <2>1 DEF Ledger
  <2>3. QED
    BY <2>1, <2>2 DEF Contract!PendingIn, Contract!Elements, Pending, executables
<1>4. QED
  BY <1>1, <1>2, <1>3 DEF Contract!Turn

(***************************************************************************)
(* Every step of a load is a step of the contract, or invisible to it.     *)
(***************************************************************************)
Mapped(l) ==
    \/ Contract!Begin(l)
    \/ Contract!Store(l)
    \/ Contract!Refuse(l)
    \/ Contract!Disturb(l)
    \/ Contract!Finish(l)
    \/ Contract!Stop(l)
    \/ UNCHANGED Contract!contractVars

(* What a load reports as settled is what the contract decides.            *)
LEMMA SettledNothing ==
    ASSUME TypeOK, NEW l \in Loader, Settled(l, {}, {}, {})
    PROVE  UNCHANGED aux_verdict
<1>1. aux_verdict \in [Loader -> [Query -> Verdict]]
  BY DEF TypeOK
<1>2. [q \in Query |-> aux_verdict[l][q]] = aux_verdict[l]
  BY <1>1
<1>3. QED
  BY <1>1, <1>2 DEF Settled

LEMMA SettledRefused ==
    ASSUME NEW l \in Loader, NEW e, Settled(l, {}, {}, {e})
    PROVE  Contract!Decide(l, {e}, "refused")
BY DEF Settled, Contract!Decide

(* Steps before, between and after the insert calls.                       *)
LEMMA QuietMapped ==
    ASSUME LoadInv, NEW l \in Loader,
           \/ OpenHandler(l) \/ CheckDatabase(l) \/ OpenTransaction(l) \/ InsertQuery(l)
           \/ EndPhase(l) \/ OpenHandlerRaises(l) \/ CheckDatabaseRaises(l)
           \/ OpenTransactionRaises(l) \/ Crash(l)
    PROVE  Mapped(l)
<1>0. TypeOK /\ pc \in [Loader -> {"idle"} \cup Running \cup Ended] /\ faults \in Nat
  BY DEF LoadInv, TypeOK
<1>1. LoadStep(l)
  BY DEF LoadStep, Progress
<1>2. life[l] = LifeOf(pc[l]) /\ life' = [life EXCEPT ![l] = LifeOf(pc'[l])]
  BY <1>0, <1>1, LifeStep
<1>3. /\ UNCHANGED <<storeVars, data, aux_verdict, aux_lost>>
      /\ pc[l] \in Running
  BY DEF OpenHandler, CheckDatabase, OpenTransaction, InsertQuery, EndPhase,
     OpenHandlerRaises, CheckDatabaseRaises, OpenTransactionRaises, Crash, aux, Running
<1>4. life[l] = "loading"
  BY <1>2, <1>3 DEF LifeOf, Running
<1>5. CASE pc'[l] \in Running /\ UNCHANGED faults
  <2>1. life' = life
    BY <1>2, <1>4, <1>5 DEF LifeOf, Running, life
  <2>2. QED
    BY <1>3, <1>5, <2>1 DEF Mapped, Contract!contractVars, storeVars
<1>6. CASE pc'[l] \in {"rejected", "failed", "crashed"} /\ faults' \in {faults, faults + 1}
  <2>1. life' = [life EXCEPT ![l] = "stopped"]
    BY <1>2, <1>6 DEF LifeOf, Running
  <2>2. Contract!Stop(l)
    BY <1>3, <1>4, <1>6, <2>1 DEF Contract!Stop, Contract!storeVars, storeVars
  <2>3. QED
    BY <2>2 DEF Mapped
<1>7. CASE EndPhase(l) /\ pc'[l] = "done"
  <2>1. /\ pc[l] = "head" /\ amount(l) < lo[l] /\ phase[l] = 3 /\ UNCHANGED faults
    BY <1>0, <1>7 DEF EndPhase
  <2>2. sgl[l] = 0 /\ First(l) = lo[l]
    BY <1>0, <2>1, TypeAt DEF LoadInv, Bounds, BatchEnd, First
  <2>3. ASSUME NEW p \in 1..3
        PROVE  Contract!PendingIn(l, p) = {}
    <3>1. ASSUME NEW i \in 1..Len(data[l][p])
          PROVE  ~Pending(l, data[l][p][i])
      <4>1. ~(p > phase[l]) /\ ~(p = phase[l] /\ i >= First(l))
        BY <1>0, <2>1, <2>2, TypeAt DEF amount, executables
      <4>2. QED
        BY <4>1 DEF LoadInv, Ledger, Phases
    <3>2. QED
      BY <3>1 DEF Contract!PendingIn, Contract!Elements, Pending
  <2>4. life' = [life EXCEPT ![l] = "done"]
    BY <1>2, <1>7 DEF LifeOf, Running
  <2>5. Contract!Finish(l)
    BY <1>3, <1>4, <2>1, <2>3, <2>4 DEF Contract!Finish, Contract!storeVars, storeVars
  <2>6. QED
    BY <2>5 DEF Mapped
<1>8. CASE OpenHandler(l) \/ CheckDatabase(l) \/ OpenTransaction(l) \/ InsertQuery(l)
  <2>1. UNCHANGED faults /\ pc'[l] \in Running \cup {"rejected"}
    BY <1>0, <1>3, <1>8 DEF OpenHandler, CheckDatabase, OpenTransaction, InsertQuery, Running
  <2>2. QED
    BY <1>5, <1>6, <2>1
<1>9. CASE EndPhase(l)
  <2>1. UNCHANGED faults /\ pc'[l] \in {"start", "done"}
    BY <1>0, <1>9 DEF EndPhase
  <2>2. QED
    BY <1>5, <1>7, <1>9, <2>1 DEF Running
<1>10. CASE OpenHandlerRaises(l) \/ CheckDatabaseRaises(l) \/ OpenTransactionRaises(l) \/ Crash(l)
  <2>1. pc'[l] \in {"failed", "crashed"} /\ faults' \in {faults, faults + 1}
    BY <1>0, <1>10 DEF OpenHandlerRaises, CheckDatabaseRaises, OpenTransactionRaises,
       Crash, Fault
  <2>2. QED
    BY <1>6, <2>1
<1>11. QED
  BY <1>8, <1>9, <1>10

LEMMA StartMapped ==
    ASSUME LoadInv, NEW l \in Loader, NEW d \in Bundles, StartLoad(l, d)
    PROVE  Mapped(l)
<1>0. TypeOK /\ pc \in [Loader -> {"idle"} \cup Running \cup Ended] /\ LoadStep(l)
  BY DEF LoadInv, TypeOK, LoadStep
<1>1. pc[l] = "idle" /\ pc'[l] = "start"
  BY <1>0 DEF StartLoad
<1>2. life[l] = "waiting" /\ life' = [life EXCEPT ![l] = "loading"]
  BY <1>0, <1>1, LifeStep DEF LifeOf, Running
<1>3. Contract!Begin(l)
  BY <1>2 DEF StartLoad, Contract!Begin, Contract!storeVars, storeVars
<1>4. QED
  BY <1>3 DEF Mapped

(* The end of an insert call keeps the process loading.                    *)
LEMMA StillLoading ==
    ASSUME TypeOK, NEW l \in Loader, LoadStep(l), NEW ok \in BOOLEAN,
           pc[l] = "insert", After(l, ok)
    PROVE  life[l] = "loading" /\ UNCHANGED <<life, data>>
<1>1. pc'[l] = "head" /\ data' = data
  BY DEF After, TypeOK
<1>2. life[l] = "loading" /\ life' = [life EXCEPT ![l] = "loading"]
  BY <1>1, LifeStep DEF LifeOf, Running
<1>3. QED
  BY <1>1, <1>2 DEF life

(* The queries of an open transaction are pending, and can be stored.      *)
LEMMA StagedPending ==
    ASSUME LoadInv, NEW l \in Loader, pc[l] = "insert"
    PROVE  tx[l].staged \cup tx[l].missed \subseteq Contract!PendingIn(l, phase[l])
<1>1. TypeOK /\ Held(l) /\ Bounds(l)
  BY DEF LoadInv
<1>2. /\ First(l) \in 1..amount(l) /\ Last(l) <= amount(l) /\ pos[l] <= Last(l) + 1
      /\ Last(l) \in Nat /\ pos[l] \in Nat /\ amount(l) \in Nat
  BY <1>1, CursorInside, TypeAt DEF Bounds
<1>3. \A i \in First(l)..(pos[l] - 1) : i \in 1..amount(l) /\ i >= First(l)
  BY <1>2
<1>4. \A i \in First(l)..(pos[l] - 1) : executables(l)[i] \in Contract!PendingIn(l, phase[l])
  BY <1>3, CurrentTurn
<1>5. QED
  BY <1>1, <1>4 DEF Held

LEMMA StagedStorable ==
    ASSUME RefinementInv, NEW l \in Loader, pc[l] = "insert", Committable(tx[l].staged)
    PROVE  Contract!Storable(tx[l].staged)
<1>1. Founded(tx[l])
  BY DEF RefinementInv, TxInv
<1>2. QED
  BY <1>1 DEF Founded, Committable, Contract!Storable, Contract!Committable, KeysOf, StoredKeys,
     Contract!KeysOf, Contract!StoredKeys

LEMMA CommitMapped ==
    ASSUME RefinementInv, NEW l \in Loader, Commit(l)
    PROVE  Mapped(l)
<1> DEFINE S == tx[l].staged
<1> DEFINE U == tx[l].missed
<1>0. TypeOK /\ LoadInv /\ LoadStep(l)
  BY DEF RefinementInv, LoadInv, LoadStep, Progress
<1>1. /\ pc[l] = "insert" /\ Committable(S) /\ Apply(S) /\ After(l, TRUE)
      /\ Settled(l, S, U, {})
      /\ UNCHANGED <<dbStatus, dbGen, schemaLock, faults, aux_lost>>
  BY DEF Commit
<1>2. life[l] = "loading" /\ UNCHANGED <<life, data>>
  BY <1>0, <1>1, StillLoading
<1>3. S \cup U \subseteq Contract!PendingIn(l, phase[l]) /\ Contract!Turn(l, phase[l])
      /\ phase[l] \in 1..3
  BY <1>0, <1>1, StagedPending, CurrentTurn
<1>4. Contract!Storable(S)
  BY <1>1, StagedStorable
<1>5. S \cap U = {} /\ \A q \in U : Needs[q] # {}
  BY <1>1 DEF RefinementInv, TxInv, Founded
<1>6. aux_verdict' = [aux_verdict EXCEPT ![l] =
          [q \in Query |-> IF q \in S THEN "stored"
                           ELSE IF q \in U THEN "unmatched" ELSE aux_verdict[l][q]]]
  BY <1>1 DEF Settled
<1>7. Contract!Apply(S)
  BY <1>1 DEF Apply, Contract!Apply
<1>8. S \in SUBSET Contract!PendingIn(l, phase[l]) /\ U \in SUBSET Contract!PendingIn(l, phase[l])
  BY <1>3
<1>9. Contract!Store(l)
  BY <1>1, <1>2, <1>3, <1>4, <1>5, <1>6, <1>7, <1>8 DEF Contract!Store
<1>10. QED
  BY <1>9 DEF Mapped

(* A failed call settles nothing if its queries are sent again; otherwise  *)
(* it had a single query, and gives that one up.                           *)
LEMMA GivenUp ==
    ASSUME LoadInv, NEW l \in Loader, pc[l] = "insert"
    PROVE  \/ Final(l) = {}
           \/ LET e == executables(l)[First(l)]
              IN  /\ Final(l) = {e}
                  /\ e \in Contract!PendingIn(l, phase[l])
                  /\ pos[l] <= Last(l) => executables(l)[pos[l]] = e /\ tx[l].staged = {}
                  /\ tx[l].staged \subseteq {e}
<1>1. TypeOK /\ Bounds(l) /\ Held(l)
  BY DEF LoadInv
<1>2. CASE sgl[l] = 0 /\ BatchSize > 1
  BY <1>2 DEF Final
<1>3. CASE ~(sgl[l] = 0 /\ BatchSize > 1)
  <2> DEFINE e == executables(l)[First(l)]
  <2>1. /\ lo[l] <= amount(l) /\ amount(l) \in Nat /\ lo[l] \in Nat \ {0}
        /\ sgl[l] \in Nat /\ BatchSize \in Nat \ {0} /\ pos[l] \in Nat
        /\ First(l) <= pos[l] /\ pos[l] <= Last(l) + 1
    BY <1>1, TypeAt DEF Bounds
  <2>2. sgl[l] # 0 \/ BatchSize = 1
    BY <1>3, <2>1
  <2>3. Last(l) = First(l) /\ First(l) \in Nat
    BY <2>1, <2>2 DEF First, Last, BatchEnd
  <2>4. First(l) \in 1..amount(l)
    BY <1>1, CursorInside
  <2>5. e \in Contract!PendingIn(l, phase[l])
    BY <2>3, <2>4, CurrentTurn
  <2>6. tx[l].staged \cup tx[l].missed = {executables(l)[i] : i \in First(l)..(pos[l] - 1)}
    BY <1>1 DEF Held
  <2>7. CASE pos[l] = First(l)
    <3>1. First(l)..(pos[l] - 1) = {}
      BY <2>3, <2>7
    <3>2. tx[l].staged = {}
      BY <2>6, <3>1
    <3>3. QED
      BY <1>3, <2>5, <2>7, <3>2 DEF Final
  <2>8. CASE pos[l] = First(l) + 1
    <3>1. First(l)..(pos[l] - 1) = {First(l)} /\ ~(pos[l] <= Last(l))
      BY <2>3, <2>8
    <3>2. tx[l].staged \subseteq {e}
      BY <2>6, <3>1
    <3>3. QED
      BY <1>3, <2>5, <3>1, <3>2 DEF Final
  <2>9. QED
    BY <2>1, <2>3, <2>7, <2>8
<1>4. QED
  BY <1>2, <1>3

(* The connection failed during the call; a commit may have been applied.  *)
LostCall(l) ==
    /\ pc[l] = "insert" /\ Fault /\ After(l, FALSE) /\ Settled(l, {}, {}, Final(l))
    /\ \/ UNCHANGED <<copies, aux_lost>>
       \/ /\ Committable(tx[l].staged) /\ Apply(tx[l].staged)
          /\ aux_lost' = aux_lost + 1
    /\ UNCHANGED <<dbStatus, dbGen, schemaLock>>

LEMMA DisturbMapped ==
    ASSUME RefinementInv, NEW l \in Loader, LoadStep(l), LostCall(l)
    PROVE  Mapped(l)
<1> DEFINE S == tx[l].staged
<1>0. /\ LoadInv /\ TypeOK /\ pc[l] = "insert" /\ Fault /\ After(l, FALSE)
      /\ Settled(l, {}, {}, Final(l)) /\ UNCHANGED <<dbStatus, dbGen, schemaLock>>
      /\ \/ UNCHANGED <<copies, aux_lost>>
         \/ Committable(S) /\ Apply(S) /\ aux_lost' = aux_lost + 1
  BY DEF RefinementInv, LoadInv, LostCall
<1>1. life[l] = "loading" /\ UNCHANGED <<life, data>>
  BY <1>0, StillLoading
<1>2. /\ phase[l] \in 1..3 /\ Contract!Turn(l, phase[l])
      /\ S \in SUBSET Contract!PendingIn(l, phase[l])
  BY <1>0, CurrentTurn, StagedPending
<1>3. \/ UNCHANGED <<copies, aux_lost>>
      \/ Contract!Storable(S) /\ Contract!Apply(S) /\ aux_lost' = aux_lost + 1
  BY <1>0, StagedStorable DEF Apply, Contract!Apply
<1>4. \/ UNCHANGED aux_verdict
      \/ \E q \in Contract!PendingIn(l, phase[l]) : Contract!Decide(l, {q}, "refused")
  <2>1. CASE Final(l) = {}
    BY <1>0, <2>1, SettledNothing
  <2>2. CASE Final(l) # {}
    <3>1. PICK e \in Contract!PendingIn(l, phase[l]) : Final(l) = {e}
      BY <1>0, <2>2, GivenUp
    <3>2. Settled(l, {}, {}, {e})
      BY <1>0, <3>1
    <3>3. Contract!Decide(l, {e}, "refused")
      BY <3>2, SettledRefused
    <3>4. QED
      BY <3>1, <3>3
  <2>3. QED
    BY <2>1, <2>2
<1>5. Contract!Fail
  BY <1>0 DEF Fault, Contract!Fail
<1>6. Contract!Disturb(l)
  BY <1>0, <1>1, <1>2, <1>3, <1>4, <1>5 DEF Contract!Disturb
<1>7. QED
  BY <1>6 DEF Mapped

(* The server refused the call: the query given up, if any, is at fault.   *)
RefusedCall(l) ==
    /\ pc[l] = "insert" /\ After(l, FALSE) /\ Settled(l, {}, {}, Final(l))
    /\ \/ /\ pos[l] <= Last(l)
          /\ \/ ~TxOpen(l) \/ ~Executable(executables(l)[pos[l]])
             \/ Clashes(l, executables(l)[pos[l]])
       \/ ~TxOpen(l) \/ ~Committable(tx[l].staged)
    /\ UNCHANGED <<storeVars, faults, aux_lost>>

LEMMA RefusedCause ==
    ASSUME LoadInv, NEW l \in Loader, RefusedCall(l), Founded(tx[l]), NEW e \in Final(l)
    PROVE  e \in Refused \/ Keys[e] \cap StoredKeys # {} \/ ~Defined
<1>0. LoadInv /\ pc[l] = "insert" /\ Founded(tx[l])
  BY DEF RefusedCall
<1>1. /\ pos[l] <= Last(l) => executables(l)[pos[l]] = e /\ tx[l].staged = {}
      /\ tx[l].staged \subseteq {e}
  BY <1>0, GivenUp
<1>2. CASE ~TxOpen(l)
  BY <1>0, <1>2 DEF TxOpen, Founded, Defined
<1>3. CASE pos[l] <= Last(l) /\ ~Executable(executables(l)[pos[l]])
  BY <1>1, <1>3 DEF Executable
<1>4. CASE pos[l] <= Last(l) /\ Clashes(l, executables(l)[pos[l]])
  <2>1. Keys[e] \cap Visible(l) # {} /\ tx[l].staged = {}
    BY <1>1, <1>4 DEF Clashes, KeyFree
  <2>2. Visible(l) \subseteq StoredKeys
    BY <1>0, <2>1 DEF Visible, Founded, KeysOf
  <2>3. QED
    BY <2>1, <2>2
<1>5. CASE ~Committable(tx[l].staged)
  <2>1. KeysOf(tx[l].staged) \subseteq Keys[e]
    BY <1>1 DEF KeysOf
  <2>2. QED
    BY <1>5, <2>1 DEF Committable
<1>6. QED
  BY <1>2, <1>3, <1>4, <1>5 DEF RefusedCall

LEMMA RefuseMapped ==
    ASSUME RefinementInv, NEW l \in Loader, LoadStep(l), RefusedCall(l)
    PROVE  Mapped(l)
<1>0. /\ LoadInv /\ TypeOK /\ pc[l] = "insert" /\ After(l, FALSE) /\ Founded(tx[l])
      /\ Settled(l, {}, {}, Final(l)) /\ UNCHANGED <<storeVars, faults, aux_lost>>
  BY DEF RefinementInv, LoadInv, TxInv, RefusedCall
<1>1. life[l] = "loading" /\ UNCHANGED <<life, data>>
  BY <1>0, StillLoading
<1>2. CASE Final(l) = {}
  <2>1. UNCHANGED aux_verdict
    BY <1>0, <1>2, SettledNothing
  <2>2. QED
    BY <1>0, <1>1, <2>1 DEF Mapped, Contract!contractVars, storeVars
<1>3. CASE Final(l) # {}
  <2>1. PICK e \in Contract!PendingIn(l, phase[l]) : Final(l) = {e}
    BY <1>0, <1>3, GivenUp
  <2>2. phase[l] \in 1..3 /\ Contract!Turn(l, phase[l])
    BY <1>0, CurrentTurn
  <2>3. Settled(l, {}, {}, {e})
    BY <1>0, <2>1
  <2>4. Contract!Decide(l, {e}, "refused")
    BY <2>3, SettledRefused
  <2>5. e \in Refused \/ Keys[e] \cap StoredKeys # {} \/ ~Defined
    BY <1>0, <2>1, RefusedCause
  <2>6. Contract!Refuse(l)
    BY <1>0, <1>1, <2>1, <2>2, <2>4, <2>5 DEF Contract!Refuse, Contract!storeVars, storeVars,
       Contract!StoredKeys, StoredKeys, Contract!KeysOf, KeysOf, Contract!Defined, Defined
  <2>7. QED
    BY <2>6 DEF Mapped
<1>4. QED
  BY <1>2, <1>3

(* A failed call is of one of the two kinds.                               *)
LEMMA FailedCalls ==
    ASSUME NEW l \in Loader, InsertQueryRaises(l) \/ CommitRaises(l) \/ CommitAnswerLost(l)
    PROVE  LostCall(l) \/ RefusedCall(l)
<1>1. CASE InsertQueryRaises(l)
  BY <1>1 DEF InsertQueryRaises, LostCall, RefusedCall, storeVars
<1>2. CASE CommitRaises(l)
  BY <1>2 DEF CommitRaises, LostCall, RefusedCall, storeVars
<1>3. CASE CommitAnswerLost(l)
  BY <1>3 DEF CommitAnswerLost, LostCall
<1>4. QED
  BY <1>1, <1>2, <1>3

LEMMA StepMapped ==
    ASSUME RefinementInv, NEW l \in Loader, LoadStep(l)
    PROVE  Mapped(l)
<1>1. LoadInv
  BY DEF RefinementInv
<1>2. CASE InsertQueryRaises(l) \/ CommitRaises(l) \/ CommitAnswerLost(l)
  BY <1>2, FailedCalls, DisturbMapped, RefuseMapped
<1>3. QED
  BY <1>1, <1>2, QuietMapped, StartMapped, CommitMapped DEF LoadStep, Progress

LEMMA StutterMapped == UNCHANGED vars => UNCHANGED Contract!contractVars
<1> SUFFICES ASSUME UNCHANGED vars PROVE UNCHANGED Contract!contractVars
  OBVIOUS
<1>1. UNCHANGED <<dbStatus, dbGen, schemaLock, copies, pc, data, faults, aux_verdict, aux_lost>>
  BY DEF vars, storeVars, loadVars, control, aux
<1>2. life' = life
  BY <1>1 DEF life
<1>3. QED
  BY <1>1, <1>2 DEF Contract!contractVars

(* The code of a load, with its batches, its transactions, the retry of a  *)
(* failed batch query by query, several processes at work and a connection *)
(* that fails, does what LoadContract says: it deals with every query of   *)
(* its three lists once and in the order of the lists, stores only what    *)
(* can be stored, and gives up a query only for a fault of that query or   *)
(* of the connection.                                                      *)
THEOREM ImplementsContractCorrect == Spec => ImplementsContract
<1>1. Init => Contract!ContractInit
  <2> SUFFICES ASSUME Init PROVE Contract!ContractInit
    OBVIOUS
  <2>1. life = [l \in Loader |-> "waiting"]
    BY DEF Init, LoadInit, life, Running
  <2>2. QED
    BY <2>1 DEF Init, LoadInit, StoreInit, NoData, Phases, Empty, Contract!ContractInit,
       Contract!StoreInit, Contract!Empty
<1>2. RefinementInv /\ [Next]_vars => [Contract!ContractNext]_Contract!contractVars
  <2> SUFFICES ASSUME RefinementInv, [Next]_vars
               PROVE  [Contract!ContractNext]_Contract!contractVars
    OBVIOUS
  <2>1. CASE UNCHANGED vars
    BY <2>1, StutterMapped
  <2>2. ASSUME NEW l \in Loader, LoadStep(l)
        PROVE  [Contract!ContractNext]_Contract!contractVars
    <3>1. Mapped(l)
      BY <2>2, StepMapped
    <3>2. QED
      BY <3>1 DEF Mapped, Contract!ContractNext
  <2>3. QED
    BY <2>1, <2>2 DEF Next
<1>3. QED
  BY <1>1, <1>2, RefinementInvariant, PTL DEF Spec, ImplementsContract, Contract!ContractSpec
-----------------------------------------------------------------------------
(***************************************************************************)
(* The invariant.  As long as no connection fails, the verdict on a query  *)
(* is explained by the database as it is now (Justified): what is stored   *)
(* is there, what is refused has a cause, and what finds no match is not   *)
(* loadable.  The last rests on Snapshot: a transaction of a later list    *)
(* sees everything loadable of the earlier ones.                           *)
(***************************************************************************)
IsLoadable(d, q) == q \in Entities(d) \cup Relations(d) \cup Embedded(d)

Justified(l) == \A q \in Query :
    /\ aux_verdict[l][q] = "stored" => Keys[q] \subseteq StoredKeys
    /\ aux_verdict[l][q] = "refused" => q \in Refused \/ Keys[q] \cap StoredKeys # {}
    /\ aux_verdict[l][q] = "unmatched" \/ q \in tx[l].missed => ~IsLoadable(data[l], q)

(* The keys a query of list p may refer to.                                *)
Base(d, p) == IF p = 1 THEN {}
              ELSE IF p = 2 THEN KeysOf(Entities(d))
              ELSE KeysOf(Entities(d) \cup Relations(d))

Snapshot(l) == pc[l] = "insert" => Base(data[l], phase[l]) \subseteq tx[l].ids

OutcomeInv ==
    /\ RefinementInv
    /\ dbStatus = "ready"
    /\ \A l \in Loader : Undisturbed(l) => Justified(l) /\ Snapshot(l)

(* A loadable query belongs to the list it is in, and refers to its base.  *)
LEMMA LoadableItem ==
    ASSUME NEW d \in Bundles \cup {NoData}, NEW p \in Phases, NEW q \in Items(d, p),
           IsLoadable(d, q)
    PROVE  /\ q \notin Refused /\ Unrivalled(q)
           /\ Needs[q] \subseteq Base(d, p)
           /\ p = 1 => q \in Entities(d)
           /\ p = 2 => q \in Relations(d)
           /\ p = 3 => q \in Embedded(d)
<1>1. \A r \in Phases : q \in Items(d, r) => r = p
  BY Distinct DEF Items
<1>2. q \notin Refused /\ Unrivalled(q)
  BY DEF IsLoadable, Entities, Relations, Embedded, Loadable
<1>3. /\ q \in Entities(d) => p = 1 /\ Needs[q] \subseteq {}
      /\ q \in Relations(d) => p = 2 /\ Needs[q] \subseteq KeysOf(Entities(d))
      /\ q \in Embedded(d) => p = 3 /\ Needs[q] \subseteq KeysOf(Entities(d) \cup Relations(d))
  BY <1>1 DEF Entities, Relations, Embedded, Loadable, Phases
<1>4. QED
  BY <1>2, <1>3 DEF IsLoadable, Base

(* A query that was dealt with and is loadable has its keys stored.        *)
LEMMA SettledIsStored ==
    ASSUME TypeOK, NEW l \in Loader, Justified(l), NEW q \in Query,
           ~Pending(l, q), IsLoadable(data[l], q)
    PROVE  Keys[q] \subseteq StoredKeys /\ (Keys[q] = {} => aux_verdict[l][q] = "stored")
<1>1. aux_verdict[l][q] \in {"stored", "refused"}
  BY TypeAt DEF Pending, Verdict, Justified
<1>2. q \notin Refused /\ Unrivalled(q)
  BY DEF IsLoadable, Entities, Relations, Embedded, Loadable
<1>3. CASE aux_verdict[l][q] = "stored"
  BY <1>3 DEF Justified
<1>4. CASE aux_verdict[l][q] = "refused"
  <2>1. Keys[q] \cap StoredKeys # {}
    BY <1>2, <1>4 DEF Justified
  <2>2. PICK r \in Query : copies[r] > 0 /\ Keys[r] \cap Keys[q] # {}
    BY <2>1 DEF StoredKeys, KeysOf
  <2>3. Keys[r] = Keys[q]
    BY <1>2, <2>2 DEF Unrivalled
  <2>4. QED
    BY <2>1, <2>2, <2>3 DEF StoredKeys, KeysOf
<1>5. QED
  BY <1>1, <1>3, <1>4

(* When a list is begun, everything loadable of the earlier ones is there. *)
LEMMA BaseStored ==
    ASSUME LoadInv, NEW l \in Loader, Justified(l)
    PROVE  Base(data[l], phase[l]) \subseteq StoredKeys
<1>1. /\ TypeOK /\ Ledger(l) /\ data[l] \in Bundle /\ phase[l] \in Phases
  BY TypeAt DEF LoadInv
<1>2. ASSUME NEW p \in Phases, p < phase[l], NEW q \in Items(data[l], p)
      PROVE  q \in Query /\ ~Pending(l, q)
  <2>1. PICK i \in 1..Len(data[l][p]) : q = data[l][p][i]
    BY DEF Items
  <2>2. data[l][p] \in Seq(Query)
    BY <1>1 DEF Bundle
  <2>3. ~(p > phase[l]) /\ p # phase[l]
    BY <1>1, <1>2 DEF Phases
  <2>4. QED
    BY <1>1, <2>1, <2>2, <2>3 DEF Ledger
<1>3. ASSUME NEW p \in Phases, p < phase[l], NEW q \in Items(data[l], p),
             IsLoadable(data[l], q)
      PROVE  Keys[q] \subseteq StoredKeys
  BY <1>1, <1>2, <1>3, SettledIsStored
<1>4. phase[l] # 1 => KeysOf(Entities(data[l])) \subseteq StoredKeys
  <2>1. 1 \in Phases /\ (phase[l] # 1 => 1 < phase[l])
    BY <1>1 DEF Phases
  <2>2. \A q \in Entities(data[l]) : q \in Items(data[l], 1) /\ IsLoadable(data[l], q)
    BY DEF Entities, Loadable, IsLoadable
  <2>3. QED
    BY <1>3, <2>1, <2>2 DEF KeysOf
<1>5. phase[l] = 3 => KeysOf(Relations(data[l])) \subseteq StoredKeys
  <2>1. 2 \in Phases /\ (phase[l] = 3 => 2 < phase[l])
    BY <1>1 DEF Phases
  <2>2. \A q \in Relations(data[l]) : q \in Items(data[l], 2) /\ IsLoadable(data[l], q)
    BY DEF Relations, Loadable, IsLoadable
  <2>3. QED
    BY <1>3, <2>1, <2>2 DEF KeysOf
<1>6. KeysOf(Entities(data[l]) \cup Relations(data[l]))
          = KeysOf(Entities(data[l])) \cup KeysOf(Relations(data[l]))
  BY DEF KeysOf
<1>7. CASE phase[l] = 1
  BY <1>7 DEF Base
<1>8. CASE phase[l] = 2
  BY <1>4, <1>8 DEF Base
<1>9. CASE phase[l] = 3
  BY <1>4, <1>5, <1>6, <1>9 DEF Base
<1>10. QED
  BY <1>1, <1>7, <1>8, <1>9 DEF Phases

(***************************************************************************)
(* The invariant is preserved.                                             *)
(***************************************************************************)
LEMMA UndisturbedBefore ==
    ASSUME TypeOK, NEW l \in Loader, LoadStep(l), NEW k \in Loader, Undisturbed(k)'
    PROVE  /\ faults = 0 /\ faults' = 0
           /\ Undisturbed(k) \/ (k = l /\ \E d \in Bundles : StartLoad(l, d))
<1>1. faults' = 0 /\ UNCHANGED <<dbStatus, dbGen>> /\ DatabaseExists' /\ dbGen \in aux_home'[k]
  BY StoreGrows DEF Undisturbed
<1>2. faults' = faults \/ faults' = faults + 1
  BY DEF LoadStep, Progress, StartLoad, OpenHandler, OpenHandlerRaises, EndPhase, CheckDatabase,
     CheckDatabaseRaises, OpenTransaction, OpenTransactionRaises, InsertQuery,
     InsertQueryRaises, Commit, CommitRaises, CommitAnswerLost, Crash, Fault
<1>3. faults = 0
  BY <1>1, <1>2 DEF TypeOK
<1>4. UNCHANGED aux_home \/ \E d \in Bundles : StartLoad(l, d)
  BY DEF LoadStep, Progress, OpenHandler, OpenHandlerRaises, EndPhase, CheckDatabase,
     CheckDatabaseRaises, OpenTransaction, OpenTransactionRaises, InsertQuery,
     InsertQueryRaises, Commit, CommitRaises, CommitAnswerLost, Crash, aux
<1>5. aux_home'[k] = aux_home[k] \/ (k = l /\ \E d \in Bundles : StartLoad(l, d))
  BY <1>4 DEF StartLoad, TypeOK
<1>6. QED
  BY <1>1, <1>3, <1>5 DEF Undisturbed, DatabaseExists

(* What a step can make of the verdict on a query.                         *)
LEMMA VerdictStep ==
    ASSUME LoadInv, Defined, NEW l \in Loader, LoadStep(l), faults' = 0,
           pc[l] = "insert" => Founded(tx[l]), NEW q \in Query
    PROVE  \/ aux_verdict'[l][q] = aux_verdict[l][q]
           \/ aux_verdict'[l][q] = "stored" /\ q \in tx[l].staged /\ Apply(tx[l].staged)
           \/ aux_verdict'[l][q] = "unmatched" /\ q \in tx[l].missed
           \/ /\ aux_verdict'[l][q] = "refused"
              /\ q \in Refused \/ Keys[q] \cap StoredKeys # {}
<1>0. TypeOK /\ aux_verdict \in [Loader -> [Query -> Verdict]] /\ faults \in Nat
  BY DEF LoadInv, TypeOK
<1>1. CASE Commit(l)
  BY <1>0, <1>1 DEF Commit, Settled
<1>2. CASE InsertQueryRaises(l) \/ CommitRaises(l) \/ CommitAnswerLost(l)
  <2>1. RefusedCall(l)
    <3>1. ~Fault
      BY <1>0 DEF Fault
    <3>2. QED
      BY <1>2, <3>1, FailedCalls DEF LostCall
  <2>2. aux_verdict'[l][q] = IF q \in Final(l) THEN "refused" ELSE aux_verdict[l][q]
    BY <1>0, <2>1 DEF RefusedCall, Settled
  <2>3. q \in Final(l) => q \in Refused \/ Keys[q] \cap StoredKeys # {}
    BY <2>1, RefusedCause DEF RefusedCall
  <2>4. QED
    BY <2>2, <2>3
<1>3. CASE ~Commit(l) /\ ~(InsertQueryRaises(l) \/ CommitRaises(l) \/ CommitAnswerLost(l))
  BY <1>3 DEF LoadStep, Progress, StartLoad, OpenHandler, OpenHandlerRaises, EndPhase,
     CheckDatabase, CheckDatabaseRaises, OpenTransaction, OpenTransactionRaises, InsertQuery,
     Crash, aux
<1>4. QED
  BY <1>1, <1>2, <1>3

(* A query that a transaction finds unmatched is not loadable.             *)
LEMMA MissedStep ==
    ASSUME LoadInv, NEW l \in Loader, LoadStep(l), Snapshot(l),
           NEW q \in tx'[l].missed, q \notin tx[l].missed
    PROVE  ~IsLoadable(data[l], q)
<1>0. /\ TypeOK /\ tx \in [Loader -> Transaction] /\ Bounds(l) /\ phase[l] \in Phases
      /\ tx[l] \in Transaction
  BY TypeAt DEF LoadInv, TypeOK
<1>1. InsertQuery(l)
  BY <1>0 DEF LoadStep, Progress, StartLoad, OpenHandler, OpenHandlerRaises, EndPhase,
     CheckDatabase, CheckDatabaseRaises, OpenTransaction, OpenTransactionRaises,
     InsertQueryRaises, Commit, CommitRaises, CommitAnswerLost, Crash, After, NoTx
<1>2. pc[l] = "insert" /\ pos[l] <= Last(l)
  BY <1>1 DEF InsertQuery
<1>3. q = executables(l)[pos[l]] /\ ~Matched(q, Visible(l))
  <2>1. CASE Matched(executables(l)[pos[l]], Visible(l))
    <3>1. tx'[l].missed = tx[l].missed
      BY <1>0, <1>1, <2>1 DEF InsertQuery, Transaction
    <3>2. QED
      BY <3>1
  <2>2. CASE ~Matched(executables(l)[pos[l]], Visible(l))
    <3>1. tx'[l].missed = tx[l].missed \cup {executables(l)[pos[l]]}
      BY <1>0, <1>1, <2>2 DEF InsertQuery, Transaction
    <3>2. QED
      BY <2>2, <3>1
  <2>3. QED
    BY <2>1, <2>2
<1>4. q \in Items(data[l], phase[l])
  <2>1. pos[l] \in 1..amount(l)
    BY <1>0, <1>2, CursorInside
  <2>2. QED
    BY <1>3, <2>1 DEF Items, executables, amount
<1>5. Base(data[l], phase[l]) \subseteq Visible(l)
  BY <1>2 DEF Snapshot, Visible
<1>6. QED
  BY <1>0, <1>3, <1>4, <1>5, LoadableItem DEF Bounds, Matched

LEMMA OwnOutcome ==
    ASSUME LoadInv, Defined, NEW l \in Loader, LoadStep(l), faults' = 0,
           pc[l] = "insert" => Founded(tx[l]),
           Justified(l), Snapshot(l), \A d \in Bundles : ~StartLoad(l, d)
    PROVE  Justified(l)' /\ Snapshot(l)'
<1>0. /\ LoadInv /\ TypeOK /\ StoredKeys \subseteq StoredKeys'
      /\ copies \in [Query -> Nat] /\ tx[l] \in Transaction
  BY StoreGrows, TypeAt DEF LoadInv, TypeOK, StoreTypeOK
<1>1. UNCHANGED data
  BY DEF LoadStep, Progress, OpenHandler, OpenHandlerRaises, EndPhase, CheckDatabase,
     CheckDatabaseRaises, OpenTransaction, OpenTransactionRaises, InsertQuery,
     InsertQueryRaises, Commit, CommitRaises, CommitAnswerLost, Crash, After
<1>2. ASSUME NEW q \in Query
      PROVE  /\ aux_verdict'[l][q] = "stored" => Keys[q] \subseteq StoredKeys'
             /\ aux_verdict'[l][q] = "refused" =>
                    q \in Refused \/ Keys[q] \cap StoredKeys' # {}
             /\ aux_verdict'[l][q] = "unmatched" => ~IsLoadable(data[l], q)
  <2>1. q \in tx[l].staged /\ Apply(tx[l].staged) => Keys[q] \subseteq StoredKeys'
    BY <1>0 DEF Apply, StoredKeys, KeysOf
  <2>2. QED
    BY <1>0, <2>1, VerdictStep DEF Justified
<1>3. \A q \in Query : q \in tx'[l].missed => ~IsLoadable(data[l], q)
  BY <1>0, MissedStep DEF Justified
<1>4. Justified(l)'
  <2>1. \A q : IsLoadable(data[l], q)' <=> IsLoadable(data[l], q)
    BY <1>1 DEF IsLoadable, Entities, Relations, Embedded, Loadable, Items, Unrivalled, KeysOf
  <2>2. QED
    BY <1>2, <1>3, <2>1 DEF Justified
<1>5. Snapshot(l)'
  <2>0. Base(data[l], phase[l])' = Base(data[l], phase'[l])
    BY <1>1 DEF Base, Entities, Relations, Loadable, Items, Unrivalled, KeysOf
  <2> SUFFICES ASSUME pc'[l] = "insert"
               PROVE  Base(data[l], phase'[l]) \subseteq tx'[l].ids
    BY <2>0 DEF Snapshot
  <2>1. pc \in [Loader -> {"idle"} \cup Running \cup Ended] /\ tx \in [Loader -> Transaction]
    BY <1>0 DEF TypeOK
  <2>2. OpenTransaction(l) \/ InsertQuery(l)
    BY <2>1 DEF LoadStep, Progress, StartLoad, OpenHandler, OpenHandlerRaises, EndPhase,
       CheckDatabase, CheckDatabaseRaises, OpenTransactionRaises, InsertQueryRaises,
       Commit, CommitRaises, CommitAnswerLost, Crash, After
  <2>3. CASE OpenTransaction(l)
    <3>1. phase' = phase /\ tx'[l].ids = StoredKeys
      BY <2>1, <2>3 DEF OpenTransaction
    <3>2. QED
      BY <1>0, <3>1, BaseStored
  <2>4. CASE InsertQuery(l)
    <3>1. phase' = phase /\ pc[l] = "insert" /\ tx'[l].ids = tx[l].ids
      BY <1>0, <2>1, <2>4 DEF InsertQuery, Transaction
    <3>2. QED
      BY <3>1 DEF Snapshot
  <2>5. QED
    BY <2>2, <2>3, <2>4
<1>6. QED
  BY <1>4, <1>5

(* What holds of a load, other loads do not disturb.                       *)
LEMMA OtherOutcome ==
    ASSUME TypeOK, NEW l \in Loader, LoadStep(l), NEW k \in Loader, k # l,
           Justified(k), Snapshot(k)
    PROVE  Justified(k)' /\ Snapshot(k)'
<1>1. StoredKeys \subseteq StoredKeys'
  BY StoreGrows
<1>2. /\ pc'[k] = pc[k] /\ data'[k] = data[k] /\ phase'[k] = phase[k]
      /\ tx'[k] = tx[k] /\ aux_verdict'[k] = aux_verdict[k]
  BY Frame DEF Local
<1>3. \A q : IsLoadable(data[k], q)' <=> IsLoadable(data[k], q)
  BY <1>2 DEF IsLoadable, Entities, Relations, Embedded, Loadable, Items, Unrivalled, KeysOf
<1>4. Base(data[k], phase[k])' = Base(data[k], phase[k])
  BY <1>2 DEF Base, Entities, Relations, Loadable, Items, Unrivalled, KeysOf
<1>5. Justified(k)'
  BY <1>1, <1>2, <1>3 DEF Justified
<1>6. Snapshot(k)'
  BY <1>2, <1>4 DEF Snapshot
<1>7. QED
  BY <1>5, <1>6

LEMMA StartOutcome ==
    ASSUME LoadInv, NEW l \in Loader, NEW d \in Bundles, StartLoad(l, d)
    PROVE  Justified(l)' /\ Snapshot(l)'
<1>1. /\ pc \in [Loader -> {"idle"} \cup Running \cup Ended] /\ Bounds(l) /\ Held(l)
  BY DEF LoadInv, TypeOK
<1>2. pc[l] = "idle" /\ pc'[l] = "start" /\ UNCHANGED <<tx, aux_verdict>>
  BY <1>1 DEF StartLoad
<1>3. tx'[l].missed = {} /\ \A q \in Query : aux_verdict'[l][q] = "pending"
  BY <1>1, <1>2 DEF Bounds, Held, Pending
<1>4. QED
  BY <1>2, <1>3 DEF Justified, Snapshot

LEMMA InitOutcome == Init => OutcomeInv
<1> SUFFICES ASSUME Init PROVE OutcomeInv
  OBVIOUS
<1>1. LoadInv /\ TxInv /\ dbStatus = "ready"
  <2>1. LoadInv
    BY StoreInitType, InitInv DEF Init
  <2>2. QED
    BY <2>1 DEF Init, LoadInit, StoreInit, TxInv
<1>2. ASSUME NEW l \in Loader
      PROVE  ~Undisturbed(l)
  BY DEF Init, LoadInit, Undisturbed
<1>3. QED
  BY <1>1, <1>2 DEF OutcomeInv, RefinementInv

LEMMA NextOutcome == OutcomeInv /\ [Next]_vars => OutcomeInv'
<1> SUFFICES ASSUME OutcomeInv, [Next]_vars PROVE OutcomeInv'
  OBVIOUS
<1>0. RefinementInv /\ LoadInv /\ TypeOK /\ dbStatus = "ready"
  BY DEF OutcomeInv, RefinementInv, LoadInv
<1>1. RefinementInv'
  BY <1>0, NextInv, TxInvNext DEF RefinementInv
<1>2. CASE UNCHANGED vars
  <2>1. UNCHANGED <<dbStatus, dbGen, copies, pc, data, phase, tx, faults, aux_verdict, aux_home>>
    BY <1>2 DEF vars, storeVars, loadVars, control, aux
  <2>2. ASSUME NEW k \in Loader, Undisturbed(k)'
        PROVE  Justified(k)' /\ Snapshot(k)'
    <3>1. Justified(k) /\ Snapshot(k)
      BY <2>1, <2>2 DEF Undisturbed, DatabaseExists, OutcomeInv
    <3>2. \A q : IsLoadable(data[k], q)' <=> IsLoadable(data[k], q)
      BY <2>1 DEF IsLoadable, Entities, Relations, Embedded, Loadable, Items, Unrivalled, KeysOf
    <3>3. Base(data[k], phase[k])' = Base(data[k], phase[k])
      BY <2>1 DEF Base, Entities, Relations, Loadable, Items, Unrivalled, KeysOf
    <3>4. StoredKeys' = StoredKeys
      BY <2>1 DEF StoredKeys, KeysOf
    <3>5. QED
      BY <2>1, <3>1, <3>2, <3>3, <3>4 DEF Justified, Snapshot
  <2>3. QED
    BY <1>0, <1>1, <2>1, <2>2 DEF OutcomeInv
<1>3. ASSUME NEW l \in Loader, LoadStep(l)
      PROVE  OutcomeInv'
  <2>1. UNCHANGED dbStatus
    BY <1>0, <1>3, StoreGrows
  <2>2. ASSUME NEW k \in Loader, Undisturbed(k)'
        PROVE  Justified(k)' /\ Snapshot(k)'
    <3>1. faults' = 0 /\ (Undisturbed(k) \/ (k = l /\ \E d \in Bundles : StartLoad(l, d)))
      BY <1>0, <1>3, <2>2, UndisturbedBefore
    <3>2. CASE k = l /\ \E d \in Bundles : StartLoad(l, d)
      BY <1>0, <3>2, StartOutcome
    <3>3. CASE ~(k = l /\ \E d \in Bundles : StartLoad(l, d))
      <4>1. Justified(k) /\ Snapshot(k)
        BY <3>1, <3>3 DEF OutcomeInv
      <4>2. Defined /\ (pc[l] = "insert" => Founded(tx[l]))
        BY <1>0 DEF Defined, RefinementInv, TxInv
      <4>3. QED
        BY <1>0, <1>3, <3>1, <3>3, <4>1, <4>2, OwnOutcome, OtherOutcome
    <3>4. QED
      BY <3>2, <3>3
  <2>3. QED
    BY <1>0, <1>1, <2>1, <2>2 DEF OutcomeInv
<1>4. QED
  BY <1>2, <1>3 DEF Next

LEMMA OutcomeInvariant == Spec => []OutcomeInv
BY InitOutcome, NextOutcome, PTL DEF Spec

(* A query is skipped for its own fault only, whatever else is in its batch *)
(* and whatever other processes load: it is malformed, or its object is    *)
(* stored already.                                                         *)
THEOREM RefusedForCauseCorrect == Spec => []RefusedForCause
<1>1. OutcomeInv => RefusedForCause
  BY DEF OutcomeInv, Justified, RefusedForCause
<1>2. QED
  BY <1>1, OutcomeInvariant, PTL

(* What a load that ends has dealt with is stored, if its verdicts are     *)
(* justified.                                                              *)
LEMMA DoneIsComplete ==
    ASSUME LoadInv, NEW l \in Loader, Justified(l), pc[l] = "done"
    PROVE  /\ KeysOf(Entities(data[l]) \cup Relations(data[l])) \subseteq StoredKeys
           /\ \A q \in Embedded(data[l]) : Keys[q] = {} => aux_verdict[l][q] = "stored"
<1>1. /\ TypeOK /\ Bounds(l) /\ Ledger(l)
      /\ data[l] \in Bundle /\ phase[l] = 3 /\ amount(l) < lo[l]
  BY TypeAt DEF LoadInv, Bounds
<1>2. KeysOf(Entities(data[l]) \cup Relations(data[l])) \subseteq StoredKeys
  BY <1>1, BaseStored DEF Base
<1>3. ASSUME NEW q \in Embedded(data[l]), Keys[q] = {}
      PROVE  aux_verdict[l][q] = "stored"
  <2>1. PICK i \in 1..Len(data[l][3]) : q = data[l][3][i]
    BY DEF Embedded, Loadable, Items
  <2>2. 3 \in Phases /\ q \in Query
    <3>1. 3 \in Phases
      BY DEF Phases
    <3>2. data[l][3] \in Seq(Query)
      BY <1>1, <3>1 DEF Bundle
    <3>3. QED
      BY <2>1, <3>1, <3>2
  <2>3. First(l) = lo[l]
    BY <1>1, TypeAt DEF First, Bounds, BatchEnd
  <2>4. ~(i >= First(l))
    BY <1>1, <2>1, <2>3, TypeAt DEF amount, executables
  <2>5. ~Pending(l, q)
    BY <1>1, <2>1, <2>2, <2>4 DEF Ledger
  <2>6. QED
    BY <1>1, <1>3, <2>2, <2>5, SettledIsStored DEF IsLoadable
<1>4. QED
  BY <1>2, <1>3

(* A load that ends normally on the database it began with, and with no    *)
(* failure of the connection, has stored everything that can be stored of  *)
(* its bundle: the entities, then the relationship objects, then the       *)
(* embedded relations whose ends are among them.                           *)
THEOREM LoadCompleteCorrect == Spec => []LoadComplete
<1>1. OutcomeInv => LoadComplete
  BY DoneIsComplete DEF OutcomeInv, RefinementInv, LoadComplete
<1>2. QED
  BY <1>1, OutcomeInvariant, PTL

(***************************************************************************)
(* Copies: a query that is stored was pending, so that the load joins the  *)
(* set of those that count it as stored at the very step that adds a copy. *)
(***************************************************************************)
Counted == \A q \in Query :
    /\ copies[q] <= Cardinality(StoredBy(q)) + aux_lost
    /\ Cardinality(StoredBy(q)) <= copies[q]
CountInv == RefinementInv /\ Counted

LEMMA StoredByStep ==
    ASSUME RefinementInv, NEW l \in Loader, LoadStep(l), NEW q \in Query
    PROVE  \/ /\ StoredBy(q)' = StoredBy(q) \cup {l} /\ l \notin StoredBy(q)
              /\ copies'[q] = copies[q] + 1 /\ aux_lost' = aux_lost
           \/ /\ StoredBy(q)' = StoredBy(q)
              /\ \/ copies'[q] = copies[q] /\ aux_lost' \in {aux_lost, aux_lost + 1}
                 \/ copies'[q] = copies[q] + 1 /\ aux_lost' = aux_lost + 1
<1>0. /\ LoadInv /\ TypeOK /\ copies \in [Query -> Nat]
      /\ aux_verdict \in [Loader -> [Query -> Verdict]]
  BY DEF RefinementInv, LoadInv, TypeOK, StoreTypeOK
<1>1. \A k \in Loader : k # l => aux_verdict'[k] = aux_verdict[k]
  BY <1>0, Frame DEF Local
<1>2. ASSUME aux_verdict'[l][q] = "stored" <=> aux_verdict[l][q] = "stored"
      PROVE  StoredBy(q)' = StoredBy(q)
  <2>1. \A k \in Loader : aux_verdict'[k][q] = "stored" <=> aux_verdict[k][q] = "stored"
    BY <1>1, <1>2
  <2>2. QED
    BY <2>1 DEF StoredBy
<1>3. CASE Commit(l)
  <2> DEFINE S == tx[l].staged
  <2> DEFINE U == tx[l].missed
  <2>1. /\ S \cup U \subseteq Contract!PendingIn(l, phase[l]) /\ S \cap U = {}
        /\ aux_lost' = aux_lost
    BY <1>0, <1>3, StagedPending DEF Commit, RefinementInv, TxInv, Founded
  <2>2. /\ aux_verdict'[l][q] = IF q \in S THEN "stored"
                                ELSE IF q \in U THEN "unmatched" ELSE aux_verdict[l][q]
        /\ copies'[q] = IF q \in S THEN copies[q] + 1 ELSE copies[q]
    BY <1>0, <1>3 DEF Commit, Settled, Apply
  <2>3. q \in S \cup U => aux_verdict[l][q] = "pending"
    BY <2>1 DEF Contract!PendingIn
  <2>4. CASE q \in S
    <3>1. l \notin StoredBy(q) /\ aux_verdict'[l][q] = "stored"
      BY <2>2, <2>3, <2>4 DEF StoredBy
    <3>2. StoredBy(q)' = StoredBy(q) \cup {l}
      BY <1>1, <3>1 DEF StoredBy
    <3>3. QED
      BY <2>1, <2>2, <2>4, <3>1, <3>2
  <2>5. CASE q \notin S
    BY <1>2, <2>1, <2>2, <2>3, <2>5
  <2>6. QED
    BY <2>4, <2>5
<1>4. CASE InsertQueryRaises(l) \/ CommitRaises(l) \/ CommitAnswerLost(l)
  <2>1. LostCall(l) \/ RefusedCall(l)
    BY <1>4, FailedCalls
  <2>2. /\ Settled(l, {}, {}, Final(l)) /\ pc[l] = "insert"
        /\ \/ UNCHANGED <<copies, aux_lost>>
           \/ Apply(tx[l].staged) /\ aux_lost' = aux_lost + 1
    BY <2>1 DEF LostCall, RefusedCall, storeVars
  <2>3. q \in Final(l) => aux_verdict[l][q] = "pending"
    <3>1. Final(l) \subseteq Contract!PendingIn(l, phase[l])
      BY <1>0, <2>2, GivenUp
    <3>2. QED
      BY <3>1 DEF Contract!PendingIn
  <2>4. aux_verdict'[l][q] = IF q \in Final(l) THEN "refused" ELSE aux_verdict[l][q]
    BY <1>0, <2>2 DEF Settled
  <2>5. StoredBy(q)' = StoredBy(q)
    BY <1>2, <2>3, <2>4
  <2>6. \/ copies'[q] = copies[q] /\ aux_lost' \in {aux_lost, aux_lost + 1}
        \/ copies'[q] = copies[q] + 1 /\ aux_lost' = aux_lost + 1
    BY <1>0, <2>2 DEF Apply
  <2>7. QED
    BY <2>5, <2>6
<1>5. CASE ~Commit(l) /\ ~(InsertQueryRaises(l) \/ CommitRaises(l) \/ CommitAnswerLost(l))
  <2>1. UNCHANGED <<copies, aux_lost, aux_verdict>>
    BY <1>5 DEF LoadStep, Progress, StartLoad, OpenHandler, OpenHandlerRaises, EndPhase,
       CheckDatabase, CheckDatabaseRaises, OpenTransaction, OpenTransactionRaises, InsertQuery,
       Crash, aux, storeVars
  <2>2. QED
    BY <1>2, <2>1
<1>6. QED
  BY <1>3, <1>4, <1>5

LEMMA StoredByFinite ==
    ASSUME NEW q
    PROVE  IsFiniteSet(StoredBy(q)) /\ Cardinality(StoredBy(q)) \in Nat
<1>1. StoredBy(q) \in SUBSET Loader
  BY DEF StoredBy
<1>2. IsFiniteSet(StoredBy(q))
  BY <1>1, FS_Subset, LoadAssumption
<1>3. QED
  BY <1>2, FS_CardinalityType

LEMMA NextCounted == CountInv /\ [Next]_vars => Counted'
<1> SUFFICES ASSUME CountInv, [Next]_vars PROVE Counted'
  OBVIOUS
<1>0. RefinementInv /\ copies \in [Query -> Nat] /\ aux_lost \in Nat /\ Counted
  BY DEF CountInv, RefinementInv, LoadInv, TypeOK, StoreTypeOK
<1>1. CASE UNCHANGED vars
  <2>1. UNCHANGED <<copies, aux_lost, aux_verdict>>
    BY <1>1 DEF vars, storeVars, loadVars, aux
  <2>2. QED
    BY <1>0, <2>1 DEF Counted, StoredBy
<1>2. ASSUME NEW l \in Loader, LoadStep(l), NEW q \in Query
      PROVE  /\ copies'[q] <= Cardinality(StoredBy(q)') + aux_lost'
             /\ Cardinality(StoredBy(q)') <= copies'[q]
  <2>1. /\ copies[q] <= Cardinality(StoredBy(q)) + aux_lost
        /\ Cardinality(StoredBy(q)) <= copies[q]
        /\ copies[q] \in Nat /\ Cardinality(StoredBy(q)) \in Nat
        /\ IsFiniteSet(StoredBy(q))
    BY <1>0, StoredByFinite DEF Counted
  <2>2. CASE /\ StoredBy(q)' = StoredBy(q) \cup {l} /\ l \notin StoredBy(q)
             /\ copies'[q] = copies[q] + 1 /\ aux_lost' = aux_lost
    <3>1. Cardinality(StoredBy(q)') = Cardinality(StoredBy(q)) + 1
      BY <2>1, <2>2, FS_AddElement
    <3>2. QED
      BY <1>0, <2>1, <2>2, <3>1
  <2>3. CASE /\ StoredBy(q)' = StoredBy(q)
             /\ \/ copies'[q] = copies[q] /\ aux_lost' \in {aux_lost, aux_lost + 1}
                \/ copies'[q] = copies[q] + 1 /\ aux_lost' = aux_lost + 1
    BY <1>0, <2>1, <2>3
  <2>4. QED
    BY <1>0, <1>2, <2>2, <2>3, StoredByStep
<1>3. QED
  BY <1>1, <1>2 DEF Next, Counted

(* However often a batch is rolled back and its queries sent again, by any *)
(* number of processes: what a query inserts is in the database as often   *)
(* as loads count it as stored; only a commit reported as failed adds one. *)
THEOREM CopiesAccountedCorrect == Spec => []CopiesAccounted
<1>1. Init => CountInv
  <2> SUFFICES ASSUME Init PROVE CountInv
    OBVIOUS
  <2>1. \A q \in Query : StoredBy(q) = {} /\ copies[q] = 0 /\ aux_lost = 0
    BY DEF Init, LoadInit, StoreInit, StoredBy, Empty
  <2>2. Counted
    BY <2>1, FS_EmptySet DEF Counted
  <2>3. QED
    BY <2>2, InitOutcome DEF OutcomeInv, CountInv
<1>2. CountInv /\ [Next]_vars => CountInv'
  BY NextInv, TxInvNext, NextCounted DEF CountInv, RefinementInv
<1>3. CountInv => CopiesAccounted
  <2> SUFFICES ASSUME CountInv, NEW q \in Query
               PROVE  /\ copies[q] <= Cardinality(StoredBy(q)) + aux_lost
                      /\ dbGen = 0 /\ DatabaseExists => copies[q] >= Cardinality(StoredBy(q))
    BY DEF CopiesAccounted
  <2>1. copies[q] \in Nat /\ Cardinality(StoredBy(q)) \in Nat
    BY StoredByFinite DEF CountInv, RefinementInv, LoadInv, TypeOK, StoreTypeOK
  <2>2. QED
    BY <2>1 DEF CountInv, Counted
<1>4. QED
  BY <1>1, <1>2, <1>3, PTL DEF Spec
----------------------------------------------------------------------------
(***************************************************************************)
(* A load that is alone, over a connection that does not fail, is          *)
(* sequential: its batches, roll-backs and retries leave the database as   *)
(* if every query were executed on its own, in the order of the lists.     *)
(***************************************************************************)

(* The keys of what the queries before query i of list p have stored.      *)
Precedes(r, j, p, i) == r < p \/ (r = p /\ j < i)
KeysBefore(l, p, i) ==
    {key \in KeyValue : \E r \in Phases : \E j \in 1..Len(data[l][r]) :
        Precedes(r, j, p, i) /\ copies[data[l][r][j]] > 0 /\ key \in Keys[data[l][r][j]]}
Insertable(q, keys) == q \notin Refused /\ Needs[q] \subseteq keys /\ Keys[q] \cap keys = {}
InTurn(l, p, i) ==
    copies[data[l][p][i]] = IF Insertable(data[l][p][i], KeysBefore(l, p, i)) THEN 1 ELSE 0

(* The same, inside the open transaction.                                  *)
StagedBefore(l, i) ==
    {executables(l)[j] : j \in {k \in First(l)..(i - 1) : executables(l)[k] \in tx[l].staged}}
StagedInTurn(l) ==
    /\ tx[l].ids = StoredKeys
    /\ \A i \in First(l)..(pos[l] - 1) :
            executables(l)[i] \in tx[l].staged <=>
                Insertable(executables(l)[i], StoredKeys \cup KeysOf(StagedBefore(l, i)))

Originates(l) == \A q \in Query : copies[q] > 0 =>
    ~Pending(l, q) /\ \E p \in Phases : \E i \in 1..Len(data[l][p]) : q = data[l][p][i]
Settling(l) == \A p \in Phases : \A i \in 1..Len(data[l][p]) :
    ~Pending(l, data[l][p][i]) => InTurn(l, p, i)

SoleInv(l) ==
    /\ RefinementInv
    /\ dbStatus = "ready"
    /\ Originates(l)
    /\ Settling(l)
    /\ pc[l] = "insert" => StagedInTurn(l)

(* What is stored was stored by queries before the one that is next.       *)
LEMMA StoredBefore ==
    ASSUME LoadInv, NEW l \in Loader, Originates(l), NEW q \in Query, copies[q] > 0
    PROVE  \E r \in Phases : \E j \in 1..Len(data[l][r]) :
                /\ q = data[l][r][j]
                /\ \A i \in Nat : i >= First(l) => Precedes(r, j, phase[l], i)
<1>1. Ledger(l) /\ phase[l] \in Phases /\ First(l) \in Nat
  BY TypeAt DEF LoadInv
<1>2. PICK r \in Phases : \E j \in 1..Len(data[l][r]) : q = data[l][r][j]
  BY DEF Originates
<1>3. PICK j \in 1..Len(data[l][r]) : q = data[l][r][j]
  BY <1>2
<1>4. ~(r > phase[l] \/ (r = phase[l] /\ j >= First(l)))
  BY <1>1, <1>3 DEF Originates, Ledger
<1>5. \A i \in Nat : i >= First(l) => Precedes(r, j, phase[l], i)
  BY <1>1, <1>4 DEF Precedes, Phases
<1>6. QED
  BY <1>3, <1>5

LEMMA AllBefore ==
    ASSUME LoadInv, NEW l \in Loader, Originates(l), NEW i \in Nat, i >= First(l),
           \A r \in Phases : \A j \in 1..Len(data[l][r]) :
                Precedes(r, j, phase[l], i) => data[l][r][j] \in Query
    PROVE  KeysBefore(l, phase[l], i) = StoredKeys
<1>1. Keys \in [Query -> SUBSET KeyValue]
  BY StoreAssumption
<1>2. KeysBefore(l, phase[l], i) \subseteq StoredKeys
  BY DEF KeysBefore, StoredKeys, KeysOf
<1>3. ASSUME NEW q \in Query, copies[q] > 0, NEW key \in Keys[q]
      PROVE  key \in KeysBefore(l, phase[l], i)
  <2>1. PICK r \in Phases : \E j \in 1..Len(data[l][r]) :
            q = data[l][r][j] /\ Precedes(r, j, phase[l], i)
    BY <1>3, StoredBefore
  <2>2. PICK j \in 1..Len(data[l][r]) : q = data[l][r][j] /\ Precedes(r, j, phase[l], i)
    BY <2>1
  <2>3. key \in KeyValue
    BY <1>1
  <2>4. QED
    BY <1>3, <2>2, <2>3 DEF KeysBefore
<1>4. StoredKeys \subseteq KeysBefore(l, phase[l], i)
  BY <1>3 DEF StoredKeys, KeysOf
<1>5. QED
  BY <1>2, <1>4

LEMMA ItemType ==
    ASSUME TypeOK, NEW l \in Loader, NEW p \in Phases, NEW i \in 1..Len(data[l][p])
    PROVE  data[l][p][i] \in Query
BY TypeAt DEF Bundle

(* A step that stores nothing and settles nothing.                         *)
LEMMA SoleQuiet ==
    ASSUME TypeOK, NEW l \in Loader, Originates(l), Settling(l),
           UNCHANGED <<copies, data, aux_verdict>>
    PROVE  Originates(l)' /\ Settling(l)'
<1>1. Originates(l)'
  BY DEF Originates, Pending
<1>2. \A p, i : KeysBefore(l, p, i)' = KeysBefore(l, p, i)
  BY DEF KeysBefore
<1>3. Settling(l)'
  BY <1>2 DEF Settling, Pending, InTurn, Insertable
<1>4. QED
  BY <1>1, <1>3

LEMMA SoleStart ==
    ASSUME LoadInv, NEW l \in Loader, Originates(l), NEW d \in Bundles, StartLoad(l, d)
    PROVE  Originates(l)' /\ Settling(l)' /\ pc'[l] # "insert"
<1>1. TypeOK /\ Bounds(l) /\ pc[l] = "idle"
  BY DEF LoadInv, StartLoad
<1>2. \A q \in Query : Pending(l, q)
  BY <1>1 DEF Bounds
<1>3. copies' = copies /\ aux_verdict' = aux_verdict /\ data'[l] = d /\ pc'[l] = "start"
  BY <1>1 DEF StartLoad, TypeOK, storeVars
<1>4. Originates(l)'
  BY <1>2, <1>3 DEF Originates, Pending
<1>5. \A p \in Phases : \A i \in 1..Len(d[p]) : d[p][i] \in Query
  BY LoadAssumption DEF Bundle
<1>6. Settling(l)'
  BY <1>2, <1>3, <1>5 DEF Settling, Pending
<1>7. QED
  BY <1>3, <1>4, <1>6

LEMMA SoleOpen ==
    ASSUME TypeOK, NEW l \in Loader, OpenTransaction(l)
    PROVE  StagedInTurn(l)'
<1>1. /\ tx'[l] = [ids |-> StoredKeys, gen |-> dbGen, staged |-> {}, missed |-> {}]
      /\ pos'[l] = First(l) /\ UNCHANGED <<copies, data, phase, lo, sgl>>
  BY DEF OpenTransaction, TypeOK, storeVars
<1>2. StoredKeys' = StoredKeys /\ First(l)' = First(l)
  BY <1>1 DEF StoredKeys, KeysOf, First
<1>3. First(l) \in Nat
  BY TypeAt
<1>4. First(l)'..(pos'[l] - 1) = {}
  BY <1>1, <1>2, <1>3
<1>5. QED
  BY <1>1, <1>2, <1>4 DEF StagedInTurn

(* The queries of a list are different.                                    *)
LEMMA OnlyOnce ==
    ASSUME LoadInv, NEW l \in Loader, NEW i \in 1..amount(l), NEW j \in 1..amount(l),
           executables(l)[i] = executables(l)[j]
    PROVE  i = j
<1>1. Bounds(l) /\ phase[l] \in Phases
  BY TypeAt DEF LoadInv
<1>2. data[l] \in Bundles \cup {NoData}
  BY <1>1 DEF Bounds
<1>3. /\ i \in 1..Len(data[l][phase[l]]) /\ j \in 1..Len(data[l][phase[l]])
      /\ data[l][phase[l]][i] = data[l][phase[l]][j]
  BY DEF amount, executables
<1>4. QED
  BY <1>1, <1>2, <1>3, Distinct

LEMMA SoleInsert ==
    ASSUME RefinementInv, NEW l \in Loader, StagedInTurn(l), InsertQuery(l)
    PROVE  StagedInTurn(l)'
<1> DEFINE E == executables(l)
<1> DEFINE q == E[pos[l]]
<1>1. /\ TypeOK /\ LoadInv /\ Held(l) /\ Bounds(l)
      /\ pc[l] = "insert" /\ pos[l] <= Last(l)
  BY DEF RefinementInv, LoadInv, InsertQuery
<1>2. /\ First(l) \in 1..amount(l) /\ pos[l] \in 1..amount(l) /\ amount(l) \in Nat
      /\ First(l) \in Nat /\ pos[l] \in Nat /\ First(l) <= pos[l]
  BY <1>1, CursorInside, TypeAt DEF Bounds
<1>3. /\ pos'[l] = pos[l] + 1 /\ UNCHANGED <<copies, data, phase, lo, sgl>>
      /\ tx'[l].ids = tx[l].ids
      /\ tx'[l].staged = tx[l].staged \cup (IF Matched(q, Visible(l)) THEN {q} ELSE {})
  <2>1. /\ pos'[l] = pos[l] + 1 /\ UNCHANGED <<copies, data, phase, lo, sgl>>
        /\ tx[l] \in Transaction
        /\ IF Matched(q, Visible(l))
           THEN tx' = [tx EXCEPT ![l].staged = tx[l].staged \cup {q}]
           ELSE tx' = [tx EXCEPT ![l].missed = tx[l].missed \cup {q}]
    BY <1>1, TypeAt DEF InsertQuery, TypeOK, storeVars
  <2>2. CASE Matched(q, Visible(l))
    BY <1>1, <2>1, <2>2 DEF TypeOK, Transaction
  <2>3. CASE ~Matched(q, Visible(l))
    <3>1. tx'[l] = [tx[l] EXCEPT !.missed = tx[l].missed \cup {q}]
      BY <1>1, <2>1, <2>3 DEF TypeOK
    <3>2. tx'[l].ids = tx[l].ids /\ tx'[l].staged = tx[l].staged
      BY <2>1, <3>1 DEF Transaction
    <3>3. QED
      BY <2>1, <2>3, <3>2
  <2>4. QED
    BY <2>1, <2>2, <2>3
<1>4. First(l)' = First(l) /\ executables(l)' = E /\ StoredKeys' = StoredKeys
  BY <1>3 DEF First, executables, StoredKeys, KeysOf
<1>5. \A k \in First(l)..(pos[l] - 1) : k \in 1..amount(l) /\ E[k] # q
  <2>1. \A k \in First(l)..(pos[l] - 1) : k \in 1..amount(l) /\ k # pos[l]
    BY <1>2
  <2>2. QED
    BY <1>1, <1>2, <2>1, OnlyOnce
<1>6. \A k \in First(l)..(pos[l] - 1) : E[k] \in tx'[l].staged <=> E[k] \in tx[l].staged
  BY <1>3, <1>5
<1>7. \A i \in First(l)..pos[l] : StagedBefore(l, i)' = StagedBefore(l, i)
  <2>1. \A i \in First(l)..pos[l] : First(l)..(i - 1) \subseteq First(l)..(pos[l] - 1)
    BY <1>2
  <2>2. TAKE i \in First(l)..pos[l]
  <2>3. \A k \in First(l)..(i - 1) : E[k] \in tx'[l].staged <=> E[k] \in tx[l].staged
    BY <1>6, <2>1
  <2>4. QED
    BY <1>4, <2>3 DEF StagedBefore
<1>8. StagedBefore(l, pos[l]) = tx[l].staged
  BY <1>1 DEF StagedBefore, Held
<1>9. q \in tx'[l].staged <=> Insertable(q, StoredKeys \cup KeysOf(tx[l].staged))
  <2>1. Visible(l) = StoredKeys \cup KeysOf(tx[l].staged)
    BY DEF Visible, StagedInTurn
  <2>2. q \notin Refused /\ (Matched(q, Visible(l)) => KeyFree(q, Visible(l)))
    BY DEF InsertQuery, Executable, Clashes
  <2>3. q \notin tx[l].staged
    BY <1>1, CursorIsNew
  <2>4. QED
    BY <1>3, <2>1, <2>2, <2>3 DEF Insertable, Matched, KeyFree
<1>10. \A i \in First(l)..(pos'[l] - 1) :
          E[i] \in tx'[l].staged <=> Insertable(E[i], StoredKeys \cup KeysOf(StagedBefore(l, i)'))
  <2>1. TAKE i \in First(l)..(pos'[l] - 1)
  <2>2. i \in First(l)..pos[l]
    BY <1>2, <1>3, <2>1
  <2>3. CASE i = pos[l]
    BY <1>7, <1>8, <1>9, <2>2, <2>3
  <2>4. CASE i # pos[l]
    <3>1. i \in First(l)..(pos[l] - 1)
      BY <1>2, <2>2, <2>4
    <3>2. E[i] \in tx[l].staged <=> Insertable(E[i], StoredKeys \cup KeysOf(StagedBefore(l, i)))
      BY <3>1 DEF StagedInTurn
    <3>3. QED
      BY <1>6, <1>7, <2>2, <3>1, <3>2
  <2>5. QED
    BY <2>3, <2>4
<1>11. StagedInTurn(l)' <=>
          /\ tx'[l].ids = StoredKeys'
          /\ \A i \in First(l)'..(pos'[l] - 1) :
               executables(l)'[i] \in tx'[l].staged <=>
                  Insertable(executables(l)'[i], StoredKeys' \cup KeysOf(StagedBefore(l, i)'))
  BY DEF StagedInTurn, Insertable, KeysOf
<1>12. tx'[l].ids = StoredKeys'
  BY <1>3, <1>4 DEF StagedInTurn
<1>13. QED
  BY <1>4, <1>10, <1>11, <1>12

(* A call that failed settles at most one query, which is not insertable.  *)
LEMMA SoleRefused ==
    ASSUME RefinementInv, dbStatus = "ready", MaxFaults = 0, NEW l \in Loader,
           Originates(l), Settling(l), StagedInTurn(l),
           InsertQueryRaises(l)
    PROVE  Originates(l)' /\ Settling(l)'
<1> DEFINE E == executables(l)
<1> DEFINE e == E[First(l)]
<1>1. /\ TypeOK /\ LoadInv /\ Ledger(l) /\ Bounds(l) /\ Founded(tx[l])
      /\ pc[l] = "insert" /\ pos[l] <= Last(l)
  BY DEF RefinementInv, LoadInv, InsertQueryRaises, TxInv
<1>2. faults \in Nat /\ ~Fault
  BY <1>1 DEF TypeOK, Fault
<1>3. TxOpen(l) /\ Defined
  BY <1>1 DEF TxOpen, Defined, Founded
<1>4. /\ After(l, FALSE) /\ Settled(l, {}, {}, Final(l)) /\ UNCHANGED storeVars
      /\ E[pos[l]] \in Refused \/ Clashes(l, E[pos[l]])
  BY <1>2, <1>3 DEF InsertQueryRaises, Executable
<1>5. copies' = copies /\ data' = data
  BY <1>4 DEF storeVars, After
<1>6. CASE Final(l) = {}
  <2>1. aux_verdict' = aux_verdict
    BY <1>1, <1>4, <1>6, SettledNothing
  <2>2. QED
    BY <1>1, <1>5, <2>1, SoleQuiet
<1>7. CASE Final(l) # {}
  <2>1. /\ Final(l) = {e} /\ E[pos[l]] = e /\ tx[l].staged = {}
        /\ e \in Contract!PendingIn(l, phase[l])
    BY <1>1, <1>7, GivenUp
  <2>2. First(l) \in 1..amount(l) /\ e \in Query /\ phase[l] \in Phases /\ First(l) \in Nat
    <3>1. First(l) \in 1..amount(l) /\ phase[l] \in Phases /\ First(l) \in Nat
      BY <1>1, CursorInside, TypeAt
    <3>2. E[pos[l]] \in Query
      BY <1>1, CursorInside
    <3>3. QED
      BY <2>1, <3>1, <3>2
  <2>3. Pending(l, e) /\ copies[e] = 0
    <3>1. Pending(l, e)
      BY <2>1 DEF Contract!PendingIn, Pending
    <3>2. copies[e] \in Nat
      BY <1>1, <2>2 DEF TypeOK, StoreTypeOK
    <3>3. QED
      BY <2>2, <3>1, <3>2 DEF Originates
  <2>5. KeysBefore(l, phase[l], First(l)) = StoredKeys
    BY <1>1, <2>2, ItemType, AllBefore
  <2>6. ~Insertable(e, StoredKeys)
    <3>1. Visible(l) = StoredKeys
      BY <2>1 DEF Visible, StagedInTurn, KeysOf
    <3>2. QED
      BY <1>4, <2>1, <3>1 DEF Clashes, Insertable, KeyFree
  <2>7. \A q \in Query : Pending(l, q)' => Pending(l, q)
    BY <1>1, <1>4, <2>1 DEF Settled, Pending, TypeOK
  <2>8. \A q \in Query : q # e => aux_verdict'[l][q] = aux_verdict[l][q]
    BY <1>1, <1>4, <2>1 DEF Settled, TypeOK
  <2>9. Originates(l)'
    BY <1>5, <2>7 DEF Originates
  <2>10. \A p \in Phases : \A i \in 1..Len(data[l][p]) : InTurn(l, p, i)' = InTurn(l, p, i)
    BY <1>5 DEF InTurn, KeysBefore
  <2>11. InTurn(l, phase[l], First(l))
    BY <2>3, <2>5, <2>6 DEF InTurn, executables
  <2>12. data[l] \in Bundles \cup {NoData}
    BY <1>1 DEF Bounds
  <2>13. ASSUME NEW p \in Phases, NEW i \in 1..Len(data[l][p]),
                aux_verdict'[l][data[l][p][i]] # "pending"
         PROVE  InTurn(l, p, i)
    <3>1. data[l][p][i] \in Query
      BY <1>1, TypeAt DEF Bundle
    <3>2. CASE data[l][p][i] # e
      <4>1. ~Pending(l, data[l][p][i])
        BY <2>8, <2>13, <3>1, <3>2 DEF Pending
      <4>2. QED
        BY <4>1 DEF Settling
    <3>3. CASE data[l][p][i] = e
      <4>1. First(l) \in 1..Len(data[l][phase[l]]) /\ data[l][phase[l]][First(l)] = e
        BY <2>2 DEF amount, executables
      <4>2. p = phase[l] /\ i = First(l)
        BY <2>2, <2>12, <3>3, <4>1, Distinct
      <4>3. QED
        BY <2>11, <4>2
    <3>4. QED
      BY <3>2, <3>3
  <2>14. Settling(l)'
    BY <1>5, <2>10, <2>13 DEF Settling, Pending
  <2>15. QED
    BY <2>9, <2>14
<1>8. QED
  BY <1>6, <1>7

(* What a commit stores and settles.                                       *)
LEMMA CommitEffect ==
    ASSUME RefinementInv, NEW l \in Loader, Originates(l), Commit(l)
    PROVE  /\ data' = data /\ pos[l] = Last(l) + 1
           /\ tx[l].staged \cup tx[l].missed = Sent(l)
           /\ \A q \in Query :
                /\ Pending(l, q)' <=> Pending(l, q) /\ q \notin Sent(l)
                /\ copies'[q] = IF q \in tx[l].staged THEN copies[q] + 1 ELSE copies[q]
           /\ \A q \in Sent(l) : q \in Query /\ Pending(l, q) /\ copies[q] = 0
<1>1. /\ TypeOK /\ LoadInv /\ Held(l) /\ Bounds(l) /\ pc[l] = "insert" /\ pos[l] > Last(l)
      /\ After(l, TRUE) /\ Settled(l, tx[l].staged, tx[l].missed, {}) /\ Apply(tx[l].staged)
  BY DEF RefinementInv, LoadInv, Commit
<1>2. pos[l] = Last(l) + 1
  <2>1. pos[l] <= Last(l) + 1 /\ pos[l] \in Nat /\ Last(l) \in Nat
    BY <1>1, TypeAt DEF Bounds
  <2>2. QED
    BY <1>1, <2>1
<1>3. tx[l].staged \cup tx[l].missed = Sent(l)
  <2>1. pos[l] - 1 = Last(l)
    BY <1>1, <1>2, TypeAt
  <2>2. QED
    BY <1>1, <2>1 DEF Held, Sent
<1>4. ASSUME NEW q \in Sent(l)
      PROVE  q \in Query /\ Pending(l, q) /\ copies[q] = 0
  <2>1. q \in Contract!PendingIn(l, phase[l])
    BY <1>1, <1>3, StagedPending
  <2>2. PICK i \in 1..Len(data[l][phase[l]]) : q = data[l][phase[l]][i]
    BY <2>1 DEF Contract!PendingIn, Contract!Elements
  <2>3. q \in Query
    BY <1>1, <2>2, ItemType, TypeAt
  <2>4. Pending(l, q)
    BY <2>1 DEF Contract!PendingIn, Pending
  <2>5. copies[q] \in Nat
    BY <1>1, <2>3 DEF TypeOK, StoreTypeOK
  <2>6. QED
    BY <2>3, <2>4, <2>5 DEF Originates
<1>5. \A q \in Query : Pending(l, q)' <=> Pending(l, q) /\ q \notin Sent(l)
  <2>1. \A q \in Query : aux_verdict'[l][q] =
            IF q \in tx[l].staged THEN "stored"
            ELSE IF q \in tx[l].missed THEN "unmatched" ELSE aux_verdict[l][q]
    BY <1>1 DEF Settled, TypeOK
  <2>2. QED
    BY <1>3, <2>1 DEF Pending
<1>6. \A q \in Query : copies'[q] = IF q \in tx[l].staged THEN copies[q] + 1 ELSE copies[q]
  BY <1>1 DEF Apply
<1>7. QED
  BY <1>1, <1>2, <1>3, <1>4, <1>5, <1>6 DEF After

(* Query k of the batch finds the keys of what was stored before the batch *)
(* and of what the batch stores before it.                                 *)
LEMMA KeysInBatch ==
    ASSUME RefinementInv, NEW l \in Loader, Originates(l), Commit(l),
           NEW k \in First(l)..Last(l)
    PROVE  KeysBefore(l, phase[l], k)' = StoredKeys \cup KeysOf(StagedBefore(l, k))
<1> DEFINE E == executables(l)
<1> DEFINE S == tx[l].staged
<1>1. /\ TypeOK /\ LoadInv /\ Held(l) /\ Bounds(l) /\ pc[l] = "insert"
      /\ phase[l] \in Phases /\ First(l) \in 1..amount(l) /\ Last(l) <= amount(l)
      /\ Last(l) \in Nat /\ First(l) \in Nat /\ amount(l) \in Nat
  BY CursorInside, TypeAt DEF RefinementInv, LoadInv, Commit
<1>2. /\ data' = data /\ phase' = phase /\ S \subseteq Sent(l)
      /\ \A q \in Query : copies'[q] = IF q \in S THEN copies[q] + 1 ELSE copies[q]
      /\ \A q \in Sent(l) : q \in Query /\ copies[q] = 0
  BY CommitEffect DEF Commit, After
<1>3. /\ Keys \in [Query -> SUBSET KeyValue] /\ copies \in [Query -> Nat]
      /\ data[l] \in Bundles \cup {NoData}
  BY <1>1, StoreAssumption DEF TypeOK, StoreTypeOK, Bounds
<1>4. ASSUME NEW r \in Phases, NEW j \in 1..Len(data[l][r]), Precedes(r, j, phase[l], k),
             copies'[data[l][r][j]] > 0, NEW key \in Keys[data[l][r][j]]
      PROVE  key \in StoredKeys \cup KeysOf(StagedBefore(l, k))
  <2> DEFINE q == data[l][r][j]
  <2>1. q \in Query
    BY <1>1, ItemType
  <2>2. CASE q \in S
    <3>1. PICK m \in First(l)..Last(l) : q = E[m]
      BY <1>2, <2>2 DEF Sent
    <3>2. m \in 1..Len(data[l][phase[l]]) /\ q = data[l][phase[l]][m]
      BY <1>1, <3>1 DEF amount, executables
    <3>3. r = phase[l] /\ j = m
      BY <1>1, <1>3, <3>2, Distinct
    <3>4. m \in First(l)..(k - 1)
      BY <1>1, <1>4, <3>1, <3>3 DEF Precedes, Phases
    <3>5. q \in StagedBefore(l, k)
      BY <2>2, <3>1, <3>4 DEF StagedBefore
    <3>6. QED
      BY <1>4, <3>5 DEF KeysOf
  <2>3. CASE q \notin S
    BY <1>2, <1>4, <2>1, <2>3 DEF StoredKeys, KeysOf
  <2>4. QED
    BY <2>2, <2>3
<1>5. ASSUME NEW q \in Query, copies[q] > 0, NEW key \in Keys[q]
      PROVE  key \in KeysBefore(l, phase[l], k)'
  <2>1. k \in Nat /\ k >= First(l)
    BY <1>1
  <2>2. PICK r \in Phases : \E j \in 1..Len(data[l][r]) :
            q = data[l][r][j] /\ Precedes(r, j, phase[l], k)
    BY <1>1, <1>5, <2>1, StoredBefore
  <2>3. PICK j \in 1..Len(data[l][r]) : q = data[l][r][j] /\ Precedes(r, j, phase[l], k)
    BY <2>2
  <2>4. copies'[q] > 0 /\ key \in KeyValue
    BY <1>2, <1>3, <1>5
  <2>5. QED
    BY <1>2, <1>5, <2>3, <2>4 DEF KeysBefore
<1>6. ASSUME NEW m \in First(l)..(k - 1), E[m] \in S, NEW key \in Keys[E[m]]
      PROVE  key \in KeysBefore(l, phase[l], k)'
  <2>1. m \in 1..Len(data[l][phase[l]]) /\ E[m] = data[l][phase[l]][m]
        /\ Precedes(phase[l], m, phase[l], k)
    BY <1>1 DEF amount, executables, Precedes
  <2>2. E[m] \in Query /\ copies[E[m]] \in Nat
    BY <1>2, <1>3, <1>6
  <2>3. copies'[E[m]] > 0 /\ key \in KeyValue
    BY <1>2, <1>3, <1>6, <2>2
  <2>4. QED
    BY <1>1, <1>2, <1>6, <2>1, <2>3 DEF KeysBefore
<1>7. KeysBefore(l, phase[l], k)' \subseteq StoredKeys \cup KeysOf(StagedBefore(l, k))
  BY <1>2, <1>4 DEF KeysBefore
<1>8. StoredKeys \subseteq KeysBefore(l, phase[l], k)'
  BY <1>5 DEF StoredKeys, KeysOf
<1>9. KeysOf(StagedBefore(l, k)) \subseteq KeysBefore(l, phase[l], k)'
  BY <1>6 DEF StagedBefore, KeysOf
<1>10. QED
  BY <1>7, <1>8, <1>9

LEMMA SoleCommit ==
    ASSUME RefinementInv, NEW l \in Loader, Originates(l), Settling(l), StagedInTurn(l),
           Commit(l)
    PROVE  Originates(l)' /\ Settling(l)'
<1> DEFINE E == executables(l)
<1> DEFINE S == tx[l].staged
<1>1. /\ TypeOK /\ LoadInv /\ Ledger(l) /\ Bounds(l) /\ pc[l] = "insert"
      /\ phase[l] \in Phases /\ First(l) \in 1..amount(l) /\ Last(l) <= amount(l)
      /\ Last(l) \in Nat /\ First(l) \in Nat /\ amount(l) \in Nat
      /\ data[l] \in Bundles \cup {NoData}
  BY CursorInside, TypeAt DEF RefinementInv, LoadInv, Commit, Bounds
<1>2. /\ data' = data /\ phase' = phase /\ S \subseteq Sent(l) /\ pos[l] = Last(l) + 1
      /\ \A q \in Query : Pending(l, q)' <=> Pending(l, q) /\ q \notin Sent(l)
      /\ \A q \in Query : copies'[q] = IF q \in S THEN copies[q] + 1 ELSE copies[q]
      /\ \A q \in Sent(l) : q \in Query /\ Pending(l, q) /\ copies[q] = 0
  BY CommitEffect DEF Commit, After
<1>3. ASSUME NEW q \in Query, copies'[q] > 0
      PROVE  ~Pending(l, q)' /\ \E p \in Phases : \E i \in 1..Len(data[l][p]) : q = data[l][p][i]
  <2>1. CASE q \in S
    <3>1. PICK m \in First(l)..Last(l) : q = E[m]
      BY <1>2, <2>1 DEF Sent
    <3>2. m \in 1..Len(data[l][phase[l]]) /\ q = data[l][phase[l]][m]
      BY <1>1, <3>1 DEF amount, executables
    <3>3. QED
      BY <1>1, <1>2, <2>1, <3>2
  <2>2. CASE q \notin S
    <3>1. copies[q] > 0
      BY <1>2, <1>3, <2>2
    <3>2. QED
      BY <1>2, <3>1 DEF Originates
  <2>3. QED
    BY <2>1, <2>2
<1>4. Originates(l)'
  BY <1>2, <1>3 DEF Originates
<1>5. ASSUME NEW p \in Phases, NEW i \in 1..Len(data[l][p]), ~Pending(l, data[l][p][i])
      PROVE  InTurn(l, p, i)'
  <2> DEFINE q == data[l][p][i]
  <2>1. q \in Query /\ q \notin Sent(l)
    BY <1>1, <1>2, <1>5, ItemType
  <2>2. copies'[q] = copies[q]
    BY <1>2, <2>1
  <2>3. ~(p > phase[l] \/ (p = phase[l] /\ i >= First(l)))
    BY <1>1, <1>5 DEF Ledger
  <2>4. ASSUME NEW r \in Phases, NEW j \in 1..Len(data[l][r]), Precedes(r, j, p, i)
        PROVE  copies'[data[l][r][j]] = copies[data[l][r][j]]
    <3>1. ~(r > phase[l] \/ (r = phase[l] /\ j >= First(l)))
      BY <1>1, <2>3, <2>4 DEF Precedes, Phases
    <3>2. ~Pending(l, data[l][r][j]) /\ data[l][r][j] \in Query
      BY <1>1, <3>1, ItemType DEF Ledger
    <3>3. QED
      BY <1>2, <3>2
  <2>5. KeysBefore(l, p, i)' = KeysBefore(l, p, i)
    BY <1>2, <2>4 DEF KeysBefore
  <2>6. InTurn(l, p, i)
    BY <1>5 DEF Settling
  <2>7. QED
    BY <1>2, <2>2, <2>5, <2>6 DEF InTurn, Insertable
<1>6. ASSUME NEW k \in First(l)..Last(l)
      PROVE  InTurn(l, phase[l], k)'
  <2>1. k \in First(l)..(pos[l] - 1)
    BY <1>1, <1>2
  <2>2. E[k] \in S <=> Insertable(E[k], StoredKeys \cup KeysOf(StagedBefore(l, k)))
    BY <2>1 DEF StagedInTurn
  <2>3. KeysBefore(l, phase[l], k)' = StoredKeys \cup KeysOf(StagedBefore(l, k))
    BY KeysInBatch
  <2>4. E[k] \in Sent(l)
    BY DEF Sent
  <2>5. copies'[E[k]] = IF E[k] \in S THEN 1 ELSE 0
    BY <1>2, <2>4
  <2>6. data'[l][phase'[l]][k] = E[k]
    BY <1>2 DEF executables
  <2>7. copies'[E[k]] = IF Insertable(E[k], KeysBefore(l, phase[l], k)') THEN 1 ELSE 0
    BY <2>2, <2>3, <2>5
  <2>8. QED
    BY <1>2, <2>6, <2>7 DEF InTurn, Insertable
<1>7. ASSUME NEW p \in Phases, NEW i \in 1..Len(data[l][p]), ~Pending(l, data[l][p][i])'
      PROVE  InTurn(l, p, i)'
  <2>1. CASE ~Pending(l, data[l][p][i])
    BY <1>5, <2>1
  <2>2. CASE Pending(l, data[l][p][i])
    <3>1. data[l][p][i] \in Query
      BY <1>1, ItemType
    <3>2. data[l][p][i] \in Sent(l)
      BY <1>2, <1>7, <2>2, <3>1
    <3>3. PICK k \in First(l)..Last(l) : data[l][p][i] = E[k]
      BY <3>2 DEF Sent
    <3>4. k \in 1..Len(data[l][phase[l]]) /\ data[l][p][i] = data[l][phase[l]][k]
      BY <1>1, <3>3 DEF amount, executables
    <3>5. p = phase[l] /\ i = k
      BY <1>1, <3>4, Distinct
    <3>6. QED
      BY <1>2, <1>6, <3>5
  <2>3. QED
    BY <2>1, <2>2
<1>8. Settling(l)'
  BY <1>2, <1>7 DEF Settling
<1>9. QED
  BY <1>4, <1>8

LEMMA SoleStep ==
    ASSUME MaxFaults = 0, NEW l \in Loader, SoleInv(l), LoadStep(l)
    PROVE  Originates(l)' /\ Settling(l)' /\ (pc'[l] = "insert" => StagedInTurn(l)')
<1>1. /\ TypeOK /\ LoadInv /\ RefinementInv /\ Bounds(l) /\ Held(l) /\ dbStatus = "ready"
      /\ Originates(l) /\ Settling(l) /\ (pc[l] = "insert" => StagedInTurn(l))
  BY DEF SoleInv, RefinementInv, LoadInv
<1>2. pc \in [Loader -> {"idle"} \cup Running \cup Ended] /\ faults \in Nat
  BY <1>1 DEF TypeOK
<1>3. ~Fault
  BY <1>2 DEF Fault
<1>4. ASSUME NEW d \in Bundles, StartLoad(l, d)
      PROVE  Originates(l)' /\ Settling(l)' /\ (pc'[l] = "insert" => StagedInTurn(l)')
  BY <1>1, <1>4, SoleStart
<1>5. CASE \/ OpenHandler(l) \/ EndPhase(l) \/ CheckDatabase(l) \/ OpenTransactionRaises(l)
           \/ OpenHandlerRaises(l) \/ CheckDatabaseRaises(l) \/ Crash(l)
  <2>1. UNCHANGED <<copies, data, aux_verdict>>
    BY <1>5 DEF OpenHandler, EndPhase, CheckDatabase, OpenTransactionRaises, OpenHandlerRaises,
       CheckDatabaseRaises, Crash, storeVars, aux
  <2>2. pc'[l] # "insert"
    BY <1>2, <1>5 DEF OpenHandler, EndPhase, CheckDatabase, OpenTransactionRaises,
       OpenHandlerRaises, CheckDatabaseRaises, Crash, Running
  <2>3. QED
    BY <1>1, <2>1, <2>2, SoleQuiet
<1>6. CASE OpenTransaction(l)
  <2>1. UNCHANGED <<copies, data, aux_verdict>>
    BY <1>6 DEF OpenTransaction, storeVars, aux
  <2>2. QED
    BY <1>1, <1>6, <2>1, SoleQuiet, SoleOpen
<1>7. CASE InsertQuery(l)
  <2>1. UNCHANGED <<copies, data, aux_verdict>> /\ pc[l] = "insert"
    BY <1>7 DEF InsertQuery, storeVars, aux
  <2>2. QED
    BY <1>1, <1>7, <2>1, SoleQuiet, SoleInsert
<1>8. CASE InsertQueryRaises(l)
  <2>1. pc[l] = "insert" /\ pc'[l] = "head"
    BY <1>2, <1>8 DEF InsertQueryRaises, After
  <2>2. QED
    BY <1>1, <1>8, <2>1, SoleRefused
<1>9. CASE Commit(l)
  <2>1. pc[l] = "insert" /\ pc'[l] = "head"
    BY <1>2, <1>9 DEF Commit, After
  <2>2. QED
    BY <1>1, <1>9, <2>1, SoleCommit
<1>10. ~CommitAnswerLost(l)
  BY <1>3 DEF CommitAnswerLost
<1>11. ~CommitRaises(l)
  <2>1. SUFFICES ASSUME CommitRaises(l) PROVE FALSE
    OBVIOUS
  <2>2. pc[l] = "insert" /\ pos[l] > Last(l) /\ (~TxOpen(l) \/ ~Committable(tx[l].staged))
    BY <1>3, <2>1 DEF CommitRaises
  <2>3. TxOpen(l)
    BY <1>1, <2>2 DEF RefinementInv, TxInv, Founded, TxOpen
  <2>4. PICK q \in tx[l].staged : Keys[q] \cap StoredKeys # {}
    BY <2>2, <2>3 DEF Committable, KeysOf
  <2>5. PICK i \in First(l)..(pos[l] - 1) : q = executables(l)[i]
    BY <1>1, <2>2, <2>4 DEF Held
  <2>6. Insertable(q, StoredKeys \cup KeysOf(StagedBefore(l, i)))
    BY <1>1, <2>2, <2>4, <2>5 DEF StagedInTurn
  <2>7. QED
    BY <2>4, <2>6 DEF Insertable
<1>12. QED
  BY <1>4, <1>5, <1>6, <1>7, <1>8, <1>9, <1>10, <1>11 DEF LoadStep, Progress

LEMMA SoleInitially == ASSUME Init, NEW l \in Loader PROVE SoleInv(l)
<1>1. RefinementInv /\ dbStatus = "ready"
  <2>1. LoadInv /\ dbStatus = "ready"
    BY StoreInitType, InitInv DEF Init, StoreInit
  <2>2. TxInv
    BY DEF Init, LoadInit, TxInv
  <2>3. QED
    BY <2>1, <2>2 DEF RefinementInv
<1>2. pc[l] = "idle" /\ (\A q \in Query : copies[q] = 0 /\ Pending(l, q))
      /\ data[l] = [p \in Phases |-> <<>>]
  BY DEF Init, StoreInit, LoadInit, Empty, Pending, NoData
<1>3. Originates(l)
  BY <1>2 DEF Originates
<1>4. Settling(l)
  BY <1>2 DEF Settling
<1>5. QED
  BY <1>1, <1>2, <1>3, <1>4 DEF SoleInv

LEMMA SoleNext ==
    ASSUME MaxFaults = 0, NEW l, Loader = {l}, SoleInv(l), [Next]_vars
    PROVE  SoleInv(l)'
<1>1. l \in Loader /\ RefinementInv /\ LoadInv /\ TypeOK
  BY DEF SoleInv, RefinementInv, LoadInv
<1>2. RefinementInv'
  BY <1>1, NextInv, TxInvNext DEF RefinementInv
<1>3. CASE UNCHANGED vars
  <2>1. /\ UNCHANGED <<copies, data, aux_verdict, dbStatus, pc, tx, pos>>
        /\ UNCHANGED <<phase, lo, sgl>>
    BY <1>3 DEF vars, loadVars, control, storeVars, aux
  <2>2. Originates(l)' /\ Settling(l)'
    BY <1>1, <2>1, SoleQuiet DEF SoleInv
  <2>3. StagedInTurn(l)' = StagedInTurn(l)
    BY <2>1 DEF StagedInTurn, StoredKeys, KeysOf, First, executables, StagedBefore
  <2>4. QED
    BY <1>2, <2>1, <2>2, <2>3 DEF SoleInv
<1>4. CASE LoadStep(l)
  <2>1. dbStatus' = dbStatus
    BY <1>1, <1>4, StoreGrows
  <2>2. QED
    BY <1>1, <1>2, <1>4, <2>1, SoleStep DEF SoleInv
<1>5. QED
  BY <1>3, <1>4 DEF Next

(* A load that is alone and whose connection does not fail stores, when it *)
(* is done, what executing its queries one by one would store.             *)
InSequence(l) == pc[l] = "done" =>
    /\ \A q \in Query : copies[q] > 0 =>
            \E p \in Phases : \E i \in 1..Len(data[l][p]) : q = data[l][p][i]
    /\ \A p \in Phases : \A i \in 1..Len(data[l][p]) : InTurn(l, p, i)

LEMMA SoleDone ==
    ASSUME NEW l \in Loader, SoleInv(l)
    PROVE  InSequence(l)
<1>1. SUFFICES ASSUME pc[l] = "done", NEW p \in Phases, NEW i \in 1..Len(data[l][p])
               PROVE  ~Pending(l, data[l][p][i])
  BY DEF SoleInv, InSequence, Originates, Settling
<1>2. TypeOK /\ Ledger(l) /\ Bounds(l)
  BY DEF SoleInv, RefinementInv, LoadInv
<1>3. phase[l] = 3 /\ amount(l) < lo[l] /\ lo[l] \in Nat /\ sgl[l] \in Nat /\ amount(l) \in Nat
  BY <1>1, <1>2, TypeAt DEF Bounds
<1>4. sgl[l] # 0 => lo[l] <= sgl[l]
  BY <1>2 DEF Bounds
<1>5. First(l) > amount(l) /\ amount(l) = Len(data[l][3])
  BY <1>3, <1>4 DEF First, amount, executables
<1>6. i \in Nat /\ First(l) \in Nat
  BY <1>2, TypeAt
<1>7. ~(p > phase[l] \/ (p = phase[l] /\ i >= First(l)))
  BY <1>1, <1>3, <1>5, <1>6 DEF Phases
<1>8. QED
  BY <1>2, <1>7 DEF Ledger

THEOREM SoleLoadInSequence ==
    ASSUME MaxFaults = 0, NEW l, Loader = {l}
    PROVE  Spec => []InSequence(l)
<1>1. l \in Loader
  OBVIOUS
<1>2. Init => SoleInv(l)
  BY <1>1, SoleInitially
<1>3. SoleInv(l) /\ [Next]_vars => SoleInv(l)'
  BY SoleNext
<1>4. SoleInv(l) => InSequence(l)
  BY <1>1, SoleDone
<1>5. QED
  BY <1>2, <1>3, <1>4, PTL DEF Spec
=============================================================================
