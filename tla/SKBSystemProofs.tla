-------------------------- MODULE SKBSystemProofs --------------------------
(***************************************************************************)
(* Safety of "satrap setup" for any number of setups at once, each of      *)
(* which may be interrupted between any two of its calls to the server;    *)
(* and of loads beside setups that may delete and recreate the database    *)
(* under them, for any number of each.                                     *)
(***************************************************************************)
EXTENDS SKBSystem, BatchLoadProofs

(* A session is open on a database that has been created by now.           *)
SessionsAreOld == \A a \in Setup : session[a] \subseteq 0..dbGen

(* An incomplete database has a setup about to open its session, one with  *)
(* its session open, or one that was interrupted.  Being in the middle of  *)
(* create_database is not enough for the induction: a setup whose database *)
(* was deleted under it fails at its next step.                            *)
Explained ==
    dbStatus \in {"blank", "typed"} =>
        \E a \in Setup : step[a] \in {"session", "interrupted"} \/ SessionOpen(a)

SetupInv == SetupTypeOK /\ SessionsAreOld /\ LockIsOwned /\ Explained

(* Initially no setup has begun, and an existing database is complete.     *)
LEMMA SetupInitially == SetupInit => SetupInv
  <1> SUFFICES ASSUME SetupInit PROVE SetupInv
    OBVIOUS
  <1> USE DEF SetupInit, SetupVarsInit
  <1>1. SetupTypeOK
    BY DEF SetupTypeOK, StoreTypeOK, DbStatus, Empty
  <1>2. SessionsAreOld
    BY DEF SessionsAreOld
  <1>3. LockIsOwned
    BY DEF LockIsOwned, SessionOpen
  <1>4. Explained
    BY DEF Explained
  <1> QED BY <1>1, <1>2, <1>3, <1>4 DEF SetupInv

(* A setup that ends closes its session: the lock stays with its owner.    *)
LEMMA ClosingReleases ==
    ASSUME SetupInv, NEW a \in Setup, CloseSession(a), UNCHANGED dbGen,
           DatabaseExists' <=> DatabaseExists
    PROVE  LockIsOwned' /\ SessionsAreOld'
  <1>1. \A b \in Setup : SessionOpen(b)' <=> b # a /\ SessionOpen(b)
    BY DEF SetupInv, SetupTypeOK, SessionOpen, CloseSession
  <1>2. LockIsOwned'
    BY <1>1 DEF SetupInv, SetupTypeOK, StoreTypeOK, LockIsOwned, CloseSession
  <1>3. SessionsAreOld'
    BY DEF SetupInv, SetupTypeOK, StoreTypeOK, SessionsAreOld, CloseSession
  <1> QED BY <1>2, <1>3

(* Every step of a setup keeps the invariant.                              *)
LEMMA SetupStepKeeps ==
    ASSUME SetupInv, NEW a \in Setup, SetupStep(a)
    PROVE  SetupInv'
  <1> USE DEF SetupInv, DbStatus
  <1>1. CASE StartSetup(a)
    <2>1. SetupTypeOK'
      BY <1>1 DEF StartSetup, SetupTypeOK, StoreTypeOK, storeVars, Goto, Working, Over
    <2>2. \A b \in Setup : SessionOpen(b)' <=> SessionOpen(b)
      BY <1>1 DEF StartSetup, SessionOpen, DatabaseExists, storeVars
    <2>3. LockIsOwned' /\ SessionsAreOld'
      BY <1>1, <2>2 DEF StartSetup, LockIsOwned, SessionsAreOld, storeVars
    <2>4. Explained'
      BY <1>1, <2>2 DEF StartSetup, Explained, storeVars, SetupTypeOK, Goto
    <2> QED BY <2>1, <2>3, <2>4
  <1>2. CASE CheckExists(a)
    <2>1. SetupTypeOK'
      BY <1>2 DEF CheckExists, SetupTypeOK, StoreTypeOK, storeVars, Goto, Working, Over
    <2>2. \A b \in Setup : SessionOpen(b)' <=> SessionOpen(b)
      BY <1>2 DEF CheckExists, SessionOpen, DatabaseExists, storeVars
    <2>3. LockIsOwned' /\ SessionsAreOld'
      BY <1>2, <2>2 DEF CheckExists, LockIsOwned, SessionsAreOld, storeVars
    <2>4. Explained'
      BY <1>2, <2>2 DEF CheckExists, Explained, storeVars, SetupTypeOK, Goto
    <2> QED BY <2>1, <2>3, <2>4
  <1>3. CASE DeleteDatabase(a)
    <2>1. SetupTypeOK'
      <3>1. session' = session /\ reset' = reset
        BY <1>3 DEF DeleteDatabase
      <3>. Empty \in [Query -> Nat]
        BY DEF Empty
      <3>4. StoreTypeOK'
        <4>1. CASE DatabaseExists
          BY <1>3, <4>1 DEF DeleteDatabase, SetupTypeOK, StoreTypeOK
        <4>2. CASE ~DatabaseExists
          BY <1>3, <4>2 DEF DeleteDatabase, SetupTypeOK, StoreTypeOK
        <4> QED BY <4>1, <4>2
      <3>2. \E s \in {"create", "failed"} : Goto(a, s)
        BY <1>3 DEF DeleteDatabase
      <3>3. session[a] = {}
        BY <1>3 DEF DeleteDatabase, SetupTypeOK
      <3> QED BY <3>1, <3>2, <3>3, <3>4 DEF SetupTypeOK, Goto, Working, Over
    <2>2. SessionsAreOld'
      BY <1>3 DEF DeleteDatabase, SessionsAreOld
    <2>3. CASE DatabaseExists
      BY <1>3, <2>1, <2>2, <2>3
         DEF DeleteDatabase, SessionOpen, DatabaseExists, LockIsOwned, Explained
    <2>4. CASE ~DatabaseExists
      <3>1. \A b \in Setup : SessionOpen(b)' <=> SessionOpen(b)
        BY <1>3, <2>4 DEF DeleteDatabase, SessionOpen, DatabaseExists
      <3>2. LockIsOwned' /\ Explained'
        BY <1>3, <2>4, <3>1 DEF DeleteDatabase, DatabaseExists, LockIsOwned, Explained
      <3> QED BY <2>1, <2>2, <3>2
    <2> QED BY <2>3, <2>4
  <1>4. CASE CreateDatabase(a)
    <2>1. SetupTypeOK'
      BY <1>4 DEF CreateDatabase, SetupTypeOK, StoreTypeOK, Goto, Working, Over
    <2>2. SessionsAreOld'
      BY <1>4 DEF CreateDatabase, SessionsAreOld, SetupTypeOK, StoreTypeOK
    <2>3. CASE ~DatabaseExists
      <3>1. \A b \in Setup : ~SessionOpen(b) /\ ~SessionOpen(b)'
        BY <1>4, <2>3 DEF CreateDatabase, SessionOpen, SessionsAreOld, SetupTypeOK, StoreTypeOK
      <3>2. LockIsOwned'
        BY <1>4, <2>3, <3>1 DEF CreateDatabase, LockIsOwned
      <3>3. step'[a] = "session"
        BY <1>4, <2>3 DEF CreateDatabase, Goto, SetupTypeOK
      <3> QED BY <2>1, <2>2, <3>2, <3>3 DEF Explained
    <2>4. CASE DatabaseExists
      <3>1. \A b \in Setup : SessionOpen(b)' <=> SessionOpen(b)
        BY <1>4, <2>4 DEF CreateDatabase, SessionOpen, DatabaseExists
      <3>2. LockIsOwned'
        BY <1>4, <3>1 DEF CreateDatabase, LockIsOwned
      <3>3. Explained'
        BY <1>4, <2>4, <3>1 DEF CreateDatabase, Explained, Goto, SetupTypeOK
      <3> QED BY <2>1, <2>2, <3>2, <3>3
    <2> QED BY <2>3, <2>4
  <1>5. CASE OpenSchemaSession(a)
    <2>1. SetupTypeOK'
      <3>1. StoreTypeOK' /\ reset' = reset
        BY <1>5 DEF OpenSchemaSession, SetupTypeOK, StoreTypeOK
      <3>2. CASE Writable
        BY <1>5, <3>1, <3>2 DEF OpenSchemaSession, SetupTypeOK, StoreTypeOK, Goto, Working, Over
      <3>3. CASE ~Writable
        BY <1>5, <3>1, <3>3 DEF OpenSchemaSession, SetupTypeOK, Goto, Working, Over
      <3> QED BY <3>2, <3>3
    <2>2. SessionsAreOld'
      BY <1>5 DEF OpenSchemaSession, SessionsAreOld, SetupTypeOK, StoreTypeOK
    <2>3. CASE Writable
      <3>1. \A b \in Setup : ~SessionOpen(b)
        BY <2>3 DEF Writable, LockIsOwned
      <3>2. \A b \in Setup : SessionOpen(b)' <=> b = a
        BY <1>5, <2>3, <3>1
           DEF OpenSchemaSession, SessionOpen, DatabaseExists, Writable, SetupTypeOK, StoreTypeOK
      <3>3. LockIsOwned'
        BY <1>5, <2>3, <3>2 DEF OpenSchemaSession, LockIsOwned
      <3> QED BY <2>1, <2>2, <3>2, <3>3 DEF Explained
    <2>4. CASE ~Writable
      <3>1. \A b \in Setup : SessionOpen(b)' <=> SessionOpen(b)
        BY <1>5, <2>4 DEF OpenSchemaSession, SessionOpen, DatabaseExists
      <3>2. LockIsOwned'
        BY <1>5, <2>4, <3>1 DEF OpenSchemaSession, LockIsOwned
      <3>3. dbStatus # "absent" => \E b \in Setup : SessionOpen(b)
        BY <2>4 DEF Writable, DatabaseExists, LockIsOwned
      <3>4. Explained'
        BY <1>5, <2>4, <3>1, <3>3 DEF OpenSchemaSession, Explained
      <3> QED BY <2>1, <2>2, <3>2, <3>4
    <2> QED BY <2>3, <2>4
  <1>6. CASE DefineTypes(a)
    <2>1. SetupTypeOK'
      <3>1. StoreTypeOK' /\ reset' = reset
        BY <1>6 DEF DefineTypes, CloseSession, SetupTypeOK, StoreTypeOK
      <3>2. CASE SessionOpen(a)
        BY <1>6, <3>1, <3>2 DEF DefineTypes, SetupTypeOK, Goto, Working, Over
      <3>3. CASE ~SessionOpen(a)
        <4>1. CloseSession(a) /\ Goto(a, "failed")
          BY <1>6, <3>3 DEF DefineTypes
        <4>2. session' \in [Setup -> SUBSET Nat] /\ session'[a] = {}
          BY <4>1 DEF CloseSession, SetupTypeOK
        <4> QED BY <4>1, <4>2, <3>1 DEF CloseSession, SetupTypeOK, Goto, Working, Over
      <3> QED BY <3>2, <3>3
    <2>2. CASE SessionOpen(a)
      <3>1. \A b \in Setup : SessionOpen(b)' <=> SessionOpen(b)
        BY <1>6, <2>2 DEF DefineTypes, SessionOpen, DatabaseExists
      <3>2. LockIsOwned' /\ SessionsAreOld'
        BY <1>6, <2>2, <3>1 DEF DefineTypes, LockIsOwned, SessionsAreOld
      <3> QED BY <2>1, <2>2, <3>1, <3>2 DEF Explained
    <2>3. CASE ~SessionOpen(a)
      <3>1. CloseSession(a) /\ UNCHANGED <<dbStatus, dbGen>>
        BY <1>6, <2>3 DEF DefineTypes
      <3>2. LockIsOwned' /\ SessionsAreOld'
        BY <3>1, ClosingReleases DEF DatabaseExists
      <3>3. \A b \in Setup : SessionOpen(b) => SessionOpen(b)'
        BY <2>3, <3>1 DEF SessionOpen, DatabaseExists, CloseSession, SetupTypeOK
      <3>4. Explained'
        BY <1>6, <2>3, <3>1, <3>3 DEF DefineTypes, Explained, Goto, SetupTypeOK
      <3> QED BY <2>1, <3>2, <3>4
    <2> QED BY <2>2, <2>3
  <1>7. CASE DefineRules(a)
    <2>1. SetupTypeOK'
      BY <1>7 DEF DefineRules, CloseSession, SetupTypeOK, StoreTypeOK, Goto, Working, Over
    <2>2. CloseSession(a) /\ UNCHANGED dbGen /\ (DatabaseExists' <=> DatabaseExists)
      BY <1>7 DEF DefineRules, SessionOpen, DatabaseExists
    <2>3. LockIsOwned' /\ SessionsAreOld'
      BY <2>2, ClosingReleases
    <2>4. CASE SessionOpen(a)
      BY <1>7, <2>1, <2>3, <2>4 DEF DefineRules, Explained
    <2>5. CASE ~SessionOpen(a)
      <3>1. \A b \in Setup : SessionOpen(b) => SessionOpen(b)'
        BY <2>5, <2>2 DEF SessionOpen, CloseSession, SetupTypeOK
      <3>2. Explained'
        BY <1>7, <2>5, <3>1 DEF DefineRules, Explained, Goto, SetupTypeOK
      <3> QED BY <2>1, <2>3, <3>2
    <2> QED BY <2>4, <2>5
  <1>8. CASE Interrupt(a)
    <2>1. SetupTypeOK'
      BY <1>8 DEF Interrupt, CloseSession, SetupTypeOK, StoreTypeOK, Goto, Working, Over
    <2>2. LockIsOwned' /\ SessionsAreOld'
      BY <1>8, ClosingReleases DEF Interrupt, DatabaseExists
    <2>3. step'[a] = "interrupted"
      BY <1>8 DEF Interrupt, Goto, SetupTypeOK
    <2> QED BY <2>1, <2>2, <2>3 DEF Explained
  <1> QED
    BY <1>1, <1>2, <1>3, <1>4, <1>5, <1>6, <1>7, <1>8 DEF SetupStep, SetupProgress

(* The invariant is kept by a step of nobody, and by what other programs   *)
(* do to the data of the database.                                         *)
LEMMA SetupStutterKeeps ==
    ASSUME SetupInv, UNCHANGED <<dbStatus, dbGen, schemaLock, setupVars>>,
           copies' \in [Query -> Nat]
    PROVE  SetupInv'
  BY DEF SetupInv, SetupTypeOK, StoreTypeOK, SessionsAreOld, LockIsOwned, Explained,
         SessionOpen, DatabaseExists, setupVars
----------------------------------------------------------------------------
(* The inductive invariant of exec_setup and create_database holds.        *)
THEOREM SetupInvariant == SetupSpec => []SetupInv
  <1>1. SetupInv /\ [SetupNext]_<<storeVars, setupVars>> => SetupInv'
    <2> SUFFICES ASSUME SetupInv, [SetupNext]_<<storeVars, setupVars>>
                 PROVE  SetupInv'
      OBVIOUS
    <2>1. CASE SetupNext
      BY <2>1, SetupStepKeeps DEF SetupNext
    <2>2. CASE UNCHANGED <<storeVars, setupVars>>
      BY <2>2, SetupStutterKeeps DEF storeVars, SetupInv, SetupTypeOK, StoreTypeOK
    <2> QED BY <2>1, <2>2
  <1> QED BY <1>1, SetupInitially, PTL DEF SetupSpec

(* However many setups run at once and wherever they are interrupted, at   *)
(* most one defines schema on the database, and the lock that keeps        *)
(* writers out is held exactly while it does.                              *)
THEOREM LockIsOwnedCorrect == SetupSpec => []LockIsOwned
  <1>1. SetupInv => LockIsOwned
    BY DEF SetupInv
  <1> QED BY <1>1, SetupInvariant, PTL

LEMMA InvExplains ==
    ASSUME SetupInv
    PROVE  IncompleteExplained
  <1> SUFFICES ASSUME dbStatus \in {"blank", "typed"}
               PROVE  \E a \in Setup : step[a] \in {"session", "types", "rules", "interrupted"}
    BY DEF IncompleteExplained
  <1>1. PICK a \in Setup : step[a] \in {"session", "interrupted"} \/ SessionOpen(a)
    BY DEF SetupInv, Explained
  <1>2. SessionOpen(a) => step[a] \in {"types", "rules"}
    BY DEF SetupInv, SetupTypeOK, SessionOpen
  <1> QED BY <1>1, <1>2

(* However many setups run at once, an incomplete schema is that of a      *)
(* setup still at work or of one that was interrupted.                     *)
THEOREM IncompleteExplainedCorrect == SetupSpec => []IncompleteExplained
  <1> QED BY InvExplains, SetupInvariant, PTL
-----------------------------------------------------------------------------
(* What holds of a load that works on the database it started on, as long  *)
(* as no connection fails.  A load keeps the number of that database, and  *)
(* a database that is created later has a greater one: so whatever setups  *)
(* did to the database under a load, they did it before the load, or the   *)
(* load is not on the database it started on.                              *)
Outcome(l) ==
    /\ Defined
    /\ pc[l] = "insert" => Founded(tx[l])
    /\ Justified(l) /\ Snapshot(l)
HomesAreOld == \A l \in Loader : aux_home[l] \subseteq 0..dbGen
SystemInv ==
    /\ LoadInv /\ SetupInv /\ HomesAreOld
    /\ \A l \in Loader : Undisturbed(l) => Outcome(l)

LEMMA SystemInitially == SystemInit => SystemInv
<1> SUFFICES ASSUME SystemInit PROVE SystemInv
  OBVIOUS
<1>1. SetupInv
  BY SetupInitially DEF SystemInit
<1>2. LoadInv
  BY <1>1, InitInv DEF SystemInit, SetupInv, SetupTypeOK
<1>3. HomesAreOld
  BY DEF SystemInit, LoadInit, HomesAreOld
<1>4. \A l \in Loader : ~Undisturbed(l)
  BY DEF SystemInit, LoadInit, Undisturbed
<1>5. QED
  BY <1>1, <1>2, <1>3, <1>4 DEF SystemInv

(* Whatever leaves a load and its database as they are keeps its outcome.  *)
LEMMA OutcomeKept ==
    ASSUME NEW l \in Loader, Outcome(l), Defined',
           UNCHANGED <<dbGen, copies, pc, data, phase, tx, aux_verdict>>
    PROVE  Outcome(l)'
<1>1. \A q : IsLoadable(data[l], q)' <=> IsLoadable(data[l], q)
  BY DEF IsLoadable, Entities, Relations, Embedded, Loadable, Items, Unrivalled, KeysOf
<1>2. Base(data[l], phase[l])' = Base(data[l], phase[l])
  BY DEF Base, Entities, Relations, Loadable, Items, Unrivalled, KeysOf
<1>3. StoredKeys' = StoredKeys
  BY DEF StoredKeys, KeysOf
<1>4. Justified(l)' /\ Snapshot(l)'
  BY <1>1, <1>2, <1>3 DEF Outcome, Justified, Snapshot
<1>5. pc'[l] = "insert" => Founded(tx[l])'
  BY <1>3 DEF Outcome, Founded, KeysOf
<1>6. QED
  BY <1>4, <1>5 DEF Outcome

(***************************************************************************)
(* A load: it leaves alone what the setups look after.                     *)
(***************************************************************************)
LEMMA LoadLeavesSetups ==
    ASSUME NEW l \in Loader, LoadStep(l)
    PROVE  UNCHANGED <<dbStatus, dbGen, schemaLock>>
BY DEF LoadStep, Progress, StartLoad, OpenHandler, OpenHandlerRaises, EndPhase, CheckDatabase,
       CheckDatabaseRaises, OpenTransaction, OpenTransactionRaises, InsertQuery,
       InsertQueryRaises, Commit, CommitRaises, CommitAnswerLost, Crash, storeVars

LEMMA HomesStayOld ==
    ASSUME TypeOK, HomesAreOld, NEW l \in Loader, LoadStep(l)
    PROVE  HomesAreOld'
<1>1. dbGen' = dbGen /\ dbGen \in Nat /\ aux_home \in [Loader -> SUBSET Nat]
  BY LoadLeavesSetups DEF TypeOK, StoreTypeOK
<1>2. \/ UNCHANGED aux_home
      \/ aux_home' = [aux_home EXCEPT ![l] = {dbGen}]
      \/ aux_home' = [aux_home EXCEPT ![l] = {}]
  BY DEF LoadStep, Progress, StartLoad, OpenHandler, OpenHandlerRaises, EndPhase, CheckDatabase,
     CheckDatabaseRaises, OpenTransaction, OpenTransactionRaises, InsertQuery,
     InsertQueryRaises, Commit, CommitRaises, CommitAnswerLost, Crash, aux
<1>3. \A k \in Loader : aux_home'[k] \subseteq aux_home[k] \cup {dbGen}
  BY <1>1, <1>2
<1>4. dbGen \in 0..dbGen
  BY <1>1
<1>5. QED
  BY <1>1, <1>3, <1>4 DEF HomesAreOld

(* A load that starts on a database without types counts as disturbed.     *)
LEMMA LoadOutcome ==
    ASSUME SystemInv, NEW l \in Loader, LoadStep(l), NEW k \in Loader, Undisturbed(k)'
    PROVE  Outcome(k)'
<1>0. /\ LoadInv /\ TypeOK /\ UNCHANGED <<dbStatus, dbGen>> /\ StoredKeys \subseteq StoredKeys'
      /\ aux_home \in [Loader -> SUBSET Nat] /\ pc \in [Loader -> {"idle"} \cup Running \cup Ended]
  BY StoreGrows DEF SystemInv, LoadInv, TypeOK
<1>1. faults' = 0 /\ (Undisturbed(k) \/ (k = l /\ \E d \in Bundles : StartLoad(l, d)))
  BY <1>0, UndisturbedBefore
<1>2. CASE k = l /\ \E d \in Bundles : StartLoad(l, d)
  <2>1. Defined /\ pc'[l] = "start"
    BY <1>0, <1>2 DEF StartLoad, Undisturbed
  <2>2. Justified(l)' /\ Snapshot(l)'
    BY <1>0, <1>2, StartOutcome
  <2>3. QED
    BY <1>0, <1>2, <2>1, <2>2 DEF Outcome, Defined
<1>3. CASE ~(k = l /\ \E d \in Bundles : StartLoad(l, d))
  <2>1. Outcome(k) /\ Defined'
    BY <1>0, <1>1, <1>3 DEF SystemInv, Outcome, Defined
  <2>2. CASE k = l
    <3>1. Justified(k)' /\ Snapshot(k)'
      BY <1>0, <1>1, <1>3, <2>1, <2>2, OwnOutcome DEF Outcome
    <3>2. pc'[k] = "insert" => Founded(tx'[k])
      BY <1>0, <2>1, <2>2, OwnFounded DEF Outcome
    <3>3. QED
      BY <1>0, <2>1, <3>1, <3>2 DEF Outcome, Founded
  <2>3. CASE k # l
    <3>1. Justified(k)' /\ Snapshot(k)'
      BY <1>0, <2>1, <2>3, OtherOutcome DEF Outcome
    <3>2. pc'[k] = pc[k] /\ tx'[k] = tx[k]
      BY <1>0, <2>3, Frame DEF Local
    <3>3. QED
      BY <1>0, <2>1, <3>1, <3>2 DEF Outcome, Founded
  <2>4. QED
    BY <2>2, <2>3
<1>4. QED
  BY <1>1, <1>2, <1>3

LEMMA LoadKeeps ==
    ASSUME SystemInv, NEW l \in Loader, SystemLoad(l)
    PROVE  SystemInv'
<1>0. LoadInv /\ TypeOK /\ HomesAreOld /\ LoadStep(l) /\ UNCHANGED setupVars
  BY DEF SystemInv, LoadInv, SystemLoad
<1>1. LoadInv'
  BY <1>0, NextInv DEF Next
<1>2. SetupInv'
  <2>1. UNCHANGED <<dbStatus, dbGen, schemaLock, setupVars>>
    BY <1>0, LoadLeavesSetups
  <2>2. copies' \in [Query -> Nat]
    BY <1>1 DEF LoadInv, TypeOK, StoreTypeOK
  <2>3. QED
    BY <2>1, <2>2, SetupStutterKeeps DEF SystemInv
<1>3. HomesAreOld'
  BY <1>0, HomesStayOld
<1>4. ASSUME NEW k \in Loader, Undisturbed(k)' PROVE Outcome(k)'
  BY <1>0, <1>4, LoadOutcome
<1>5. QED
  BY <1>1, <1>2, <1>3, <1>4 DEF SystemInv

(***************************************************************************)
(* A setup: it keeps the data, or empties the database, or creates one     *)
(* with a number no load has started on.                                   *)
(***************************************************************************)
LEMMA SetupCases ==
    ASSUME NEW a \in Setup, SetupStep(a)
    PROVE  \/ /\ UNCHANGED <<dbGen, copies>> /\ (DatabaseExists' <=> DatabaseExists)
              /\ Defined => Defined'
           \/ UNCHANGED dbGen /\ copies' = Empty /\ ~DatabaseExists'
           \/ UNCHANGED copies /\ ~DatabaseExists /\ dbGen' = dbGen + 1
<1>1. CASE StartSetup(a) \/ CheckExists(a) \/ OpenSchemaSession(a) \/ Interrupt(a)
  BY <1>1 DEF StartSetup, CheckExists, OpenSchemaSession, Interrupt, DatabaseExists, Defined, storeVars
<1>2. CASE DefineTypes(a) \/ DefineRules(a)
  BY <1>2 DEF DefineTypes, DefineRules, SessionOpen, DatabaseExists, Defined
<1>3. CASE DeleteDatabase(a)
  BY <1>3 DEF DeleteDatabase, DatabaseExists, Defined
<1>4. CASE CreateDatabase(a)
  BY <1>4 DEF CreateDatabase, DatabaseExists, Defined
<1>5. QED
  BY <1>1, <1>2, <1>3, <1>4 DEF SetupStep, SetupProgress

LEMMA SetupKeeps ==
    ASSUME SystemInv, NEW a \in Setup, SystemSetup(a)
    PROVE  SystemInv'
<1>0. /\ LoadInv /\ TypeOK /\ SetupInv /\ HomesAreOld /\ dbGen \in Nat
      /\ SetupStep(a) /\ UNCHANGED loadVars
  BY DEF SystemInv, LoadInv, SystemSetup, TypeOK, StoreTypeOK
<1>1. SetupInv'
  BY <1>0, SetupStepKeeps
<1>2. UNCHANGED <<pc, data, phase, lo, sgl, pos, tx, faults, aux_verdict, aux_lost, aux_home>>
  BY <1>0 DEF loadVars, control, aux
<1>3. LoadInv'
  <2>1. TypeOK'
    BY <1>0, <1>1, <1>2 DEF SetupInv, SetupTypeOK, TypeOK
  <2>2. ASSUME NEW k \in Loader
        PROVE  Bounds(k)' /\ Ledger(k)' /\ Held(k)'
    BY <1>0, <1>2, FrameInv DEF LoadInv, Local
  <2>3. QED
    BY <2>1, <2>2 DEF LoadInv
<1>4. dbGen' = dbGen \/ dbGen' = dbGen + 1
  BY <1>0, SetupCases
<1>5. HomesAreOld'
  <2>1. 0..dbGen \subseteq 0..dbGen'
    BY <1>0, <1>4
  <2>2. QED
    BY <1>0, <1>2, <2>1 DEF HomesAreOld
<1>6. ASSUME NEW k \in Loader, Undisturbed(k)' PROVE Outcome(k)'
  <2>1. faults = 0 /\ DatabaseExists' /\ dbGen' \in aux_home[k] /\ aux_home[k] \subseteq 0..dbGen
    BY <1>0, <1>2, <1>6 DEF Undisturbed, HomesAreOld
  <2>2. dbGen' # dbGen + 1
    BY <1>0, <2>1
  <2>3. UNCHANGED <<dbGen, copies>> /\ DatabaseExists /\ (Defined => Defined')
    BY <1>0, <2>1, <2>2, SetupCases
  <2>4. Outcome(k)
    BY <2>1, <2>3 DEF Undisturbed, SystemInv
  <2>5. QED
    BY <1>2, <2>3, <2>4, OutcomeKept DEF Outcome
<1>7. QED
  BY <1>1, <1>3, <1>5, <1>6 DEF SystemInv

LEMMA SystemNextKeeps == SystemInv /\ [SystemNext]_sysVars => SystemInv'
<1> SUFFICES ASSUME SystemInv, [SystemNext]_sysVars PROVE SystemInv'
  OBVIOUS
<1>1. CASE SystemNext
  BY <1>1, LoadKeeps, SetupKeeps DEF SystemNext
<1>2. CASE UNCHANGED sysVars
  <2>1. UNCHANGED storeVars /\ UNCHANGED loadVars /\ UNCHANGED setupVars
    BY <1>2 DEF sysVars
  <2>2. LoadInv'
    BY <2>1, NextInv DEF SystemInv, vars
  <2>3. SetupInv'
    BY <2>1, SetupStutterKeeps
       DEF SystemInv, SetupInv, SetupTypeOK, StoreTypeOK, storeVars
  <2>4. /\ UNCHANGED <<dbStatus, dbGen, copies, pc, data, phase, tx, faults, aux_verdict, aux_home>>
        /\ HomesAreOld
    BY <2>1 DEF loadVars, control, aux, storeVars, SystemInv
  <2>5. HomesAreOld'
    BY <2>4 DEF HomesAreOld
  <2>6. ASSUME NEW k \in Loader, Undisturbed(k)' PROVE Outcome(k)'
    <3>1. Undisturbed(k)
      BY <2>4, <2>6 DEF Undisturbed, DatabaseExists
    <3>2. Outcome(k) /\ Defined'
      BY <2>4, <3>1 DEF SystemInv, Outcome, Defined
    <3>3. QED
      BY <2>4, <3>2, OutcomeKept
  <2>7. QED
    BY <2>2, <2>3, <2>5, <2>6 DEF SystemInv
<1>3. QED
  BY <1>1, <1>2

(* The inductive invariant of loads and setups on one server.              *)
THEOREM SystemInvariant == SystemSpec => []SystemInv
BY SystemInitially, SystemNextKeeps, PTL DEF SystemSpec

(* Every variable keeps its type, whatever setups do beside the loads.     *)
THEOREM SystemTypeCorrect == SystemSpec => []SystemTypeOK
<1>1. SystemInv => SystemTypeOK
  BY DEF SystemInv, LoadInv, SetupInv, SystemTypeOK
<1>2. QED
  BY <1>1, SystemInvariant, PTL

(* Whatever setups do to the database before, beside and after a load, any *)
(* number of them, interrupted or not: a load that ends normally with the  *)
(* database there that it began with, and with no failure of a connection, *)
(* has stored everything that can be stored of its bundle.                 *)
THEOREM SystemLoadCompleteCorrect == SystemSpec => []LoadComplete
<1>1. SystemInv => LoadComplete
  BY DoneIsComplete DEF SystemInv, Outcome, LoadComplete
<1>2. QED
  BY <1>1, SystemInvariant, PTL

(* Beside loads, too, the schema lock is held exactly while one setup      *)
(* defines schema on the existing database.                                *)
THEOREM SystemLockIsOwnedCorrect == SystemSpec => []LockIsOwned
<1>1. SystemInv => LockIsOwned
  BY DEF SystemInv, SetupInv
<1>2. QED
  BY <1>1, SystemInvariant, PTL

(* Beside loads, too, an incomplete schema is that of a setup at work or   *)
(* of one that was interrupted.                                            *)
THEOREM SystemIncompleteExplainedCorrect == SystemSpec => []IncompleteExplained
<1>1. SystemInv => IncompleteExplained
  BY InvExplains DEF SystemInv
<1>2. QED
  BY <1>1, SystemInvariant, PTL
============================================================================
