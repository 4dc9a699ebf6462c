----------------------------- MODULE BatchLoad -----------------------------
(***************************************************************************)
(* ETLOrchestrator.load, TypeDBLoader.load and TypeDBBatchInsertHandler:   *)
(* a process stores the insert queries of one transformed STIX bundle in   *)
(* three phases (entities, STIX relationship objects, embedded relations). *)
(* A phase sends its queries in batches, one write transaction per batch;  *)
(* the queries of a batch that failed are sent again one by one.           *)
(*                                                                         *)
(* Several processes ("satrap etl", "satrap transform") may load into the  *)
(* same database at once, and one may be killed and another one started    *)
(* on the same data.                                                       *)
(***************************************************************************)
EXTENDS SKBStore, Sequences

CONSTANTS
    Loader,     \* the loading processes
    BatchSize,  \* LOAD_BATCH_SIZE
    Bundles,    \* the transformed data a process can be given
    MaxFaults   \* bound on the failures of the connection to the server

Phases == 1..3
Bundle == [Phases -> Seq(Query)]

ASSUME LoadAssumption ==
    /\ IsFiniteSet(Loader)
    /\ BatchSize \in Nat \ {0}
    /\ MaxFaults \in Nat
    /\ Bundles \subseteq Bundle
    /\ \A d \in Bundles, p, r \in Phases : \A i \in 1..Len(d[p]), j \in 1..Len(d[r]) :
            d[p][i] = d[r][j] => p = r /\ i = j

VARIABLES
    pc,         \* where the process is in ETLOrchestrator.load
    data,       \* the three lists of queries it loads
    phase,      \* which of the three it is loading
    lo,         \* the first query of the current batch (i + 1 in load)
    sgl,        \* 0, or the query being sent alone after its batch failed
    pos,        \* the next query of the open transaction
    tx,         \* the open write transaction
    faults,     \* connection failures so far
    aux_verdict,  \* what became of each query (history)
    aux_lost,     \* commits that were applied and reported as failed (history)
    aux_home      \* the database, if usable, that the load started on (history)

control == <<pc, data, phase, lo, sgl, pos, tx>>
aux     == <<aux_verdict, aux_lost, aux_home>>
loadVars == <<control, faults, aux>>
vars == <<storeVars, loadVars>>

Running == {"start", "head", "open", "insert"}
Ended   == {"done", "rejected", "failed", "crashed"}
Verdict == {"pending", "stored", "unmatched", "refused"}

Transaction ==
    [ids : SUBSET KeyValue, gen : Nat, staged : SUBSET Query, missed : SUBSET Query]
NoTx == [ids |-> {}, gen |-> 0, staged |-> {}, missed |-> {}]
NoData == [p \in Phases |-> <<>>]

TypeOK ==
    /\ StoreTypeOK
    /\ pc \in [Loader -> {"idle"} \cup Running \cup Ended]
    /\ data \in [Loader -> Bundle]
    /\ phase \in [Loader -> Phases]
    /\ lo \in [Loader -> Nat \ {0}]
    /\ sgl \in [Loader -> Nat]
    /\ pos \in [Loader -> Nat \ {0}]
    /\ tx \in [Loader -> Transaction]
    /\ faults \in Nat
    /\ aux_verdict \in [Loader -> [Query -> Verdict]]
    /\ aux_lost \in Nat
    /\ aux_home \in [Loader -> SUBSET Nat]

----------------------------------------------------------------------------
(* The slice of executables that the current insert call was given. *)
(* Mutant: the embedded relations are loaded before the relationships.     *)
ReversedLists(l) == data[l][4 - phase[l]]

executables(l) == data[l][phase[l]]
amount(l) == Len(executables(l))
BatchEnd(l) == IF lo[l] + BatchSize - 1 < amount(l)
               THEN lo[l] + BatchSize - 1 ELSE amount(l)
First(l) == IF sgl[l] = 0 THEN lo[l] ELSE sgl[l]
(* Mutant: the retry sends the rest of the batch instead of [query].       *)
RestOfBatch(l) == BatchEnd(l)
Last(l)  == IF sgl[l] = 0 THEN BatchEnd(l) ELSE sgl[l]

TxOpen(l) == dbStatus # "absent" /\ tx[l].gen = dbGen
Visible(l) == tx[l].ids \cup KeysOf(tx[l].staged)
Clashes(l, q) == Matched(q, Visible(l)) /\ ~KeyFree(q, Visible(l))

Fault == faults < MaxFaults /\ faults' = faults + 1

(* insert() returned batch_inserted = ok: which query load turns to next.   *)
(* Mutants: the queries of a failed batch are not sent again; those before *)
(* the one that failed are taken to be stored.                             *)
NoRetry(l) == /\ lo' = [lo EXCEPT ![l] = lo[l] + BatchSize]
              /\ UNCHANGED sgl
RetryRest(l) == /\ sgl' = [sgl EXCEPT ![l] = IF pos[l] <= Last(l) THEN pos[l] ELSE lo[l]]
                /\ UNCHANGED lo
Retry(l) == /\ sgl' = [sgl EXCEPT ![l] = lo[l]]
            /\ UNCHANGED lo
(* Mutants: the loop over a failed batch does not advance; the batches     *)
(* overlap in one query.                                                   *)
SameQuery(l) == UNCHANGED <<lo, sgl>>
OverlappingBatch(l) == /\ lo' = [lo EXCEPT ![l] = lo[l] + BatchSize - 1]
                       /\ sgl' = [sgl EXCEPT ![l] = 0]
NextQuery(l) == /\ sgl' = [sgl EXCEPT ![l] = sgl[l] + 1]
                /\ UNCHANGED lo
NextBatch(l) == /\ lo' = [lo EXCEPT ![l] = lo[l] + BatchSize]
                /\ sgl' = [sgl EXCEPT ![l] = 0]
After(l, ok) ==
    /\ pc' = [pc EXCEPT ![l] = "head"]
    /\ tx' = [tx EXCEPT ![l] = NoTx]
    /\ pos' = [pos EXCEPT ![l] = 1]
    /\ \/ sgl[l] = 0 /\ ~ok /\ BatchSize > 1 /\ Retry(l)
       \/ sgl[l] = 0 /\ (ok \/ BatchSize = 1) /\ NextBatch(l)
       \/ sgl[l] # 0 /\ sgl[l] < BatchEnd(l) /\ NextQuery(l)
       \/ sgl[l] # 0 /\ sgl[l] >= BatchEnd(l) /\ NextBatch(l)
    /\ UNCHANGED <<data, phase>>

(* A failed insert settles its query unless load is going to retry it. *)
Settled(l, stored, missed, refused) ==
    aux_verdict' = [aux_verdict EXCEPT ![l] = [q \in Query |->
        IF q \in stored THEN "stored"
        ELSE IF q \in missed THEN "unmatched"
        ELSE IF q \in refused THEN "refused" ELSE aux_verdict[l][q]]]
Final(l) == IF sgl[l] = 0 /\ BatchSize > 1 THEN {}
            ELSE {executables(l)[First(l)]}
----------------------------------------------------------------------------
(* ETLOrchestrator.load is called with the transformed data d. *)
StartLoad(l, d) ==
    /\ pc[l] = "idle"
    /\ pc' = [pc EXCEPT ![l] = "start"]
    /\ data' = [data EXCEPT ![l] = d]
    /\ aux_home' = [aux_home EXCEPT ![l] = IF Defined THEN {dbGen} ELSE {}]
    /\ UNCHANGED <<storeVars, phase, lo, sgl, pos, tx, faults, aux_verdict, aux_lost>>

(* TypeDBLoader.load enters the handler: a driver is opened. *)
OpenHandler(l) ==
    /\ pc[l] = "start"
    /\ pc' = [pc EXCEPT ![l] = "head"]
    /\ UNCHANGED <<storeVars, data, phase, lo, sgl, pos, tx, faults, aux>>

OpenHandlerRaises(l) ==
    /\ pc[l] = "start"
    /\ Fault
    /\ pc' = [pc EXCEPT ![l] = "failed"]
    /\ UNCHANGED <<storeVars, data, phase, lo, sgl, pos, tx, aux>>

(* Mutants: a fourth list is looked for; the index of the batches is kept  *)
(* from one list to the next.                                              *)
FourthList(l) ==
    /\ pc[l] = "head"
    /\ lo[l] > amount(l)
    /\ IF phase[l] > 3
       THEN pc' = [pc EXCEPT ![l] = "done"] /\ UNCHANGED <<phase, lo>>
       ELSE /\ pc' = [pc EXCEPT ![l] = "start"]
            /\ phase' = [phase EXCEPT ![l] = phase[l] + 1]
            /\ lo' = [lo EXCEPT ![l] = 1]
    /\ UNCHANGED <<storeVars, data, sgl, pos, tx, faults, aux>>
IndexKept(l) ==
    /\ pc[l] = "head"
    /\ lo[l] > amount(l)
    /\ IF phase[l] = 3
       THEN pc' = [pc EXCEPT ![l] = "done"] /\ UNCHANGED <<phase, lo>>
       ELSE /\ pc' = [pc EXCEPT ![l] = "start"]
            /\ phase' = [phase EXCEPT ![l] = phase[l] + 1]
            /\ UNCHANGED lo
    /\ UNCHANGED <<storeVars, data, sgl, pos, tx, faults, aux>>

(* The batches are exhausted: on to the next list, or done. *)
EndPhase(l) ==
    /\ pc[l] = "head"
    /\ lo[l] > amount(l)
    /\ IF phase[l] = 3
       THEN pc' = [pc EXCEPT ![l] = "done"] /\ UNCHANGED <<phase, lo>>
       ELSE /\ pc' = [pc EXCEPT ![l] = "start"]
            /\ phase' = [phase EXCEPT ![l] = phase[l] + 1]
            /\ lo' = [lo EXCEPT ![l] = 1]
    /\ UNCHANGED <<storeVars, data, sgl, pos, tx, faults, aux>>

(* insert() asks whether the database exists before it opens a session. *)
CheckDatabase(l) ==
    /\ pc[l] = "head"
    /\ lo[l] <= amount(l)
    /\ pc' = [pc EXCEPT ![l] = IF DatabaseExists THEN "open" ELSE "rejected"]
    /\ UNCHANGED <<storeVars, data, phase, lo, sgl, pos, tx, faults, aux>>

CheckDatabaseRaises(l) ==
    /\ pc[l] = "head"
    /\ lo[l] <= amount(l)
    /\ Fault
    /\ pc' = [pc EXCEPT ![l] = "failed"]
    /\ UNCHANGED <<storeVars, data, phase, lo, sgl, pos, tx, aux>>

OpenTransaction(l) ==
    /\ pc[l] = "open"
    /\ Writable
    /\ pc' = [pc EXCEPT ![l] = "insert"]
    /\ pos' = [pos EXCEPT ![l] = First(l)]
    /\ tx' = [tx EXCEPT ![l] = [ids |-> StoredKeys, gen |-> dbGen,
                                staged |-> {}, missed |-> {}]]
    /\ UNCHANGED <<storeVars, data, phase, lo, sgl, faults, aux>>

(* Mutant: a session that cannot be opened is waited for.                  *)
WaitForSession(l) ==
    /\ pc[l] = "open"
    /\ Fault
    /\ pc' = [pc EXCEPT ![l] = "failed"]
    /\ UNCHANGED <<storeVars, data, phase, lo, sgl, pos, tx, aux>>

(* Sessions and transactions are opened outside the try block. *)
OpenTransactionRaises(l) ==
    /\ pc[l] = "open"
    /\ \/ ~Writable /\ UNCHANGED faults
       \/ Fault
    /\ pc' = [pc EXCEPT ![l] = "failed"]
    /\ UNCHANGED <<storeVars, data, phase, lo, sgl, pos, tx, aux>>

(* One transaction.query.insert; an unmatched query is only logged. *)
InsertQuery(l) ==
    LET q == executables(l)[pos[l]]
        matched == Matched(q, Visible(l))
    IN  /\ pc[l] = "insert"
        /\ pos[l] <= Last(l)
        /\ TxOpen(l)
        /\ Executable(q)
        /\ ~Clashes(l, q)
        /\ pos' = [pos EXCEPT ![l] = pos[l] + 1]
        /\ IF matched
           THEN tx' = [tx EXCEPT ![l].staged = tx[l].staged \cup {q}]
           ELSE tx' = [tx EXCEPT ![l].missed = tx[l].missed \cup {q}]
        /\ UNCHANGED <<storeVars, pc, data, phase, lo, sgl, faults, aux>>

InsertQueryRaises(l) ==
    LET q == executables(l)[pos[l]]
    IN  /\ pc[l] = "insert"
        /\ pos[l] <= Last(l)
        /\ \/ /\ ~TxOpen(l) \/ ~Executable(q) \/ Clashes(l, q)
              /\ UNCHANGED faults
           \/ Fault
        /\ After(l, FALSE)
        /\ Settled(l, {}, {}, Final(l))
        /\ UNCHANGED <<storeVars, aux_lost, aux_home>>

(* Mutant: manage_transactions does not return True.                       *)
CommitReturnsNothing(l) ==
    /\ pc[l] = "insert"
    /\ pos[l] > Last(l)
    /\ TxOpen(l)
    /\ Committable(tx[l].staged)
    /\ Apply(tx[l].staged)
    /\ After(l, FALSE)
    /\ Settled(l, {}, {}, Final(l))
    /\ UNCHANGED <<dbStatus, dbGen, schemaLock, faults, aux_lost, aux_home>>

Commit(l) ==
    /\ pc[l] = "insert"
    /\ pos[l] > Last(l)
    /\ TxOpen(l)
    /\ Committable(tx[l].staged)
    /\ Apply(tx[l].staged)
    /\ After(l, TRUE)
    /\ Settled(l, tx[l].staged, tx[l].missed, {})
    /\ UNCHANGED <<dbStatus, dbGen, schemaLock, faults, aux_lost, aux_home>>

CommitRaises(l) ==
    /\ pc[l] = "insert"
    /\ pos[l] > Last(l)
    /\ \/ /\ ~TxOpen(l) \/ ~Committable(tx[l].staged)
          /\ UNCHANGED faults
       \/ Fault
    /\ After(l, FALSE)
    /\ Settled(l, {}, {}, Final(l))
    /\ UNCHANGED <<storeVars, aux_lost, aux_home>>

(* The server commits, the answer is lost: load sees a failed insert. *)
CommitAnswerLost(l) ==
    /\ pc[l] = "insert"
    /\ pos[l] > Last(l)
    /\ TxOpen(l)
    /\ Committable(tx[l].staged)
    /\ Fault
    /\ Apply(tx[l].staged)
    /\ aux_lost' = aux_lost + 1
    /\ After(l, FALSE)
    /\ Settled(l, {}, {}, Final(l))
    /\ UNCHANGED <<dbStatus, dbGen, schemaLock, aux_home>>

(* The process is killed; the server drops its open transaction. *)
Crash(l) ==
    /\ pc[l] \in Running
    /\ pc' = [pc EXCEPT ![l] = "crashed"]
    /\ tx' = [tx EXCEPT ![l] = NoTx]
    /\ UNCHANGED <<storeVars, data, phase, lo, sgl, pos, faults, aux>>
----------------------------------------------------------------------------
LoadInit ==
    /\ pc = [l \in Loader |-> "idle"]
    /\ data = [l \in Loader |-> NoData]
    /\ phase = [l \in Loader |-> 1]
    /\ lo = [l \in Loader |-> 1]
    /\ sgl = [l \in Loader |-> 0]
    /\ pos = [l \in Loader |-> 1]
    /\ tx = [l \in Loader |-> NoTx]
    /\ faults = 0
    /\ aux_verdict = [l \in Loader |-> [q \in Query |-> "pending"]]
    /\ aux_lost = 0
    /\ aux_home = [l \in Loader |-> {}]

(* The steps a running process takes on its own. *)
Progress(l) ==
    \/ OpenHandler(l)
    \/ EndPhase(l)
    \/ CheckDatabase(l)
    \/ OpenTransaction(l)
    \/ OpenTransactionRaises(l)
    \/ InsertQuery(l)
    \/ InsertQueryRaises(l)
    \/ Commit(l)
    \/ CommitRaises(l)

LoadStep(l) ==
    \/ \E d \in Bundles : StartLoad(l, d)
    \/ Progress(l)
    \/ OpenHandlerRaises(l)
    \/ CheckDatabaseRaises(l)
    \/ CommitAnswerLost(l)
    \/ Crash(l)

Init == StoreInit /\ LoadInit
Next == \E l \in Loader : LoadStep(l)
Spec == Init /\ [][Next]_vars
FairSpec == Spec /\ \A l \in Loader : WF_vars(Progress(l))
----------------------------------------------------------------------------
Items(d, p) == {d[p][i] : i \in 1..Len(d[p])}
Pending(l, q) == aux_verdict[l][q] = "pending"

(* No connection failed, and load l works on the database it started on:   *)
(* nobody has deleted that database since.                                 *)
Undisturbed(l) == faults = 0 /\ DatabaseExists /\ dbGen \in aux_home[l]

(* No query is sent before every query of the earlier lists has been dealt *)
(* with, so that a relation finds the objects it refers to.                *)
PhaseOrder ==
    \A l \in Loader, p, r \in Phases : p < r =>
        \A e \in Items(data[l], p), q \in Items(data[l], r) :
            Pending(l, e) => Pending(l, q) /\ q \notin tx[l].staged

(* A load that ends normally has dealt with every query it was given: none *)
(* falls between two batches, or between a failed batch and its retry.     *)
NothingSkipped ==
    \A l \in Loader, p \in Phases : pc[l] = "done" =>
        \A q \in Items(data[l], p) : ~Pending(l, q)

(* Rolling a batch back and sending its queries again stores each of them  *)
(* once: the database holds as many copies of a query as there are loads   *)
(* that count it as stored.  Only a commit whose answer is lost adds one.  *)
StoredBy(q) == {l \in Loader : aux_verdict[l][q] = "stored"}
CopiesAccounted ==
    \A q \in Query :
        /\ copies[q] <= Cardinality(StoredBy(q)) + aux_lost
        /\ dbGen = 0 /\ DatabaseExists => copies[q] >= Cardinality(StoredBy(q))

(* A query is skipped for its own fault only, never because of a query it  *)
(* shared a batch with: it is malformed, or its object is stored already.  *)
RefusedForCause ==
    \A l \in Loader, q \in Query :
        Undisturbed(l) /\ aux_verdict[l][q] = "refused" =>
            q \in Refused \/ Keys[q] \cap StoredKeys # {}

(* What a bundle brings into an empty database.  A query can be loaded if  *)
(* TypeDB accepts it, the objects it refers to come in earlier lists, and  *)
(* no other object has a key (say, the name of a malware family) of its.   *)
Unrivalled(q) == \A r \in Query : Keys[r] \cap Keys[q] # {} => Keys[r] = Keys[q]
Loadable(d, p, ids) == {q \in Items(d, p) :
    q \notin Refused /\ Unrivalled(q) /\ Needs[q] \subseteq ids}
Entities(d)  == Loadable(d, 1, {})
Relations(d) == Loadable(d, 2, KeysOf(Entities(d)))
Embedded(d)  == Loadable(d, 3, KeysOf(Entities(d) \cup Relations(d)))

(* A load that ends normally on the database it started on, with no failure *)
(* of the connection, has stored everything that can be stored of its      *)
(* bundle, whatever the bundle's other queries and other processes do.     *)
LoadComplete ==
    \A l \in Loader : Undisturbed(l) /\ pc[l] = "done" =>
        /\ KeysOf(Entities(data[l]) \cup Relations(data[l])) \subseteq StoredKeys
        /\ \A q \in Embedded(data[l]) : Keys[q] = {} => aux_verdict[l][q] = "stored"

(* Every load ends, and fails only if it was killed or lost its server:    *)
(* the retry of a failed batch cannot keep it busy for ever.               *)
LoadEnds ==
    \A l \in Loader : pc[l] \in Running ~>
        \/ pc[l] \in {"done", "crashed"}
        \/ pc[l] = "failed" /\ faults > 0
----------------------------------------------------------------------------
(* The batches, the transactions and the retries implement the contract of *)
(* a load: each query is dealt with once, in the order of the three lists, *)
(* and a step of a load is a step of the contract or invisible to it.      *)
life == [l \in Loader |->
    CASE pc[l] = "idle" -> "waiting"
      [] pc[l] = "done" -> "done"
      [] pc[l] \in Running -> "loading"
      [] OTHER -> "stopped"]
Contract == INSTANCE LoadContract WITH verdict <- aux_verdict, lost <- aux_lost
ImplementsContract == Contract!ContractSpec
=============================================================================
