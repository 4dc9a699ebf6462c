---------------------------- MODULE LoadContract ----------------------------
(***************************************************************************)
(* What ETLOrchestrator.load promises, without batches, retries, snapshots *)
(* or sessions: every query of the bundle is dealt with exactly once, list *)
(* by list.  Dealing with a query stores what it inserts, or finds that    *)
(* its match clause has no answer, or refuses it for a fault of its own or *)
(* of the connection.  BatchLoad implements this specification.            *)
(***************************************************************************)
EXTENDS SKBStore, Sequences

CONSTANTS Loader, Bundles, MaxFaults

VARIABLES
    life,       \* waiting, loading, done or stopped, for each process
    data,       \* the three lists of queries it was given
    verdict,    \* what became of each query
    faults,     \* failures of the connection
    lost        \* commits whose success was not reported

contractVars == <<dbStatus, dbGen, schemaLock, copies, life, data, verdict, faults, lost>>

Elements(d, p) == {d[p][i] : i \in 1..Len(d[p])}
PendingIn(l, p) == {q \in Elements(data[l], p) : verdict[l][q] = "pending"}

(* Some queries of list p are next: nothing of the earlier lists is left.  *)
Turn(l, p) == \A r \in 1..(p - 1) : PendingIn(l, r) = {}

Decide(l, S, v) ==
    verdict' = [verdict EXCEPT ![l] =
                    [q \in Query |-> IF q \in S THEN v ELSE verdict[l][q]]]
Fail == faults < MaxFaults /\ faults' = faults + 1
Storable(S) == /\ Committable(S)
               /\ S \cap Refused = {}
               /\ \A q \in S : Needs[q] \subseteq StoredKeys \cup KeysOf(S)
               /\ \A q, r \in S : Keys[q] \cap Keys[r] # {} => q = r
----------------------------------------------------------------------------
Begin(l) ==
    /\ life[l] = "waiting"
    /\ life' = [life EXCEPT ![l] = "loading"]
    /\ \E d \in Bundles : data' = [data EXCEPT ![l] = d]
    /\ UNCHANGED <<storeVars, verdict, faults, lost>>

(* Queries of one list are stored together; others find no match.          *)
Store(l) ==
    /\ life[l] = "loading"
    /\ \E p \in 1..3 : Turn(l, p) /\ \E S, U \in SUBSET PendingIn(l, p) :
            /\ S \cap U = {}
            /\ Storable(S)
            /\ \A q \in U : Needs[q] # {}
            /\ Apply(S)
            /\ verdict' = [verdict EXCEPT ![l] =
                    [q \in Query |-> IF q \in S THEN "stored"
                                     ELSE IF q \in U THEN "unmatched"
                                     ELSE verdict[l][q]]]
    /\ UNCHANGED <<dbStatus, dbGen, schemaLock, life, data, faults, lost>>

(* One query is refused: it is malformed or its object is stored already.  *)
Refuse(l) ==
    /\ life[l] = "loading"
    /\ \E p \in 1..3 : Turn(l, p) /\ \E q \in PendingIn(l, p) :
            /\ \/ q \in Refused \/ Keys[q] \cap StoredKeys # {}
               \/ ~Defined
            /\ Decide(l, {q}, "refused")
    /\ UNCHANGED <<storeVars, life, data, faults, lost>>

(* The connection fails: at most one query is given up, and what was to be *)
(* stored may have been stored without this being known.                   *)
Disturb(l) ==
    /\ life[l] = "loading"
    /\ Fail
    /\ \E p \in 1..3 : Turn(l, p) /\ \E S \in SUBSET PendingIn(l, p) :
            /\ \/ UNCHANGED <<copies, lost>>
               \/ Storable(S) /\ Apply(S) /\ lost' = lost + 1
            /\ \/ UNCHANGED verdict
               \/ \E q \in PendingIn(l, p) : Decide(l, {q}, "refused")
    /\ UNCHANGED <<dbStatus, dbGen, schemaLock, life, data>>

Finish(l) ==
    /\ life[l] = "loading"
    /\ \A p \in 1..3 : PendingIn(l, p) = {}
    /\ life' = [life EXCEPT ![l] = "done"]
    /\ UNCHANGED <<storeVars, data, verdict, faults, lost>>

(* The load gives up or is killed. *)
Stop(l) ==
    /\ life[l] = "loading"
    /\ life' = [life EXCEPT ![l] = "stopped"]
    /\ faults' \in {faults, faults + 1}
    /\ UNCHANGED <<storeVars, data, verdict, lost>>
----------------------------------------------------------------------------
ContractInit ==
    /\ StoreInit
    /\ life = [l \in Loader |-> "waiting"]
    /\ data = [l \in Loader |-> [p \in 1..3 |-> <<>>]]
    /\ verdict = [l \in Loader |-> [q \in Query |-> "pending"]]
    /\ faults = 0
    /\ lost = 0

ContractNext == \E l \in Loader :
    \/ Begin(l)
    \/ Store(l)
    \/ Refuse(l)
    \/ Disturb(l)
    \/ Finish(l)
    \/ Stop(l)

ContractSpec == ContractInit /\ [][ContractNext]_contractVars
=============================================================================
