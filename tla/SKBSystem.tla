----------------------------- MODULE SKBSystem -----------------------------
(***************************************************************************)
(* Loads and setups against one database: "satrap setup -d" may delete and *)
(* recreate the database while a load is between two of its batches, or    *)
(* between the existence check of insert() and the session it opens.       *)
(***************************************************************************)
EXTENDS BatchLoad, DatabaseSetup

sysVars == <<storeVars, loadVars, setupVars>>

(* A SCHEMA session cannot be opened under an open write transaction.      *)
NoWriter == \A l \in Loader : ~(pc[l] = "insert" /\ TxOpen(l))
WaitsForWriters(a) == step[a] = "session" => NoWriter \/ step'[a] # "types"

SystemSetup(a) == SetupStep(a) /\ WaitsForWriters(a) /\ UNCHANGED loadVars
SystemLoad(l) == LoadStep(l) /\ UNCHANGED setupVars

SystemInit == SetupInit /\ LoadInit
SystemNext ==
    \/ \E l \in Loader : SystemLoad(l)
    \/ \E a \in Setup : SystemSetup(a)
SystemSpec ==
    /\ SystemInit
    /\ [][SystemNext]_sysVars
    /\ \A l \in Loader : WF_sysVars(Progress(l) /\ UNCHANGED setupVars)
    /\ \A a \in Setup : WF_sysVars(SetupProgress(a) /\ WaitsForWriters(a) /\ UNCHANGED loadVars)
----------------------------------------------------------------------------
SystemTypeOK == TypeOK /\ SetupTypeOK

(* A load whose database was deleted and created again, between two of its *)
(* batches or under an open transaction, goes on with the database there   *)
(* is.  From the moment that has its types, what the load still has to     *)
(* send is stored: a batch that broke off is sent again, and every object  *)
(* and relation whose ends are stored gets in, unless the load stops with  *)
(* an error or the database is deleted once more.  Only the query that was *)
(* being sent alone when its transaction broke off is given up.            *)
Resumes(l) ==
    \/ pc[l] \in Running \ {"insert"}
    \/ pc[l] = "insert" /\ ~TxOpen(l) /\ sgl[l] = 0 /\ BatchSize > 1
Storable(l, q) ==
    /\ Defined /\ Needs[q] \subseteq StoredKeys
    /\ q \notin Refused /\ Unrivalled(q)
    /\ Pending(l, q) /\ \E p \in Phases : q \in Items(data[l], p)
LoadResumes ==
    \A l \in Loader, q \in Query : Resumes(l) /\ Storable(l, q) ~>
        \/ copies[q] > 0
        \/ Keys[q] # {} /\ Keys[q] \subseteq StoredKeys
        \/ pc[l] \in Ended \ {"done"}
        \/ ~Defined \/ faults > 0

(* Deleting the database under a load stops it or lets it go on with the   *)
(* new database, but it never hangs.                                       *)
LoadAlwaysEnds == \A l \in Loader : pc[l] \in Running ~> pc[l] \in Ended
=============================================================================
