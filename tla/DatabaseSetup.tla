--------------------------- MODULE DatabaseSetup ---------------------------
(***************************************************************************)
(* "satrap setup": exec_setup and typedbmanager.create_database.  The      *)
(* database is checked for, deleted if asked to, created, and its schema   *)
(* is defined in two transactions of one SCHEMA session, types then rules. *)
(* Each of these is a call of its own to the server, so other setups and   *)
(* loads run in between, and a setup can be interrupted after any of them. *)
(***************************************************************************)
EXTENDS SKBStore

CONSTANT Setup      \* the setup processes

VARIABLES
    step,       \* where the process is in create_database
    reset,      \* its argument reset
    session     \* the database its SCHEMA session is open on, as a set

setupVars == <<step, reset, session>>

Working == {"check", "delete", "create", "session", "types", "rules"}
Over == {"done", "refused", "failed", "interrupted"}

SetupTypeOK ==
    /\ StoreTypeOK
    /\ step \in [Setup -> {"idle"} \cup Working \cup Over]
    /\ reset \in [Setup -> BOOLEAN]
    /\ session \in [Setup -> SUBSET Nat]
    /\ \A a \in Setup : session[a] # {} => step[a] \in {"types", "rules"}

Goto(a, s) == step' = [step EXCEPT ![a] = s]

(* The session of a is still open: its database was not deleted meanwhile. *)
SessionOpen(a) == DatabaseExists /\ dbGen \in session[a]

(* Mutant: the session is not closed on an error.                          *)
SessionLeaks(a) == session' = [session EXCEPT ![a] = {}] /\ UNCHANGED schemaLock

(* The process leaves its context managers: an open session is closed.     *)
CloseSession(a) ==
    /\ session' = [session EXCEPT ![a] = {}]
    /\ schemaLock' = (schemaLock /\ ~SessionOpen(a))
----------------------------------------------------------------------------
(* The user confirms; -t (testmode) and -d ask for a reset.                *)
StartSetup(a) ==
    /\ step[a] = "idle"
    /\ Goto(a, "check")
    /\ \E r \in BOOLEAN : reset' = [reset EXCEPT ![a] = r]
    /\ UNCHANGED <<storeVars, session>>

(* Mutant: an existing database is not deleted before it is created.       *)
CheckSkipsDelete(a) ==
    /\ step[a] = "check"
    /\ \/ (~DatabaseExists \/ reset[a]) /\ Goto(a, "create")
       \/ DatabaseExists /\ ~reset[a] /\ Goto(a, "refused")
    /\ UNCHANGED <<storeVars, reset, session>>

(* driver.databases.contains(db_name) *)
CheckExists(a) ==
    /\ step[a] = "check"
    /\ \/ ~DatabaseExists /\ Goto(a, "create")
       \/ DatabaseExists /\ reset[a] /\ Goto(a, "delete")
       \/ DatabaseExists /\ ~reset[a] /\ Goto(a, "refused")
    /\ UNCHANGED <<storeVars, reset, session>>

(* driver.databases.get(db_name).delete(), which raises without a database *)
DeleteDatabase(a) ==
    /\ step[a] = "delete"
    /\ IF DatabaseExists
       THEN /\ dbStatus' = "absent"
            /\ schemaLock' = FALSE
            /\ copies' = Empty
            /\ Goto(a, "create")
       ELSE Goto(a, "failed") /\ UNCHANGED <<dbStatus, schemaLock, copies>>
    /\ UNCHANGED <<dbGen, reset, session>>

(* driver.databases.create(db_name), which raises if there is one already  *)
CreateDatabase(a) ==
    /\ step[a] = "create"
    /\ IF ~DatabaseExists
       THEN /\ dbStatus' = "blank"
            /\ dbGen' = dbGen + 1
            /\ Goto(a, "session")
       ELSE Goto(a, "failed") /\ UNCHANGED <<dbStatus, dbGen>>
    /\ UNCHANGED <<schemaLock, copies, reset, session>>

(* The SCHEMA session excludes other ones; a database is needed.           *)
OpenSchemaSession(a) ==
    /\ step[a] = "session"
    /\ IF Writable
       THEN /\ schemaLock' = TRUE
            /\ session' = [session EXCEPT ![a] = {dbGen}]
            /\ Goto(a, "types")
       ELSE Goto(a, "failed") /\ UNCHANGED <<schemaLock, session>>
    /\ UNCHANGED <<dbStatus, dbGen, copies, reset>>

(* Mutant: the rules are not defined.                                      *)
OnlyTypes(a) ==
    /\ step[a] = "types"
    /\ IF SessionOpen(a)
       THEN dbStatus' = "typed" /\ Goto(a, "done")
       ELSE Goto(a, "failed") /\ UNCHANGED dbStatus
    /\ CloseSession(a)
    /\ UNCHANGED <<dbGen, copies, reset>>

(* setup_db_schema(session, schema) *)
DefineTypes(a) ==
    /\ step[a] = "types"
    /\ IF SessionOpen(a)
       THEN /\ dbStatus' = "typed"
            /\ Goto(a, "rules")
            /\ UNCHANGED <<schemaLock, session>>
       ELSE Goto(a, "failed") /\ CloseSession(a) /\ UNCHANGED dbStatus
    /\ UNCHANGED <<dbGen, copies, reset>>

(* setup_db_schema(session, conf.DB_RULES), and the session is closed.     *)
DefineRules(a) ==
    /\ step[a] = "rules"
    /\ IF SessionOpen(a)
       THEN dbStatus' = "ready" /\ Goto(a, "done")
       ELSE Goto(a, "failed") /\ UNCHANGED dbStatus
    /\ CloseSession(a)
    /\ UNCHANGED <<dbGen, copies, reset>>

(* Killed, the connection lost, or a schema file that cannot be read.      *)
Interrupt(a) ==
    /\ step[a] \in Working
    /\ Goto(a, "interrupted")
    /\ CloseSession(a)
    /\ UNCHANGED <<dbStatus, dbGen, copies, reset>>
----------------------------------------------------------------------------
SetupVarsInit ==
    /\ step = [a \in Setup |-> "idle"]
    /\ reset = [a \in Setup |-> FALSE]
    /\ session = [a \in Setup |-> {}]

SetupProgress(a) ==
    \/ CheckExists(a)
    \/ DeleteDatabase(a)
    \/ CreateDatabase(a)
    \/ OpenSchemaSession(a)
    \/ DefineTypes(a)
    \/ DefineRules(a)

SetupStep(a) == StartSetup(a) \/ SetupProgress(a) \/ Interrupt(a)

SetupInit ==
    /\ dbStatus \in {"absent", "ready"}
    /\ dbGen = 0
    /\ schemaLock = FALSE
    /\ copies = Empty
    /\ SetupVarsInit
SetupNext == \E a \in Setup : SetupStep(a)
SetupSpec ==
    /\ SetupInit
    /\ [][SetupNext]_<<storeVars, setupVars>>
    /\ \A a \in Setup : WF_<<storeVars, setupVars>>(SetupProgress(a))
----------------------------------------------------------------------------
(* A database whose schema is incomplete is being set up right now, or a   *)
(* setup was interrupted on it: two setups never spoil each other's        *)
(* database so that both report an ordinary end over an incomplete schema. *)
IncompleteExplained ==
    dbStatus \in {"blank", "typed"} =>
        \E a \in Setup : step[a] \in {"session", "types", "rules", "interrupted"}

(* At most one setup defines schema on the existing database, and the lock *)
(* that keeps writers out is held exactly while it does: no interruption   *)
(* leaves the database locked.                                             *)
LockIsOwned ==
    /\ schemaLock <=> \E a \in Setup : SessionOpen(a)
    /\ \A a, b \in Setup : SessionOpen(a) /\ SessionOpen(b) => a = b

(* Whatever an earlier setup left behind, a setup with reset that runs     *)
(* alone until it ends leaves a complete database.                         *)
Alone(a) == \A b \in Setup \ {a} : step[b] \in {"idle"} \cup Over
ResetRepairs ==
    \A a \in Setup : step[a] = "check" /\ reset[a] /\ Alone(a) ~>
        \/ step[a] = "done" /\ dbStatus = "ready"
        \/ step[a] = "interrupted"
        \/ ~Alone(a)
=============================================================================
