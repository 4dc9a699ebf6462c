------------------------------ MODULE SKBStore ------------------------------
(***************************************************************************)
(* The CTI SKB as the SATRAP processes see it: one TypeDB database, seen   *)
(* through the TypeDB driver.  The server is not part of the repository;   *)
(* what is stated here is what the code under satrap/ relies on:           *)
(*   - a stix-id is a key (cti-skb-types.tql), so at most one thing with a *)
(*     given identifier can be stored; malware families have their name,   *)
(*     and TLP markings their level, as a second key; embedded relations   *)
(*     have no key;                                                        *)
(*   - "match ... insert ..." inserts nothing, without any error, when     *)
(*     its match clause finds no answer;                                   *)
(*   - a write transaction works on the snapshot taken when it was opened  *)
(*     and is applied as a whole, or not at all, when it commits;          *)
(*   - deleting a database closes the transactions open on it, and while a *)
(*     SCHEMA session is open no write transaction on data can be opened.  *)
(*                                                                         *)
(* A TypeQL insert query is a member of Query.  Of its text the model      *)
(* keeps what the behaviour of a load depends on.                          *)
(***************************************************************************)
EXTENDS Naturals, FiniteSets

CONSTANTS
    Query,      \* the insert queries the transformation can produce
    KeyValue,   \* the values of key attributes
    Keys,       \* Keys[q]: the keys owned by the object q inserts, if any
    Needs,      \* Needs[q]: the identifiers the match clause of q refers to
    Refused     \* the queries TypeDB rejects whatever the database contains

ASSUME StoreAssumption ==
    /\ Keys \in [Query -> SUBSET KeyValue]
    /\ Needs \in [Query -> SUBSET KeyValue]
    /\ Refused \subseteq Query

VARIABLES
    dbStatus,   \* absent, blank (no schema), typed (no rules) or ready
    dbGen,      \* how many times the database has been created
    schemaLock, \* a SCHEMA session is open
    copies      \* copies[q]: how often what q inserts is in the database

storeVars == <<dbStatus, dbGen, schemaLock, copies>>

DbStatus == {"absent", "blank", "typed", "ready"}

StoreTypeOK ==
    /\ dbStatus \in DbStatus
    /\ dbGen \in Nat
    /\ schemaLock \in BOOLEAN
    /\ copies \in [Query -> Nat]

Empty == [q \in Query |-> 0]

(* The keys of the queries in S; embedded relations contribute none. *)
KeysOf(S) == UNION {Keys[q] : q \in S}

StoredKeys == KeysOf({q \in Query : copies[q] > 0})

(* driver.databases.contains(database_name) *)
DatabaseExists == dbStatus # "absent"

(* A DATA session and a WRITE transaction can be opened. *)
Writable == DatabaseExists /\ ~schemaLock

(* The types a query mentions are defined, and TypeDB accepts the query. *)
Defined == dbStatus \in {"typed", "ready"}
Executable(q) == Defined /\ q \notin Refused

(* Against the keys visible to a transaction: the match clause has an      *)
(* answer; the keys of the new object are still free.                      *)
Matched(q, visible) == Needs[q] \subseteq visible
KeyFree(q, visible) == Keys[q] \cap visible = {}

(* Committing the queries in S, which no other writer may have preempted.  *)
Committable(S) == KeysOf(S) \cap StoredKeys = {}
Apply(S) == copies' = [q \in Query |-> IF q \in S THEN copies[q] + 1 ELSE copies[q]]

StoreInit ==
    /\ dbStatus = "ready"
    /\ dbGen = 0
    /\ schemaLock = FALSE
    /\ copies = Empty
=============================================================================
