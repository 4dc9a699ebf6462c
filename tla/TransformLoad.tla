--------------------------- MODULE TransformLoad ---------------------------
(***************************************************************************)
(* ETLOrchestrator.transform_load on an empty database: what a STIX file   *)
(* has become in the CTI SKB once it has been converted (Transform) and    *)
(* its queries have been loaded in batches (BatchLoad).                    *)
(***************************************************************************)
EXTENDS Transform

CONSTANTS
    Process,    \* the process that runs transform_load
    BatchSize,  \* LOAD_BATCH_SIZE
    NameKey,    \* the second keys: names of malware families, TLP levels
    NameKeys,   \* NameKeys[o]: those of object o
    Illegal     \* objects with a value that the TypeDB schema rejects

VARIABLES
    dbStatus, dbGen, schemaLock, copies,            \* the database
    pc, data, phase, lo, sgl, pos, tx, faults,      \* the load
    aux_verdict, aux_lost, aux_home

loadSide == <<dbStatus, dbGen, schemaLock, copies, pc, data, phase, lo, sgl, pos, tx, faults,
              aux_verdict, aux_lost, aux_home>>
pipelineVars == <<transformVars, loadSide>>

Queries ==
    {q \in UNION {{EntityOf[o], RelationOf[o], EmbeddedOf[o]} : o \in Object} : q.needs \subseteq Id}
QueryKey(q) == IF q.part = "embedded" THEN {} ELSE {Content[q.obj].id} \cup NameKeys[q.obj]
QueryKeys == [q \in Queries |-> QueryKey(q)]
QueryNeeds == [q \in Queries |-> q.needs]
IsIllegal(q) == q.part # "embedded" /\ q.obj \in Illegal
IllegalQueries == {q \in Queries : IsIllegal(q)}

ASSUME TransformLoadAssumption ==
    /\ BatchSize \in Nat \ {0}
    /\ NameKey \cap Id = {}
    /\ NameKeys \in [Object -> SUBSET NameKey]
    /\ Illegal \subseteq Object

Store == INSTANCE BatchLoad WITH
    Query <- Queries, KeyValue <- Id \cup NameKey, Keys <- QueryKeys, Needs <- QueryNeeds,
    Refused <- IllegalQueries, Loader <- {Process}, Bundles <- {Translation(f) : f \in Files},
    MaxFaults <- 0
----------------------------------------------------------------------------
TransformPart == TransformNext /\ UNCHANGED loadSide

(* Mutant: the main objects of both kinds are handed over in one list.     *)
HandOverMerged ==
    /\ stage = "done"
    /\ Store!StartLoad(Process, <<lists[2] \o lists[1], <<>>, lists[3]>>)
    /\ UNCHANGED transformVars
HandOver ==
    /\ stage = "done"
    /\ Store!StartLoad(Process, lists)
    /\ UNCHANGED transformVars

LoadPart == Store!Progress(Process) /\ UNCHANGED transformVars

PipelineInit == TransformInit /\ Store!Init
PipelineNext == TransformPart \/ HandOver \/ LoadPart
PipelineSpec == PipelineInit /\ [][PipelineNext]_pipelineVars /\ WF_pipelineVars(PipelineNext)
----------------------------------------------------------------------------
(* A file that has been loaded is represented by what its objects give, as *)
(* if every query were executed on its own in the order of the lists:      *)
(* a query is stored, once, if what it matches on was stored before it and *)
(* none of its keys was.  Batches, roll-backs and retries leave no trace.  *)
InOrder(f) == Translation(f)[1] \o Translation(f)[2] \o Translation(f)[3]
KeyBefore(queries, n, key) ==
    \E j \in 1..(n - 1) : copies[queries[j]] > 0 /\ key \in QueryKey(queries[j])
FileRepresented ==
    pc[Process] = "done" => \A queries \in {InOrder(file)} :
        /\ \A q \in Queries : copies[q] > 0 => \E i \in 1..Len(queries) : q = queries[i]
        /\ \A i \in 1..Len(queries) :
                copies[queries[i]] =
                    IF /\ ~IsIllegal(queries[i])
                       /\ \A key \in queries[i].needs : KeyBefore(queries, i, key)
                       /\ \A key \in QueryKey(queries[i]) : ~KeyBefore(queries, i, key)
                    THEN 1 ELSE 0

(* An object keeps all its references if the file brings it and what it    *)
(* refers to, and the schema and the keys let them in: whatever else the   *)
(* file holds, and whatever is rejected in the same batch.                 *)
Accepted(f, o) ==
    /\ o \notin Illegal
    /\ \A i \in 1..Len(f) : f[i] # o =>
            /\ Content[f[i]].id # Content[o].id
            /\ NameKeys[f[i]] \cap NameKeys[o] = {}
AcceptedObjects(f) == {f[i] : i \in {j \in 1..Len(f) : Accepted(f, f[j])}}
EntityIds(f) == {Content[o].id : o \in AcceptedObjects(f) \cap Entities}
RelationIds(f) == {Content[o].id : o \in {x \in AcceptedObjects(f) \cap Relations :
                        RolePlayers(x) \subseteq EntityIds(f)}}
ReferencesKept ==
    pc[Process] = "done" =>
        \A o \in AcceptedObjects(file) \cap Referrers :
            {Content[o].id} \cup Targets(o) \subseteq EntityIds(file) \cup RelationIds(file)
            => copies[EmbeddedOf[o]] = 1

(* Every file that can be read ends up in the database.                    *)
FileLoaded == (\A i \in 1..Len(file) : Content[file[i]].read = "ok") ~> pc[Process] = "done"

(* SRS-007 and MRS-008: preventing "contradictory and repeated data to be  *)
(* stored".  The relations of an object in the database are those of the   *)
(* version of the object that is in the database.                          *)
RelationsOfStoredVersion ==
    \A o \in Referrers : copies[EmbeddedOf[o]] > 0 =>
        \/ o \in Entities /\ copies[EntityOf[o]] > 0
        \/ o \in Relations /\ copies[RelationOf[o]] > 0
=============================================================================
