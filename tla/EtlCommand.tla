----------------------------- MODULE EtlCommand -----------------------------
(***************************************************************************)
(* The commands "satrap etl" and "satrap transform" from the confirmation  *)
(* to the report: exec_etl and exec_tl, the calls they make to the         *)
(* orchestrator (extract, transform, load), and which exceptions of these  *)
(* reach the command and which are only logged.                            *)
(*                                                                         *)
(* An ETL run stores what it downloads in a local file and reads the file  *)
(* back.  The name of the file has the minute of the run in it (Downloader)*)
(* or is fixed (MISP), so two runs may share it.                           *)
(***************************************************************************)
EXTENDS SKBSystem, Integers

CONSTANTS
    File,       \* local file names
    Source,     \* contents of a STIX source or file
    Reading,    \* Reading[s]: what STIXExtractor.fetch makes of s
    BundleOf,   \* BundleOf[s]: the queries the transformation produces from s
    Garbled     \* a file that is missing, or does not hold a JSON document

Readings == {"stix", "invalid", "noObjects", "badTimestamp"}

ASSUME CommandAssumption ==
    /\ IsFiniteSet(Query)
    /\ Source # {} /\ File # {}
    /\ Garbled \notin Source
    /\ Garbled \notin Loader
    /\ Source \cap Loader = {}
    /\ Reading \in [Source -> Readings]
    /\ BundleOf \in [Source -> Bundles]

VARIABLES
    stage,      \* where the command of a process is
    mode,       \* etl or transform
    source,     \* the data source of the command
    target,     \* the local file it stores the source in, or reads
    disk,       \* the local files: a source, Garbled, or the process writing it
    ini,        \* ini_data: data instances counted before the run
    report,     \* end_data - ini_data, the number the command prints
    escaped     \* the exception that left extract, transform or load

cmdVars == <<stage, mode, source, target, disk, ini, report, escaped>>
etlVars == <<sysVars, cmdVars>>

Active == {"count", "extract", "write", "transform", "load", "recount"}
Finished == {"aborted", "reported", "exit1", "killed"}
Exception == {"none", "ExtractionError", "ValueError", "other"}

EtlTypeOK ==
    /\ SystemTypeOK
    /\ stage \in [Loader -> {"idle"} \cup Active \cup Finished]
    /\ mode \in [Loader -> {"etl", "transform"}]
    /\ source \in [Loader -> Source]
    /\ target \in [Loader -> File]
    /\ disk \in [File -> Source \cup {Garbled} \cup Loader]
    /\ ini \in [Loader -> Nat]
    /\ report \in [Loader -> Int]
    /\ escaped \in [Loader -> Exception]
    /\ \A l \in Loader : pc[l] \in Running => stage[l] = "load"

(* count_data_instances *)
Instances == Cardinality(UNION {{q} \X (1..copies[q]) : q \in Query})

At(l, s) == stage[l] = s
Enter(l, s) == stage' = [stage EXCEPT ![l] = s]

(* Mutant: etl logs every exception and returns.                           *)
Swallow(l, e) ==
    /\ escaped' = [escaped EXCEPT ![l] = e]
    /\ Enter(l, "recount")

(* An exception leaves extract, transform or load.  etl and transform_load *)
(* log a ValueError and return normally; the command then counts again.    *)
(* They let every other exception through, and the command exits with 1.   *)
Raise(l, e) ==
    /\ escaped' = [escaped EXCEPT ![l] = e]
    /\ Enter(l, IF e = "ValueError" THEN "recount" ELSE "exit1")
----------------------------------------------------------------------------
(* The arguments, and the answer to the confirmation. *)
Confirm(l) ==
    /\ At(l, "idle")
    /\ \E m \in {"etl", "transform"}, s \in Source, f \in File :
            /\ mode' = [mode EXCEPT ![l] = m]
            /\ source' = [source EXCEPT ![l] = s]
            /\ target' = [target EXCEPT ![l] = f]
    /\ Enter(l, "count")
    /\ UNCHANGED <<sysVars, disk, ini, report, escaped>>

Decline(l) ==
    /\ At(l, "idle")
    /\ Enter(l, "aborted")
    /\ UNCHANGED <<sysVars, mode, source, target, disk, ini, report, escaped>>

CountBefore(l) ==
    /\ At(l, "count")
    /\ IF DatabaseExists
       THEN /\ ini' = [ini EXCEPT ![l] = Instances]
            /\ Enter(l, IF mode[l] = "etl" THEN "extract" ELSE "transform")
       ELSE Enter(l, "exit1") /\ UNCHANGED ini
    /\ UNCHANGED <<sysVars, mode, source, target, disk, report, escaped>>

(* Mutant: a file that exists already is taken for the download.           *)
ReuseTarget(l) ==
    /\ At(l, "extract")
    /\ IF disk[target[l]] \in Source
       THEN Enter(l, "transform") /\ UNCHANGED disk
       ELSE disk' = [disk EXCEPT ![target[l]] = l] /\ Enter(l, "write")
    /\ UNCHANGED <<sysVars, mode, source, target, ini, report, escaped>>

(* The source answers: the local file is opened, and truncated. *)
OpenTarget(l) ==
    /\ At(l, "extract")
    /\ disk' = [disk EXCEPT ![target[l]] = l]
    /\ Enter(l, "write")
    /\ UNCHANGED <<sysVars, mode, source, target, ini, report, escaped>>

(* It answers with a status that is neither ok nor an error: nothing is    *)
(* written and nothing is raised.                                          *)
DownloadNothing(l) ==
    /\ At(l, "extract")
    /\ Fault
    /\ Enter(l, "transform")
    /\ UNCHANGED <<storeVars, control, aux, setupVars,
                   mode, source, target, disk, ini, report, escaped>>

(* It answers with an error status; it does not answer in time. *)
DownloadRaises(l) ==
    /\ At(l, "extract")
    /\ Fault
    /\ \E e \in {"ExtractionError", "other"} : Raise(l, e)
    /\ UNCHANGED <<storeVars, control, aux, setupVars,
                   mode, source, target, disk, ini, report>>

(* The chunks are written and the file is closed.  If another process has  *)
(* opened the file since, what it holds is either text or neither.         *)
WriteTarget(l) ==
    /\ At(l, "write")
    /\ \E c \in IF disk[target[l]] = l THEN {source[l]}
                ELSE {source[l], disk[target[l]], Garbled} :
            disk' = [disk EXCEPT ![target[l]] = c]
    /\ Enter(l, "transform")
    /\ UNCHANGED <<sysVars, mode, source, target, ini, report, escaped>>

(* The connection breaks between two chunks: the file stays as it is.      *)
WriteRaises(l) ==
    /\ At(l, "write")
    /\ Fault
    /\ disk' = [disk EXCEPT ![target[l]] = Garbled]
    /\ \E e \in {"ExtractionError", "other"} : Raise(l, e)
    /\ UNCHANGED <<storeVars, control, aux, setupVars,
                   mode, source, target, ini, report>>

(* transform reads the file and converts its objects one by one.           *)
Readable(l) == disk[target[l]] \in Source

Transform(l) ==
    LET s == disk[target[l]]
    IN  /\ At(l, "transform")
        /\ Readable(l)
        /\ Reading[s] = "stix"
        /\ StartLoad(l, BundleOf[s])
        /\ Enter(l, "load")
        /\ UNCHANGED <<setupVars, mode, source, target, disk, ini, report, escaped>>

(* Not JSON: ExtractionError.  Not STIX: STIXParsingError.  No "objects":  *)
(* the handler of that case uses an unbound name.  A timestamp that cannot *)
(* be parsed in an object the bundle parser left alone: ValueError.        *)
ReadingError(l) ==
    IF ~Readable(l) THEN "ExtractionError"
    ELSE IF Reading[disk[target[l]]] = "badTimestamp" THEN "ValueError" ELSE "other"

TransformRaises(l) ==
    /\ At(l, "transform")
    /\ Readable(l) => Reading[disk[target[l]]] # "stix"
    /\ Raise(l, ReadingError(l))
    /\ UNCHANGED <<sysVars, mode, source, target, disk, ini, report>>

(* One step of the load the command is waiting for. *)
Load(l) ==
    /\ At(l, "load")
    /\ pc[l] \in Running
    /\ LoadStep(l)
    /\ pc'[l] # "crashed"
    /\ UNCHANGED <<setupVars, cmdVars>>

(* Mutants: the command does not wait for the load; the error of a missing *)
(* database is lost.                                                       *)
ReturnsEarly(l) ==
    /\ At(l, "load")
    /\ \/ pc[l] \notin {"rejected", "failed"} /\ Enter(l, "recount") /\ UNCHANGED escaped
       \/ pc[l] = "rejected" /\ Raise(l, "ValueError")
       \/ pc[l] = "failed" /\ Raise(l, "other")
    /\ UNCHANGED <<sysVars, mode, source, target, disk, ini, report>>
RejectionLost(l) ==
    /\ At(l, "load")
    /\ \/ pc[l] = "done" /\ Enter(l, "recount") /\ UNCHANGED escaped
       \/ pc[l] = "failed" /\ Raise(l, "other")
    /\ UNCHANGED <<sysVars, mode, source, target, disk, ini, report>>

LoadReturns(l) ==
    /\ At(l, "load")
    /\ \/ pc[l] = "done" /\ Enter(l, "recount") /\ UNCHANGED escaped
       \/ pc[l] = "rejected" /\ Raise(l, "ValueError")
       \/ pc[l] = "failed" /\ Raise(l, "other")
    /\ UNCHANGED <<sysVars, mode, source, target, disk, ini, report>>

(* Mutant: the operands of the difference are swapped.                     *)
CountReversed(l) ==
    /\ At(l, "recount")
    /\ IF DatabaseExists
       THEN report' = [report EXCEPT ![l] = ini[l] - Instances] /\ Enter(l, "reported")
       ELSE Enter(l, "exit1") /\ UNCHANGED report
    /\ UNCHANGED <<sysVars, mode, source, target, disk, ini, escaped>>

CountAfter(l) ==
    /\ At(l, "recount")
    /\ IF DatabaseExists
       THEN report' = [report EXCEPT ![l] = Instances - ini[l]] /\ Enter(l, "reported")
       ELSE Enter(l, "exit1") /\ UNCHANGED report
    /\ UNCHANGED <<sysVars, mode, source, target, disk, ini, escaped>>

(* The process is killed, whatever it is doing. *)
Kill(l) ==
    /\ stage[l] \in Active
    /\ Enter(l, "killed")
    /\ IF pc[l] \in Running
       THEN Crash(l)
       ELSE UNCHANGED <<storeVars, loadVars>>
    /\ UNCHANGED <<setupVars, mode, source, target, disk, ini, report, escaped>>
----------------------------------------------------------------------------
CommandInit ==
    /\ stage = [l \in Loader |-> "idle"]
    /\ mode = [l \in Loader |-> "etl"]
    /\ source = [l \in Loader |-> CHOOSE s \in Source : TRUE]
    /\ target = [l \in Loader |-> CHOOSE f \in File : TRUE]
    /\ disk \in [File -> Source \cup {Garbled}]
    /\ ini = [l \in Loader |-> 0]
    /\ report = [l \in Loader |-> 0]
    /\ escaped = [l \in Loader |-> "none"]

CommandProgress(l) ==
    \/ CountBefore(l)
    \/ OpenTarget(l)
    \/ WriteTarget(l)
    \/ Transform(l)
    \/ TransformRaises(l)
    \/ Load(l)
    \/ LoadReturns(l)
    \/ CountAfter(l)

CommandStep(l) ==
    \/ Confirm(l)
    \/ Decline(l)
    \/ CommandProgress(l)
    \/ DownloadNothing(l)
    \/ DownloadRaises(l)
    \/ WriteRaises(l)
    \/ Kill(l)

EtlInit == SystemInit /\ CommandInit
EtlNext ==
    \/ \E l \in Loader : CommandStep(l)
    \/ \E a \in Setup : SystemSetup(a) /\ UNCHANGED cmdVars
EtlSpec ==
    /\ EtlInit
    /\ [][EtlNext]_etlVars
    /\ \A l \in Loader : WF_etlVars(CommandProgress(l))
----------------------------------------------------------------------------
(* An ETL run that shares its local file with no other run loads what it   *)
(* has downloaded itself, not what an earlier run left in the file, as     *)
(* long as every answer it gets is complete.                               *)
OwnTarget(l) == \A k \in Loader \ {l} : target[k] # target[l] \/ At(k, "idle")
LoadsOwnSource ==
    \A l \in Loader : mode[l] = "etl" /\ faults = 0 /\ OwnTarget(l) /\ pc[l] # "idle" =>
        data[l] = BundleOf[source[l]]

(* The number of instances a command reports covers at least everything    *)
(* its own load stored, whoever else writes to the database meanwhile.     *)
ReportCoversLoad ==
    \A l \in Loader : At(l, "reported") /\ dbGen = 0 =>
        report[l] >= Cardinality({q \in Query : aux_verdict[l][q] = "stored"})

(* A command that reports its run as finished has completed the load, or   *)
(* one of two things was hidden from the user: a ValueError for a source   *)
(* that cannot be processed (it is still in the local file, if no other    *)
(* run shares that), or a database that was gone for a while.              *)
Unprocessable(l) == Readable(l) /\ Reading[disk[target[l]]] = "badTimestamp"
ReportedRunIsLoaded ==
    \A l \in Loader : At(l, "reported") =>
        \/ pc[l] = "done"
        \/ pc[l] = "idle" /\ (OwnTarget(l) => Unprocessable(l))
        \/ pc[l] = "rejected" /\ dbGen > 0

(* Every confirmed command comes to an end. *)
CommandEnds == \A l \in Loader : stage[l] \in Active ~> stage[l] \in Finished

(* STIXExtractor.fetch: ":raises ExtractionError: If the STIX source is    *)
(* invalid".  With a connection that works, every error before the load    *)
(* starts comes from reading the source.                                   *)
InvalidSourceIsExtractionError ==
    \A l \in Loader : faults = 0 /\ pc[l] = "idle" =>
        escaped[l] \in {"none", "ExtractionError"}

(* download_file: ":raises HTTPError: if the response status code is not   *)
(* 200".  A run that gets past the extraction has the answer of its source *)
(* in its local file, unless another run shares the file.                  *)
AnswerIsStored ==
    \A l \in Loader : mode[l] = "etl" /\ OwnTarget(l) /\ At(l, "transform") =>
        disk[target[l]] = source[l]
=============================================================================
