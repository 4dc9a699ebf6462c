-------------------------- MODULE EtlCommandProofs --------------------------
(***************************************************************************)
(* "satrap etl" and "satrap transform" for any number of commands, beside  *)
(* any number of setups.                                                   *)
(***************************************************************************)
EXTENDS EtlCommand, SKBSystemProofs, FiniteSetTheorems

(* A command calls load once, after everything else it does before it      *)
(* counts again.                                                           *)
Called == {"load", "recount", "reported", "exit1", "killed"}

CommandType ==
    /\ stage \in [Loader -> {"idle"} \cup Active \cup Finished]
    /\ mode \in [Loader -> {"etl", "transform"}]
    /\ source \in [Loader -> Source]
    /\ target \in [Loader -> File]
    /\ disk \in [File -> Source \cup {Garbled} \cup Loader]
    /\ ini \in [Loader -> Nat]
    /\ report \in [Loader -> Int]
    /\ escaped \in [Loader -> Exception]
LoadsWhenCalled ==
    \A l \in Loader : /\ pc[l] # "idle" => stage[l] \in Called
                      /\ pc[l] \in Running => stage[l] = "load"
EtlInv == SystemInv /\ CommandType /\ LoadsWhenCalled

(***************************************************************************)
(* Seen from the server, a step of a command is a step of its load, or     *)
(* nothing, or a failure of the connection outside a load.                 *)
(***************************************************************************)
ServerUntouched == UNCHANGED <<storeVars, control, aux, setupVars>>

LEMMA CommandIsLoad ==
    ASSUME NEW l \in Loader, CommandStep(l)
    PROVE  \/ UNCHANGED sysVars
           \/ SystemLoad(l)
           \/ ServerUntouched /\ faults' = faults + 1
<1>1. CASE Confirm(l) \/ Decline(l) \/ CountBefore(l) \/ OpenTarget(l) \/ WriteTarget(l)
           \/ TransformRaises(l) \/ LoadReturns(l) \/ CountAfter(l)
  BY <1>1 DEF Confirm, Decline, CountBefore, OpenTarget, WriteTarget, TransformRaises,
     LoadReturns, CountAfter
<1>2. CASE Transform(l)
  <2>1. Readable(l) /\ UNCHANGED setupVars /\ StartLoad(l, BundleOf[disk[target[l]]])
    BY <1>2 DEF Transform
  <2>2. BundleOf[disk[target[l]]] \in Bundles
    BY <2>1, CommandAssumption DEF Readable
  <2>3. QED
    BY <2>1, <2>2 DEF SystemLoad, LoadStep
<1>3. CASE Load(l)
  BY <1>3 DEF Load, SystemLoad
<1>4. CASE DownloadNothing(l) \/ DownloadRaises(l) \/ WriteRaises(l)
  BY <1>4 DEF DownloadNothing, DownloadRaises, WriteRaises, Fault, ServerUntouched
<1>5. CASE Kill(l)
  BY <1>5 DEF Kill, SystemLoad, LoadStep, sysVars
<1>6. QED
  BY <1>1, <1>2, <1>3, <1>4, <1>5 DEF CommandStep, CommandProgress

LEMMA FaultKeeps ==
    ASSUME SystemInv, ServerUntouched, faults' = faults + 1
    PROVE  SystemInv'
<1>0. /\ LoadInv /\ TypeOK /\ SetupInv /\ HomesAreOld
      /\ UNCHANGED <<dbStatus, dbGen, schemaLock, copies, setupVars, pc, data, phase, lo, sgl,
                     pos, tx, aux_verdict, aux_lost, aux_home>>
  BY DEF SystemInv, LoadInv, ServerUntouched, storeVars, control, aux
<1>1. TypeOK'
  BY <1>0 DEF TypeOK, StoreTypeOK
<1>2. ASSUME NEW k \in Loader
      PROVE  Bounds(k)' /\ Ledger(k)' /\ Held(k)'
  BY <1>0, FrameInv DEF LoadInv, Local
<1>3. SetupInv'
  BY <1>0, SetupStutterKeeps DEF TypeOK, StoreTypeOK
<1>4. HomesAreOld' /\ \A k \in Loader : ~Undisturbed(k)'
  BY <1>0 DEF HomesAreOld, Undisturbed, TypeOK
<1>5. QED
  BY <1>1, <1>2, <1>3, <1>4 DEF SystemInv, LoadInv

LEMMA SystemKept ==
    ASSUME SystemInv, [EtlNext]_etlVars
    PROVE  SystemInv'
<1>1. ASSUME NEW l \in Loader, CommandStep(l) PROVE SystemInv'
  BY <1>1, CommandIsLoad, FaultKeeps, SystemNextKeeps DEF SystemNext
<1>2. ASSUME NEW a \in Setup, SystemSetup(a) PROVE SystemInv'
  BY <1>2, SystemNextKeeps DEF SystemNext
<1>3. CASE UNCHANGED etlVars
  BY <1>3, SystemNextKeeps DEF etlVars
<1>4. QED
  BY <1>1, <1>2, <1>3 DEF EtlNext

(***************************************************************************)
(* Types.  What the command counts is finite, because each of the finitely *)
(* many queries has been inserted finitely often.                          *)
(***************************************************************************)
InstancesOf(c) == UNION {{q} \X (1..c[q]) : q \in Query}

LEMMA InstancesFinite ==
    ASSUME NEW c \in [Query -> Nat]
    PROVE  IsFiniteSet(InstancesOf(c)) /\ Cardinality(InstancesOf(c)) \in Nat
<1> DEFINE f == [q \in Query |-> {q} \X (1..c[q])]
           T == {{q} \X (1..c[q]) : q \in Query}
<1>1. f \in Surjection(Query, T)
  BY DEF Surjection
<1>2. IsFiniteSet(T)
  <2> HIDE DEF f, T
  <2>1. QED
    BY <1>1, FS_Surjection, CommandAssumption
<1>3. ASSUME NEW q \in Query PROVE IsFiniteSet({q} \X (1..c[q]))
  <2>1. IsFiniteSet({q}) /\ IsFiniteSet(1..c[q])
    <3>1. 1 \in Int /\ c[q] \in Int
      OBVIOUS
    <3>2. QED
      BY <3>1, FS_Singleton, FS_Interval
  <2>2. QED
    BY <2>1, FS_Product
<1>4. IsFiniteSet(UNION T)
  BY <1>2, <1>3, FS_UNION
<1>5. QED
  BY <1>4, FS_CardinalityType DEF InstancesOf

LEMMA InstancesType == TypeOK => Instances \in Nat
<1>1. TypeOK => copies \in [Query -> Nat]
  BY DEF TypeOK, StoreTypeOK
<1>2. Instances = Cardinality(InstancesOf(copies))
  BY DEF Instances, InstancesOf
<1>3. QED
  BY <1>1, <1>2, InstancesFinite

LEMMA CommandInitially == EtlInit => EtlInv
<1> SUFFICES ASSUME EtlInit PROVE EtlInv
  OBVIOUS
<1>1. SystemInv
  BY SystemInitially DEF EtlInit
<1>2. (CHOOSE s \in Source : TRUE) \in Source /\ (CHOOSE f \in File : TRUE) \in File
  BY CommandAssumption
<1>3. CommandType
  BY <1>2 DEF EtlInit, CommandInit, CommandType, Exception
<1>4. LoadsWhenCalled
  BY DEF EtlInit, SystemInit, LoadInit, LoadsWhenCalled, Running
<1>5. QED
  BY <1>1, <1>3, <1>4 DEF EtlInv

LEMMA RaiseType ==
    ASSUME CommandType, NEW l \in Loader, NEW e \in Exception, Raise(l, e)
    PROVE  /\ stage' \in [Loader -> {"idle"} \cup Active \cup Finished]
           /\ stage'[l] \in {"recount", "exit1"}
           /\ \A k \in Loader : k # l => stage'[k] = stage[k]
           /\ escaped' \in [Loader -> Exception]
BY DEF Raise, Enter, CommandType, Active, Finished

LEMMA TypesKept ==
    ASSUME CommandType, SystemInv, NEW l \in Loader, CommandStep(l)
    PROVE  CommandType'
<1>0. Instances \in Nat
  BY InstancesType DEF SystemInv, LoadInv
<1>1. CASE Confirm(l)
  BY <1>1 DEF Confirm, Enter, CommandType, Active
<1>2. CASE Decline(l)
  BY <1>2 DEF Decline, Enter, CommandType, Finished
<1>3. CASE CountBefore(l)
  BY <1>0, <1>3 DEF CountBefore, Enter, CommandType, Active, Finished
<1>4. CASE OpenTarget(l)
  BY <1>4 DEF OpenTarget, Enter, CommandType, Active
<1>5. CASE WriteTarget(l)
  <2>1. PICK c \in IF disk[target[l]] = l THEN {source[l]}
                   ELSE {source[l], disk[target[l]], Garbled} :
               disk' = [disk EXCEPT ![target[l]] = c]
    BY <1>5 DEF WriteTarget
  <2>2. c \in Source \cup {Garbled} \cup Loader
    BY <2>1 DEF CommandType
  <2>3. QED
    BY <1>5, <2>1, <2>2 DEF WriteTarget, Enter, CommandType, Active
<1>6. CASE Transform(l)
  BY <1>6 DEF Transform, Enter, CommandType, Active
<1>7. CASE TransformRaises(l)
  <2>1. ReadingError(l) \in Exception
    BY DEF ReadingError, Exception
  <2>2. QED
    BY <1>7, <2>1, RaiseType DEF TransformRaises, CommandType
<1>8. CASE Load(l)
  BY <1>8 DEF Load, cmdVars, CommandType
<1>9. CASE LoadReturns(l)
  <2>1. CASE pc[l] = "done"
    BY <1>9, <2>1 DEF LoadReturns, Enter, CommandType, Active
  <2>2. CASE pc[l] # "done"
    BY <1>9, <2>2, RaiseType DEF LoadReturns, CommandType, Exception
  <2>3. QED
    BY <2>1, <2>2
<1>10. CASE CountAfter(l)
  <2>1. Instances - ini[l] \in Int
    BY <1>0 DEF CommandType
  <2>2. QED
    BY <1>10, <2>1 DEF CountAfter, Enter, CommandType, Finished
<1>11. CASE DownloadNothing(l)
  BY <1>11 DEF DownloadNothing, Enter, CommandType, Active
<1>12. CASE DownloadRaises(l)
  BY <1>12, RaiseType DEF DownloadRaises, CommandType, Exception
<1>13. CASE WriteRaises(l)
  <2>1. disk' \in [File -> Source \cup {Garbled} \cup Loader]
    BY <1>13 DEF WriteRaises, CommandType
  <2>2. QED
    BY <1>13, <2>1, RaiseType DEF WriteRaises, CommandType, Exception
<1>14. CASE Kill(l)
  <2>1. /\ stage' = [stage EXCEPT ![l] = "killed"]
        /\ UNCHANGED <<mode, source, target, disk, ini, report, escaped>>
    BY <1>14 DEF Kill, Enter
  <2>2. QED
    BY <2>1 DEF CommandType, Finished
<1>15. QED
  BY <1>1, <1>2, <1>3, <1>4, <1>5, <1>6, <1>7, <1>8, <1>9, <1>10, <1>11, <1>12, <1>13, <1>14
     DEF CommandStep, CommandProgress

(***************************************************************************)
(* One command leaves the others alone, but for the file they may share.   *)
(***************************************************************************)
Own(k) == <<stage[k], mode[k], source[k], target[k], ini[k], report[k], Local(k)>>

LEMMA OthersKept ==
    ASSUME EtlInv, NEW l \in Loader, CommandStep(l), NEW k \in Loader, k # l
    PROVE  UNCHANGED Own(k)
<1>1. /\ stage'[k] = stage[k] /\ mode'[k] = mode[k] /\ source'[k] = source[k]
      /\ target'[k] = target[k] /\ ini'[k] = ini[k] /\ report'[k] = report[k]
  <2>0. CommandType
    BY DEF EtlInv
  <2>1. CASE Confirm(l) \/ Decline(l)
    BY <2>0, <2>1 DEF Confirm, Decline, Enter, CommandType
  <2>2. CASE CountBefore(l) \/ CountAfter(l)
    BY <2>0, <2>2 DEF CountBefore, CountAfter, Enter, CommandType
  <2>3. CASE OpenTarget(l) \/ WriteTarget(l) \/ Transform(l) \/ DownloadNothing(l) \/ Kill(l)
    BY <2>0, <2>3 DEF OpenTarget, WriteTarget, Transform, DownloadNothing, Kill, Enter, CommandType
  <2>4. CASE TransformRaises(l) \/ LoadReturns(l) \/ DownloadRaises(l) \/ WriteRaises(l)
    BY <2>0, <2>4 DEF TransformRaises, LoadReturns, DownloadRaises, WriteRaises, Raise, Enter,
       CommandType
  <2>5. CASE Load(l)
    BY <2>5 DEF Load, cmdVars
  <2>6. QED
    BY <2>1, <2>2, <2>3, <2>4, <2>5 DEF CommandStep, CommandProgress
<1>2. UNCHANGED Local(k)
  <2>1. CASE UNCHANGED control /\ UNCHANGED aux
    BY <2>1 DEF control, aux, Local
  <2>2. CASE SystemLoad(l)
    BY <2>2, Frame DEF EtlInv, SystemInv, LoadInv, SystemLoad
  <2>3. QED
    BY <2>1, <2>2, CommandIsLoad DEF sysVars, loadVars, ServerUntouched
<1>3. QED
  BY <1>1, <1>2 DEF Own

(* What a running load does to its own variables.                          *)
LEMMA OwnLoad ==
    ASSUME TypeOK, NEW l \in Loader, LoadStep(l), pc[l] \in Running
    PROVE  data'[l] = data[l] /\ pc'[l] \in Running \cup Ended
<1>1. pc \in [Loader -> {"idle"} \cup Running \cup Ended]
  BY DEF TypeOK
<1>2. pc[l] # "idle"
  BY DEF Running
<1>3. QED
  BY <1>1, <1>2 DEF LoadStep, Progress, StartLoad, OpenHandler, OpenHandlerRaises, EndPhase,
     CheckDatabase, CheckDatabaseRaises, OpenTransaction, OpenTransactionRaises, InsertQuery,
     InsertQueryRaises, Commit, CommitRaises, CommitAnswerLost, Crash, After, Running, Ended

LEMMA CalledKept ==
    ASSUME EtlInv, NEW l \in Loader, CommandStep(l)
    PROVE  /\ pc'[l] # "idle" => stage'[l] \in Called
           /\ pc'[l] \in Running => stage'[l] = "load"
<1>0. /\ CommandType /\ TypeOK /\ SystemInv
      /\ pc[l] # "idle" => stage[l] \in Called
      /\ pc[l] \in Running => stage[l] = "load"
      /\ pc \in [Loader -> {"idle"} \cup Running \cup Ended]
  BY DEF EtlInv, SystemInv, LoadInv, LoadsWhenCalled, TypeOK
<1>1. CASE Confirm(l) \/ Decline(l) \/ CountBefore(l) \/ OpenTarget(l) \/ WriteTarget(l)
           \/ TransformRaises(l) \/ DownloadNothing(l) \/ DownloadRaises(l) \/ WriteRaises(l)
  <2>1. stage[l] \notin Called /\ pc' = pc
    BY <1>1 DEF Confirm, Decline, CountBefore, OpenTarget, WriteTarget, TransformRaises,
       DownloadNothing, DownloadRaises, WriteRaises, Called, At, sysVars, loadVars, control
  <2>2. QED
    BY <1>0, <2>1 DEF Running
<1>2. CASE Transform(l)
  <2>1. stage'[l] = "load"
    BY <1>0, <1>2 DEF Transform, Enter, CommandType
  <2>2. QED
    BY <2>1 DEF Called
<1>3. CASE Load(l)
  <2>1. stage'[l] = "load"
    BY <1>3 DEF Load, At, cmdVars
  <2>2. QED
    BY <2>1 DEF Called
<1>4. CASE LoadReturns(l)
  <2>1. pc'[l] = pc[l] /\ pc[l] \notin Running
    BY <1>4 DEF LoadReturns, Running, sysVars, loadVars, control
  <2>2. stage'[l] \in Called
    BY <1>0, <1>4 DEF LoadReturns, Raise, Enter, CommandType, Called
  <2>3. QED
    BY <2>1, <2>2
<1>5. CASE CountAfter(l)
  <2>1. pc'[l] = pc[l] /\ pc[l] \notin Running
    BY <1>0, <1>5 DEF CountAfter, At, sysVars, loadVars, control
  <2>2. stage'[l] \in Called
    BY <1>0, <1>5 DEF CountAfter, Enter, CommandType, Called
  <2>3. QED
    BY <2>1, <2>2
<1>6. CASE Kill(l)
  <2>1. stage'[l] = "killed"
    BY <1>0, <1>6 DEF Kill, Enter, CommandType
  <2>2. pc'[l] \notin Running
    BY <1>0, <1>6 DEF Kill, Crash, loadVars, control, Running
  <2>3. QED
    BY <2>1, <2>2 DEF Called
<1>7. QED
  BY <1>1, <1>2, <1>3, <1>4, <1>5, <1>6 DEF CommandStep, CommandProgress

LEMMA EtlInvNext == EtlInv /\ [EtlNext]_etlVars => EtlInv'
<1> SUFFICES ASSUME EtlInv, [EtlNext]_etlVars PROVE EtlInv'
  OBVIOUS
<1>1. SystemInv'
  BY SystemKept DEF EtlInv
<1>2. ASSUME NEW l \in Loader, CommandStep(l) PROVE CommandType' /\ LoadsWhenCalled'
  <2>1. CommandType'
    BY <1>2, TypesKept DEF EtlInv
  <2>2. ASSUME NEW k \in Loader
        PROVE  /\ pc'[k] # "idle" => stage'[k] \in Called
               /\ pc'[k] \in Running => stage'[k] = "load"
    <3>1. CASE k = l
      BY <1>2, <3>1, CalledKept
    <3>2. CASE k # l
      <4>1. pc'[k] = pc[k] /\ stage'[k] = stage[k]
        BY <1>2, <3>2, OthersKept DEF Own, Local
      <4>2. QED
        BY <4>1 DEF EtlInv, LoadsWhenCalled
    <3>3. QED
      BY <3>1, <3>2
  <2>3. QED
    BY <2>1, <2>2 DEF LoadsWhenCalled
<1>3. CASE UNCHANGED cmdVars /\ UNCHANGED pc
  BY <1>1, <1>3 DEF EtlInv, CommandType, LoadsWhenCalled, cmdVars
<1>4. ASSUME NEW a \in Setup, SystemSetup(a), UNCHANGED cmdVars PROVE UNCHANGED pc
  BY <1>4 DEF SystemSetup, loadVars, control
<1>5. UNCHANGED etlVars => UNCHANGED cmdVars /\ UNCHANGED pc
  BY DEF etlVars, sysVars, loadVars, control
<1>6. QED
  BY <1>1, <1>2, <1>3, <1>4, <1>5 DEF EtlInv, EtlNext

LEMMA EtlInvariant == EtlSpec => []EtlInv
BY CommandInitially, EtlInvNext, PTL DEF EtlSpec

(* Every variable keeps its type, and a load runs only while the command   *)
(* that called it waits for it.                                            *)
THEOREM EtlTypeCorrect == EtlSpec => []EtlTypeOK
<1>1. EtlInv => EtlTypeOK
  BY DEF EtlInv, SystemInv, LoadInv, SetupInv, SystemTypeOK, CommandType, LoadsWhenCalled, EtlTypeOK
<1>2. QED
  BY <1>1, EtlInvariant, PTL

(***************************************************************************)
(* The local file.  Once two commands share it they share it for good, and *)
(* a command that shares it with nobody finds in it what it put there.     *)
(***************************************************************************)
OwnFile(l) == mode[l] = "etl" /\ faults = 0 /\ OwnTarget(l) =>
    /\ stage[l] = "write" => disk[target[l]] = l
    /\ stage[l] = "transform" => disk[target[l]] = source[l]
    /\ pc[l] # "idle" => data[l] = BundleOf[source[l]]
FileInv == EtlInv /\ \A l \in Loader : OwnFile(l)

LEMMA FaultsGrow ==
    ASSUME EtlInv, NEW l \in Loader, CommandStep(l)
    PROVE  faults \in Nat /\ faults' \in {faults, faults + 1}
<1>0. faults \in Nat
  BY DEF EtlInv, SystemInv, LoadInv, TypeOK
<1>1. CASE UNCHANGED faults \/ faults' = faults + 1
  BY <1>0, <1>1
<1>2. CASE SystemLoad(l)
  <2>1. LoadStep(l)
    BY <1>2 DEF SystemLoad
  <2>2. QED
    BY <1>0, <2>1 DEF LoadStep, Progress, StartLoad, OpenHandler, OpenHandlerRaises, EndPhase,
       CheckDatabase, CheckDatabaseRaises, OpenTransaction, OpenTransactionRaises,
       InsertQuery, InsertQueryRaises, Commit, CommitRaises, CommitAnswerLost, Crash, Fault
<1>3. QED
  BY <1>1, <1>2, CommandIsLoad DEF sysVars, loadVars

LEMMA FileFrame ==
    ASSUME EtlInv, NEW l \in Loader, CommandStep(l)
    PROVE  /\ At(l, "idle") => UNCHANGED disk
           /\ ~At(l, "idle") => ~At(l, "idle")' /\ target'[l] = target[l]
                                /\ mode'[l] = mode[l] /\ source'[l] = source[l]
           /\ \A f \in File : f # target[l] => disk'[f] = disk[f]
<1>0. CommandType
  BY DEF EtlInv
<1>1. CASE Confirm(l) \/ Decline(l)
  BY <1>1 DEF Confirm, Decline, At
<1>2. CASE OpenTarget(l) \/ WriteTarget(l) \/ WriteRaises(l)
  <2>1. /\ stage[l] # "idle" /\ stage'[l] # "idle" /\ UNCHANGED <<target, mode, source>>
    BY <1>0, <1>2 DEF OpenTarget, WriteTarget, WriteRaises, Raise, Enter, CommandType, At
  <2>2. \A f \in File : f # target[l] => disk'[f] = disk[f]
    BY <1>0, <1>2 DEF OpenTarget, WriteTarget, WriteRaises, CommandType
  <2>3. QED
    BY <2>1, <2>2 DEF At
<1>3. CASE CountBefore(l) \/ CountAfter(l) \/ Transform(l) \/ DownloadNothing(l) \/ Kill(l)
  <2>1. stage[l] # "idle" /\ UNCHANGED <<target, mode, source, disk>>
    BY <1>3 DEF CountBefore, CountAfter, Transform, DownloadNothing, Kill, At, Active
  <2>2. stage'[l] # "idle"
    BY <1>0, <1>3 DEF CountBefore, CountAfter, Transform, DownloadNothing, Kill, Enter, CommandType
  <2>3. QED
    BY <2>1, <2>2 DEF At
<1>4. CASE TransformRaises(l) \/ LoadReturns(l) \/ DownloadRaises(l)
  <2>1. stage[l] # "idle" /\ UNCHANGED <<target, mode, source, disk>>
    BY <1>4 DEF TransformRaises, LoadReturns, DownloadRaises, At
  <2>2. stage'[l] # "idle"
    BY <1>0, <1>4 DEF TransformRaises, LoadReturns, DownloadRaises, Raise, Enter, CommandType
  <2>3. QED
    BY <2>1, <2>2 DEF At
<1>5. CASE Load(l)
  BY <1>5 DEF Load, cmdVars, At
<1>6. QED
  BY <1>1, <1>2, <1>3, <1>4, <1>5 DEF CommandStep, CommandProgress

LEMMA OwnTargetBefore ==
    ASSUME EtlInv, NEW l \in Loader, CommandStep(l), NEW k \in Loader,
           ~At(k, "idle"), OwnTarget(k)'
    PROVE  /\ OwnTarget(k)
           /\ k # l => disk'[target[k]] = disk[target[k]]
<1>0. target \in [Loader -> File]
  BY DEF EtlInv, CommandType
<1>1. target'[k] = target[k]
  BY FileFrame, OthersKept DEF Own
<1>2. ASSUME NEW j \in Loader \ {k} PROVE target[k] # target[j] \/ At(j, "idle")
  <2>1. target'[k] # target'[j] \/ At(j, "idle")'
    BY DEF OwnTarget, At
  <2>2. CASE j = l
    BY <1>1, <2>1, <2>2, FileFrame
  <2>3. CASE j # l
    <3>1. target'[j] = target[j] /\ stage'[j] = stage[j]
      BY <2>3, OthersKept DEF Own
    <3>2. QED
      BY <1>1, <2>1, <3>1 DEF At
  <2>4. QED
    BY <2>2, <2>3
<1>3. OwnTarget(k)
  BY <1>2 DEF OwnTarget
<1>4. ASSUME k # l PROVE disk'[target[k]] = disk[target[k]]
  BY <1>0, <1>2, <1>4, FileFrame
<1>5. QED
  BY <1>3, <1>4

LEMMA OwnFileStep ==
    ASSUME FileInv, EtlInv', NEW l \in Loader, CommandStep(l),
           mode'[l] = "etl", faults' = 0, OwnTarget(l)'
    PROVE  /\ stage'[l] = "write" => disk'[target'[l]] = l
           /\ stage'[l] = "transform" => disk'[target'[l]] = source'[l]
           /\ pc'[l] # "idle" => data'[l] = BundleOf[source'[l]]
<1>0. /\ EtlInv /\ CommandType /\ TypeOK /\ faults \in Nat /\ faults = 0
      /\ pc[l] # "idle" => stage[l] \in Called
      /\ pc'[l] # "idle" => stage'[l] \in Called
  BY FaultsGrow DEF FileInv, EtlInv, SystemInv, LoadInv, LoadsWhenCalled
<1>1. CASE At(l, "idle")
  <2>1. Confirm(l) \/ Decline(l)
    BY <1>1 DEF At, CommandStep, CommandProgress, CountBefore, OpenTarget, WriteTarget, Transform,
       TransformRaises, Load, LoadReturns, CountAfter, DownloadNothing, DownloadRaises,
       WriteRaises, Kill, Active
  <2>2. stage'[l] \notin Called /\ stage'[l] \notin {"write", "transform"}
    BY <1>0, <2>1 DEF Confirm, Decline, Enter, CommandType, Called
  <2>3. QED
    BY <1>0, <2>2
<1>2. CASE ~At(l, "idle")
  <2>1. /\ target'[l] = target[l] /\ mode[l] = "etl" /\ source'[l] = source[l] /\ OwnTarget(l)
    BY <1>0, <1>2, FileFrame, OwnTargetBefore
  <2>2. /\ stage[l] = "write" => disk[target[l]] = l
        /\ stage[l] = "transform" => disk[target[l]] = source[l]
        /\ pc[l] # "idle" => data[l] = BundleOf[source[l]]
    BY <1>0, <2>1 DEF FileInv, OwnFile
  <2>3. CASE OpenTarget(l)
    <3>1. stage'[l] = "write" /\ disk'[target[l]] = l
      BY <1>0, <2>3 DEF OpenTarget, Enter, CommandType
    <3>2. QED
      BY <1>0, <2>1, <3>1 DEF Called
  <2>4. CASE WriteTarget(l)
    <3>1. stage'[l] = "transform" /\ disk'[target[l]] = source[l]
      BY <1>0, <2>2, <2>4 DEF WriteTarget, At, Enter, CommandType
    <3>2. QED
      BY <1>0, <2>1, <3>1 DEF Called
  <2>5. CASE Transform(l)
    <3>1. stage'[l] = "load"
      BY <1>0, <2>5 DEF Transform, Enter, CommandType
    <3>2. data'[l] = BundleOf[source[l]]
      BY <1>0, <2>2, <2>5 DEF Transform, At, StartLoad, TypeOK
    <3>3. QED
      BY <2>1, <3>1, <3>2
  <2>6. CASE Load(l)
    <3>1. stage'[l] = "load" /\ data'[l] = data[l] /\ pc[l] # "idle"
      BY <1>0, <2>6, OwnLoad DEF Load, At, cmdVars, Running
    <3>2. QED
      BY <2>1, <2>2, <3>1
  <2>7. CASE CountBefore(l)
    <3>1. /\ stage[l] = "count" /\ pc' = pc
          /\ stage'[l] \in {"extract", "transform", "exit1"}
          /\ stage'[l] = "transform" => mode[l] # "etl"
      BY <1>0, <2>7 DEF CountBefore, At, Enter, CommandType, sysVars, loadVars, control
    <3>2. pc[l] = "idle"
      BY <1>0, <3>1 DEF Called
    <3>3. QED
      BY <2>1, <3>1, <3>2
  <2>8. CASE \/ TransformRaises(l) \/ LoadReturns(l) \/ CountAfter(l) \/ DownloadNothing(l)
             \/ DownloadRaises(l) \/ WriteRaises(l) \/ Kill(l)
    <3>1. UNCHANGED data /\ (pc'[l] # "idle" => pc[l] # "idle")
      BY <1>0, <2>8 DEF TransformRaises, LoadReturns, CountAfter, DownloadNothing, DownloadRaises,
         WriteRaises, Kill, Crash, sysVars, loadVars, control, Running
    <3>2. ~DownloadNothing(l)
      BY <1>0 DEF DownloadNothing, Fault
    <3>3. stage'[l] \notin {"write", "transform"}
      BY <1>0, <2>8, <3>2 DEF TransformRaises, LoadReturns, CountAfter, DownloadRaises, WriteRaises,
         Kill, Raise, Enter, CommandType
    <3>4. QED
      BY <2>1, <2>2, <3>1, <3>3
  <2>9. QED
    BY <1>2, <2>3, <2>4, <2>5, <2>6, <2>7, <2>8
       DEF At, CommandStep, CommandProgress, Confirm, Decline
<1>3. QED
  BY <1>1, <1>2

LEMMA FileInvNext == FileInv /\ [EtlNext]_etlVars => FileInv'
<1> SUFFICES ASSUME FileInv, [EtlNext]_etlVars PROVE FileInv'
  OBVIOUS
<1>1. EtlInv /\ EtlInv'
  BY EtlInvNext DEF FileInv
<1>2. ASSUME NEW l \in Loader, CommandStep(l), NEW k \in Loader,
             mode'[k] = "etl", faults' = 0, OwnTarget(k)'
      PROVE  /\ stage'[k] = "write" => disk'[target'[k]] = k
             /\ stage'[k] = "transform" => disk'[target'[k]] = source'[k]
             /\ pc'[k] # "idle" => data'[k] = BundleOf[source'[k]]
  <2>1. CASE k = l
    BY <1>1, <1>2, <2>1, OwnFileStep
  <2>2. CASE k # l
    <3>1. /\ stage'[k] = stage[k] /\ mode'[k] = mode[k] /\ source'[k] = source[k]
          /\ target'[k] = target[k] /\ pc'[k] = pc[k] /\ data'[k] = data[k]
      BY <1>1, <1>2, <2>2, OthersKept DEF Own, Local
    <3>2. CASE At(k, "idle")
      <4>1. pc[k] = "idle" /\ stage[k] = "idle"
        BY <1>1, <3>2 DEF At, EtlInv, LoadsWhenCalled, Called
      <4>2. QED
        BY <3>1, <4>1
    <3>3. CASE ~At(k, "idle")
      <4>1. OwnTarget(k) /\ disk'[target[k]] = disk[target[k]] /\ faults = 0
        BY <1>1, <1>2, <2>2, <3>3, OwnTargetBefore, FaultsGrow
      <4>2. OwnFile(k)
        BY DEF FileInv
      <4>3. QED
        BY <1>2, <3>1, <4>1, <4>2 DEF OwnFile
    <3>4. QED
      BY <3>2, <3>3
  <2>3. QED
    BY <2>1, <2>2
<1>3. CASE UNCHANGED <<cmdVars, pc, data, faults>>
  BY <1>1, <1>3 DEF FileInv, OwnFile, OwnTarget, At, cmdVars
<1>4. ASSUME NEW a \in Setup, SystemSetup(a), UNCHANGED cmdVars
      PROVE  UNCHANGED <<cmdVars, pc, data, faults>>
  BY <1>4 DEF SystemSetup, loadVars, control
<1>5. UNCHANGED etlVars => UNCHANGED <<cmdVars, pc, data, faults>>
  BY DEF etlVars, sysVars, loadVars, control
<1>6. ASSUME NEW l \in Loader, CommandStep(l) PROVE FileInv'
  <2>1. \A k \in Loader : OwnFile(k)'
    BY <1>2, <1>6 DEF OwnFile
  <2>2. QED
    BY <1>1, <2>1 DEF FileInv
<1>7. QED
  BY <1>3, <1>4, <1>5, <1>6 DEF EtlNext

(* A run that shares its local file with no other run, and whose answers   *)
(* are complete, loads what it has downloaded itself.                      *)
THEOREM LoadsOwnSourceCorrect == EtlSpec => []LoadsOwnSource
<1>1. EtlInit => FileInv
  <2> SUFFICES ASSUME EtlInit PROVE FileInv
    OBVIOUS
  <2>1. \A l \in Loader : OwnFile(l)
    BY DEF EtlInit, SystemInit, LoadInit, CommandInit, OwnFile
  <2>2. QED
    BY <2>1, CommandInitially DEF FileInv
<1>2. FileInv => LoadsOwnSource
  BY DEF FileInv, OwnFile, LoadsOwnSource
<1>3. QED
  BY <1>1, <1>2, FileInvNext, PTL DEF EtlSpec

(***************************************************************************)
(* What a command counts.  A commit adds to the instances at least as many *)
(* as it adds to the queries its load counts as stored.                    *)
(***************************************************************************)
StoredOf(l) == {q \in Query : aux_verdict[l][q] = "stored"}

LEMMA InstancesGrow ==
    ASSUME NEW c \in [Query -> Nat], NEW d \in [Query -> Nat], NEW S \in SUBSET Query,
           \A q \in Query : d[q] = IF q \in S THEN c[q] + 1 ELSE c[q]
    PROVE  Cardinality(InstancesOf(d)) >= Cardinality(InstancesOf(c)) + Cardinality(S)
<1> DEFINE f == [q \in S |-> <<q, c[q] + 1>>]
           T == {<<q, c[q] + 1>> : q \in S}
<1>1. IsFiniteSet(S) /\ Cardinality(S) \in Nat
  BY FS_Subset, FS_CardinalityType, CommandAssumption
<1>2. ExistsBijection(S, T)
  <2>1. f \in Bijection(S, T)
    BY DEF Bijection, Injection, Surjection, IsInjective
  <2> HIDE DEF f, T
  <2>2. QED
    BY <2>1 DEF ExistsBijection
<1>3. T \subseteq InstancesOf(d)
  <2> SUFFICES ASSUME NEW q \in S PROVE <<q, c[q] + 1>> \in InstancesOf(d)
    OBVIOUS
  <2>1. q \in Query /\ c[q] \in Nat /\ d[q] = c[q] + 1
    OBVIOUS
  <2>2. c[q] + 1 \in 1..d[q]
    BY <2>1
  <2>3. QED
    BY <2>1, <2>2 DEF InstancesOf
<1>4. InstancesOf(c) \subseteq InstancesOf(d)
  <2> SUFFICES ASSUME NEW q \in Query, NEW i \in 1..c[q] PROVE <<q, i>> \in InstancesOf(d)
    BY DEF InstancesOf
  <2>1. i \in 1..d[q]
    OBVIOUS
  <2>2. QED
    BY <2>1 DEF InstancesOf
<1>5. InstancesOf(c) \cap T = {}
  <2> SUFFICES ASSUME NEW q \in S, <<q, c[q] + 1>> \in InstancesOf(c) PROVE FALSE
    OBVIOUS
  <2>1. c[q] + 1 \in 1..c[q]
    BY DEF InstancesOf
  <2>2. c[q] \in Nat
    OBVIOUS
  <2>3. QED
    BY <2>1, <2>2
<1> HIDE DEF T
<1>6. IsFiniteSet(T) /\ Cardinality(T) = Cardinality(S)
  BY <1>1, <1>2, FS_Bijection
<1>7. /\ IsFiniteSet(InstancesOf(c)) /\ Cardinality(InstancesOf(c)) \in Nat
      /\ IsFiniteSet(InstancesOf(d)) /\ Cardinality(InstancesOf(d)) \in Nat
  BY InstancesFinite
<1>8. Cardinality(InstancesOf(c) \cup T) = Cardinality(InstancesOf(c)) + Cardinality(S)
  <2>1. Cardinality(InstancesOf(c) \cup T) =
            Cardinality(InstancesOf(c)) + Cardinality(T) - Cardinality(InstancesOf(c) \cap T)
    BY <1>6, <1>7, FS_Union
  <2>2. Cardinality(InstancesOf(c) \cap T) = 0
    BY <1>5, FS_EmptySet
  <2>3. QED
    BY <1>1, <1>6, <1>7, <2>1, <2>2
<1>9. Cardinality(InstancesOf(c) \cup T) <= Cardinality(InstancesOf(d))
  <2>1. InstancesOf(c) \cup T \in SUBSET InstancesOf(d)
    BY <1>3, <1>4
  <2>2. QED
    BY <1>7, <2>1, FS_Subset
<1>10. QED
  BY <1>1, <1>7, <1>8, <1>9

LEMMA StoredFinite ==
    ASSUME NEW S \in SUBSET Query
    PROVE  IsFiniteSet(S) /\ Cardinality(S) \in Nat
BY FS_Subset, FS_CardinalityType, CommandAssumption

LEMMA StoredGrows ==
    ASSUME TypeOK, NEW l \in Loader, LoadStep(l)
    PROVE  \/ UNCHANGED copies /\ StoredOf(l)' \subseteq StoredOf(l)
           \/ /\ pc[l] \in Running /\ Apply(tx[l].staged) /\ tx[l].staged \subseteq Query
              /\ StoredOf(l)' \subseteq StoredOf(l) \cup tx[l].staged
<1>0. /\ aux_verdict \in [Loader -> [Query -> Verdict]] /\ tx[l].staged \subseteq Query
      /\ "insert" \in Running
  BY TypeAt DEF TypeOK, Transaction, Running
<1>1. ASSUME NEW R, Settled(l, {}, {}, R)
      PROVE  StoredOf(l)' \subseteq StoredOf(l)
  <2>1. \A q \in Query : aux_verdict'[l][q] = "stored" => aux_verdict[l][q] = "stored"
    BY <1>0, <1>1 DEF Settled
  <2>2. QED
    BY <2>1 DEF StoredOf
<1>2. CASE Commit(l)
  <2>1. \A q \in Query : aux_verdict'[l][q] = "stored" =>
            aux_verdict[l][q] = "stored" \/ q \in tx[l].staged
    BY <1>0, <1>2 DEF Commit, Settled
  <2>2. QED
    BY <1>0, <1>2, <2>1 DEF Commit, StoredOf
<1>3. CASE CommitAnswerLost(l)
  <2>1. StoredOf(l)' \subseteq StoredOf(l) /\ Apply(tx[l].staged) /\ pc[l] = "insert"
    BY <1>1, <1>3 DEF CommitAnswerLost
  <2>2. QED
    BY <1>0, <2>1
<1>4. CASE InsertQueryRaises(l) \/ CommitRaises(l)
  BY <1>1, <1>4 DEF InsertQueryRaises, CommitRaises, storeVars
<1>5. CASE ~Commit(l) /\ ~CommitAnswerLost(l) /\ ~InsertQueryRaises(l) /\ ~CommitRaises(l)
  <2>1. UNCHANGED <<copies, aux_verdict>>
    BY <1>5 DEF LoadStep, Progress, StartLoad, OpenHandler, OpenHandlerRaises, EndPhase,
       CheckDatabase, CheckDatabaseRaises, OpenTransaction, OpenTransactionRaises, InsertQuery,
       Crash, aux, storeVars
  <2>2. QED
    BY <2>1 DEF StoredOf
<1>6. QED
  BY <1>2, <1>3, <1>4, <1>5

LEMMA CountsGrow ==
    ASSUME TypeOK, TypeOK', NEW l \in Loader, LoadStep(l)
    PROVE  /\ Instances <= Instances'
           /\ Instances + Cardinality(StoredOf(l)') <= Instances' + Cardinality(StoredOf(l))
           /\ pc[l] \notin Running => StoredOf(l)' \subseteq StoredOf(l)
<1>0. /\ copies \in [Query -> Nat] /\ copies' \in [Query -> Nat]
      /\ Instances = Cardinality(InstancesOf(copies))
      /\ Instances' = Cardinality(InstancesOf(copies'))
      /\ Instances \in Nat /\ Instances' \in Nat
  <2>1. copies \in [Query -> Nat] /\ copies' \in [Query -> Nat]
    BY DEF TypeOK, StoreTypeOK
  <2>2. /\ Instances = Cardinality(InstancesOf(copies))
        /\ Instances' = Cardinality(InstancesOf(copies'))
    BY DEF Instances, InstancesOf
  <2>3. QED
    BY <2>1, <2>2, InstancesFinite
<1>1. /\ StoredOf(l) \in SUBSET Query /\ StoredOf(l)' \in SUBSET Query
      /\ Cardinality(StoredOf(l)) \in Nat /\ Cardinality(StoredOf(l)') \in Nat
      /\ IsFiniteSet(StoredOf(l))
  <2>1. StoredOf(l) \in SUBSET Query /\ StoredOf(l)' \in SUBSET Query
    BY DEF StoredOf
  <2>2. QED
    BY <2>1, StoredFinite
<1>2. CASE UNCHANGED copies /\ StoredOf(l)' \subseteq StoredOf(l)
  <2>1. Cardinality(StoredOf(l)') <= Cardinality(StoredOf(l))
    BY <1>1, <1>2, FS_Subset
  <2>2. Instances' = Instances
    BY <1>0, <1>2
  <2>3. QED
    BY <1>0, <1>1, <1>2, <2>1, <2>2
<1>3. CASE /\ pc[l] \in Running /\ Apply(tx[l].staged) /\ tx[l].staged \subseteq Query
           /\ StoredOf(l)' \subseteq StoredOf(l) \cup tx[l].staged
  <2> DEFINE S == tx[l].staged
             A == StoredOf(l)
             B == StoredOf(l)'
  <2>1. S \in SUBSET Query /\ IsFiniteSet(S) /\ Cardinality(S) \in Nat
    BY <1>3, StoredFinite
  <2>2. Cardinality(InstancesOf(copies')) >= Cardinality(InstancesOf(copies)) + Cardinality(S)
    <3>1. \A q \in Query : copies'[q] = IF q \in S THEN copies[q] + 1 ELSE copies[q]
      BY <1>3 DEF Apply
    <3> HIDE DEF S
    <3>2. QED
      BY <1>0, <2>1, <3>1, InstancesGrow
  <2>3. Cardinality(B) <= Cardinality(A) + Cardinality(S)
    <3>1. A \in SUBSET Query /\ B \in SUBSET (A \cup S) /\ IsFiniteSet(A) /\ Cardinality(A) \in Nat
      BY <1>1, <1>3
    <3>2. IsFiniteSet(A \cup S) /\ Cardinality(A \cap S) \in Nat
          /\ Cardinality(A \cup S) = Cardinality(A) + Cardinality(S) - Cardinality(A \cap S)
      <4>1. A \cap S \in SUBSET Query
        BY <2>1
      <4>2. Cardinality(A \cap S) \in Nat
        BY <4>1, StoredFinite
      <4> HIDE DEF A, B, S
      <4>3. QED
        BY <2>1, <3>1, <4>2, FS_Union
    <3>3. Cardinality(B) <= Cardinality(A \cup S)
      <4> HIDE DEF A, B, S
      <4>1. QED
        BY <3>1, <3>2, FS_Subset
    <3>4. Cardinality(B) \in Nat
      BY <1>1
    <3> HIDE DEF A, B, S
    <3>5. QED
      BY <2>1, <3>1, <3>2, <3>3, <3>4
  <2>4. Cardinality(A) \in Nat /\ Cardinality(B) \in Nat
    BY <1>1
  <2>5. Instances <= Instances' /\ Instances + Cardinality(B) <= Instances' + Cardinality(A)
    <3> HIDE DEF A, B, S
    <3>1. QED
      BY <1>0, <2>1, <2>2, <2>3, <2>4
  <2>6. QED
    BY <1>3, <2>5
<1>4. QED
  BY <1>2, <1>3, StoredGrows

(***************************************************************************)
(* The report.  Covered: on the database the command counted first, the    *)
(* instances have grown by what its load has stored.  Explains: if the     *)
(* command gets to the second count without a finished load, a ValueError  *)
(* has been logged, and which one.                                         *)
(***************************************************************************)
Counting == {"extract", "write", "transform", "load", "recount"}
Covered(l) == dbGen = 0 =>
    /\ stage[l] \in Counting /\ DatabaseExists =>
            ini[l] + Cardinality(StoredOf(l)) <= Instances
    /\ stage[l] = "reported" => report[l] >= Cardinality(StoredOf(l))
Explains(l) ==
    /\ pc[l] = "rejected" => ~DatabaseExists \/ dbGen > 0
    /\ stage[l] \in {"recount", "reported"} =>
            \/ pc[l] \in {"done", "rejected"}
            \/ pc[l] = "idle" /\ (OwnTarget(l) => Unprocessable(l))
    /\ stage[l] = "reported" /\ pc[l] = "rejected" => dbGen > 0
ReportInv == EtlInv /\ \A l \in Loader : Covered(l) /\ Explains(l)

LEMMA StoredType ==
    ASSUME NEW l \in Loader
    PROVE  Cardinality(StoredOf(l)) \in Nat /\ Cardinality(StoredOf(l)') \in Nat
<1>1. StoredOf(l) \in SUBSET Query /\ StoredOf(l)' \in SUBSET Query
  BY DEF StoredOf
<1>2. QED
  BY <1>1, StoredFinite

(* A command does nothing to the database but load; it counts what is      *)
(* there.                                                                  *)
LEMMA CommandOnDatabase ==
    ASSUME EtlInv, EtlInv', NEW l \in Loader, CommandStep(l)
    PROVE  /\ UNCHANGED <<dbStatus, dbGen>> /\ dbGen \in Nat
           /\ Instances \in Nat /\ Instances' \in Nat /\ Instances <= Instances'
           /\ ~SystemLoad(l) => UNCHANGED <<copies, aux_verdict>>
<1>1. TypeOK /\ TypeOK' /\ dbGen \in Nat
  BY DEF EtlInv, SystemInv, LoadInv, TypeOK, StoreTypeOK
<1>2. Instances \in Nat /\ Instances' \in Nat
  <2>1. copies' \in [Query -> Nat] /\ Instances' = Cardinality(InstancesOf(copies'))
    BY <1>1 DEF TypeOK, StoreTypeOK, Instances, InstancesOf
  <2>2. QED
    BY <1>1, <2>1, InstancesType, InstancesFinite
<1>3. CASE SystemLoad(l)
  <2>1. LoadStep(l)
    BY <1>3 DEF SystemLoad
  <2>2. UNCHANGED <<dbStatus, dbGen>> /\ Instances <= Instances'
    BY <1>1, <2>1, StoreGrows, CountsGrow
  <2>3. QED
    BY <1>1, <1>2, <1>3, <2>2
<1>4. CASE ~SystemLoad(l)
  <2>1. UNCHANGED storeVars /\ UNCHANGED aux
    BY <1>4, CommandIsLoad DEF sysVars, loadVars, ServerUntouched
  <2>2. UNCHANGED <<dbStatus, dbGen, copies, aux_verdict>>
    BY <2>1 DEF storeVars, aux
  <2>3. Instances' = Instances
    BY <2>2 DEF Instances
  <2>4. QED
    BY <1>1, <1>2, <2>2, <2>3
<1>5. QED
  BY <1>3, <1>4

LEMMA CoveredOwn ==
    ASSUME ReportInv, EtlInv', NEW l \in Loader, CommandStep(l)
    PROVE  Covered(l)'
<1>0. /\ EtlInv /\ CommandType /\ TypeOK /\ TypeOK' /\ LoadInv /\ Covered(l)
      /\ ini[l] \in Nat
      /\ UNCHANGED <<dbStatus, dbGen>> /\ dbGen \in Nat
      /\ Instances \in Nat /\ Instances' \in Nat /\ Instances <= Instances'
      /\ Cardinality(StoredOf(l)) \in Nat /\ Cardinality(StoredOf(l)') \in Nat
  BY CommandOnDatabase, StoredType
     DEF ReportInv, EtlInv, SystemInv, LoadInv, CommandType
<1>1. DatabaseExists' <=> DatabaseExists
  BY <1>0 DEF DatabaseExists
<1>2. CASE Load(l)
  <2>1. /\ stage'[l] = "load" /\ stage[l] = "load" /\ ini'[l] = ini[l] /\ LoadStep(l)
    BY <1>2 DEF Load, At, cmdVars
  <2>2. Instances + Cardinality(StoredOf(l)') <= Instances' + Cardinality(StoredOf(l))
    BY <1>0, <2>1, CountsGrow
  <2>3. QED
    BY <1>0, <1>1, <2>1, <2>2 DEF Covered, Counting
<1>3. CASE Transform(l)
  <2>1. /\ stage'[l] = "load" /\ stage[l] = "transform" /\ ini'[l] = ini[l]
        /\ UNCHANGED <<copies, aux_verdict>>
    BY <1>0, <1>3 DEF Transform, At, StartLoad, Enter, CommandType, storeVars
  <2>2. StoredOf(l)' = StoredOf(l) /\ Instances' = Instances
    BY <2>1 DEF StoredOf, Instances
  <2>3. QED
    BY <1>0, <1>1, <2>1, <2>2 DEF Covered, Counting
<1>4. CASE CountBefore(l)
  <2>1. /\ stage'[l] \in {"extract", "transform", "exit1"} /\ stage[l] = "count"
        /\ DatabaseExists => ini'[l] = Instances
        /\ UNCHANGED <<copies, aux_verdict>>
    BY <1>0, <1>4 DEF CountBefore, At, Enter, CommandType, sysVars, loadVars, storeVars, aux
  <2>2. StoredOf(l) = {}
    <3>1. pc[l] = "idle" /\ Bounds(l)
      BY <1>0, <2>1 DEF EtlInv, LoadsWhenCalled, Called, LoadInv
    <3>2. QED
      BY <3>1 DEF Bounds, Pending, StoredOf
  <2>3. StoredOf(l)' = {} /\ Cardinality(StoredOf(l)') = 0 /\ Instances' = Instances
    BY <2>1, <2>2, FS_EmptySet DEF StoredOf, Instances
  <2>4. QED
    BY <1>0, <1>1, <2>1, <2>3 DEF Covered
<1>5. CASE CountAfter(l)
  <2>1. /\ stage[l] = "recount" /\ stage'[l] \in {"reported", "exit1"} /\ ini'[l] = ini[l]
        /\ stage'[l] = "reported" => DatabaseExists /\ report'[l] = Instances - ini[l]
        /\ UNCHANGED aux_verdict
    BY <1>0, <1>5 DEF CountAfter, At, Enter, CommandType, sysVars, loadVars, aux
  <2>2. StoredOf(l)' = StoredOf(l)
    BY <2>1 DEF StoredOf
  <2>3. QED
    BY <1>0, <2>1, <2>2 DEF Covered, Counting
<1>6. CASE Kill(l)
  <2>1. stage'[l] = "killed"
    BY <1>0, <1>6 DEF Kill, Enter, CommandType
  <2>2. QED
    BY <2>1 DEF Covered, Counting
<1>7. CASE \/ OpenTarget(l) \/ WriteTarget(l) \/ DownloadNothing(l) \/ DownloadRaises(l)
           \/ WriteRaises(l) \/ TransformRaises(l) \/ LoadReturns(l)
  <2>1. /\ UNCHANGED <<copies, aux_verdict, ini, report>>
        /\ stage[l] \in Counting /\ stage[l] # "recount"
    BY <1>7 DEF OpenTarget, WriteTarget, DownloadNothing, DownloadRaises, WriteRaises,
       TransformRaises, LoadReturns, At, Counting, sysVars, loadVars, storeVars, aux
  <2>2. stage'[l] # "reported"
    BY <1>0, <1>7 DEF OpenTarget, WriteTarget, DownloadNothing, DownloadRaises, WriteRaises,
       TransformRaises, LoadReturns, Raise, Enter, CommandType
  <2>3. StoredOf(l)' = StoredOf(l) /\ Instances' = Instances
    BY <2>1 DEF StoredOf, Instances
  <2>4. QED
    BY <1>0, <1>1, <2>1, <2>2, <2>3 DEF Covered
<1>8. CASE Confirm(l) \/ Decline(l)
  <2>1. stage'[l] \in {"count", "aborted"}
    BY <1>0, <1>8 DEF Confirm, Decline, Enter, CommandType
  <2>2. QED
    BY <2>1 DEF Covered, Counting
<1>9. QED
  BY <1>2, <1>3, <1>4, <1>5, <1>6, <1>7, <1>8 DEF CommandStep, CommandProgress

LEMMA ExplainsOwn ==
    ASSUME ReportInv, EtlInv', NEW l \in Loader, CommandStep(l)
    PROVE  Explains(l)'
<1>0. /\ EtlInv /\ CommandType /\ TypeOK /\ Explains(l)
      /\ UNCHANGED <<dbStatus, dbGen>> /\ dbGen \in Nat
      /\ pc \in [Loader -> {"idle"} \cup Running \cup Ended]
  BY CommandOnDatabase DEF ReportInv, EtlInv, SystemInv, LoadInv, TypeOK
<1>1. DatabaseExists' <=> DatabaseExists
  BY <1>0 DEF DatabaseExists
<1>2. CASE Load(l)
  <2>1. stage'[l] = "load" /\ pc[l] \in Running /\ LoadStep(l)
    BY <1>2 DEF Load, At, cmdVars
  <2>2. pc'[l] = "rejected" => ~DatabaseExists
    BY <1>0, <2>1 DEF LoadStep, Progress, StartLoad, OpenHandler, OpenHandlerRaises, EndPhase,
       CheckDatabase, CheckDatabaseRaises, OpenTransaction, OpenTransactionRaises, InsertQuery,
       InsertQueryRaises, Commit, CommitRaises, CommitAnswerLost, Crash, After, Running
  <2>3. QED
    BY <1>1, <2>1, <2>2 DEF Explains
<1>3. CASE Transform(l)
  <2>1. stage'[l] = "load" /\ pc'[l] = "start"
    BY <1>0, <1>3 DEF Transform, StartLoad, Enter, CommandType
  <2>2. QED
    BY <2>1 DEF Explains
<1>4. CASE TransformRaises(l)
  <2>1. pc' = pc /\ pc[l] = "idle" /\ UNCHANGED <<disk, target>> /\ stage'[l] # "reported"
    BY <1>0, <1>4 DEF TransformRaises, At, Raise, Enter, CommandType, EtlInv, LoadsWhenCalled,
       Called, sysVars, loadVars, control
  <2>2. stage'[l] = "recount" => Unprocessable(l)
    BY <1>0, <1>4 DEF TransformRaises, Raise, Enter, CommandType, ReadingError, Unprocessable
  <2>3. Unprocessable(l) => Unprocessable(l)'
    BY <2>1 DEF Unprocessable, Readable
  <2>4. QED
    BY <2>1, <2>2, <2>3 DEF Explains
<1>5. CASE LoadReturns(l)
  <2>1. /\ pc' = pc /\ stage'[l] # "reported"
        /\ stage'[l] = "recount" => pc[l] \in {"done", "rejected"}
    BY <1>0, <1>5 DEF LoadReturns, Raise, Enter, CommandType, sysVars, loadVars, control
  <2>2. QED
    BY <1>0, <1>1, <2>1 DEF Explains
<1>6. CASE CountAfter(l)
  <2>1. /\ pc' = pc /\ stage[l] = "recount" /\ UNCHANGED <<disk, target>>
        /\ stage'[l] \in {"reported", "exit1"}
        /\ stage'[l] = "reported" => DatabaseExists
    BY <1>0, <1>6 DEF CountAfter, At, Enter, CommandType, sysVars, loadVars, control
  <2>2. ~At(l, "idle") /\ OwnTarget(l)' => OwnTarget(l)
    BY <1>0, OwnTargetBefore
  <2>3. Unprocessable(l) => Unprocessable(l)'
    BY <2>1 DEF Unprocessable, Readable
  <2>4. QED
    BY <1>0, <1>1, <2>1, <2>2, <2>3 DEF Explains, At
<1>7. CASE Kill(l)
  <2>1. stage'[l] = "killed"
    BY <1>0, <1>7 DEF Kill, Enter, CommandType
  <2>2. pc'[l] = "rejected" => pc[l] = "rejected"
    BY <1>0, <1>7 DEF Kill, Crash, loadVars, control
  <2>3. QED
    BY <1>0, <1>1, <2>1, <2>2 DEF Explains
<1>8. CASE \/ Confirm(l) \/ Decline(l) \/ CountBefore(l) \/ OpenTarget(l) \/ WriteTarget(l)
           \/ DownloadNothing(l) \/ DownloadRaises(l) \/ WriteRaises(l)
  <2>1. pc' = pc
    BY <1>8 DEF Confirm, Decline, CountBefore, OpenTarget, WriteTarget, DownloadNothing,
       DownloadRaises, WriteRaises, sysVars, loadVars, control
  <2>2. stage'[l] \notin {"recount", "reported"}
    BY <1>0, <1>8 DEF Confirm, Decline, CountBefore, OpenTarget, WriteTarget, DownloadNothing,
       DownloadRaises, WriteRaises, Raise, Enter, CommandType
  <2>3. QED
    BY <1>0, <1>1, <2>1, <2>2 DEF Explains
<1>9. QED
  BY <1>2, <1>3, <1>4, <1>5, <1>6, <1>7, <1>8 DEF CommandStep, CommandProgress

LEMMA ReportOthers ==
    ASSUME ReportInv, EtlInv', NEW l \in Loader, CommandStep(l), NEW k \in Loader, k # l
    PROVE  Covered(k)' /\ Explains(k)'
<1>0. /\ EtlInv /\ CommandType /\ Covered(k) /\ Explains(k) /\ ini[k] \in Nat
      /\ UNCHANGED <<dbStatus, dbGen>> /\ dbGen \in Nat
      /\ Instances \in Nat /\ Instances' \in Nat /\ Instances <= Instances'
      /\ Cardinality(StoredOf(k)) \in Nat
  BY CommandOnDatabase, StoredType DEF ReportInv, EtlInv, CommandType
<1>1. DatabaseExists' <=> DatabaseExists
  BY <1>0 DEF DatabaseExists
<1>2. /\ stage'[k] = stage[k] /\ target'[k] = target[k] /\ ini'[k] = ini[k]
      /\ report'[k] = report[k] /\ pc'[k] = pc[k] /\ aux_verdict'[k] = aux_verdict[k]
  BY <1>0, OthersKept DEF Own, Local
<1>3. StoredOf(k)' = StoredOf(k)
  BY <1>2 DEF StoredOf
<1>4. Covered(k)'
  BY <1>0, <1>1, <1>2, <1>3 DEF Covered
<1>5. ASSUME ~At(k, "idle"), OwnTarget(k)'
      PROVE  OwnTarget(k) /\ (Unprocessable(k) => Unprocessable(k)')
  <2>1. OwnTarget(k) /\ disk'[target'[k]] = disk[target[k]]
    BY <1>0, <1>2, <1>5, OwnTargetBefore
  <2>2. QED
    BY <2>1 DEF Unprocessable, Readable
<1>6. Explains(k)'
  BY <1>0, <1>1, <1>2, <1>5 DEF Explains, At
<1>7. QED
  BY <1>4, <1>6

LEMMA ReportBesideSetup ==
    ASSUME ReportInv, NEW a \in Setup, SystemSetup(a), UNCHANGED cmdVars, NEW l \in Loader
    PROVE  Covered(l)' /\ Explains(l)'
<1>0. /\ dbGen \in Nat /\ Covered(l) /\ Explains(l)
      /\ UNCHANGED <<stage, ini, report, disk, target, pc, aux_verdict>>
  BY DEF ReportInv, EtlInv, SystemInv, SetupInv, SetupTypeOK, StoreTypeOK, SystemSetup, loadVars,
     control, aux, cmdVars
<1>1. /\ StoredOf(l)' = StoredOf(l) /\ (OwnTarget(l)' <=> OwnTarget(l))
      /\ (Unprocessable(l)' <=> Unprocessable(l))
  BY <1>0 DEF StoredOf, OwnTarget, At, Unprocessable, Readable
<1>2. CASE UNCHANGED <<dbGen, copies>> /\ (DatabaseExists' <=> DatabaseExists)
  <2>1. Instances' = Instances
    BY <1>2 DEF Instances
  <2>2. QED
    BY <1>0, <1>1, <1>2, <2>1 DEF Covered, Explains
<1>3. CASE UNCHANGED dbGen /\ ~DatabaseExists'
  BY <1>0, <1>1, <1>3 DEF Covered, Explains
<1>4. CASE dbGen' = dbGen + 1
  <2>1. dbGen' > 0 /\ dbGen' # 0
    BY <1>0, <1>4
  <2>2. QED
    BY <1>0, <1>1, <2>1 DEF Covered, Explains
<1>5. QED
  BY <1>2, <1>3, <1>4, SetupCases DEF SystemSetup

LEMMA ReportInvNext == ReportInv /\ [EtlNext]_etlVars => ReportInv'
<1> SUFFICES ASSUME ReportInv, [EtlNext]_etlVars PROVE ReportInv'
  OBVIOUS
<1>1. EtlInv'
  BY EtlInvNext DEF ReportInv
<1>2. ASSUME NEW l \in Loader, CommandStep(l), NEW k \in Loader PROVE Covered(k)' /\ Explains(k)'
  BY <1>1, <1>2, CoveredOwn, ExplainsOwn, ReportOthers
<1>3. ASSUME NEW a \in Setup, SystemSetup(a), UNCHANGED cmdVars, NEW k \in Loader
      PROVE  Covered(k)' /\ Explains(k)'
  BY <1>3, ReportBesideSetup
<1>4. ASSUME UNCHANGED etlVars, NEW k \in Loader PROVE Covered(k)' /\ Explains(k)'
  <2>1. UNCHANGED <<stage, ini, report, disk, target, pc, aux_verdict, copies, dbGen, dbStatus>>
    BY <1>4 DEF etlVars, cmdVars, sysVars, loadVars, control, aux, storeVars
  <2>2. /\ StoredOf(k)' = StoredOf(k) /\ (OwnTarget(k)' <=> OwnTarget(k))
        /\ (Unprocessable(k)' <=> Unprocessable(k)) /\ Instances' = Instances
        /\ (DatabaseExists' <=> DatabaseExists)
    BY <2>1 DEF StoredOf, OwnTarget, At, Unprocessable, Readable, Instances, DatabaseExists
  <2>3. QED
    BY <2>1, <2>2 DEF ReportInv, Covered, Explains
<1>5. QED
  BY <1>1, <1>2, <1>3, <1>4 DEF ReportInv, EtlNext

LEMMA ReportInvariant == EtlSpec => []ReportInv
<1>1. EtlInit => ReportInv
  <2> SUFFICES ASSUME EtlInit PROVE ReportInv
    OBVIOUS
  <2>1. \A l \in Loader : stage[l] = "idle" /\ pc[l] = "idle"
    BY DEF EtlInit, SystemInit, LoadInit, CommandInit
  <2>2. \A l \in Loader : Covered(l) /\ Explains(l)
    BY <2>1 DEF Covered, Explains, Counting
  <2>3. QED
    BY <2>2, CommandInitially DEF ReportInv
<1>2. QED
  BY <1>1, ReportInvNext, PTL DEF EtlSpec

(* The number a command reports covers everything its own load stored,     *)
(* whatever other commands load meanwhile.                                 *)
THEOREM ReportCoversLoadCorrect == EtlSpec => []ReportCoversLoad
<1>1. ReportInv => ReportCoversLoad
  BY DEF ReportInv, Covered, StoredOf, ReportCoversLoad, At
<1>2. QED
  BY <1>1, ReportInvariant, PTL

(* A reported run has completed its load, unless a ValueError was logged:  *)
(* for its source, or for a database that was gone for a while.            *)
THEOREM ReportedRunIsLoadedCorrect == EtlSpec => []ReportedRunIsLoaded
<1>1. ReportInv => ReportedRunIsLoaded
  BY DEF ReportInv, Explains, ReportedRunIsLoaded, At
<1>2. QED
  BY <1>1, ReportInvariant, PTL
=============================================================================
