------------------------- MODULE ReplayArchive_proofs -------------------------
(***************************************************************************)
(* The safety properties of ReplayArchive, for every set of paths and      *)
(* contents and every bound.                                               *)
(*                                                                         *)
(* The argument: stamps are handed out in order, so a stamp read earlier   *)
(* that is still the stamp of a path identifies the file (UploaderInv).    *)
(* The daemon opens after it stats and compares both again after the copy; *)
(* hence a staged copy that passes is a copy of one offered file, and of   *)
(* the file whose stamp will be written in the provenance row (CopyInv,    *)
(* PublishInv, SourceInv).  The worker only takes rows without a verdict   *)
(* and hashes what it reads before it judges (WorkerInv).  IInv is the     *)
(* conjunction; TypeStep is relative to CopyInv, because the daemon's path *)
(* is a path only while it archives.                                       *)
(***************************************************************************)
EXTENDS ReplayArchive, TLAPS

\* The initial values have the types TypeOK gives them.
LEMMA TypeInit == Init => TypeOK
<1> SUFFICES ASSUME Init PROVE TypeOK
    OBVIOUS
<1>1. UploaderType
    BY DEF Init, UploaderType
<1>2. ArchiveType
    BY DEF Init, ArchiveType, NoSource, Replays
<1>3. IngestType
    BY DEF Init, IngestType, Replays
<1>4. WorkerType
    BY DEF Init, WorkerType, Replays
<1>5. crashes \in Nat
    BY DEF Init
<1> QED
    BY <1>1, <1>2, <1>3, <1>4, <1>5 DEF TypeOK

-----------------------------------------------------------------------------
(* What the steps of each process leave alone.                             *)

\* Steps of the ingest daemon, and its death, touch no variable of the uploader
\* or of the worker, and each table only in the action that is meant to write it.
LEMMA IngestFrame ==
    ScanStep \/ ArchiveStep \/ CrashIngest =>
        /\ UNCHANGED <<uploaderVars, damaged, processing, workerVars>>
        /\ object' = object \/ LinkObject
        /\ objectStamp' = objectStamp \/ LinkObject \/ UnlinkStaging
        /\ rawRows' = rawRows \/ RegisterRaw
        /\ sources' = sources \/ MarkSource \/ FailSource
        /\ crashes' = crashes \/ CrashIngest
<1> USE DEF objectVars, vars
<1>1. ScanStep => UNCHANGED <<uploaderVars, objectVars, sources, rawRows,
                              processing, workerVars, crashes>>
    BY DEF ScanStep, StartScan, EndScan, SkipSource, TakeSource
<1>2. CASE ArchiveStep
    BY <1>2 DEF ArchiveStep, OpenSource, CopySource, RecheckCopy, ValidateStaged,
        VerifyDuplicate, LinkObject, AdoptObject, RegisterRaw, UnlinkStaging,
        MarkSource, FailSource
<1>3. CASE CrashIngest
    BY <1>3 DEF CrashIngest
<1> QED
    BY <1>1, <1>2, <1>3

\* Steps of the probe worker, and its death, read the archive and write nothing
\* but their own locals and replay_processing.
LEMMA WorkerFrame ==
    WorkerStep \/ CrashWorker =>
        /\ UNCHANGED <<uploaderVars, objectVars, sources, rawRows, ingestVars>>
        /\ processing' = processing \/ RecordProbe
        /\ crashes' = crashes \/ CrashWorker
BY DEF WorkerStep, SelectBatch, ReadObject, RecordProbe, OpenObject, CrashWorker

-----------------------------------------------------------------------------
(* Type correctness.  It leans on CopyInv, which says that the daemon has a *)
(* path while it archives.                                                 *)

\* Every step keeps the types of the incoming directory.
LEMMA UploaderTypeStep == TypeOK /\ [Next]_vars => UploaderType'
<1> SUFFICES ASSUME TypeOK, [Next]_vars PROVE UploaderType'
    OBVIOUS
<1> USE DEF TypeOK, UploaderType
<1>1. ASSUME NEW p \in Paths, NEW c \in Contents, Upload(p, c)
      PROVE  UploaderType'
    BY <1>1 DEF Upload
<1>2. ASSUME NEW p \in Paths, Remove(p) PROVE UploaderType'
    BY <1>2 DEF Remove
<1>3. ASSUME NEW p \in Paths, Settle(p) PROVE UploaderType'
    BY <1>3 DEF Settle
<1>4. CASE UNCHANGED uploaderVars
    BY <1>4 DEF uploaderVars
<1> QED
    BY <1>1, <1>2, <1>3, <1>4, IngestFrame, WorkerFrame
    DEF Next, DamageObject, vars

\* Every step keeps the types of the archive and of the three tables.
LEMMA ArchiveTypeStep == TypeOK /\ CopyInv /\ [Next]_vars => ArchiveType'
<1> SUFFICES ASSUME TypeOK, CopyInv, [Next]_vars PROVE ArchiveType'
    OBVIOUS
<1> USE ArchiveAssumption DEF TypeOK, ArchiveType, objectVars
<1> DEFINE tables == <<objectVars, sources, rawRows, processing>>
<1>1. ASSUME NEW c \in Bytes, DamageObject(c) PROVE ArchiveType'
    BY <1>1 DEF DamageObject, Replays
<1>2. CASE LinkObject
  <2>1. staged \in Bytes
      BY <1>2 DEF LinkObject, CopyInv, ArchiveAssumption
  <2> QED
      BY <1>2, <2>1 DEF LinkObject, Replays
<1>3. CASE UnlinkStaging
  <2>1. staged \in Bytes
      BY <1>3 DEF UnlinkStaging, CopyInv, ArchiveAssumption
  <2> QED
      BY <1>3, <2>1 DEF UnlinkStaging
<1>4. CASE RegisterRaw
    BY <1>4 DEF RegisterRaw, CopyInv, ArchiveAssumption
<1>5. CASE MarkSource
    BY <1>5 DEF MarkSource, IngestType
<1>6. CASE FailSource
    BY <1>6 DEF FailSource, IngestType, Replays
<1>7. CASE RecordProbe
    BY <1>7 DEF RecordProbe, WorkerType
<1>8. CASE UNCHANGED tables
    BY <1>8
<1>9. ASSUME NEW p \in Paths, (\E c \in Contents : Upload(p, c)) \/ Remove(p) \/ Settle(p)
      PROVE  UNCHANGED tables
    BY <1>9 DEF Upload, Remove, Settle
<1>10. CASE ScanStep \/ ArchiveStep \/ CrashIngest
    BY <1>2, <1>3, <1>4, <1>5, <1>6, <1>8, <1>10, IngestFrame
<1>11. CASE WorkerStep \/ CrashWorker
    BY <1>7, <1>8, <1>11, WorkerFrame
<1>12. CASE UNCHANGED vars
    BY <1>8, <1>12 DEF vars
<1> QED
    BY <1>1, <1>8, <1>9, <1>10, <1>11, <1>12 DEF Next

\* Every step keeps the types of the ingest daemon's locals.
LEMMA IngestTypeStep == TypeOK /\ CopyInv /\ [Next]_vars => IngestType'
<1> SUFFICES ASSUME TypeOK, CopyInv, [Next]_vars PROVE IngestType'
    OBVIOUS
<1> USE ArchiveAssumption DEF TypeOK, IngestType, ingestVars, localVars
<1>1. CASE StartScan
    BY <1>1 DEF StartScan
<1>2. ASSUME NEW p \in Paths, SkipSource(p) PROVE IngestType'
    BY <1>2 DEF SkipSource
<1>3. ASSUME NEW p \in Paths, TakeSource(p) PROVE IngestType'
    BY <1>3 DEF TakeSource, UploaderType
<1>4. CASE EndScan
    BY <1>4 DEF EndScan
<1>5. CASE OpenSource
  <2>1. path \in Paths
      BY <1>5 DEF OpenSource, CopyInv, Archiving
  <2> QED
      BY <1>5, <2>1 DEF OpenSource, UploaderType
<1>6. CASE CopySource
  <2>1. path \in Paths
      BY <1>6 DEF CopySource, CopyInv, Archiving
  <2>2. Readable \subseteq Replays
      BY <2>1 DEF Readable, UploaderType, Replays, Bytes
  <2> QED
      BY <1>6, <2>2 DEF CopySource
<1>7. CASE RecheckCopy \/ ValidateStaged \/ AdoptObject \/ RegisterRaw
    BY <1>7 DEF RecheckCopy, ValidateStaged, AdoptObject, RegisterRaw
<1>8. CASE VerifyDuplicate \/ LinkObject \/ UnlinkStaging
    BY <1>8 DEF VerifyDuplicate, LinkObject, UnlinkStaging
<1>9. CASE MarkSource \/ FailSource \/ CrashIngest
  <2>1. pc' \in {"scan", "idle"} /\ todo' \subseteq Paths
      BY <1>9 DEF MarkSource, FailSource, CrashIngest
  <2>2. ForgetLocals
      BY <1>9 DEF MarkSource, FailSource, CrashIngest
  <2> QED
      BY <2>1, <2>2 DEF ForgetLocals, Replays
<1>10. CASE UNCHANGED ingestVars
    BY <1>10
<1>11. CASE UNCHANGED vars
    BY <1>10, <1>11 DEF vars
<1>12. CASE WorkerStep \/ CrashWorker
    BY <1>10, <1>12, WorkerFrame
<1>13. ASSUME NEW p \in Paths, (\E c \in Contents : Upload(p, c)) \/ Remove(p) \/ Settle(p)
      PROVE  IngestType'
    BY <1>10, <1>13 DEF Upload, Remove, Settle
<1>14. ASSUME NEW c \in Bytes, DamageObject(c) PROVE IngestType'
    BY <1>10, <1>14 DEF DamageObject
<1> QED
    BY <1>1, <1>2, <1>3, <1>4, <1>5, <1>6, <1>7, <1>8, <1>9, <1>11, <1>12, <1>13, <1>14
    DEF Next, ScanStep, ArchiveStep

\* Every step keeps the types of the probe worker's locals.
LEMMA WorkerTypeStep == TypeOK /\ [Next]_vars => WorkerType' /\ crashes' \in Nat
<1> SUFFICES ASSUME TypeOK, [Next]_vars PROVE WorkerType' /\ crashes' \in Nat
    OBVIOUS
<1> USE DEF TypeOK, WorkerType, workerVars
<1>1. CASE SelectBatch
    BY <1>1 DEF SelectBatch, Unprocessed, ArchiveType
<1>2. ASSUME NEW c \in Bytes, OpenObject(c) PROVE WorkerType' /\ crashes' \in Nat
    BY <1>2 DEF OpenObject, ArchiveType, Replays
<1>3. CASE ReadObject
    BY <1>3 DEF ReadObject
<1>4. CASE RecordProbe \/ CrashWorker
    BY <1>4 DEF RecordProbe, CrashWorker, Replays
<1>5. CASE UNCHANGED <<workerVars, crashes>>
    BY <1>5
<1>6. CASE ScanStep \/ ArchiveStep \/ CrashIngest
    BY <1>5, <1>6, IngestFrame DEF CrashIngest
<1>7. CASE UNCHANGED vars
    BY <1>5, <1>7 DEF vars
<1>8. ASSUME NEW p \in Paths, (\E c \in Contents : Upload(p, c)) \/ Remove(p) \/ Settle(p)
      PROVE  UNCHANGED <<workerVars, crashes>>
    BY <1>8 DEF Upload, Remove, Settle
<1>9. ASSUME NEW c \in Bytes, DamageObject(c) PROVE UNCHANGED <<workerVars, crashes>>
    BY <1>9 DEF DamageObject
<1> QED
    BY <1>1, <1>2, <1>3, <1>4, <1>5, <1>6, <1>7, <1>8, <1>9 DEF Next, WorkerStep

\* The four type lemmas together: TypeOK is inductive relative to CopyInv.
LEMMA TypeStep == TypeOK /\ CopyInv /\ [Next]_vars => TypeOK'
BY UploaderTypeStep, ArchiveTypeStep, IngestTypeStep, WorkerTypeStep DEF TypeOK

-----------------------------------------------------------------------------
(* The conjuncts of IInv, one lemma each.                                  *)

\* The inductive invariant holds with empty directories and empty tables.
LEMMA InvInit == Init => IInv
<1> SUFFICES ASSUME Init PROVE IInv
    OBVIOUS
<1>1. UploaderInv
    BY DEF Init, UploaderInv, NoSource
<1>2. CopyInv /\ PublishInv
    BY DEF Init, CopyInv, PublishInv, Archiving
<1>3. SourceInv /\ OneArchivedSource
    BY DEF Init, SourceInv, OneArchivedSource, NoSource
<1>4. WorkerInv /\ ProbeSound
    BY DEF Init, WorkerInv, ProbeSound
<1>5. ArchiveContentAddressed
    BY DEF Init, ArchiveContentAddressed
<1> QED
    BY <1>1, <1>2, <1>3, <1>4, <1>5, TypeInit DEF IInv

\* Stamps never run ahead of the upload counter.
LEMMA UploaderStep == IInv /\ [Next]_vars => UploaderInv'
<1> SUFFICES ASSUME IInv, [Next]_vars PROVE UploaderInv'
    OBVIOUS
<1> USE DEF IInv, TypeOK, UploaderType, UploaderInv
<1>1. ASSUME NEW p \in Paths, NEW c \in Contents, Upload(p, c)
      PROVE  UploaderInv'
    BY <1>1 DEF Upload, ArchiveType
<1>2. ASSUME NEW p \in Paths, Remove(p) \/ Settle(p) PROVE UploaderInv'
    BY <1>2 DEF Remove, Settle
<1>3. CASE MarkSource \/ FailSource
  <2>1. statStamp <= uploads
    <3>1. path \in Paths /\ statStamp <= stamp[path]
        BY <1>3 DEF MarkSource, FailSource, CopyInv, Archiving
    <3> QED
        BY <3>1 DEF IngestType
  <2>2. \A p \in Paths : sources'[p].stamp = sources[p].stamp
                         \/ sources'[p].stamp = statStamp
      BY <1>3 DEF MarkSource, FailSource, ArchiveType
  <2> QED
      BY <1>3, <2>1, <2>2 DEF MarkSource, FailSource, uploaderVars
<1>4. CASE UNCHANGED <<uploaderVars, sources>>
    BY <1>4 DEF uploaderVars
<1>5. CASE ScanStep \/ ArchiveStep \/ CrashIngest
    BY <1>3, <1>4, <1>5, IngestFrame
<1>6. CASE WorkerStep \/ CrashWorker
    BY <1>4, <1>6, WorkerFrame
<1>7. ASSUME NEW c \in Bytes, DamageObject(c) PROVE UploaderInv'
    BY <1>4, <1>7 DEF DamageObject
<1>8. CASE UNCHANGED vars
    BY <1>4, <1>8 DEF vars
<1> QED
    BY <1>1, <1>2, <1>5, <1>6, <1>7, <1>8 DEF Next

\* The worker judges only rows that have no verdict yet.
LEMMA WorkerStepInv == IInv /\ [Next]_vars => WorkerInv' /\ ProbeSound'
<1> SUFFICES ASSUME IInv, [Next]_vars PROVE WorkerInv' /\ ProbeSound'
    OBVIOUS
<1> USE DEF IInv, TypeOK, WorkerType, WorkerInv, ProbeSound
<1>1. CASE SelectBatch
    BY <1>1 DEF SelectBatch, Unprocessed
<1>2. ASSUME NEW c \in Bytes, OpenObject(c) PROVE WorkerInv' /\ ProbeSound'
    BY <1>2 DEF OpenObject
<1>3. CASE ReadObject
    BY <1>3 DEF ReadObject, ReadVerified
<1>4. CASE RecordProbe
  <2>1. probed \in batch /\ probed \in rawRows /\ probed \in Bytes
      BY <1>4 DEF RecordProbe, ArchiveType
  <2>2. processing' = [processing EXCEPT ![probed] = outcome] /\ rawRows' = rawRows
      BY <1>4 DEF RecordProbe
  <2>3. ProbeSound'
      BY <2>1, <2>2 DEF ArchiveType
  <2>4. WorkerInv'
      BY <1>4, <2>1, <2>2 DEF RecordProbe, ArchiveType
  <2> QED
      BY <2>3, <2>4
<1>5. CASE CrashWorker
    BY <1>5 DEF CrashWorker
<1>6. CASE RegisterRaw
    BY <1>6 DEF RegisterRaw, workerVars
<1>7. CASE UNCHANGED <<workerVars, processing, rawRows>>
    BY <1>7 DEF workerVars
<1>8. CASE ScanStep \/ ArchiveStep \/ CrashIngest
    BY <1>6, <1>7, <1>8, IngestFrame
<1>9. ASSUME NEW p \in Paths, (\E c \in Contents : Upload(p, c)) \/ Remove(p) \/ Settle(p)
      PROVE  WorkerInv' /\ ProbeSound'
    BY <1>7, <1>9 DEF Upload, Remove, Settle
<1>10. ASSUME NEW c \in Bytes, DamageObject(c) PROVE WorkerInv' /\ ProbeSound'
    BY <1>7, <1>10 DEF DamageObject
<1>11. CASE UNCHANGED vars
    BY <1>7, <1>11 DEF vars
<1> QED
    BY <1>1, <1>2, <1>3, <1>4, <1>5, <1>8, <1>9, <1>10, <1>11 DEF Next, WorkerStep

\* Only a checked copy is registered, and nothing but damage changes it.
LEMMA ArchiveStepInv == IInv /\ [Next]_vars => ArchiveContentAddressed'
<1> SUFFICES ASSUME IInv, [Next]_vars PROVE ArchiveContentAddressed'
    OBVIOUS
<1> USE ArchiveAssumption DEF IInv, TypeOK, ArchiveType, ArchiveContentAddressed
<1> DEFINE kept == <<offered, object, damaged, rawRows>>
<1>1. ASSUME NEW p \in Paths, NEW c \in Contents, Upload(p, c)
      PROVE  ArchiveContentAddressed'
    BY <1>1 DEF Upload, objectVars
<1>2. ASSUME NEW p \in Paths, Remove(p) \/ Settle(p) PROVE UNCHANGED kept
    BY <1>2 DEF Remove, Settle, objectVars
<1>3. ASSUME NEW c \in Bytes, DamageObject(c) PROVE ArchiveContentAddressed'
    BY <1>3 DEF DamageObject, uploaderVars
<1>4. CASE LinkObject
    BY <1>4 DEF LinkObject, uploaderVars, CopyInv, ArchiveAssumption
<1>5. CASE RegisterRaw
    BY <1>5 DEF RegisterRaw, uploaderVars, objectVars, CopyInv, PublishInv
<1>6. CASE UNCHANGED kept
    BY <1>6
<1>7. CASE ScanStep \/ ArchiveStep \/ CrashIngest
    BY <1>4, <1>5, <1>6, <1>7, IngestFrame DEF uploaderVars
<1>8. CASE WorkerStep \/ CrashWorker
    BY <1>6, <1>8, WorkerFrame DEF uploaderVars, objectVars
<1>9. CASE UNCHANGED vars
    BY <1>6, <1>9 DEF vars, uploaderVars, objectVars
<1> QED
    BY <1>1, <1>2, <1>3, <1>6, <1>7, <1>8, <1>9 DEF Next

\* A row is marked with the stamp taken before the copy, so a file that has
\* been replaced since does not match it.
LEMMA SourceStep == IInv /\ [Next]_vars => SourceInv'
<1> SUFFICES ASSUME IInv, [Next]_vars PROVE SourceInv'
    OBVIOUS
<1> USE DEF IInv, TypeOK, UploaderType, UploaderInv, SourceInv, Current
<1> DEFINE kept == <<incoming, stamp, sources, rawRows>>
<1>1. ASSUME NEW p \in Paths, NEW c \in Contents, Upload(p, c)
      PROVE  SourceInv'
    BY <1>1 DEF Upload, ArchiveType
<1>2. ASSUME NEW p \in Paths, Remove(p) PROVE SourceInv'
    BY <1>2 DEF Remove
<1>3. ASSUME NEW p \in Paths, Settle(p) PROVE SourceInv'
    BY <1>3 DEF Settle
<1>4. CASE MarkSource
  <2>1. path \in Paths /\ staged \in rawRows
      BY <1>4 DEF MarkSource, CopyInv, PublishInv, Archiving
  <2>2. Current(path, statStamp) => incoming[path] = staged
      BY <1>4 DEF MarkSource, CopyInv
  <2> QED
      BY <1>4, <2>1, <2>2 DEF MarkSource, ArchiveType, uploaderVars
<1>5. CASE FailSource
    BY <1>5 DEF FailSource, ArchiveType, uploaderVars, CopyInv, Archiving
<1>6. CASE RegisterRaw
    BY <1>6 DEF RegisterRaw, uploaderVars
<1>7. CASE UNCHANGED kept
    BY <1>7
<1>8. CASE ScanStep \/ ArchiveStep \/ CrashIngest
  <2>1. MarkSource \/ FailSource \/ RegisterRaw \/ UNCHANGED kept
      BY <1>8, IngestFrame DEF uploaderVars
  <2> QED
      BY <2>1, <1>4, <1>5, <1>6, <1>7
<1>9. CASE WorkerStep \/ CrashWorker
    BY <1>7, <1>9, WorkerFrame DEF uploaderVars
<1>10. ASSUME NEW c \in Bytes, DamageObject(c) PROVE SourceInv'
    BY <1>7, <1>10 DEF DamageObject, uploaderVars
<1>11. CASE UNCHANGED vars
    BY <1>7, <1>11 DEF vars, uploaderVars
<1> QED
    BY <1>1, <1>2, <1>3, <1>8, <1>9, <1>10, <1>11 DEF Next

\* A hash gets an "archived" row only from the scan that registered it.
LEMMA OneSourceStep == IInv /\ [Next]_vars => OneArchivedSource'
<1> SUFFICES ASSUME IInv, [Next]_vars PROVE OneArchivedSource'
    OBVIOUS
<1> USE DEF IInv, OneArchivedSource
<1>1. CASE MarkSource
  <2>1. path \in Paths
      BY <1>1 DEF MarkSource, CopyInv, Archiving
  <2>2. ~isDup => \A p \in Paths : sources[p].status = "archived"
                                      => sources[p].sha256 # staged
      BY <1>1 DEF MarkSource, PublishInv
  <2> QED
      BY <1>1, <2>1, <2>2 DEF MarkSource, TypeOK, ArchiveType
<1>2. CASE FailSource
    BY <1>2 DEF FailSource, TypeOK, ArchiveType
<1>3. CASE UNCHANGED sources
    BY <1>3
<1>4. ScanStep \/ ArchiveStep \/ CrashIngest
          => MarkSource \/ FailSource \/ UNCHANGED sources
    BY IngestFrame
<1>5. WorkerStep \/ CrashWorker \/ UNCHANGED vars => UNCHANGED sources
    BY WorkerFrame DEF vars
<1>6. ASSUME NEW p \in Paths, (\E c \in Contents : Upload(p, c)) \/ Remove(p) \/ Settle(p)
      PROVE  UNCHANGED sources
    BY <1>6 DEF Upload, Remove, Settle
<1>7. ASSUME NEW c \in Bytes, DamageObject(c) PROVE UNCHANGED sources
    BY <1>7 DEF DamageObject
<1> QED
    BY <1>1, <1>2, <1>3, <1>4, <1>5, <1>6, <1>7 DEF Next

\* Between publication and the provenance row the object stays in place.
LEMMA PublishStep == IInv /\ [Next]_vars => PublishInv'
<1> SUFFICES ASSUME IInv, [Next]_vars PROVE PublishInv'
    OBVIOUS
<1> USE ArchiveAssumption DEF IInv, PublishInv
<1> DEFINE kept == <<pc, staged, isDup, object, damaged, rawRows, sources>>
<1>1. CASE VerifyDuplicate
    BY <1>1 DEF VerifyDuplicate
<1>2. CASE LinkObject
  <2>1. staged \in Bytes
      BY <1>2 DEF LinkObject, CopyInv, ArchiveAssumption
  <2> QED
      BY <1>2, <2>1 DEF LinkObject, TypeOK, ArchiveType
<1>3. CASE AdoptObject
    BY <1>3 DEF AdoptObject, objectVars, localVars
<1>4. CASE RegisterRaw
    BY <1>4 DEF RegisterRaw, objectVars, localVars, SourceInv
<1>5. CASE UnlinkStaging
    BY <1>5 DEF UnlinkStaging
<1>6. CASE OpenSource \/ CopySource \/ RecheckCopy \/ ValidateStaged
    BY <1>6 DEF OpenSource, CopySource, RecheckCopy, ValidateStaged
<1>7. CASE MarkSource \/ FailSource \/ CrashIngest \/ ScanStep
    BY <1>7 DEF MarkSource, FailSource, CrashIngest, ScanStep, StartScan, EndScan,
        SkipSource, TakeSource
<1>8. ASSUME NEW c \in Bytes, DamageObject(c) PROVE PublishInv'
    BY <1>8 DEF DamageObject, ingestVars, localVars, TypeOK, ArchiveType
<1>9. CASE UNCHANGED kept
    BY <1>9
<1>10. WorkerStep \/ CrashWorker => UNCHANGED kept
    BY WorkerFrame DEF objectVars, ingestVars, localVars
<1>11. ASSUME NEW p \in Paths, (\E c \in Contents : Upload(p, c)) \/ Remove(p) \/ Settle(p)
      PROVE  UNCHANGED kept
    BY <1>11 DEF Upload, Remove, Settle, objectVars, ingestVars, localVars
<1>12. UNCHANGED vars => UNCHANGED kept
    BY DEF vars, objectVars, ingestVars, localVars
<1> QED
    BY <1>1, <1>2, <1>3, <1>4, <1>5, <1>6, <1>7, <1>8, <1>9, <1>10, <1>11, <1>12
    DEF Next, ArchiveStep

\* Replacing the file gives it a stamp above every stamp the daemon holds, so
\* a copy whose checks pass is a copy of the file that was stat'ed.
LEMMA CopyStep == IInv /\ [Next]_vars => CopyInv'
<1> SUFFICES ASSUME IInv, [Next]_vars PROVE CopyInv'
    OBVIOUS
<1> USE ArchiveAssumption DEF IInv, TypeOK, CopyInv, Archiving, Current, SourceHeld
<1> DEFINE kept == <<pc, path, statStamp, openStamp, openBytes, staged, isDup,
                     incoming, stamp, offered>>
<1>1. ASSUME NEW p \in Paths, NEW c \in Contents, Upload(p, c)
      PROVE  CopyInv'
    BY <1>1 DEF Upload, ingestVars, localVars, UploaderType, UploaderInv, IngestType
<1>2. ASSUME NEW p \in Paths, Remove(p) PROVE CopyInv'
    BY <1>2 DEF Remove, ingestVars, localVars, UploaderType
<1>3. ASSUME NEW p \in Paths, Settle(p) PROVE UNCHANGED kept
    BY <1>3 DEF Settle, ingestVars, localVars
<1>4. ASSUME NEW p \in Paths, TakeSource(p) PROVE CopyInv'
    BY <1>4 DEF TakeSource, uploaderVars, UploaderType, IngestType
<1>5. CASE OpenSource
    BY <1>5 DEF OpenSource, uploaderVars, UploaderType, UploaderInv, IngestType
<1>6. CASE CopySource
    BY <1>6 DEF CopySource, uploaderVars, Readable, Bytes, UploaderType
<1>7. CASE RecheckCopy
    BY <1>7 DEF RecheckCopy, uploaderVars, localVars
<1>8. CASE ValidateStaged
    BY <1>8 DEF ValidateStaged, uploaderVars, localVars
<1>9. CASE VerifyDuplicate
    BY <1>9 DEF VerifyDuplicate, uploaderVars
<1>10. CASE LinkObject
    BY <1>10 DEF LinkObject, uploaderVars
<1>11. CASE AdoptObject \/ RegisterRaw
    BY <1>11 DEF AdoptObject, RegisterRaw, uploaderVars, localVars
<1>12. CASE UnlinkStaging
    BY <1>12 DEF UnlinkStaging, uploaderVars
<1>13. CASE MarkSource \/ FailSource \/ CrashIngest
    BY <1>13 DEF MarkSource, FailSource, CrashIngest, ForgetLocals
<1>14. CASE StartScan \/ EndScan \/ (\E p \in Paths : SkipSource(p))
    BY <1>14 DEF StartScan, EndScan, SkipSource, localVars
<1>15. CASE UNCHANGED kept
    BY <1>15
<1>16. WorkerStep \/ CrashWorker => UNCHANGED kept
    BY WorkerFrame DEF uploaderVars, ingestVars, localVars
<1>17. ASSUME NEW c \in Bytes, DamageObject(c) PROVE UNCHANGED kept
    BY <1>17 DEF DamageObject, uploaderVars, ingestVars, localVars
<1>18. UNCHANGED vars => UNCHANGED kept
    BY DEF vars, uploaderVars, ingestVars, localVars
<1> QED
    BY <1>1, <1>2, <1>3, <1>4, <1>5, <1>6, <1>7, <1>8, <1>9, <1>10, <1>11, <1>12,
       <1>13, <1>14, <1>15, <1>16, <1>17, <1>18
    DEF Next, ScanStep, ArchiveStep

\* The inductive invariant is preserved by every step of every process.
LEMMA InvStep == IInv /\ [Next]_vars => IInv'
BY TypeStep, UploaderStep, CopyStep, PublishStep, SourceStep, WorkerStepInv,
   ArchiveStepInv, OneSourceStep DEF IInv

\* The inductive invariant holds in every reachable state, for any paths,
\* contents and bounds: the basis of all that follows.
THEOREM ArchiveInvariant == Spec => []IInv
BY InvInit, InvStep, PTL DEF Spec

-----------------------------------------------------------------------------
(* What follows for every set of paths, contents and every bound.          *)

\* The tables, the archive and both processes' locals keep their types.
THEOREM ArchiveTypeCorrect == Spec => []TypeOK
<1>1. IInv => TypeOK
    BY DEF IInv
<1> QED
    BY <1>1, ArchiveInvariant, PTL

\* Every row of raw_replays names bytes that an uploader offered and whose header
\* is valid, and its object holds exactly them unless it was damaged from outside
\* (archive_replay's checks around the copy, archive.py:150-239).
THEOREM ArchiveIsContentAddressed == Spec => []ArchiveContentAddressed
<1>1. IInv => ArchiveContentAddressed
    BY DEF IInv
<1> QED
    BY <1>1, ArchiveInvariant, PTL

\* A file the scanner skips as unchanged is in the archive, however uploads and
\* crashes interleaved with the copy (scanner.py:61-68 against mark_seen).
THEOREM SkippingIsSound == Spec => []SkipSound
<1>1. IInv => SkipSound
    BY DEF IInv, SourceInv, SkipSound, Unchanged, Current
<1> QED
    BY <1>1, ArchiveInvariant, PTL

\* No two paths are the "archived" source of the same bytes (archive.py:375-401).
THEOREM OneSourceIsArchived == Spec => []OneArchivedSource
<1>1. IInv => OneArchivedSource
    BY DEF IInv
<1> QED
    BY <1>1, ArchiveInvariant, PTL

\* processing status "ok" is recorded only for registered bytes that decode
\* (worker.py:114-262).
THEOREM ProbesAreSound == Spec => []ProbeSound
<1>1. IInv => ProbeSound
    BY DEF IInv
<1> QED
    BY <1>1, ArchiveInvariant, PTL

\* No step of the daemon or the worker changes an object that exists; only
\* damage from outside does (os.link in archive.py:312-334).
THEOREM ObjectsAreNeverOverwritten == Spec => NoClobber
<1> DEFINE step == \A c \in Bytes : object[c] # NoFile /\ object'[c] # object[c]
                                      => damaged' # damaged
<1>1. IInv /\ [Next]_vars => [step]_vars
  <2> SUFFICES ASSUME IInv, [Next]_vars PROVE step
      OBVIOUS
  <2> USE DEF IInv, TypeOK, ArchiveType
  <2>1. ASSUME NEW c \in Bytes, DamageObject(c) PROVE damaged' # damaged
      BY <2>1 DEF DamageObject
  <2>2. CASE LinkObject
      BY <2>2 DEF LinkObject
  <2>3. CASE UNCHANGED object
      BY <2>3
  <2>4. ASSUME NEW p \in Paths,
               (\E c \in Contents : Upload(p, c)) \/ Remove(p) \/ Settle(p)
        PROVE  UNCHANGED object
      BY <2>4 DEF Upload, Remove, Settle, objectVars
  <2>5. WorkerStep \/ CrashWorker \/ UNCHANGED vars => UNCHANGED object
      BY WorkerFrame DEF vars, objectVars
  <2> QED
      BY <2>1, <2>2, <2>3, <2>4, <2>5, IngestFrame DEF Next
<1> QED
    BY <1>1, ArchiveInvariant, PTL DEF Spec, NoClobber

\* ReplayArchive implements ReplayLedger: three actions are steps of the
\* ledger, every other one leaves its variables alone.
THEOREM ArchiveKeepsLedgerPromise == Spec => LedgerPromise
<1> DEFINE kept == <<offered, rawRows, processing>>
<1>1. Init => Ledger!LedgerInit
    BY DEF Init, Ledger!LedgerInit
<1>2. IInv /\ [Next]_vars => [Ledger!LedgerNext]_(Ledger!ledgerVars)
  <2> SUFFICES ASSUME IInv, [Next]_vars
               PROVE  Ledger!LedgerNext \/ UNCHANGED kept
      BY DEF Ledger!ledgerVars
  <2> USE ArchiveAssumption DEF IInv, TypeOK
  <2>1. ASSUME NEW p \in Paths, NEW c \in Contents, Upload(p, c)
        PROVE  Ledger!LedgerNext
    <3>1. Ledger!Offer(c) /\ c \in Bytes
        BY <2>1 DEF Upload, Ledger!Offer, Bytes
    <3> QED
        BY <3>1 DEF Ledger!LedgerNext
  <2>2. CASE RegisterRaw
    <3>1. staged \in offered \intersect HeaderOK
        BY <2>2 DEF RegisterRaw, CopyInv
    <3>2. Ledger!Archive(staged) /\ staged \in Bytes
        BY <2>2, <3>1 DEF RegisterRaw, Ledger!Archive, uploaderVars, ArchiveAssumption
    <3> QED
        BY <3>2 DEF Ledger!LedgerNext
  <2>3. CASE RecordProbe
    <3>1. probed \in rawRows /\ probed \in Bytes /\ processing[probed] = "none"
        BY <2>3 DEF RecordProbe, WorkerInv, ArchiveType
    <3>2. outcome \in {"ok", "failed"} /\ (outcome = "ok" => probed \in PayloadOK)
        BY <2>3 DEF RecordProbe, WorkerInv, WorkerType
    <3>3. Ledger!Probe(probed, outcome)
        BY <2>3, <3>1, <3>2 DEF RecordProbe, Ledger!Probe, uploaderVars
    <3> QED
        BY <3>1, <3>2, <3>3 DEF Ledger!LedgerNext
  <2>4. CASE UNCHANGED kept
      BY <2>4
  <2>5. ASSUME NEW p \in Paths, Remove(p) \/ Settle(p) PROVE UNCHANGED kept
      BY <2>5 DEF Remove, Settle
  <2>6. ASSUME NEW c \in Bytes, DamageObject(c) PROVE UNCHANGED kept
      BY <2>6 DEF DamageObject, uploaderVars
  <2>7. ScanStep \/ ArchiveStep \/ CrashIngest => RegisterRaw \/ UNCHANGED kept
      BY IngestFrame DEF uploaderVars
  <2>8. WorkerStep \/ CrashWorker => RecordProbe \/ UNCHANGED kept
      BY WorkerFrame DEF uploaderVars
  <2>9. UNCHANGED vars => UNCHANGED kept
      BY DEF vars, uploaderVars
  <2> QED
      BY <2>1, <2>2, <2>3, <2>4, <2>5, <2>6, <2>7, <2>8, <2>9 DEF Next
<1> QED
    BY <1>1, <1>2, ArchiveInvariant, PTL DEF Spec, LedgerPromise, Ledger!LedgerSpec
=============================================================================
