------------------------ MODULE ReplayAnalysis_proofs ------------------------
(***************************************************************************)
(* The safety properties of ReplayAnalysis, for every set of replays, size *)
(* of a batch, number of threads, timeouts, retries and crashes.           *)
(*                                                                         *)
(* The argument: an accepted row stays accepted, and its output stays      *)
(* complete, because only replays without one have a future (JobInv).  The *)
(* counts that let the finalizer start were read at different moments, but *)
(* they agree only when every probed replay has an accepted row; outputs   *)
(* are of probed replays (RowsInv), and no output appears while the same   *)
(* process writes its files (ReadyInv).  AInv is the conjunction.          *)
(***************************************************************************)
EXTENDS ReplayAnalysis, FiniteSetTheorems, TLAPS

-----------------------------------------------------------------------------
(* Counting rows.                                                          *)

\* The rows of each kind are finitely many.
LEMMA RowsAreFinite ==
    ASSUME RowsInv
    PROVE  /\ IsFiniteSet(archived) /\ Cardinality(archived) \in Nat
           /\ IsFiniteSet(OkRows) /\ Cardinality(OkRows) \in Nat
           /\ IsFiniteSet(WithStatus(verdict, "ok"))
           /\ Cardinality(WithStatus(verdict, "ok")) \in Nat
           /\ Cardinality(WithStatus(analysis, "failed")) \in Nat
           /\ OkRows \subseteq WithStatus(verdict, "ok")
<1>1. IsFiniteSet(archived)
  BY DEF RowsInv
<1>2. /\ WithStatus(verdict, "ok") \subseteq archived
      /\ OkRows \subseteq WithStatus(verdict, "ok")
      /\ WithStatus(analysis, "failed") \subseteq archived
  BY DEF RowsInv, OkRows, WithStatus
<1>3. /\ IsFiniteSet(WithStatus(verdict, "ok")) /\ IsFiniteSet(OkRows)
      /\ IsFiniteSet(WithStatus(analysis, "failed"))
  BY <1>1, <1>2, FS_Subset
<1> QED BY <1>1, <1>2, <1>3, FS_CardinalityType

\* What status_snapshot has read is numbers.
LEMMA CountsTyped ==
    ASSUME RowsInv, NEW raw \in Nat
    PROVE  Counts(raw) \in [raw : Nat, processed : Nat, ok : Nat, failed : Nat]
BY RowsAreFinite DEF Counts, OkRows

\* The torn counts let the finalizer start only when every probed replay has an
\* accepted row.
LEMMA ReadyMeansAccepted ==
    ASSUME RowsInv, NEW raw \in Nat, Ready(Counts(raw))
    PROVE  OkRows = WithStatus(verdict, "ok")
<1>1. /\ Cardinality(WithStatus(verdict, "ok")) <= Cardinality(OkRows)
  BY RowsAreFinite DEF Ready, Counts, OkRows
<1>2. /\ OkRows \in SUBSET WithStatus(verdict, "ok")
      /\ IsFiniteSet(WithStatus(verdict, "ok"))
  BY RowsAreFinite
<1>3. Cardinality(OkRows) <= Cardinality(WithStatus(verdict, "ok"))
  BY <1>2, FS_Subset
<1>4. Cardinality(OkRows) = Cardinality(WithStatus(verdict, "ok"))
  BY <1>1, <1>3, RowsAreFinite
<1> QED BY <1>2, <1>4, FS_Subset

-----------------------------------------------------------------------------
(* What the steps leave alone.                                             *)

\* Steps of the finalizer touch no row, output or future.
FinalizerStep == CountRaw \/ CountRows \/ WriteLeaderboard \/ WriteManifest \/ WriteCompletion

\* Steps of the pool and of the main thread in a batch.
BatchStep ==
    \/ SelectBatch
    \/ \E c \in Bytes : StartJob(c) \/ FinishJob(c) \/ MarkJob(c) \/ TimeoutJob(c)

\* Whose step it is.
LEMMA StepKinds ==
    ASSUME [Next]_vars
    PROVE  BatchStep \/ FinalizerStep \/ LedgerStep \/ Crash \/ RetryFailed \/ UNCHANGED vars
BY DEF Next, AnalyzerStep, BatchStep, FinalizerStep

\* The steps of a finalizer touch no row, output or future.
LEMMA FinalizerFrame ==
    ASSUME FinalizerStep
    PROVE  /\ UNCHANGED <<ledgerVars, analysis, output, job, counters>>
           /\ pc # "batch" /\ pc' # "batch"
BY DEF FinalizerStep, CountRaw, CountRows, WriteLeaderboard, WriteManifest, WriteCompletion

\* A batch touches no file but outputs, and ends where it began.
LEMMA BatchFrame ==
    ASSUME BatchStep
    PROVE  /\ UNCHANGED <<ledgerVars, derivedVars>>
           /\ pc' \in {"idle", "batch"}
BY DEF BatchStep, SelectBatch, StartJob, FinishJob, MarkJob, TimeoutJob

\* A step of the ledger archives one replay, or probes one that has no verdict.
LEMMA LedgerFrame ==
    ASSUME TypeOK, LedgerStep
    PROVE  /\ UNCHANGED analysisVars
           /\ offered' \subseteq Bytes /\ archived' \subseteq Bytes
           /\ archived' = archived \/ \E c \in Bytes : archived' = archived \union {c}
           /\ archived \subseteq archived'
           /\ verdict' \in [Bytes -> {"none", "ok", "failed"}]
           /\ \A c \in Bytes : verdict[c] # "none" => verdict'[c] = verdict[c]
           /\ \A c \in Bytes : verdict'[c] # "none" => verdict[c] # "none" \/ c \in archived
<1>1. UNCHANGED analysisVars
  BY DEF LedgerStep
<1>2. PICK c \in Bytes : Offer(c) \/ Archive(c) \/ \E v \in {"ok", "failed"} : Probe(c, v)
  BY DEF LedgerStep, LedgerNext
<1>3. CASE Offer(c)
  BY <1>1, <1>3 DEF Offer, TypeOK
<1>4. CASE Archive(c)
  BY <1>1, <1>4 DEF Archive, TypeOK
<1>5. CASE \E v \in {"ok", "failed"} : Probe(c, v)
  <2>1. PICK v \in {"ok", "failed"} : Probe(c, v)
    BY <1>5
  <2>2. /\ UNCHANGED <<offered, archived>> /\ verdict[c] = "none" /\ c \in archived
        /\ verdict' = [verdict EXCEPT ![c] = v]
    BY <2>1 DEF Probe
  <2> QED BY <1>1, <2>2 DEF TypeOK
<1> QED BY <1>2, <1>3, <1>4, <1>5

-----------------------------------------------------------------------------
(* One lemma for each conjunct of the invariant.                           *)

\* Every step keeps the types.
LEMMA TypeStep ==
    ASSUME TypeOK, RowsInv, [Next]_vars
    PROVE  TypeOK'
<1> USE AnalysisAssumption DEF TypeOK, ledgerVars, analysisVars, derivedVars, counters
<1>1. CASE SelectBatch
  BY <1>1 DEF SelectBatch
<1>2. CASE \E c \in Bytes : StartJob(c)
  BY <1>2 DEF StartJob
<1>3. CASE \E c \in Bytes : FinishJob(c)
  <2>1. PICK c \in Bytes : FinishJob(c)
    BY <1>3
  <2>2. PICK o \in Outcomes[c] :
            /\ job' = [job EXCEPT ![c] = o]
            /\ output' = IF o = "error" THEN output ELSE [output EXCEPT ![c] = o]
    BY <2>1 DEF FinishJob
  <2>3. o \in {"full", "partial", "error"}
    BY <2>2
  <2>4. UNCHANGED <<ledgerVars, analysis, derivedVars, pc, snapshot, counters>>
    BY <2>1 DEF FinishJob
  <2>5. job' \in [Bytes -> {"none", "queued", "running", "full", "partial", "error"}]
    BY <2>2, <2>3
  <2>6. output' \in [Bytes -> {"none", "full", "partial"}]
    BY <2>2, <2>3
  <2> QED BY <2>4, <2>5, <2>6
<1>4. CASE \E c \in Bytes : MarkJob(c)
  BY <1>4 DEF MarkJob
<1>5. CASE \E c \in Bytes : TimeoutJob(c)
  BY <1>5 DEF TimeoutJob
<1>6. CASE CountRaw
  BY <1>6, RowsAreFinite DEF CountRaw, NoSnapshot
<1>7. CASE CountRows
  <2>1. snapshot' = Counts(snapshot.raw) /\ snapshot.raw \in Nat
    BY <1>7 DEF CountRows
  <2>2. snapshot' \in [raw : Nat, processed : Nat, ok : Nat, failed : Nat]
    BY <2>1, CountsTyped
  <2> QED BY <1>7, <2>2 DEF CountRows
<1>8. CASE WriteLeaderboard
  BY <1>8 DEF WriteLeaderboard, Evidence
<1>9. CASE WriteManifest
  BY <1>9 DEF WriteManifest, Evidence
<1>10. CASE WriteCompletion
  BY <1>10 DEF WriteCompletion
<1>11. CASE LedgerStep
  BY <1>11, LedgerFrame
<1>12. CASE Crash
  BY <1>12 DEF Crash, NoJobs, NoSnapshot
<1>13. CASE RetryFailed
  BY <1>13 DEF RetryFailed
<1>14. CASE UNCHANGED vars
  BY <1>14 DEF vars
<1> QED
  BY <1>1, <1>2, <1>3, <1>4, <1>5, <1>6, <1>7, <1>8, <1>9, <1>10, <1>11, <1>12, <1>13,
     <1>14 DEF Next, AnalyzerStep


\* Every step keeps rows, outputs and futures to probed replays.
LEMMA RowsStep ==
    ASSUME TypeOK, RowsInv, [Next]_vars
    PROVE  RowsInv'
<1> USE DEF TypeOK, RowsInv, ledgerVars, analysisVars
<1>1. CASE SelectBatch
  <2>1. PICK b \in SUBSET Unanalyzed :
            job' = [c \in Bytes |-> IF c \in b THEN "queued" ELSE "none"]
    BY <1>1 DEF SelectBatch
  <2>2. \A c \in Bytes : job'[c] # "none" => verdict[c] = "ok"
    BY <2>1 DEF Unanalyzed
  <2> QED BY <1>1, <2>2 DEF SelectBatch
<1>2. CASE \E c \in Bytes : StartJob(c)
  BY <1>2 DEF StartJob
<1>3. CASE \E c \in Bytes : FinishJob(c)
  <2>1. PICK c \in Bytes : FinishJob(c)
    BY <1>3
  <2>2. verdict[c] = "ok" /\ UNCHANGED <<ledgerVars, analysis>>
    BY <2>1 DEF FinishJob
  <2>3. \A d \in Bytes : d # c => job'[d] = job[d] /\ output'[d] = output[d]
    BY <2>1 DEF FinishJob
  <2> QED BY <2>2, <2>3
<1>4. CASE \E c \in Bytes : MarkJob(c)
  <2>1. PICK c \in Bytes : MarkJob(c)
    BY <1>4
  <2>2. verdict[c] = "ok" /\ UNCHANGED <<ledgerVars, output>>
    BY <2>1 DEF MarkJob
  <2>3. \A d \in Bytes : d # c => job'[d] = job[d] /\ analysis'[d] = analysis[d]
    BY <2>1 DEF MarkJob
  <2> QED BY <2>2, <2>3
<1>5. CASE \E c \in Bytes : TimeoutJob(c)
  BY <1>5 DEF TimeoutJob
<1>6. CASE FinalizerStep
  BY <1>6, FinalizerFrame
<1>7. CASE LedgerStep
  <2>1. IsFiniteSet(archived')
    BY <1>7, LedgerFrame, FS_AddElement
  <2> QED BY <1>7, <2>1, LedgerFrame
<1>8. CASE Crash
  BY <1>8 DEF Crash, NoJobs
<1>9. CASE RetryFailed
  BY <1>9 DEF RetryFailed
<1>10. CASE UNCHANGED vars
  BY <1>10 DEF vars
<1> QED
  BY <1>1, <1>2, <1>3, <1>4, <1>5, <1>6, <1>7, <1>8, <1>9, <1>10, StepKinds DEF BatchStep

\* Every step keeps futures off accepted rows, and results beside their outputs.
LEMMA JobStep ==
    ASSUME TypeOK, JobInv, [Next]_vars
    PROVE  JobInv'
<1> USE DEF TypeOK, JobInv, ledgerVars, analysisVars
<1>1. CASE SelectBatch
  <2>1. PICK b \in SUBSET Unanalyzed :
            job' = [c \in Bytes |-> IF c \in b THEN "queued" ELSE "none"]
    BY <1>1 DEF SelectBatch
  <2>2. \A c \in Bytes : job'[c] # "none" =>
            job'[c] = "queued" /\ analysis[c] \in {"none", "retry"}
    BY <2>1 DEF Unanalyzed
  <2> QED BY <1>1, <2>2 DEF SelectBatch
<1>2. CASE \E c \in Bytes : StartJob(c)
  BY <1>2 DEF StartJob
<1>3. CASE \E c \in Bytes : FinishJob(c)
  <2>1. PICK c \in Bytes : FinishJob(c)
    BY <1>3
  <2>2. analysis[c] \in {"none", "retry"} /\ UNCHANGED <<analysis, pc>> /\ pc = "batch"
    BY <2>1 DEF FinishJob
  <2>3. \A d \in Bytes : d # c => job'[d] = job[d] /\ output'[d] = output[d]
    BY <2>1 DEF FinishJob
  <2>4. job'[c] = "full" => output'[c] = "full"
    BY <2>1 DEF FinishJob
  <2> QED BY <2>2, <2>3, <2>4
<1>4. CASE \E c \in Bytes : MarkJob(c)
  <2>1. PICK c \in Bytes : MarkJob(c)
    BY <1>4
  <2>2. UNCHANGED output /\ job'[c] = "none" /\ pc' = IF job' = NoJobs THEN "idle" ELSE "batch"
    BY <2>1 DEF MarkJob
  <2>3. \A d \in Bytes : d # c => job'[d] = job[d] /\ analysis'[d] = analysis[d]
    BY <2>1 DEF MarkJob
  <2>4. ASSUME NEW d \in Bytes, job'[d] # "none" PROVE pc' = "batch"
    BY <2>2, <2>4 DEF NoJobs
  <2> QED BY <2>2, <2>3, <2>4
<1>5. CASE \E c \in Bytes : TimeoutJob(c)
  BY <1>5 DEF TimeoutJob
<1>6. CASE FinalizerStep
  BY <1>6, FinalizerFrame
<1>7. CASE LedgerStep
  BY <1>7, LedgerFrame
<1>8. CASE Crash
  BY <1>8 DEF Crash, NoJobs
<1>9. CASE RetryFailed
  BY <1>9 DEF RetryFailed
<1>10. CASE UNCHANGED vars
  BY <1>10 DEF vars
<1> QED
  BY <1>1, <1>2, <1>3, <1>4, <1>5, <1>6, <1>7, <1>8, <1>9, <1>10, StepKinds DEF BatchStep

\* An accepted row stays accepted, and the output of an accepted row complete.
LEMMA OkRowsStay ==
    ASSUME TypeOK, JobInv, [Next]_vars
    PROVE  /\ \A c \in Bytes : analysis[c] = "ok" =>
                                  analysis'[c] = "ok" /\ output'[c] = output[c]
           /\ \A c \in Bytes : analysis'[c] = "ok" /\ analysis[c] # "ok" =>
                                  job[c] = "full" /\ BatchStep
<1> USE DEF TypeOK, JobInv, ledgerVars, analysisVars
<1>1. CASE SelectBatch
  BY <1>1 DEF SelectBatch
<1>2. CASE \E c \in Bytes : StartJob(c)
  BY <1>2 DEF StartJob
<1>3. CASE \E c \in Bytes : FinishJob(c)
  <2>1. PICK c \in Bytes : FinishJob(c)
    BY <1>3
  <2>2. analysis[c] \in {"none", "retry"} /\ UNCHANGED analysis
    BY <2>1 DEF FinishJob
  <2>3. \A d \in Bytes : d # c => output'[d] = output[d]
    BY <2>1 DEF FinishJob
  <2> QED BY <2>2, <2>3
<1>4. CASE \E c \in Bytes : MarkJob(c)
  <2>1. PICK c \in Bytes : MarkJob(c)
    BY <1>4
  <2>2. analysis[c] \in {"none", "retry"} /\ UNCHANGED output
    BY <2>1 DEF MarkJob
  <2>3. \A d \in Bytes : d # c => analysis'[d] = analysis[d]
    BY <2>1 DEF MarkJob
  <2>4. analysis'[c] = "ok" => job[c] = "full"
    BY <2>1 DEF MarkJob, Accepted
  <2> QED BY <2>2, <2>3, <2>4, <1>4 DEF BatchStep
<1>5. CASE \E c \in Bytes : TimeoutJob(c)
  BY <1>5 DEF TimeoutJob
<1>6. CASE FinalizerStep
  BY <1>6, FinalizerFrame
<1>7. CASE LedgerStep
  BY <1>7, LedgerFrame
<1>8. CASE Crash
  BY <1>8 DEF Crash
<1>9. CASE RetryFailed
  BY <1>9 DEF RetryFailed
<1>10. CASE UNCHANGED vars
  BY <1>10 DEF vars
<1> QED
  BY <1>1, <1>2, <1>3, <1>4, <1>5, <1>6, <1>7, <1>8, <1>9, <1>10, StepKinds DEF BatchStep

\* Every step keeps a complete output beside each accepted row.
LEMMA OutputStep ==
    ASSUME TypeOK, RowsInv, JobInv, OkRowHasOutput, [Next]_vars
    PROVE  OkRowHasOutput'
<1> SUFFICES ASSUME NEW c \in Bytes, analysis'[c] = "ok"
             PROVE  output'[c] = "full" /\ verdict'[c] = "ok"
  BY DEF OkRowHasOutput
<1>1. RowsInv'
  BY RowsStep
<1>2. verdict'[c] = "ok"
  BY <1>1 DEF RowsInv
<1>3. CASE analysis[c] = "ok"
  BY <1>2, <1>3, OkRowsStay DEF OkRowHasOutput
<1>4. CASE analysis[c] # "ok"
  <2>1. job[c] = "full" /\ output[c] = "full" /\ analysis'[c] # analysis[c]
    BY <1>4, OkRowsStay DEF JobInv
  <2>2. output' = output
    BY <2>1, <1>4, OkRowsStay
       DEF BatchStep, SelectBatch, StartJob, FinishJob, MarkJob, TimeoutJob
  <2> QED BY <1>2, <2>1, <2>2
<1> QED BY <1>3, <1>4

\* The accepted rows only become more.
LEMMA OkRowsGrow ==
    ASSUME TypeOK, JobInv, [Next]_vars
    PROVE  OkRows \subseteq OkRows'
BY OkRowsStay DEF OkRows, WithStatus

\* While no batch runs, the accepted rows and the outputs are what they were.
LEMMA FilesWhileFinalizing ==
    ASSUME TypeOK, JobInv, [Next]_vars, pc \in {"leaderboard", "manifest", "complete"}
    PROVE  OkRows' = OkRows /\ Evidence' = Evidence
<1>1. ~BatchStep
  BY DEF BatchStep, SelectBatch, StartJob, FinishJob, MarkJob, TimeoutJob
<1>2. output' = output
  BY <1>1, StepKinds, FinalizerFrame
     DEF LedgerStep, Crash, RetryFailed, vars, analysisVars
<1>3. OkRows' = OkRows
  BY <1>1, OkRowsStay DEF OkRows, WithStatus
<1> QED BY <1>2, <1>3 DEF Evidence

\* Every step keeps what the finalizer relies on while it writes.
LEMMA ReadyStep ==
    ASSUME CoreInv, [Next]_vars
    PROVE  ReadyInv'
<1> USE DEF CoreInv
<1>1. CASE CountRows
  <2> SUFFICES ASSUME pc' = "leaderboard" PROVE ReadyInv'
    BY <1>1 DEF CountRows, ReadyInv
  <2>1. /\ snapshot' = Counts(snapshot.raw) /\ snapshot.raw \in Nat
        /\ Ready(Counts(snapshot.raw))
        /\ UNCHANGED <<analysis, output>>
    BY <1>1 DEF CountRows, TypeOK
  <2>2. OkRows = WithStatus(verdict, "ok")
    BY <2>1, ReadyMeansAccepted
  <2>3. Evidence \subseteq OkRows
    BY <2>2 DEF Evidence, RowsInv, WithStatus
  <2>4. OkRows' = OkRows /\ Evidence' = Evidence
    BY <2>1 DEF OkRows, WithStatus, Evidence
  <2>5. snapshot'.ok = Cardinality(OkRows)
    BY <2>1 DEF Counts, OkRows
  <2> QED BY <2>3, <2>4, <2>5 DEF ReadyInv
<1>2. CASE pc \in {"leaderboard", "manifest", "complete"} /\ pc' # "idle"
  <2>1. OkRows' = OkRows /\ Evidence' = Evidence
    BY <1>2, FilesWhileFinalizing
  <2>2. snapshot' = snapshot
    BY <1>2, StepKinds
       DEF BatchStep, SelectBatch, StartJob, FinishJob, MarkJob, TimeoutJob, FinalizerStep,
           CountRaw, CountRows, WriteLeaderboard, WriteManifest, WriteCompletion,
           LedgerStep, Crash, RetryFailed, vars, analysisVars
  <2> QED BY <1>2, <2>1, <2>2 DEF ReadyInv
<1>3. CASE ~CountRows /\ pc \notin {"leaderboard", "manifest", "complete"}
  <2>1. pc' \notin {"leaderboard", "manifest", "complete"}
    BY <1>3, StepKinds
       DEF BatchStep, SelectBatch, StartJob, FinishJob, MarkJob, TimeoutJob, FinalizerStep,
           CountRaw, CountRows, WriteLeaderboard, WriteManifest, WriteCompletion,
           LedgerStep, Crash, RetryFailed, vars, analysisVars
  <2> QED BY <2>1 DEF ReadyInv
<1>4. CASE pc' = "idle"
  BY <1>4 DEF ReadyInv
<1> QED BY <1>1, <1>2, <1>3, <1>4

\* When the finalizer comes to the completion record its manifest is in place.
LEMMA WrittenStep ==
    ASSUME AInv, [Next]_vars
    PROVE  WrittenInv'
<1> USE DEF AInv, CoreInv
<1> SUFFICES ASSUME pc' = "complete" PROVE manifest' # None /\ OkRows' \subseteq manifest'
  BY DEF WrittenInv
<1>1. CASE pc = "complete"
  <2>1. manifest' = manifest
    BY <1>1, StepKinds
       DEF BatchStep, SelectBatch, StartJob, FinishJob, MarkJob, TimeoutJob, FinalizerStep,
           CountRaw, CountRows, WriteLeaderboard, WriteManifest, WriteCompletion, LedgerStep,
           Crash, RetryFailed, vars, analysisVars, derivedVars
  <2>2. OkRows' = OkRows
    BY <1>1, FilesWhileFinalizing
  <2> QED BY <1>1, <2>1, <2>2 DEF WrittenInv
<1>2. CASE pc # "complete"
  <2>1. WriteManifest /\ manifest' = Evidence
    BY <1>2, StepKinds
       DEF BatchStep, SelectBatch, StartJob, FinishJob, MarkJob, TimeoutJob, FinalizerStep,
           CountRaw, CountRows, WriteLeaderboard, WriteManifest, WriteCompletion, LedgerStep,
           Crash, RetryFailed, vars, analysisVars
  <2>2. OkRows' = OkRows
    BY <2>1 DEF WriteManifest, OkRows, WithStatus
  <2>3. Evidence \in SUBSET Bytes /\ OkRows \subseteq Evidence
    BY DEF Evidence, OkRows, WithStatus, OkRowHasOutput
  <2> QED BY <2>1, <2>2, <2>3, AnalysisAssumption
<1> QED BY <1>1, <1>2

\* The manifest is the one there was, or the outputs that the finalizer has found.
LEMMA ManifestWritten ==
    ASSUME CoreInv, [Next]_vars
    PROVE  \/ manifest' = manifest
           \/ manifest' = Evidence /\ Evidence \subseteq OkRows
<1>1. CASE WriteManifest
  BY <1>1 DEF WriteManifest, CoreInv, ReadyInv
<1>2. CASE ~WriteManifest
  BY <1>2, StepKinds, BatchFrame
     DEF FinalizerStep, CountRaw, CountRows, WriteLeaderboard, WriteCompletion,
         LedgerStep, Crash, RetryFailed, vars, analysisVars, derivedVars
<1> QED BY <1>1, <1>2

\* Every step keeps the manifest within the accepted rows.
LEMMA ManifestStep ==
    ASSUME AInv, [Next]_vars
    PROVE  ManifestIsAccepted'
<1>1. OkRows \subseteq OkRows'
  BY OkRowsGrow DEF AInv, CoreInv
<1>2. manifest # None => manifest \subseteq OkRows
  BY DEF AInv, ManifestIsAccepted, OkRows
<1>3. manifest' # None => manifest' \subseteq OkRows'
  BY <1>1, <1>2, ManifestWritten DEF AInv
<1> QED BY <1>3 DEF ManifestIsAccepted, OkRows

\* Every step keeps the completion record covered.
LEMMA CompletionStep ==
    ASSUME AInv, [Next]_vars
    PROVE  CompletionIsCovered'
<1> USE DEF AInv, CoreInv
<1> SUFFICES ASSUME completion' # None
             PROVE  manifest' # None /\ completion'.ok <= Cardinality(manifest')
  BY DEF CompletionIsCovered
<1>0. /\ IsFiniteSet(OkRows) /\ Cardinality(OkRows) \in Nat
  BY RowsAreFinite
<1>1. CASE WriteCompletion
  <2>1. /\ completion'.ok = snapshot.ok /\ manifest' = manifest
        /\ snapshot.ok = Cardinality(OkRows)
        /\ manifest # None /\ OkRows \subseteq manifest
    BY <1>1 DEF WriteCompletion, ReadyInv, WrittenInv
  <2>2. manifest = OkRows
    BY <2>1 DEF ManifestIsAccepted, OkRows
  <2> QED BY <1>0, <2>1, <2>2
<1>2. CASE ~WriteCompletion
  <2>1. completion' = completion
    BY <1>2, StepKinds, BatchFrame
       DEF FinalizerStep, CountRaw, CountRows, WriteLeaderboard, WriteManifest,
           LedgerStep, Crash, RetryFailed, vars, analysisVars, derivedVars
  <2>2. completion.ok \in Nat /\ manifest # None /\ completion.ok <= Cardinality(manifest)
    BY <2>1 DEF CompletionIsCovered, TypeOK
  <2>3. CASE manifest' = manifest
    BY <2>1, <2>2, <2>3
  <2>4. CASE manifest' = Evidence /\ Evidence \subseteq OkRows
    <3>1. OkRows \subseteq Evidence /\ Evidence \in SUBSET Bytes
      BY DEF Evidence, OkRows, WithStatus, OkRowHasOutput
    <3>2. manifest \subseteq OkRows
      BY <2>2 DEF ManifestIsAccepted, OkRows
    <3>3. Cardinality(manifest) <= Cardinality(OkRows) /\ Cardinality(manifest) \in Nat
      BY <1>0, <3>2, FS_Subset, FS_CardinalityType
    <3>4. manifest' = OkRows /\ manifest' # None
      BY <2>4, <3>1, AnalysisAssumption
    <3> QED BY <1>0, <2>1, <2>2, <3>3, <3>4
  <2> QED BY <2>3, <2>4, ManifestWritten
<1> QED BY <1>1, <1>2

-----------------------------------------------------------------------------
(* The theorems.                                                           *)

\* Nothing is known of any replay at first.
LEMMA AInvInit == Init => AInv
<1> SUFFICES ASSUME Init PROVE AInv
  OBVIOUS
<1> USE DEF Init, LedgerInit
<1>1. TypeOK
  BY DEF TypeOK, NoJobs, NoSnapshot
<1>2. RowsInv
  BY FS_EmptySet DEF RowsInv, NoJobs
<1>3. JobInv /\ OkRowHasOutput
  BY DEF JobInv, OkRowHasOutput, NoJobs
<1>4. ReadyInv /\ WrittenInv /\ ManifestIsAccepted /\ CompletionIsCovered
  BY DEF ReadyInv, WrittenInv, ManifestIsAccepted, CompletionIsCovered
<1> QED BY <1>1, <1>2, <1>3, <1>4 DEF AInv, CoreInv

\* Every step preserves the inductive invariant.
LEMMA AInvStep == AInv /\ [Next]_vars => AInv'
BY TypeStep, RowsStep, JobStep, OutputStep, ReadyStep, WrittenStep, ManifestStep, CompletionStep
DEF AInv, CoreInv

\* The rows, outputs, futures and files agree in every reachable state.
THEOREM AnalysisInvariant == Spec => []AInv
BY AInvInit, AInvStep, PTL DEF Spec

\* The ledger, the files and the analyzer hold what they are declared to hold.
THEOREM AnalysisTypes == Spec => []TypeOK
<1>1. AInv => TypeOK
  BY DEF AInv, CoreInv
<1> QED BY <1>1, AnalysisInvariant, PTL

\* A replay counts as analysed only while the complete reconstruction of a probed
\* replay is on disk (analyzer.py publishes before it judges).
THEOREM AcceptedRowsHaveOutputs == Spec => []OkRowHasOutput
<1>1. AInv => OkRowHasOutput
  BY DEF AInv, CoreInv
<1> QED BY <1>1, AnalysisInvariant, PTL

\* The finalizer's manifest holds accepted replays only, although the counts that
\* let it start are read by separate SELECTs.
THEOREM ManifestsAreAccepted == Spec => []ManifestIsAccepted
<1>1. AInv => ManifestIsAccepted
  BY DEF AInv
<1> QED BY <1>1, AnalysisInvariant, PTL

\* The completion record never claims more replays than the manifest holds, a
\* death between the finalizer's files included.
THEOREM CompletionsAreCovered == Spec => []CompletionIsCovered
<1>1. AInv => CompletionIsCovered
  BY DEF AInv
<1> QED BY <1>1, AnalysisInvariant, PTL
==============================================================================
