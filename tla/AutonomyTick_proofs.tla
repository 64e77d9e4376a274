------------------------- MODULE AutonomyTick_proofs -------------------------
(***************************************************************************)
(* The safety properties of AutonomyTick, for every set of replays, batch, *)
(* number of threads, timeouts, retries and deaths.                        *)
(*                                                                         *)
(* The argument: the tick writes two of the files the finalizer writes and *)
(* nothing else the analyzer reads (TickFrame), so what holds of rows,     *)
(* outputs and futures (CoreInv) holds beside it.  The finalizer writes    *)
(* what it finds on disk; the tick writes what was there when its command  *)
(* began to read and perhaps more (ScanResults).  By then some replay was  *)
(* accepted, whatever the torn counts have missed, and its output was      *)
(* there; accepted rows only become more and outputs stay (FoundInv), so   *)
(* that no file is made from rejected work alone (DerivedInv).             *)
(***************************************************************************)
EXTENDS AutonomyTick, ReplayAnalysis_proofs

-----------------------------------------------------------------------------
(* What there is to find on disk.                                          *)

\* Every accepted replay has an output, and every output is of an archived replay.
LEMMA EvidenceFacts ==
    ASSUME CoreInv
    PROVE  /\ OkRows \subseteq Evidence /\ Evidence \subseteq archived
           /\ Evidence \in SUBSET Bytes
           /\ IsFiniteSet(archived)
BY DEF CoreInv, OkRowHasOutput, OkRows, WithStatus, Evidence, RowsInv

\* What a command of the tick has found are archived replays, and all it began with.
LEMMA ScanFacts ==
    ASSUME CoreInv, NEW found \in ScanResults
    PROVE  /\ found \in SUBSET Bytes /\ found \subseteq archived /\ scan \subseteq found
           /\ found # None
BY EvidenceFacts, AnalysisAssumption DEF ScanResults

\* When the number of accepted rows is positive, there is one.
LEMMA SomeAccepted ==
    ASSUME Cardinality(OkRows) # 0
    PROVE  OkRows # {}
BY FS_EmptySet

\* Accepted rows only become more, and so does their number.
LEMMA AcceptedGrow ==
    ASSUME CoreInv, CoreInv', OkRows \subseteq OkRows'
    PROVE  /\ Cardinality(OkRows) \in Nat /\ Cardinality(OkRows') \in Nat
           /\ Cardinality(OkRows) <= Cardinality(OkRows')
<1>1. IsFiniteSet(archived') /\ OkRows' \subseteq archived'
  BY DEF CoreInv, RowsInv, OkRows, WithStatus
<1>2. IsFiniteSet(OkRows')
  BY <1>1, FS_Subset
<1> QED BY <1>2, FS_Subset, FS_CardinalityType

-----------------------------------------------------------------------------
(* What the steps leave alone.                                             *)

\* The tick touches no row, output or future, and nothing the finalizer remembers.
LEMMA TickFrame ==
    ASSUME TickStep \/ TickCrash
    PROVE  /\ UNCHANGED <<ledgerVars, analysis, output, completion, pc, job, snapshot, timeouts,
                          retries>>
           /\ \/ leaderboard' = leaderboard
              \/ /\ TickRefreshSkill
                 /\ \E found \in ScanResults :
                       leaderboard' = [evidence |-> found, versioned |-> FALSE]
           /\ \/ manifest' = manifest
              \/ TickBuildManifest /\ manifest' \in ScanResults
           /\ crashes' = crashes \/ crashes' = crashes + 1
BY DEF TickStep, TickCrash, TickCountRaw, TickCountProbed, TickCountAnalysed, TickJudge,
       TickRateOutputs, TickRefreshSkill, TickCheckManifest, TickScanOutputs, TickBuildManifest,
       TickBaseline, TickExecutor, vars, analysisVars, derivedVars, counters

\* Whose step it is.
LEMMA WhoseStep ==
    ASSUME [TickNext]_tickSpecVars
    PROVE  ([Next]_vars /\ UNCHANGED tickVars) \/ TickStep \/ TickCrash
BY DEF TickNext, PipelineStep, tickSpecVars, tickVars, vars, analysisVars, ledgerVars, derivedVars,
       counters

-----------------------------------------------------------------------------
(* One lemma for each conjunct of the invariant.                           *)

\* The torn counts are numbers.
LEMMA SeenTyped ==
    ASSUME TickTypeOK, RowsInv, TickCountRaw \/ TickCountProbed \/ TickCountAnalysed
    PROVE  seen' \in [raw : Nat, probedOk : Nat, probedFailed : Nat, analysisOk : Nat,
                      analysisFailed : Nat, probePending : Nat, analysisPending : Nat]
<1>1. Cardinality(archived) \in Nat
  BY RowsAreFinite
<1>2. \A status \in {"ok", "failed"} : /\ Cardinality(WithStatus(verdict, status)) \in Nat
                                       /\ Cardinality(WithStatus(analysis, status)) \in Nat
  <2> TAKE status \in {"ok", "failed"}
  <2>1. /\ WithStatus(verdict, status) \subseteq archived
        /\ WithStatus(analysis, status) \subseteq archived
    BY DEF RowsInv, WithStatus
  <2> QED BY <2>1, RowsAreFinite, FS_Subset, FS_CardinalityType
<1>3. \A total, done \in Nat : Pending(total, done) \in Nat
  BY DEF Pending
<1>4. CASE TickCountRaw
  BY <1>1, <1>4 DEF TickCountRaw, NothingSeen
<1>5. CASE TickCountProbed
  <2> DEFINE ok == Cardinality(WithStatus(verdict, "ok"))
             failed == Cardinality(WithStatus(verdict, "failed"))
  <2>1. ok \in Nat /\ failed \in Nat
    BY <1>2
  <2>2. seen' = [seen EXCEPT !.probedOk = ok, !.probedFailed = failed]
    BY <1>5 DEF TickCountProbed
  <2> HIDE DEF ok, failed
  <2> QED BY <2>1, <2>2 DEF TickTypeOK
<1>6. CASE TickCountAnalysed
  <2> DEFINE ok == Cardinality(WithStatus(analysis, "ok"))
             failed == Cardinality(WithStatus(analysis, "failed"))
             probe == Pending(seen.raw, seen.probedOk + seen.probedFailed)
             analyse == Pending(seen.probedOk, ok + failed)
  <2>1. ok \in Nat /\ failed \in Nat
    BY <1>2
  <2>4. /\ seen.raw \in Nat /\ seen.probedOk \in Nat
        /\ seen.probedOk + seen.probedFailed \in Nat /\ ok + failed \in Nat
    BY <2>1 DEF TickTypeOK
  <2>2. probe \in Nat /\ analyse \in Nat
    BY <1>3, <2>4
  <2>3. seen' = [seen EXCEPT !.analysisOk = ok, !.analysisFailed = failed,
                             !.probePending = probe, !.analysisPending = analyse]
    BY <1>6 DEF TickCountAnalysed
  <2> HIDE DEF ok, failed, probe, analyse
  <2> QED BY <2>1, <2>2, <2>3 DEF TickTypeOK
<1> QED BY <1>4, <1>5, <1>6

\* Every step keeps the types.
LEMMA TickTypeStep ==
    ASSUME TickInv, [TickNext]_tickSpecVars
    PROVE  TickTypeOK'
<1> USE DEF TickInv, TickTypeOK
<1>1. CASE [Next]_vars /\ UNCHANGED tickVars
  BY <1>1, TypeStep DEF CoreInv, tickVars
<1>2. CASE TickStep \/ TickCrash
  <2>0. TypeOK
    OBVIOUS
  <2>6. /\ leaderboard' = None \/ leaderboard' \in [evidence : SUBSET Bytes, versioned : BOOLEAN]
        /\ manifest' = None \/ manifest' \subseteq Bytes
    <3>1. ScanResults \subseteq SUBSET Bytes
      BY ScanFacts
    <3>2. \A found \in ScanResults : [evidence |-> found, versioned |-> FALSE] \in
                                        [evidence : SUBSET Bytes, versioned : BOOLEAN]
      BY <3>1
    <3>3. leaderboard = None \/ leaderboard \in [evidence : SUBSET Bytes, versioned : BOOLEAN]
      BY <2>0 DEF TypeOK
    <3>4. manifest = None \/ manifest \subseteq Bytes
      BY <2>0 DEF TypeOK
    <3> QED BY <1>2, <3>1, <3>2, <3>3, <3>4, TickFrame
  <2>7. UNCHANGED <<offered, archived, verdict, analysis, output, completion, pc, job, snapshot,
                    timeouts, retries>>
    BY <1>2, TickFrame DEF ledgerVars
  <2>8. crashes' \in Nat
    BY <1>2, <2>0, TickFrame DEF TypeOK
  <2>1. TypeOK'
    BY <2>0, <2>6, <2>7, <2>8 DEF TypeOK
  <2>2. CASE TickCountRaw \/ TickCountProbed \/ TickCountAnalysed
    BY <2>1, <2>2, SeenTyped DEF CoreInv, TickCountRaw, TickCountProbed, TickCountAnalysed
  <2>3. CASE TickJudge
    BY <2>1, <2>3 DEF TickJudge, TickEnds
  <2>4. CASE \/ TickRateOutputs \/ TickRefreshSkill \/ TickCheckManifest \/ TickScanOutputs
             \/ TickBuildManifest
    <3>1. Evidence \subseteq Bytes
      BY EvidenceFacts
    <3> QED BY <2>1, <2>4, <3>1 DEF TickRateOutputs, TickRefreshSkill, TickCheckManifest,
                                    TickScanOutputs, TickBuildManifest
  <2>5. CASE TickBaseline \/ TickExecutor \/ TickCrash
    BY <2>1, <2>5 DEF TickBaseline, TickExecutor, TickCrash
  <2> QED BY <1>2, <2>2, <2>3, <2>4, <2>5 DEF TickStep
<1> QED BY <1>1, <1>2, WhoseStep

\* What holds of rows, outputs and futures holds beside the tick, and accepted rows
\* stay accepted.
LEMMA CoreStep ==
    ASSUME TickInv, [TickNext]_tickSpecVars
    PROVE  CoreInv' /\ OkRows \subseteq OkRows'
<1>1. CASE [Next]_vars /\ UNCHANGED tickVars
  BY <1>1, TypeStep, RowsStep, JobStep, OutputStep, ReadyStep, OkRowsGrow DEF TickInv, CoreInv
<1>2. CASE TickStep \/ TickCrash
  <2>1. UNCHANGED <<ledgerVars, analysis, output, pc, job, snapshot>>
    BY <1>2, TickFrame
  <2>2. TypeOK'
    BY TickTypeStep DEF TickTypeOK
  <2>3. RowsInv' /\ JobInv' /\ OkRowHasOutput'
    BY <2>1 DEF TickInv, CoreInv, RowsInv, JobInv, OkRowHasOutput, ledgerVars
  <2>4. OkRows' = OkRows /\ Evidence' = Evidence
    BY <2>1 DEF OkRows, WithStatus, Evidence
  <2>6. ReadyInv'
    BY <2>1, <2>4 DEF TickInv, CoreInv, ReadyInv
  <2> QED BY <2>2, <2>3, <2>4, <2>6 DEF CoreInv
<1> QED BY <1>1, <1>2, WhoseStep

\* The finalizer's manifest is what it finds on disk, the tick's what it has found.
LEMMA WhoWritesManifest ==
    ASSUME [TickNext]_tickSpecVars
    PROVE  \/ manifest' = manifest
           \/ manifest' = Evidence /\ WriteManifest
           \/ manifest' \in ScanResults /\ TickBuildManifest
<1>1. CASE [Next]_vars /\ ~WriteManifest
  BY <1>1, StepKinds, BatchFrame
     DEF FinalizerStep, CountRaw, CountRows, WriteLeaderboard, WriteCompletion, LedgerStep, Crash,
         RetryFailed, vars, analysisVars, derivedVars
<1>2. CASE WriteManifest
  BY <1>2 DEF WriteManifest
<1> QED BY <1>1, <1>2, TickFrame, WhoseStep

\* The finalizer rates what it finds on disk, the tick what it has found.
LEMMA WhoWritesLeaderboard ==
    ASSUME [TickNext]_tickSpecVars
    PROVE  \/ leaderboard' = leaderboard
           \/ leaderboard' = [evidence |-> Evidence, versioned |-> TRUE] /\ WriteLeaderboard
           \/ /\ TickRefreshSkill
              /\ \E found \in ScanResults :
                    leaderboard' = [evidence |-> found, versioned |-> FALSE]
<1>1. CASE [Next]_vars /\ ~WriteLeaderboard
  BY <1>1, StepKinds, BatchFrame
     DEF FinalizerStep, CountRaw, CountRows, WriteManifest, WriteCompletion, LedgerStep, Crash,
         RetryFailed, vars, analysisVars, derivedVars
<1>2. CASE WriteLeaderboard
  BY <1>2 DEF WriteLeaderboard
<1> QED BY <1>1, <1>2, TickFrame, WhoseStep

\* The archive only grows.
LEMMA ArchiveGrows ==
    ASSUME TickInv, [TickNext]_tickSpecVars
    PROVE  archived \subseteq archived'
<1>1. CASE [Next]_vars
  BY <1>1, StepKinds, BatchFrame, FinalizerFrame, LedgerFrame
     DEF TickInv, CoreInv, Crash, RetryFailed, vars, ledgerVars
<1> QED BY <1>1, TickFrame, WhoseStep DEF ledgerVars

\* Every step keeps an accepted replay in each file.
LEMMA DerivedStep ==
    ASSUME TickInv, [TickNext]_tickSpecVars
    PROVE  DerivedInv'
<1> USE DEF TickInv, DerivedInv
<1>0. /\ CoreInv /\ CoreInv' /\ OkRows \subseteq OkRows' /\ archived \subseteq archived'
      /\ OkRows \subseteq Evidence /\ Evidence \subseteq archived
  BY CoreStep, ArchiveGrows, EvidenceFacts
<1>1. ASSUME leaderboard' # None PROVE leaderboard'.evidence \cap OkRows' # {}
  <2>1. CASE leaderboard' = leaderboard
    BY <1>0, <1>1, <2>1
  <2>2. CASE leaderboard' # leaderboard
    <3>1. CASE leaderboard'.evidence = Evidence /\ WriteLeaderboard
      <4>1. OkRows # {}
        BY <3>1 DEF WriteLeaderboard, FoundInv
      <4> QED BY <1>0, <3>1, <4>1
    <3>2. CASE TickRefreshSkill /\ leaderboard'.evidence \in ScanResults
      <4>1. scan \cap OkRows # {}
        BY <3>2 DEF TickRefreshSkill, FoundInv
      <4> QED BY <1>0, <3>2, <4>1, ScanFacts
    <3> QED BY <2>2, <3>1, <3>2, WhoWritesLeaderboard
  <2> QED BY <2>1, <2>2
<1>2. ASSUME manifest' # None PROVE manifest' \subseteq archived' /\ manifest' \cap OkRows' # {}
  <2>1. CASE manifest' = manifest
    BY <1>0, <1>2, <2>1
  <2>2. CASE manifest' # manifest
    <3>1. CASE manifest' = Evidence /\ WriteManifest
      <4>1. OkRows # {}
        BY <3>1 DEF WriteManifest, FoundInv
      <4> QED BY <1>0, <3>1, <4>1
    <3>2. CASE manifest' \in ScanResults /\ TickBuildManifest
      <4>1. scan \cap OkRows # {}
        BY <3>2 DEF TickBuildManifest, FoundInv
      <4> QED BY <1>0, <3>2, <4>1, ScanFacts
    <3> QED BY <2>2, <3>1, <3>2, WhoWritesManifest
  <2> QED BY <2>1, <2>2
<1> QED BY <1>1, <1>2

\* A file that is there stays.
LEMMA FilesStay ==
    ASSUME TickInv, [TickNext]_tickSpecVars
    PROVE  /\ manifest # None => manifest' # None
           /\ leaderboard \in [evidence : SUBSET Bytes, versioned : BOOLEAN] =>
                 leaderboard' \in [evidence : SUBSET Bytes, versioned : BOOLEAN]
<1>1. Evidence \in SUBSET Bytes /\ Evidence # None
  BY EvidenceFacts, AnalysisAssumption DEF TickInv
<1>2. \A found \in ScanResults : found \in SUBSET Bytes /\ found # None
  BY ScanFacts DEF TickInv
<1>3. /\ [evidence |-> Evidence, versioned |-> TRUE] \in
            [evidence : SUBSET Bytes, versioned : BOOLEAN]
      /\ \A found \in ScanResults : [evidence |-> found, versioned |-> FALSE] \in
                                        [evidence : SUBSET Bytes, versioned : BOOLEAN]
  BY <1>1, <1>2
<1> QED BY <1>1, <1>2, <1>3, WhoWritesManifest, WhoWritesLeaderboard

\* When the finalizer starts to write, the torn counts had found an accepted row.
LEMMA FinalizerFound ==
    ASSUME TickInv, [Next]_vars, pc' \in {"leaderboard", "manifest", "complete"}
    PROVE  OkRows # {}
<1>1. CASE pc \in {"leaderboard", "manifest", "complete"}
  BY <1>1 DEF TickInv, FoundInv
<1>2. CASE pc \notin {"leaderboard", "manifest", "complete"}
  <2>1. CountRows
    BY <1>2, StepKinds
       DEF BatchStep, SelectBatch, StartJob, FinishJob, MarkJob, TimeoutJob, FinalizerStep,
           CountRaw, CountRows, WriteLeaderboard, WriteManifest, WriteCompletion,
           LedgerStep, Crash, RetryFailed, vars, analysisVars
  <2>2. Ready(Counts(snapshot.raw)) /\ snapshot.raw \in Nat
    BY <1>2, <2>1 DEF CountRows, TickInv, CoreInv, TypeOK
  <2>3. Cardinality(OkRows) # 0
    BY <2>2 DEF Ready, Counts, OkRows
  <2> QED BY <2>3, SomeAccepted
<1> QED BY <1>1, <1>2

\* Every step keeps what the finalizer and the tick have found out.
LEMMA FoundStep ==
    ASSUME TickInv, [TickNext]_tickSpecVars
    PROVE  FoundInv'
<1>0. /\ OkRows \subseteq OkRows'
      /\ Cardinality(OkRows) \in Nat /\ Cardinality(OkRows') \in Nat
      /\ Cardinality(OkRows) <= Cardinality(OkRows')
  BY CoreStep, AcceptedGrow DEF TickInv
<1>1. ASSUME pc' \in {"leaderboard", "manifest", "complete"} PROVE OkRows' # {}
  <2>1. CASE [Next]_vars
    BY <1>0, <1>1, <2>1, FinalizerFound
  <2>2. CASE pc' = pc
    BY <1>0, <1>1, <2>2 DEF TickInv, FoundInv
  <2> QED BY <2>1, <2>2, WhoseStep, TickFrame
<1>2. CASE [Next]_vars /\ UNCHANGED tickVars
  <2>1. tick' = tick /\ seen' = seen /\ scan' = scan /\ baseline' = baseline
    BY <1>2 DEF tickVars
  <2>2. seen.analysisOk \in Nat
    BY DEF TickInv, TickTypeOK
  <2>3. tick' = "validate" => seen'.analysisOk <= Cardinality(OkRows')
    BY <1>0, <2>1, <2>2 DEF TickInv, FoundInv
  <2> QED BY <1>0, <1>1, <2>1, <2>3, FilesStay DEF TickInv, FoundInv
<1>3. CASE TickStep \/ TickCrash
  <2>1. CASE TickCountRaw \/ TickCountProbed \/ TickExecutor \/ TickCrash
    <3>1. tick' \in {"counted", "probed", "idle"} /\ baseline' = baseline
      BY <2>1 DEF TickCountRaw, TickCountProbed, TickExecutor, TickCrash
    <3> QED BY <1>1, <3>1, FilesStay DEF TickInv, FoundInv
  <2>2. CASE TickCountAnalysed
    <3>1. tick' = "validate" /\ baseline' = baseline /\ seen'.analysisOk = Cardinality(OkRows)
      BY <2>2 DEF TickCountAnalysed, OkRows, TickInv, TickTypeOK
    <3> QED BY <1>0, <1>1, <3>1, FilesStay DEF TickInv, FoundInv
  <2>3. CASE TickJudge
    <3>1. /\ baseline' = baseline /\ leaderboard' = leaderboard
          /\ tick' \in {"idle", "refresh", "dataset"}
          /\ tick' # "idle" => seen.analysisOk > 0 /\ tick = "validate"
          /\ tick' = "dataset" => leaderboard # None
      BY <2>3 DEF TickJudge, TickEnds, vars, analysisVars, derivedVars
    <3>2. tick' # "idle" => OkRows # {}
      BY <1>0, <3>1, SomeAccepted DEF TickInv, TickTypeOK, FoundInv
    <3>3. leaderboard = None \/ leaderboard \in [evidence : SUBSET Bytes, versioned : BOOLEAN]
      BY DEF TickInv, TickTypeOK, TypeOK
    <3> QED BY <1>0, <1>1, <3>1, <3>2, <3>3, FilesStay DEF TickInv, FoundInv
  <2>8. CASE TickRateOutputs \/ TickScanOutputs
    <3>1. /\ OkRows # {} /\ baseline' = baseline
          /\ \/ tick = "refresh" /\ tick' = "rating" /\ scan' = Evidence
             \/ tick = "build" /\ tick' = "scanning" /\ scan' = Evidence
             \/ tick' = "idle"
      BY <2>8 DEF TickRateOutputs, TickScanOutputs, TickInv, FoundInv
    <3>2. tick' \in {"rating", "scanning"} => scan' \cap OkRows' # {}
      BY <1>0, <3>1, EvidenceFacts DEF TickInv
    <3> QED BY <1>0, <1>1, <3>1, <3>2, FilesStay DEF TickInv, FoundInv
  <2>4. CASE TickRefreshSkill
    <3>1. \A found \in ScanResults : found \in SUBSET Bytes
      BY ScanFacts DEF TickInv
    <3>2. /\ tick = "rating" /\ tick' = "dataset" /\ baseline' = baseline
          /\ leaderboard' \in [evidence : SUBSET Bytes, versioned : BOOLEAN]
      BY <2>4, <3>1 DEF TickRefreshSkill
    <3> QED BY <1>0, <1>1, <3>2, FilesStay DEF TickInv, FoundInv
  <2>5. CASE TickCheckManifest
    <3>1. /\ tick = "dataset" /\ tick' \in {"build", "baseline"} /\ baseline' = baseline
          /\ tick' = "baseline" => manifest # None
      BY <2>5 DEF TickCheckManifest
    <3> QED BY <1>0, <1>1, <3>1, FilesStay DEF TickInv, FoundInv
  <2>6. CASE TickBuildManifest
    <3>1. \A found \in ScanResults : found # None
      BY ScanFacts DEF TickInv
    <3>2. /\ tick = "scanning" /\ tick' = "baseline" /\ baseline' = baseline
          /\ manifest' # None
      BY <2>6, <3>1 DEF TickBuildManifest
    <3> QED BY <1>0, <1>1, <3>2, FilesStay DEF TickInv, FoundInv
  <2>7. CASE TickBaseline
    <3>1. tick = "baseline" /\ tick' = "executor"
      BY <2>7 DEF TickBaseline
    <3> QED BY <1>0, <1>1, <3>1, FilesStay DEF TickInv, FoundInv
  <2> QED BY <1>3, <2>1, <2>2, <2>3, <2>4, <2>5, <2>6, <2>7, <2>8 DEF TickStep
<1> QED BY <1>2, <1>3, WhoseStep

-----------------------------------------------------------------------------
(* The theorems.                                                           *)

\* Nothing is known and no file is there at first.
LEMMA TickInvInit == TickInit => TickInv
<1> SUFFICES ASSUME TickInit PROVE TickInv
  OBVIOUS
<1>1. /\ Init /\ tick = "idle" /\ seen = NothingSeen /\ note = "none" /\ scan = {}
      /\ baseline = FALSE
  BY DEF TickInit
<1>2. CoreInv /\ TypeOK
  BY <1>1, AInvInit DEF AInv, CoreInv
<1>3. seen \in [raw : Nat, probedOk : Nat, probedFailed : Nat, analysisOk : Nat,
                analysisFailed : Nat, probePending : Nat, analysisPending : Nat]
  BY <1>1 DEF NothingSeen
<1>4. DerivedInv /\ FoundInv
  BY <1>1 DEF Init, DerivedInv, FoundInv
<1> QED BY <1>1, <1>2, <1>3, <1>4 DEF TickInv, TickTypeOK

\* Every step preserves the inductive invariant.
LEMMA TickInvStep == TickInv /\ [TickNext]_tickSpecVars => TickInv'
BY TickTypeStep, CoreStep, DerivedStep, FoundStep DEF TickInv

\* Rows, files, finalizer and tick agree in every reachable state.
THEOREM TickInvariant == TickSpec => []TickInv
BY TickInvInit, TickInvStep, PTL DEF TickSpec

\* Every variable keeps its type: the counts that haxlab-status has read so far are
\* numbers, and no file holds anything but what one of its two writers makes.
THEOREM TickTypes == TickSpec => []TickTypeOK
<1>1. TickInv => TickTypeOK
  BY DEF TickInv
<1> QED BY <1>1, TickInvariant, PTL

\* A replay counts as analysed only while its complete reconstruction is on disk,
\* also while the tick reads the rows and writes files of its own.
THEOREM TickAcceptedRows == TickSpec => []OkRowHasOutput
<1>1. TickInv => OkRowHasOutput
  BY DEF TickInv, CoreInv
<1> QED BY <1>1, TickInvariant, PTL

\* A leaderboard or manifest, whichever of the two processes wrote it last, was made
\* from at least one accepted replay, and a manifest from archived ones only, although
\* the tick writes what it read long before (haxlab-autonomy-tick.sh:77-85,
\* selector.py:304-500).
THEOREM TickFilesHaveEvidence == TickSpec => []DerivedInv
<1>1. TickInv => DerivedInv
  BY DEF TickInv
<1> QED BY <1>1, TickInvariant, PTL

\* The baseline and the executor start on a manifest that holds an accepted replay,
\* though the tick judges torn counts and files that were replaced since.
THEOREM ExecutorsHaveDatasets == TickSpec => []ExecutorHasDataset
<1>1. TickInv => ExecutorHasDataset
  BY DEF TickInv, DerivedInv, FoundInv, ExecutorHasDataset, OkRows
<1> QED BY <1>1, TickInvariant, PTL
==============================================================================
