----------------------------- MODULE AutonomyTick -----------------------------
(***************************************************************************)
(* The autonomy tick (deploy/haxlab-autonomy-tick.sh) beside the analyzer  *)
(* and its finalizer.  A timer starts it once a minute, a lock keeps it    *)
(* single; it reads the pipeline's status, fills in the derived files that *)
(* are missing and hands the training manifest to the generation executor. *)
(* It shares the leaderboard and the manifest with the finalizer and takes *)
(* no lock for them: each of its commands reads first and writes at its    *)
(* end, whatever the finalizer has written meanwhile.                      *)
(*                                                                         *)
(* A leaderboard cut short by a death of haxlab-skill is refused by every  *)
(* reader, as one without analysis_version is, and stands for it here.     *)
(***************************************************************************)
EXTENDS ReplayAnalysis, Integers

VARIABLES tick,       \* where the tick is
          seen,       \* the counts haxlab-status has read so far
          note,       \* the action last written to autonomy-status.json
          scan,       \* the outputs that were there when its command began to read
          baseline    \* whether the baseline challenger has its metrics.json

tickVars == <<tick, seen, note, scan, baseline>>
tickSpecVars == <<vars, tickVars>>

NothingSeen == [raw |-> 0, probedOk |-> 0, probedFailed |-> 0,
                analysisOk |-> 0, analysisFailed |-> 0,
                probePending |-> 0, analysisPending |-> 0]

TickInit ==
    /\ Init
    /\ tick = "idle" /\ seen = NothingSeen /\ note = "none" /\ scan = {}
    /\ baseline = FALSE

-----------------------------------------------------------------------------
(* haxlab-status: status_snapshot, a SELECT at a time, then the checks.     *)

TickCountRaw ==
    /\ tick = "idle"
    /\ seen' = [NothingSeen EXCEPT !.raw = Cardinality(archived)]
    /\ tick' = "counted"
    /\ UNCHANGED <<vars, note, scan, baseline>>

TickCountProbed ==
    /\ tick = "counted"
    /\ seen' = [seen EXCEPT !.probedOk = Cardinality(WithStatus(verdict, "ok")),
                            !.probedFailed = Cardinality(WithStatus(verdict, "failed"))]
    /\ tick' = "probed"
    /\ UNCHANGED <<vars, note, scan, baseline>>

Pending(total, done) == IF total > done THEN total - done ELSE 0

\* The rows of the analysis grow while they are counted, so that more replays
\* may be analysed than were probed a moment ago.
TickCountAnalysed ==
    /\ tick = "probed"
    /\ LET ok == Cardinality(WithStatus(analysis, "ok"))
           failed == Cardinality(WithStatus(analysis, "failed"))
       IN  seen' = [seen EXCEPT
                      !.analysisOk = ok,
                      !.analysisFailed = failed,
                      !.probePending =
                          Pending(seen.raw, seen.probedOk + seen.probedFailed),
                      !.analysisPending = Pending(seen.probedOk, ok + failed)]
    /\ tick' = "validate"
    /\ UNCHANGED <<vars, note, scan, baseline>>

\* Faulty variant of Consistent: a complete corpus is refused too.
ConsistentStrictly(s) ==
    /\ s.probedOk + s.probedFailed + s.probePending < s.raw
    /\ s.analysisOk + s.analysisFailed + s.analysisPending < s.probedOk

\* _validate_status_snapshot.
Consistent(s) ==
    /\ s.probedOk + s.probedFailed + s.probePending <= s.raw
    /\ s.analysisOk + s.analysisFailed + s.analysisPending <= s.probedOk

TickEnds(action) ==
    /\ note' = action
    /\ tick' = "idle"

\* What the tick makes of the counts, in the order of its tests.
TickJudge ==
    /\ tick = "validate"
    /\ \/ /\ ~Consistent(seen)
          /\ TickEnds("status_command_failed")
       \/ /\ Consistent(seen)
          /\ seen.probePending > 0 \/ seen.analysisPending > 0
          /\ TickEnds("await_pipeline")
       \/ /\ Consistent(seen)
          /\ seen.probePending = 0 /\ seen.analysisPending = 0
          /\ seen.analysisOk = 0
          /\ TickEnds(IF seen.probedFailed + seen.analysisFailed > 0
                      THEN "pipeline_failures" ELSE "await_data")
       \/ /\ Consistent(seen)
          /\ seen.probePending = 0 /\ seen.analysisPending = 0
          /\ seen.analysisOk > 0
          /\ tick' = IF leaderboard = None THEN "refresh" ELSE "dataset"
          /\ note' = IF leaderboard = None THEN "refresh_skill" ELSE note
    /\ UNCHANGED <<vars, seen, scan, baseline>>

-----------------------------------------------------------------------------
(* The derived files.                                                      *)

\* What the command has found when it ends: the outputs that were there when it
\* began, and any of those published since.
ScanResults == {found \in SUBSET Evidence : scan \subseteq found}

\* haxlab-skill begins to read the outputs.
TickRateOutputs ==
    /\ tick = "refresh"
    /\ scan' = Evidence
    /\ tick' = "rating"
    /\ UNCHANGED <<vars, seen, note, baseline>>

\* It has rated every output it found, and names no analysis version.  The
\* finalizer may have written the file since it was missed.
TickRefreshSkill ==
    /\ tick = "rating"
    /\ \E found \in ScanResults :
          leaderboard' = [evidence |-> found, versioned |-> FALSE]
    /\ scan' = {}
    /\ tick' = "dataset"
    /\ UNCHANGED <<ledgerVars, analysis, output, manifest, completion, pc, job,
                   snapshot, counters, seen, note, baseline>>

TickCheckManifest ==
    /\ tick = "dataset"
    /\ tick' = IF manifest = None THEN "build" ELSE "baseline"
    /\ note' = IF manifest = None THEN "build_dataset_manifest" ELSE note
    /\ UNCHANGED <<vars, seen, scan, baseline>>

\* haxlab-training-manifest reads the leaderboard and begins to read the outputs;
\* when it refuses the leaderboard, set -e ends the tick and the note stays.
TickScanOutputs ==
    /\ tick = "build"
    /\ IF leaderboard.versioned
       THEN tick' = "scanning" /\ scan' = Evidence
       ELSE tick' = "idle" /\ UNCHANGED scan
    /\ UNCHANGED <<vars, seen, note, baseline>>

\* At its end it writes the manifest, over one the finalizer may have written.
TickBuildManifest ==
    /\ tick = "scanning"
    /\ \E found \in ScanResults : manifest' = found
    /\ scan' = {}
    /\ tick' = "baseline"
    /\ UNCHANGED <<ledgerVars, analysis, output, leaderboard, completion, pc,
                   job, snapshot, counters, seen, note, baseline>>

\* Shards are built and the baseline is trained once; then the generation
\* executor starts.
TickBaseline ==
    /\ tick = "baseline"
    /\ baseline' = TRUE
    /\ note' = "generation_executor"
    /\ tick' = "executor"
    /\ UNCHANGED <<vars, seen, scan>>

\* GenerationLoop models what happens here.
TickExecutor ==
    /\ tick = "executor"
    /\ tick' = "idle"
    /\ UNCHANGED <<vars, seen, note, scan, baseline>>

\* The tick dies, or one of its commands fails and set -e ends it.
TickCrash ==
    /\ tick \in {"counted", "refresh", "rating", "build", "scanning", "baseline"}
    /\ crashes < MaxCrashes
    /\ crashes' = crashes + 1
    /\ tick' = "idle"
    /\ scan' = {}
    /\ UNCHANGED <<ledgerVars, analysis, output, derivedVars, pc, job, snapshot,
                   timeouts, retries, seen, note, baseline>>

-----------------------------------------------------------------------------
TickStep ==
    \/ TickCountRaw \/ TickCountProbed \/ TickCountAnalysed \/ TickJudge
    \/ TickRateOutputs \/ TickRefreshSkill
    \/ TickCheckManifest \/ TickScanOutputs \/ TickBuildManifest
    \/ TickBaseline \/ TickExecutor

PipelineStep == Next /\ UNCHANGED tickVars

TickNext == PipelineStep \/ TickStep \/ TickCrash

\* The timer starts the tick again and again; the analyzer is always restarted.
TickSpec ==
    /\ TickInit
    /\ [][TickNext]_tickSpecVars
    /\ WF_tickSpecVars(AnalyzerStep /\ UNCHANGED tickVars)
    /\ WF_tickSpecVars(TickStep)

-----------------------------------------------------------------------------
(* Properties.                                                             *)

TickTypeOK ==
    /\ TypeOK
    /\ tick \in {"idle", "counted", "probed", "validate", "refresh", "rating",
                 "dataset", "build", "scanning", "baseline", "executor"}
    /\ seen \in [raw : Nat, probedOk : Nat, probedFailed : Nat,
                 analysisOk : Nat, analysisFailed : Nat,
                 probePending : Nat, analysisPending : Nat]
    /\ note \in {"none", "status_command_failed", "await_pipeline",
                 "pipeline_failures", "await_data", "refresh_skill",
                 "build_dataset_manifest", "generation_executor"}
    /\ scan \subseteq Bytes
    /\ baseline \in BOOLEAN

AllAccepted == archived # {} /\ archived = WithStatus(analysis, "ok")

\* When every replay stays accepted, the ticks start the generation executor
\* again and again, however the tick, the finalizer and their deaths interleave
\* over the files both write.
ExecutorStarts == <>[]AllAccepted => []<>(tick = "executor")

\* The finalizer has the last word on the leaderboard: when every replay stays
\* accepted, it ends up rating all of them under its version, however old the
\* outputs haxlab-skill has read are when it writes its own over the finalizer's.
\* (The manifest does not: see the README.)
LeaderboardDespiteTick ==
    <>[]AllAccepted => <>[](leaderboard = [evidence |-> archived, versioned |-> TRUE])

Settled ==
    /\ WithStatus(analysis, "ok") # {}
    /\ \A c \in archived :
          verdict[c] = "failed" \/ analysis[c] \in {"ok", "failed"}

\* haxlab-autonomy-tick.sh:69-71, "Failed/corrupt source replays must not
\* prevent safe deterministic work from the successfully analyzed corpus": when
\* the pipeline has settled with some accepted replay, the executor starts.
WorkDespiteFailures == <>[]Settled => []<>(tick = "executor")

\* The baseline and the executor are started on a manifest that holds an accepted
\* replay, although the counts that let the tick start are torn, the finalizer may
\* replace the files it has tested, and the tick writes what it read long before.
ExecutorHasDataset ==
    tick \in {"baseline", "executor"} =>
        manifest # None /\ manifest \cap WithStatus(analysis, "ok") # {}

-----------------------------------------------------------------------------
(* The inductive invariant (AutonomyTick_proofs).                          *)

\* No derived file was made from rejected work alone.
DerivedInv ==
    /\ leaderboard # None => leaderboard.evidence \cap OkRows # {}
    /\ manifest # None => manifest \subseteq archived /\ manifest \cap OkRows # {}

\* What the finalizer and the tick have found out when they write.
FoundInv ==
    /\ pc \in {"leaderboard", "manifest", "complete"} => OkRows # {}
    /\ tick = "validate" => seen.analysisOk <= Cardinality(OkRows)
    /\ tick \in {"refresh", "rating", "dataset", "build", "scanning", "baseline",
                 "executor"} => OkRows # {}
    /\ tick \in {"rating", "scanning"} => scan \cap OkRows # {}
    /\ tick \in {"dataset", "build", "scanning", "baseline", "executor"} =>
          leaderboard \in [evidence : SUBSET Bytes, versioned : BOOLEAN]
    /\ tick \in {"baseline", "executor"} \/ baseline => manifest # None

TickInv == TickTypeOK /\ CoreInv /\ DerivedInv /\ FoundInv
=============================================================================
