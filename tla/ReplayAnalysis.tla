---------------------------- MODULE ReplayAnalysis ----------------------------
(***************************************************************************)
(* The analyzer (runtime/analyzer.py) and the finalizer it calls when it   *)
(* finds nothing to do (runtime/finalize.py).  A batch of replays is       *)
(* decoded by a pool of threads, each of which publishes its output file;  *)
(* the main thread judges the results in any order and records them.       *)
(*                                                                         *)
(* The archive and the probe worker below it are taken to do any step of   *)
(* ReplayLedger, which ReplayArchive implements.                           *)
(***************************************************************************)
EXTENDS ReplayLedger, Naturals, FiniteSets

CONSTANTS Outcomes,     \* what the decoder can make of each replay: "full",
                        \* "partial" (it stops before the last frame), "error"
          None,         \* an absent file
          Threads,      \* --workers
          BatchSize,    \* --batch-size
          MaxTimeouts,  \* bound: decoder runs that end in a transient error
          MaxRetries,   \* bound: uses of retry-failed-analysis
          MaxCrashes    \* bound: deaths of the analyzer

ASSUME AnalysisAssumption ==
    /\ Outcomes \in [Bytes -> SUBSET {"full", "partial", "error"}]
    /\ \A replays \in SUBSET Bytes : replays # None
    /\ Threads \in Nat \ {0} /\ BatchSize \in Nat \ {0}
    /\ MaxTimeouts \in Nat /\ MaxRetries \in Nat /\ MaxCrashes \in Nat

VARIABLES
    analysis,     \* replay_analysis_versions, current version: "none" is no row
    \* files below the derived root
    output,       \* <sha256>.json of each replay
    leaderboard,  \* leaderboards/<version>.json
    manifest,     \* training/human-imitation-<version>.json: its replays
    completion,   \* _complete.json
    \* the analyzer process
    pc,
    job,          \* the future of each replay of the batch
    snapshot,     \* what status_snapshot has read so far
    timeouts, retries, crashes

derivedVars == <<leaderboard, manifest, completion>>
counters == <<timeouts, retries, crashes>>
analysisVars == <<analysis, output, derivedVars, pc, job, snapshot, counters>>
vars == <<ledgerVars, analysisVars>>

NoJobs == [c \in Bytes |-> "none"]
NoSnapshot == [raw |-> 0, processed |-> 0, ok |-> 0, failed |-> 0]

Init ==
    /\ LedgerInit
    /\ analysis = [c \in Bytes |-> "none"]
    /\ output = [c \in Bytes |-> "none"]
    /\ leaderboard = None /\ manifest = None /\ completion = None
    /\ pc = "idle" /\ job = NoJobs /\ snapshot = NoSnapshot
    /\ timeouts = 0 /\ retries = 0 /\ crashes = 0

WithStatus(table, status) == {c \in Bytes : table[c] = status}

-----------------------------------------------------------------------------
(* analyze_batch and _analyze_one.                                         *)

\* list_unanalyzed_replays.
Unanalyzed ==
    {c \in archived : verdict[c] = "ok" /\ analysis[c] \in {"none", "retry"}}

SelectBatch ==
    /\ pc = "idle"
    /\ Unanalyzed # {}
    /\ \E b \in SUBSET Unanalyzed :
          /\ IF Cardinality(Unanalyzed) <= BatchSize
             THEN b = Unanalyzed
             ELSE Cardinality(b) = BatchSize
          /\ job' = [c \in Bytes |-> IF c \in b THEN "queued" ELSE "none"]
    /\ pc' = "batch"
    /\ UNCHANGED <<ledgerVars, analysis, output, derivedVars, snapshot, counters>>

\* A free thread of the pool takes a replay, a snapshot of its archive file
\* and the decoder.
StartJob(c) ==
    /\ pc = "batch"
    /\ job[c] = "queued"
    /\ Cardinality(WithStatus(job, "running")) < Threads
    /\ job' = [job EXCEPT ![c] = "running"]
    /\ UNCHANGED <<ledgerVars, analysis, output, derivedVars, pc, snapshot,
                   counters>>

\* The output is replaced before the main thread has judged the result.
FinishJob(c) ==
    /\ pc = "batch"
    /\ job[c] = "running"
    /\ \E o \in Outcomes[c] :
          /\ job' = [job EXCEPT ![c] = o]
          /\ output' = IF o = "error" THEN output
                       ELSE [output EXCEPT ![c] = o]
    /\ UNCHANGED <<ledgerVars, analysis, derivedVars, pc, snapshot, counters>>

\* The decoder times out, or the archive file changed during the read.
TimeoutJob(c) ==
    /\ pc = "batch"
    /\ job[c] = "running"
    /\ timeouts < MaxTimeouts
    /\ timeouts' = timeouts + 1
    /\ job' = [job EXCEPT ![c] = "error"]
    /\ UNCHANGED <<ledgerVars, analysis, output, derivedVars, pc, snapshot,
                   retries, crashes>>

\* Faulty variant of Accepted: how far the decoder came is not checked.
AcceptedIfDecoded(result) == result # "error"

\* error is None, and every frame was advanced.
Accepted(result) == result = "full"

\* as_completed hands one result to mark_replay_analysis.
MarkJob(c) ==
    /\ pc = "batch"
    /\ job[c] \in {"full", "partial", "error"}
    /\ analysis' = [analysis EXCEPT ![c] = IF Accepted(job[c]) THEN "ok" ELSE "failed"]
    /\ job' = [job EXCEPT ![c] = "none"]
    /\ pc' = IF job' = NoJobs THEN "idle" ELSE "batch"
    /\ UNCHANGED <<ledgerVars, output, derivedVars, snapshot, counters>>

-----------------------------------------------------------------------------
(* finalize_analysis_if_ready.                                             *)

\* status_snapshot is not one transaction: the first SELECT counts the raw
\* replays, a later one the probed replays, a last one the analysed ones.
CountRaw ==
    /\ pc = "idle"
    /\ Unanalyzed = {}
    /\ snapshot' = [NoSnapshot EXCEPT !.raw = Cardinality(archived)]
    /\ pc' = "counted"
    /\ UNCHANGED <<ledgerVars, analysis, output, derivedVars, job, counters>>

Counts(raw) ==
    [raw |-> raw,
     processed |-> Cardinality(WithStatus(verdict, "ok")),
     ok |-> Cardinality(WithStatus(analysis, "ok")),
     failed |-> Cardinality(WithStatus(analysis, "failed"))]

\* Faulty variant of Ready: replays without an accepted analysis are ignored.
ReadyIfNonePending(s) == s.ok > 0 /\ s.processed <= s.ok + s.failed

\* Every registered replay is analysed, none failed and none is pending.
Ready(s) ==
    /\ s.raw > 0
    /\ s.ok = s.raw
    /\ s.failed = 0
    /\ s.processed <= s.ok + s.failed

\* Faulty variant of AlreadyFinalized: the three files only have to exist.
FilesExist(s) == leaderboard # None /\ manifest # None /\ completion # None

\* Faulty variant of AlreadyFinalized: the leaderboard's contract is not checked.
CompletionMatches(s) ==
    /\ leaderboard # None /\ manifest # None /\ completion # None
    /\ completion = [raw |-> s.raw, ok |-> s.ok]

\* The three files exist and were made from the same number of replays.
AlreadyFinalized(s) ==
    /\ leaderboard # None /\ manifest # None /\ completion # None
    /\ completion = [raw |-> s.raw, ok |-> s.ok]
    /\ leaderboard.versioned

CountRows ==
    /\ pc = "counted"
    /\ LET s == Counts(snapshot.raw) IN
       /\ snapshot' = s
       /\ pc' = IF Ready(s) /\ ~AlreadyFinalized(s) THEN "leaderboard" ELSE "idle"
    /\ UNCHANGED <<ledgerVars, analysis, output, derivedVars, job, counters>>

\* What build_leaderboard and build_training_manifest find: every output below
\* the analysis root, whatever its row says.  (Their quality filters, which no
\* ledger row takes part in, are taken to pass.)
Evidence == {c \in Bytes : output[c] # "none"}

\* Faulty variant of WriteLeaderboard: a manifest that exists is kept, as the
\* autonomy tick does.
WriteLeaderboardOnce ==
    /\ pc = "leaderboard"
    /\ leaderboard' = [evidence |-> Evidence, versioned |-> TRUE]
    /\ pc' = IF manifest = None THEN "manifest" ELSE "complete"
    /\ UNCHANGED <<ledgerVars, analysis, output, manifest, completion, job,
                   snapshot, counters>>

WriteLeaderboard ==
    /\ pc = "leaderboard"
    /\ leaderboard' = [evidence |-> Evidence, versioned |-> TRUE]
    /\ pc' = "manifest"
    /\ UNCHANGED <<ledgerVars, analysis, output, manifest, completion, job,
                   snapshot, counters>>

\* build_training_manifest refuses a leaderboard without analysis_version; the
\* ValueError ends the process.
WriteManifest ==
    /\ pc = "manifest"
    /\ IF leaderboard.versioned
       THEN manifest' = Evidence /\ pc' = "complete"
       ELSE pc' = "idle" /\ UNCHANGED manifest
    /\ UNCHANGED <<ledgerVars, analysis, output, leaderboard, completion, job,
                   snapshot, counters>>

WriteCompletion ==
    /\ pc = "complete"
    /\ completion' = [raw |-> snapshot.raw, ok |-> snapshot.ok]
    /\ pc' = "idle"
    /\ UNCHANGED <<ledgerVars, analysis, output, leaderboard, manifest, job,
                   snapshot, counters>>

-----------------------------------------------------------------------------
(* Crashes, and the administrator.                                         *)

\* The process dies, by a kill, an exception of one future or the stop of
\* retry-failed-analysis; the results nobody recorded are lost.
Crash ==
    /\ pc # "idle"
    /\ crashes < MaxCrashes
    /\ crashes' = crashes + 1
    /\ pc' = "idle"
    /\ job' = NoJobs
    /\ snapshot' = NoSnapshot
    /\ UNCHANGED <<ledgerVars, analysis, output, derivedVars, timeouts, retries>>

\* The UPDATE of retry-failed-analysis.  The autonomy service wants the analyzer,
\* and its timer fires every minute: the analyzer may be running again by then.
RetryFailed ==
    /\ retries < MaxRetries
    /\ WithStatus(analysis, "failed") # {}
    /\ retries' = retries + 1
    /\ analysis' = [c \in Bytes |->
                      IF analysis[c] = "failed" THEN "retry" ELSE analysis[c]]
    /\ UNCHANGED <<ledgerVars, output, derivedVars, pc, job, snapshot, timeouts,
                   crashes>>

-----------------------------------------------------------------------------
LedgerStep == LedgerNext /\ UNCHANGED analysisVars

AnalyzerStep ==
    \/ SelectBatch
    \/ \E c \in Bytes : StartJob(c) \/ FinishJob(c) \/ MarkJob(c)
    \/ CountRaw \/ CountRows
    \/ WriteLeaderboard \/ WriteManifest \/ WriteCompletion

Next ==
    \/ LedgerStep
    \/ AnalyzerStep
    \/ \E c \in Bytes : TimeoutJob(c)
    \/ Crash
    \/ RetryFailed

Spec == Init /\ [][Next]_vars

\* The service is restarted always (Restart=always), whatever ended it.
FairSpec == Spec /\ WF_vars(AnalyzerStep)

-----------------------------------------------------------------------------
(* Properties.                                                             *)

TypeOK ==
    /\ offered \subseteq Bytes /\ archived \subseteq Bytes
    /\ verdict \in [Bytes -> {"none", "ok", "failed"}]
    /\ analysis \in [Bytes -> {"none", "ok", "failed", "retry"}]
    /\ output \in [Bytes -> {"none", "full", "partial"}]
    /\ \/ leaderboard = None
       \/ leaderboard \in [evidence : SUBSET Bytes, versioned : BOOLEAN]
    /\ manifest = None \/ manifest \subseteq Bytes
    /\ completion = None \/ completion \in [raw : Nat, ok : Nat]
    /\ pc \in {"idle", "batch", "counted", "leaderboard", "manifest", "complete"}
    /\ job \in [Bytes -> {"none", "queued", "running", "full", "partial", "error"}]
    /\ snapshot \in [raw : Nat, processed : Nat, ok : Nat, failed : Nat]
    /\ timeouts \in Nat /\ retries \in Nat /\ crashes \in Nat

\* A replay counts as analysed only while the complete reconstruction of a
\* probed replay is on disk, through crashes, retries and lost results.
OkRowHasOutput ==
    \A c \in Bytes :
        analysis[c] = "ok" => output[c] = "full" /\ verdict[c] = "ok"

\* The training manifest of the finalizer never holds a replay whose analysis
\* was not accepted, then or later, although it is built from the files and
\* the snapshot that lets it start is read in pieces.
ManifestIsAccepted ==
    manifest # None => manifest \subseteq WithStatus(analysis, "ok")

\* A completion record, by which later passes decide that nothing is left to
\* do, never claims more replays than the manifest holds, also when a pass
\* after the corpus grew dies between the files.
CompletionIsCovered ==
    completion # None =>
        /\ manifest # None
        /\ completion.ok <= Cardinality(manifest)

\* Every probed replay gets a verdict, also when an operator sends it back, and
\* when every registered replay stays accepted, the manifest ends up holding all.
EventuallyFinalized ==
    /\ \A c \in Bytes : verdict[c] = "ok" ~> analysis[c] \in {"ok", "failed"}
    /\ <>[](archived # {} /\ archived = WithStatus(analysis, "ok"))
          => <>[](manifest = archived)

-----------------------------------------------------------------------------
(* The inductive invariant (ReplayAnalysis_proofs).                        *)

OkRows == WithStatus(analysis, "ok")

\* Only probed replays, of which there are finitely many, have a row, an output or
\* a future.
RowsInv ==
    /\ IsFiniteSet(archived)
    /\ \A c \in Bytes :
          /\ verdict[c] # "none" => c \in archived
          /\ analysis[c] # "none" \/ output[c] # "none" \/ job[c] # "none"
                => verdict[c] = "ok"

\* A replay with a future has no accepted row; the output of a result is on disk.
JobInv ==
    \A c \in Bytes : job[c] # "none" =>
        /\ pc = "batch"
        /\ analysis[c] \in {"none", "retry"}
        /\ job[c] = "full" => output[c] = "full"

\* While the finalizer writes, every output is of an accepted row and their number
\* is the one it has counted.
ReadyInv ==
    pc \in {"leaderboard", "manifest", "complete"} =>
       /\ snapshot.ok = Cardinality(OkRows)
       /\ Evidence \subseteq OkRows

\* What the files written by others cannot disturb.
CoreInv == TypeOK /\ RowsInv /\ JobInv /\ OkRowHasOutput /\ ReadyInv

\* The finalizer, alone, finds its own manifest when it writes the record.
WrittenInv == pc = "complete" => manifest # None /\ OkRows \subseteq manifest

AInv == CoreInv /\ WrittenInv /\ ManifestIsAccepted /\ CompletionIsCovered
=============================================================================
