# Verification of HaxLab

HaxLab turns HaxBall replay files into a ledger of probed and analysed matches,
a player leaderboard, a training manifest, and a sequence of models that compete
for the place of the champion. It runs unattended on one server: several
long-running Python processes and a shell script started by a timer share an
SQLite database and a tree of files, and any of them may die at any moment and
be restarted by systemd.

This directory holds TLA+ models of that system, the TLC runs that check them on
small instances and TLAPS proofs of what holds for every instance. Source paths
below are relative to the repository (`src/haxlab/...` is the Python package).

## 1. Inventory

| Component | State it keeps | Operations | What is hard |
|---|---|---|---|
| Ingest daemon (`runtime/scanner.py`, `archive.py`, `daemon.py`) | archive objects and staging files under `raw/`, `source_files`, `raw_replays` | scan the incoming tree; per file: stat, open, copy, recheck, validate, verify or link, register, unlink, mark | the uploader changes files underneath; death between any two steps; the worker reads the same inode |
| Probe worker (`runtime/worker.py`, `replay/`) | `replay_processing` | read a batch, verify and decode each object, record one verdict | the object may be damaged or touched during the read; verdicts are final |
| Ledger (`runtime/state.py`) | four tables and an event log | queries and one-commit writes | `status_snapshot` is many SELECTs without a transaction |
| Analyzer (`runtime/analyzer.py`) | `replay_analysis_versions`, one output file per replay | batch, thread pool, publish, judge, record | results in any order, lost results, outputs published before they are accepted |
| Finalizer (`runtime/finalize.py`) | leaderboard, training manifest, completion record | decide readiness, write three files | decides on a torn snapshot; dies between files |
| Status (`runtime/status.py`, `autonomy_status.py`) | none | check and print the counts | must refuse torn counts and nothing else |
| Autonomy tick (`deploy/haxlab-autonomy-tick.sh`) | `autonomy-status.json`, baseline model; shares leaderboard and manifest with the finalizer | status, wait, fill in missing files, train a baseline, start the executor | check-then-act on shared files; `set -e` |
| Generation executor (`research/generation_loop.py`) | `generation-state.json`, ledger, champion pointer, per-generation files | bootstrap, preregister, train, evaluate, promote or reject, commit | a sequence of separate file writes; retries; a manifest replaced underneath |
| Leaderboard, selector (`skill/`, `learning/selector.py`) | derived files | pure computations over outputs | thresholds, tie breaks |
| Shard builder, baseline (`learning/shards.py`, `baseline.py`, `tools/extract_imitation.js`) | two files per replay, an index per split, the baseline's model and metrics | reuse or extract each replay, publish the index, train | a cache that ignores what it was made for; two files written one after the other; a manifest replaced between two builds |
| Source bundle and import (`ingestion/`, `quality/`) | the operator's receipt file, five output files | receipt: list, hash, list again; import: snapshot and hash each replay, read exports, match reports to replays, score; verify a kept receipt | a downloader changes files, directories and the root underneath; paths are opened several times; greedy matching |
| Evaluation policy (`evaluation/`, `research/controller.py`) | none | promotion and next-action decisions | boundaries |
| Auditors (`*_audit.py`) | none | read-only reconciliation | race with what they audit; a receipt must speak of one moment |
| Live play (`live/inference.py`, `tools/live_haxball_bot.js`) | the bot's flags and last frame, the model's window, two pipes | team change, game start, game tick; frames and resets to an inference process, actions back | callbacks in any order; answers that arrive after a reset; the side an answer is mirrored for |
| Deployment (`deploy/update-*.sh`, `haxlab-actions-control.sh`) | which units run | update, restore, retry, control | failure at any command |
| Chat bot, runner pool, dashboard, one-shot tools | small state files or none | automation around the project | persist before act; check then stop |

The components interact through files and tables only; there is no message
passing. The ingest daemon feeds the worker (`raw_replays`, archive objects), the
worker feeds the analyzer (`replay_processing`), the analyzer feeds the finalizer
(rows and outputs), the finalizer and the tick write the files the executor
reads, and the live bot reads the champion the executor publishes.

## 2. Modules

| Module | Models | Lines of code it stands for |
|---|---|---|
| `ReplayLedger` | abstract: what ingestion and probing promise | the two ledger writes |
| `ReplayArchive` | ingest daemon and probe worker, step by step, with uploader, crashes and damage | scanner, archive, worker, parts of state |
| `ReplayArchive_proofs` | theorems about `ReplayArchive` | |
| `GenerationLoop` | generation executor | generation_loop |
| `ReplayAnalysis` | analyzer and finalizer above a `ReplayLedger` | analyzer, finalize, parts of state and selector |
| `AutonomyTick` | extends `ReplayAnalysis` with the tick and the status commands | tick script, status, leaderboard and manifest commands |
| `ReplayAnalysis_proofs` | theorems about `ReplayAnalysis` | |
| `AutonomyTick_proofs` | theorems about `AutonomyTick` | |
| `ServiceUpdate` | updater and its EXIT trap beside systemd | update-vps, update-service-recovery, unit files |
| `ServiceUpdate_proofs` | theorems about `ServiceUpdate` | |
| `ImitationShards` | leaderboard, manifest, shard builds, baseline | shards, extract_imitation, baseline, parts of selector and finalize |
| `TrainingChainAudit` | extends `ImitationShards` with the chain audit and the source audit | training_chain, shard_bundle, shard and manifest_source audits |
| `TrainingChainAudit_proofs` | theorems about `ImitationShards` and `TrainingChainAudit` | |
| `GenerationLoop_proofs` | theorems about `GenerationLoop` | |
| `SourceBundle` | receipt, import and verification beside a changing export | source_bundle_receipt, source_bundle_verify, discovery, pipeline, matcher, parts of discord_export |
| `SourceBundle_proofs` | theorems about `SourceBundle` | |
| `LiveBot` | the bot's callbacks and the inference process | live_haxball_bot.js, inference |
| `LiveBot_proofs` | theorems about `LiveBot` | |
| `MC...` | instances for TLC | |

Composition: `ReplayArchive` implements `ReplayLedger` (`LedgerPromise`, checked
and proved). `ReplayAnalysis` uses the steps of `ReplayLedger` as its
environment, so what it shows holds above the real archive. `AutonomyTick` runs
beside every action of `ReplayAnalysis`. `GenerationLoop` is what happens at the
tick's "executor" step; its `RewriteManifest` is the finalizer's `WriteManifest`
seen from there. `ServiceUpdate` stands apart: it is what starts and stops the
processes of the other modules, whose `Crash` actions cover its stops.
`ImitationShards` is the inside of the tick's baseline step: its `publisher` is the
finalizer of `ReplayAnalysis` and its `maker` the tick's manifest build of
`AutonomyTick`, seen with the identity of the files instead of their replays; neither
waits for the other, as the code has no lock between them. `TrainingChainAudit` runs
beside every action of `ImitationShards`. `SourceBundle` stands before all of them:
its import is an operator's command over an export that nothing else reads.
`LiveBot` is the only reader of `champion.json`, whose `pointer` in
`GenerationLoop` it loads once a launch (`Announce`).

### ReplayArchive

A byte string stands for its SHA-256. `stamp` stands for the identity the code
compares (device, inode, size, mtime, ctime) and is fresh whenever the file at a
path changes; `objectStamp` is the same for an archive object and changes when
its link count changes. `Torn` is what a copy reads while a file is being
overwritten. The daemon's control is `pc` (scan, open, copy, recheck, validate,
publish, register, cleanup, mark, fail), one action per system call or commit
that another process can observe; the worker's is `wpc`. The `finally` clause of
`archive_replay` is `UnlinkStaging`, on success and on failure alike.

Abstractions: the stat at archive.py:358 and the open after it are one step (a
change between them is caught like a change during the copy); the order of paths
in a scan and of rows in a batch is any order; the verified read of an existing
archive object is one step for duplicates (nothing but damage changes an object)
and two, open and read, for the worker; replacement of the archive root directory
and the un-fsynced directory entry after a power loss are not modelled; the
scanner compares only size and mtime_ns, and two files at one path are taken to
differ in them.

### GenerationLoop

Each file is a variable, each write a step, and `mem` is the dictionary in
memory. A metrics snapshot is a record of rates in thousandths, so the composite
score and its thresholds are exact integers; `metric_snapshot`'s validation is
taken to pass. `PublishChampion` joins the pointer write, the assignment in
memory and the status write: a crash loses the memory anyway, and an exception
between them is `RaiseError` before or after. `RaiseError` may strike at every
write of `execute_one`; `HandleError` is the except clause, which saves what is in
memory, and which raises itself when no generation is active. A torn last line of
the ledger is not modelled.

### ReplayAnalysis and AutonomyTick

`job` is the future of each replay of the batch; `output` is the file that a pool
thread publishes before the main thread judges it (`MarkJob`). What the decoder
makes of a replay is a constant set of outcomes; `TimeoutJob` covers transient
errors, a changed archive file included. An exception of a future ends the process
and is a `Crash`; the other threads finish first, which is the same as a later
crash. `CountRaw`, `CountRows` and the tick's three counting steps split
`status_snapshot` where other processes can commit in between. The quality filters
of the manifest are taken to pass: no ledger row takes part in them.
`RetryFailed` may happen at any time, because the autonomy service wants the
analyzer and is started every minute, also while the control script believes it
stopped. In the tick, the test for a missing file, the reading of the outputs and the
write of the file are separate steps of each of its two commands (`TickRateOutputs` and
`TickRefreshSkill`, `TickScanOutputs` and `TickBuildManifest`), and the finalizer may
write any of its files in between. What a command has found when it writes are the
outputs that were there when it began and any of those published since
(`ScanResults`), as a directory walk beside a publisher finds them. A leaderboard cut
short by a death during its non-atomic write is refused by all readers like one
without `analysis_version`, and is not told apart.

### ServiceUpdate

`up` is what `systemctl is-active` says of each managed unit; deactivating,
reloading and failed units are not told apart from activating and inactive ones.
The updater is `pc` with the position `at` in the list it goes through: `capture`
(one query an action, rechecks counted in `polls`), `stop`, the four phases that
replace files (`packages`, `checkout`, `dependencies`, `unitfiles`), `start`,
`check`, and after a failure `restop` and `restore`. `systemctl stop a b c` is a
stop job per unit: the script goes on only when all have succeeded. A stop job
also stops the units that require the unit, a start job also starts those it
requires (`Requires=`, and `Wants=` of a tick), and either may be refused, which
`refused` remembers until the phase ends. What was noted is kept in `captured`; it
is the shell's memory and dies with it. Between any two steps the timer may start
a tick, a tick may end, a daemon may die and be restarted. That a daemon's automatic
restart also restarts the units that require it is left out: they go down and come
back within milliseconds.

Updates and control actions are serialized by the one runner that carries them
out, so `OperatorChanges` happens between updates; it stands for any operation
that starts or stops a unit. The start of a unit that is up is a success that
changes nothing. The live bot's environment file exists whenever the bot was
active, as the unit cannot start without it.

### ImitationShards and TrainingChainAudit

`board`, `manifest` and `index` carry a `stamp`, fresh with every publication: the
code's `generated_at` makes the bytes of each new. A ranking is a state of the
corpus; `Picks` says which replays have selected players under it and whom, so a
manifest is the leaderboard it was built from. `maker` holds the leaderboard that the
tick's `haxlab-training-manifest` has read until it writes, over whatever is there by
then. The leaderboard without `analysis_version` that `haxlab-skill` writes is not a
`board` here: no manifest is made from it, and an audit that meets it rejects, as it
rejects any other. A selection stands for the fields a
shard's metadata copies from the manifest (players and weight), a shard for the
selection and cadence it was extracted at, and `Samples` for its number of rows,
which is all the code ever measures of it (the compressed size goes with it).
`builder.stage` is the pool: entries are taken in order by at most `Workers`
threads, each is reused or extracted, and the extraction publishes first the shard
(`RenameShard`, in the extractor) and then the metadata (`WriteMeta`, in Python).
The field `from` of an index, the ranking its manifest was made under, is not in the
file, which names only the manifest's path; it is kept to state `IndexAccounts`, and
no action reads it. Every replay a
manifest names decodes or fails with the extractor; the columns and the metadata's
schema are taken to be those of the current version. Between the commands of the
tick only the tick builds: an operator's build at the same time as the tick's, or
beside another, is left out, as nothing but discipline rules it out. An operator
rebuilding the manifest by hand does what `maker` does.

An auditor is a sequence of reads, one action each. It lists all errors; the model
stops at the first. The audit of the analyses and raw files a manifest names is
left out: nothing in this module changes them. `together` is a ghost: whether what
was read was current at one moment, that of the last read for the chain audit and that
of the first for the source audit. `SourcesOfOneMoment` does not need that a manifest
is replaced only with its leaderboard, which is not so: the tick may write a manifest
twice on one leaderboard, or on one replaced long before. It rests on every leaderboard
having bytes of its own, so that the one whose digest the manifest names cannot have
come back since the manifest was read. The manifest is compared with what the
indexes say as soon as they are read, which no later read changes.

### SourceBundle

A file is an entry with its `stamp` (device, inode, size, mtime, ctime) and its
`body` (the bytes; it stands for size and SHA-256). The downloader may write, touch,
remove or link a file, make a subdirectory anew (`ReplaceDir`) and put the other
export in place of the root (`SwapRoot`); `Change` gives every change a fresh stamp,
so a filesystem whose ctime is too coarse to tell two changes apart is not
modelled, nor a rewrite that restores earlier bytes. Three commands share the
directory without a lock, one action per open, listing or recheck:

* the receipt: `BindRoot`, `ListDirectory` for each directory, `OpenSource` and
  `HashSource` for each file, `RelistDirectory` for each directory, `AssertSource`,
  `ReopenRoot`, and then `KeepReceipt` when an operator stores what was printed;
* the verification: `OpenReceipt`, `LoadReceipt`, the same walk, and `Compare`
  (`CompareUnread` when the kept file changed meanwhile); `EditReceipt` is someone
  who edits the kept file so that its digest fits again;
* the import: `DiscoverDirectory` and `OpenReplay`/`DigestReplay` for the replays,
  `ScanDirectory` and `ReadExport` for the exports, `ValidateReplay` and
  `DescribeReplay`, which open each unique replay again by its path, and `Publish`.

A refusal is `Fail`: an error ends a command without any effect. The code's sorts are
`Sorted`, which puts a set in the order that a set of pairs gives: the sources of a
receipt by their position in `Order`, the reports by time and identifier, the scored
pairs (`Scored`) by score, replay and message. The matcher is
`Greedy`: candidates above `MinimumConfidence`, by score and tie breaks, one match
per replay and per message; its evidence about a pair of file name and report is a
constant (`Evidences`), scored by `ScorePair` with the code's weights. `inventory` and
`import` are the locals of the two functions, `moment` a ghost: the files at the time
each directory was listed again.

### LiveBot

The room shows the bot's `team`, whether a `game` runs and the bot's `keys`. Node's
event loop runs callbacks one at a time in any order: `StartGame`
(onAfterGameStart), `GameTick` (onGameTick, in three forms: nothing due, no canonical
frame to be had, a frame sent) and `Receive...` for each kind of line. The inference
process takes the lines of `requests` in order (`Serve...`). A frame is the side it
was taken from and an answer is a direction: that is all mirroring can get wrong.
`lastTeamSent` is `lastCanonical`, whose sign the answer is applied with. `epoch`, the
number of resets sent, and `asked`, the request an answer is to, are ghosts: no guard
reads them. The champion is loaded once, before the first line. The end of either
process is `Exit`, since the bot exits when the inference process does and kills it
when it exits itself.

## 3. Runs

| Run | Shows |
|---|---|
| `archive` | registered hashes are offered valid bytes held unchanged (`ArchiveContentAddressed`); nothing uploaded is skipped (`SkipSound`); ok only for bytes that decode (`ProbeSound`); no object is overwritten (`NoClobber`) |
| `archive_live` | implements `ReplayLedger`; one archived source per hash; what stays settled is archived; what is archived is probed |
| `archive_race` | violation of `IntactNotFailed`, finding 1 |
| `generations` | champion ratchet, pointer accounted for, ledger is a lineage, state follows ledger; every generation is completed despite crashes (`RollsOver`) |
| `generations_error` | violation of `FailedIsRetryable`, finding 2 |
| `analysis` | accepted rows have complete outputs (`OkRowHasOutput`); the finalizer's manifest holds accepted replays (`ManifestIsAccepted`); its completion record is covered (`CompletionIsCovered`); every probed replay gets a verdict and the manifest ends up holding all accepted ones (`EventuallyFinalized`) |
| `tick` | with all replays accepted the executor keeps starting (`ExecutorStarts`), and the leaderboard ends up the finalizer's, rating all of them, whatever the tick's commands had read when they write (`LeaderboardDespiteTick`) |
| `tick_wedge` | violation of `WorkDespiteFailures`, finding 3 |
| `service_update` | files are replaced only while nothing runs; the noted units are closed under their dependencies; a failed update restores them (`Restored`); every update ends; a stopped daemon comes back (`OutageEnds`) |
| `training_chain` | an index accounts once for each replay it was asked for (`IndexAccounts`) and names only what can be loaded (`IndexLoadable`); the baseline's metrics stand only beside the whole model they describe; clean receipts of both auditors speak of files current at one moment, though the manifest has two writers and no lock; no clean receipt vouches for a shard of another selection or cadence (`CleanShardsAreTheManifests`) |
| `source_bundle` | a receipt describes one state of each directory (`ReceiptOfOneMoment`); a receipt before and a clean verification after an import vouch for every byte the import read (`BracketedImport`); an unclean verdict names a difference and a clean one none (`VerdictExplained`); a clean verdict is about the receipt then on file (`CleanOfKeptReceipt`); the matches are the stable ones (`MatchesAreStable`) |
| `live_bot` | the model's window never mixes sides or games (`WindowOfOneEpoch`); the bot never waits for an answer that is not under way (`AnswerOnTheWay`) and never for ever (`PendingClears`); resets do not flood the pipes (`OneMorePerReset`); a direction asked since the last reset is mirrored for the side of its own frame (`OwnSideApplied`) |

Each property of a passing run has a mutant, a faulty variant of one operator
kept beside it in the module ("Faulty variant of ..."), under which TLC finds the
property violated. The variants are not part of any specification. Type
invariants are not checked in runs of their own: those of `ReplayArchive`,
`ReplayAnalysis`, `ServiceUpdate`, `GenerationLoop`, `LiveBot` and `TrainingChainAudit`
(with `ImitationShards`) are theorems, and each stands in its module for the reader.

### Bounds, and why they are enough

* `archive`: one path, two replays (one does not decode), three uploads, one
  crash, one damaged object. Three uploads let a path be replaced during the
  copy and again before the next scan; torn copies arise from a replacement
  during a copy. Two paths come in `archive_live`, where duplicates and the
  question of the one archived source arise; two uploads are one per path or two
  on one. The theorems of section 5 lift the safety properties to all bounds.
* `generations`: three generations, so that a promotion has a predecessor and a
  successor; two crashes, so that recovery is interrupted; one exception and one
  new manifest anywhere; four snapshots: equal, better, better but regressing,
  and better than both. `MaxPerTick = 2` exercises the loop inside one run.
  `RollsOver` excepts behaviours with an exception or a new manifest, because
  there it fails (finding 2, and section 4 on a new manifest).
* `analysis`: two replays that decode and one that does not, batches of two of
  three, two threads, one transient error, one retry, one crash.
* `tick`: two replays, one death of either process. The tick's reads and writes and
  the finalizer's interleave freely; two replays are enough for a command of the tick
  to have read one of them when the finalizer publishes both.
* `service_update`: one recheck, so that both waiting and giving up happen; two
  failures, so that the recovery of the first meets the second; one death, one
  kill and one operator change, each at any moment. Updates are unbounded in
  number. The theorems lift the safety properties to all bounds.
* `training_chain`: two training replays and a holdout replay; two leaderboards,
  the second of which may select other players in replay 1 and nobody in replay 2, and
  up to three manifests on them, two of the finalizer and one of the tick (which builds
  one only while there is none), so that a cached shard can be stale and a shard be left without entry; two
  workers, so that a failure meets a running extraction; one build by hand of
  either split, at the tick's cadence or another, forced or not; one failed
  extraction or death of finalizer or builder, at any moment; any number of
  audits. The two selections have different numbers of rows at each cadence, since
  no audit can tell apart two shards of equal size.
* `source_bundle`: a replay in the root and another replay and one export in a
  subdirectory, so that the walk has an order and a directory can change under a
  file already hashed; two changes anywhere, so that one can hide another, and one
  run of each command; two replays of the same bytes or not; two reports, one of
  them exported twice; evidence with ties, with a strong and a weak claim to the
  same message. `BracketedImport` needs all three commands, in their order.
* `live_bot`: an inference every second tick, a window of two frames; three changes
  of team or starts of a game, so that a third meets answers to both of the first
  two; two launches, so that nothing of the first survives. The theorems lift the
  safety properties to every cadence, window and number of changes.
* Deadlock is not checked in the generation runs, which stop at `LastGen` and at a
  refused manifest, nor in `source_bundle` and `live_bot`, where the operator's
  commands and the launches are bounded. In all other runs some step is always
  possible.

### Fairness

Weak fairness of the daemon, worker, analyzer, tick and executor steps: their
units have `Restart=always`, or are started by a timer every minute, each loops
for ever, and each is a single process whose next step stays enabled until it is
taken. `Settle` is weakly fair because it is the passing of time. No fairness is
assumed of uploads, damage, crashes, errors, retries or the finalizer as seen
from `GenerationLoop`; their number is bounded. A replay that kills the
analyzer each time (an uncaught exception in one future) is therefore outside
`EventuallyFinalized`. In `ServiceUpdate` the shell's next step and systemd's restart
of a dead daemon are weakly fair; a tick may run for ever, and nobody has to start
an update. In `LiveBot` the two event loops are weakly fair, as they are two live
processes with lines to read; the room is not: nobody has to move the bot, and the
game may never tick again. Either process may end at any moment. `SourceBundle`
states no liveness: an operator may leave a command unfinished. `ImitationShards` and
`TrainingChainAudit` state none either.

## 4. Findings

1. **An intact replay can be failed for good.** `archive_replay` commits the row
   (archive.py:409) before it unlinks its staging hard link (423), which changes
   the ctime of the object's inode; a worker reading it meanwhile sees
   `archive_changed_during_read` (worker.py:140) and its verdict is final. Run
   `archive_race`.
2. **A failed generation may never be retried successfully.** An exception after
   `state["champion"]` is set and before the commit makes the handler save a
   champion that the preregistration does not name. Run `generations_error`.
3. **One failed replay stops the autonomous work.** The tick's own leaderboard is
   one its manifest builder refuses. Run `tick_wedge`.

One more the models show, and no run of the list. **The tick's manifest may replace the
finalizer's newer one for good.** The tick finds no manifest
(haxlab-autonomy-tick.sh:82-84); `haxlab-training-manifest` reads the leaderboard and
the outputs of that moment (selector.py:264-321); meanwhile the last replay is
accepted, and the finalizer writes leaderboard, manifest and completion record; then
the command writes its smaller manifest over the newer one (selector.py:500). From
then on `finalize_analysis_if_ready` answers `already_finalized`: of the manifest it
asks for the schema only (finalize.py:252-265). With every replay accepted for ever, the
manifest lacks some of them until a new replay comes. Checked in `AutonomyTick.cfg` by
hand: `CompletionIsCovered` as an invariant and
`<>[]AllAccepted => <>[](manifest = archived)` are both violated. Hence `tick` claims
the leaderboard only, and `CompletionIsCovered` is of the finalizer alone (`analysis`).
docs/runtime-finalize-input-contract.md asks of an existing manifest no more than the
code does, so no document is contradicted.

Seen in the models and not counted as findings: a duplicate ledger record after a
crash between append and save (allowed by `LedgerIsALineage`); a hash whose only
source row is "duplicate" after a crash between `register_raw` and `mark_seen`;
staging files left by a crash; after a failed update that noted the timer as
active and the analyzer as inactive, the restored timer's next tick starts the
analyzer (docs/vps-update-failure-recovery.md:35 promises the exact set; the same
tick would have started it without the update); a file that vanishes after its stat recorded as
failed; `autonomy-status.json` left at RUNNING when `set -e` ends the tick; a baseline
trained on two manifests, when the finalizer publishes between the tick's train
and holdout builds or when cached shards of an older selection are reused
(deploy/haxlab-autonomy-tick.sh:91 speaks of "the frozen human-imitation
manifest"); a directory whose audit is never clean again after a killed extraction,
because nothing removes its temporary file; a chain audit that cannot be clean
once a manifest lists more replays than the tick's `--limit`; a manifest other than
that of the bootstrap, which `initialize` refuses for good (generation_loop.py:387)
as nothing migrates the state; the exception handler's own AttributeError when no
generation is active, after which no status is written (generation_loop.py:636); the
output of a rejected reconstruction, which stays on disk and is rated by the
leaderboard (analyzer.py:266), and enters the manifest too when the tick builds it
beside the leaderboard that a finalizer left before it died, though
haxlab-autonomy-tick.sh:69-71 says that failed replays "are never silently promoted
to usable evidence" (`ManifestIsAccepted` is of the finalizer alone; checked as an
invariant of `AutonomyTickWedge.cfg` with `MaxCrashes = 1`, it is violated); one
extraction that always fails and ends each tick before the baseline (shards.py:316
under `set -e`); the three commands of the
tick's baseline step, which read the manifest separately
(haxlab-autonomy-tick.sh:95); a killed updater, whose note of active units is gone
(update-service-recovery.sh:12); a replacement of a file that keeps size and mtime
(scanner.py:65); two messages of one id, of which the import rates the last
(pipeline.py:94); the import's five output files, written one after the other
(pipeline.py:146-164), so that a death leaves files of two imports; a file called
just `.hbr2`, which a receipt lists and the import does not discover, against
docs/source-bundle-import-coverage.md; keys left pressed after a change of team until
the next answer (live_haxball_bot.js:269); an answer asked before a change of team
that is applied with the new side's sign once the next frame is sent, and clears the
flag that waits for another (live_haxball_bot.js:190-193; `OwnSideApplied` speaks of
answers asked since the last reset).

## 5. Proofs

`ReplayArchive_proofs` proves, for every set of paths and contents, every batch
size and every bound, from `ArchiveAssumption` alone:
`ArchiveTypeCorrect`, `ArchiveIsContentAddressed`, `SkippingIsSound`,
`OneSourceIsArchived`, `ProbesAreSound`, `ObjectsAreNeverOverwritten` (an action
property) and `ArchiveKeepsLedgerPromise` (the refinement of `ReplayLedger`).

None of the safety properties is inductive as it stands: `SkipSound`, for
instance, needs to know what the daemon holds while it archives. The inductive
invariant `IInv` (at the end of `ReplayArchive`) adds

* `UploaderInv`: stamps never run ahead of the upload counter, so a stamp read
  earlier that is still the path's stamp identifies the file;
* `CopyInv`: the staged copy is a copy of the file that was stat'ed, or one of the
  checks still to come will fail;
* `PublishInv`: between publication and the provenance row the object is in
  place, and no archived row names it yet;
* `SourceInv`: a provenance row names a registered hash, that of the file whose
  stamp it holds;
* `WorkerInv`: the worker holds rows without verdict and judges what it hashed.

One lemma per conjunct shows that every step preserves it, with one step per
action; `IngestFrame` and `WorkerFrame` say once what each process leaves alone.
The refinement maps `RegisterRaw` to `Archive`, `RecordProbe` to `Probe`,
`Upload` to `Offer`, and every other step to a stutter.

`ServiceUpdate_proofs` proves `ReplacedOnlyWhileStopped`, `CapturedUnitsAreClosed`
and `FailedUpdateRestores` from `UpdateAssumption`, for every number of rechecks,
failures, deaths, kills and changes. The inductive invariant `UInv` adds what makes
them true: a running unit's requirements run (`RequiresInv`); a unit that was noted
stays up while the queries go on, and what it requires is noted or still to be
queried (`CaptureInv`, where the order of the list matters); what was stopped stays
down, because the timer is stopped before the tick and the daemons (`StopInv`); and
how far the recovery has come (`RestopInv`, `RestoreInv`). `EnvironmentFacts`,
`StopFacts` and `StartFacts` say once what systemd does.

`LiveBot_proofs` proves `TypeCorrect`, `NothingLost` (`AnswerOnTheWay`), `OneWindow`
(`WindowOfOneEpoch`), `OwnSide` (`OwnSideApplied`) and `BoundedPipes`
(`OneMorePerReset`) for every cadence, window and number of changes. Three
strengthenings do the work. `Awaited`: while the bot waits, a frame is in one pipe or
an answer to one in the other. `PipesOrdered`: read from the oldest answer to the
newest request, the lines are in the order of their epochs (`Ordered`), and frames of
one epoch are of one side, that of the last frame sent or of the present team when the
epoch is the newest (`OfSide`). `LoadBound`: frames and answers under way, counted by
`Count`, are at most the resets sent and one more while the bot waits.

`GenerationLoop_proofs` proves `GenerationInvariant`, `GenerationTypes`,
`PointerIsAccounted`, `LedgerLineage`, `StateAndLedger` and `ChampionsRatchet` from
`LoopAssumption`, for every set of snapshots and every number of generations, crashes,
exceptions and new manifests. None is inductive: each file is written alone, and what a
retry finds is what a death or the except clause left. `IInv` says what the files say of
each other between any two writes: nothing before the bootstrap (`UnbornInv`); no file
of a later generation, and those of the next one made for the saved champion unless
the promotion is half done (`SavedInv`); how far the ledger is ahead (`FollowsInv`) and
the pointer (`PointerInv`); what memory adds at each step (`RunningInv`); and what the
except clause may save (`HandlerInv`). `StepIsDurable` classifies each step by what it
does to the files, and the lemmas on the files rest on that classification alone.

`ReplayAnalysis_proofs` proves `AnalysisInvariant`, `AnalysisTypes`,
`AcceptedRowsHaveOutputs`, `ManifestsAreAccepted` and `CompletionsAreCovered` from
`AnalysisAssumption`, for every set of replays, batch, number of threads, timeout,
retry and crash. What has to be shown is that counts read in pieces
(`status_snapshot`) cannot let the finalizer start too early. An accepted row stays,
and its output with it, since only replays without one have a future (`JobInv`);
complete outputs belong to probed replays (`RowsInv`); the numbers of probed and of
accepted replays only grow, so that counts which agree mean that every probed replay
had an accepted row, which the library's facts on cardinalities give; and while the
finalizer works nothing new is published, as it runs in the analyzer's process
(`ReadyInv`).

`AutonomyTick_proofs` proves, from the same assumption, `TickInvariant`, `TickTypes`,
`TickAcceptedRows`, `TickFilesHaveEvidence` and `ExecutorsHaveDatasets`: what holds of
rows and outputs holds beside the tick (`CoreInv`, whose lemmas of
`ReplayAnalysis_proofs` serve again), no leaderboard and no manifest is made of
rejected work alone (`DerivedInv`), and the baseline and the executor start on a
manifest that holds an accepted replay. `FoundInv` says why a test or a scan that has
gone stale does no harm there: a command begins to read when an accepted replay is
known, whose output it finds however long it takes, and accepted rows only become more,
so that a count read earlier is never too large. `ExecutorHasDataset` is proved and not
listed with a run; `tick` checks what needs fairness. `ManifestIsAccepted` and
`CompletionIsCovered` do not hold beside the tick (see 4), so no theorem states them
there; the invariant of `ReplayAnalysis_proofs` therefore keeps them apart from what the
tick preserves (`AInv` is `CoreInv` and three conjuncts of the finalizer alone).

`SourceBundle_proofs` proves `BundleInvariant`, `BundleTypes`, `ReceiptsOfOneMoment`,
`VerdictsExplained`, `CleanVerdicts`, `MatchesStable` and `ImportsBracketed`, all the
properties of the run `source_bundle`, from `SourceAssumption`: for every set of sources
and tree of directories, every content of the export, all messages and evidence, and
every number of changes and of commands. It has three parts.

* A receipt and its verification. No lock is taken, so a receipt is true of no instant
  unless every recheck is there. `MomentInv` says why they are enough: what the second
  inventory met at a source is what was hashed, or it will never be there again, because
  an identity is not used twice (`FilesInv`); `AssertSource` and `ReopenRoot` close the
  second case one source after the other. `ValidIsMade` shows that a receipt which passes
  `validate_source_receipt` is the one that would be made of its paths and bytes, so that
  comparing paths and bytes is comparing receipts (`VerdictsExplained`).
* The matcher. `SortedFacts` shows that `Sorted` lists a finite set once and in order;
  `GreedyFacts` that the pairs taken are those which conflict with none taken before.
  `Greedy` is a recursive function over its position, and the facts about it for every
  length come from a least counterexample (`LeastNumber`; the naturals are
  well-founded), because the induction theorems cannot be used.
* An import between two verifications. `OnFileInv` follows each source of a receipt that
  a command made (`Filed`): until the configured path has lost its bytes for good
  (`Lost`), every later import reads them, wherever it opens the path. `VerifiedInv` says
  that a verification which still finds the bytes was not of a lost source. This has a
  condition, `ExportsTellApart`: that no path holds the same bytes in the two exports an
  operator may exchange. Without it the property is false: a file could be removed, the
  import run without it, and the other export, put in its place, bring the same bytes
  back before the verification. The instance of the run satisfies it.

`TrainingChainAudit_proofs` proves the properties of the run `training_chain`, and the
types, from `ShardsAssumption`, for every set of replays and rankings, every `Picks`,
`Samples` and `Limit`, and every number of workers, publications and mishaps. For the
builder, `BuildInv` says that a build knows each replay it was asked for and that a
replay it is done with has both files, `TrainInv` that only the tick trains, and only
while there are no metrics, `PublishedInv` that a manifest, finished or being made by
either writer, is of a leaderboard that was published: the present one or an older
(`PastBoard`). For the auditors, `ReadInv` says that what was read is
still current or superseded by a file with a higher stamp, `TogetherInv` that an audit
whose files were never current together has such a file before it, `SourcesInv` that a
source audit which began with an older leaderboard's manifest will meet a newer
leaderboard, and `HashedInv` which shards were hashed and for whom. `CleanShards` has a condition, `SamplesTellApart`:
that two extractions with as many rows are the same. The code compares nothing else
of a shard's content, so without it the property is false; the run's `Samples` satisfy
it. The next replay of a set is `Min`, which exists because the naturals are
well-founded.

Only model-checked: the liveness properties (`EventuallyArchived`, `EventuallyProbed`,
`RollsOver`, `EventuallyFinalized`, `ExecutorStarts`, `LeaderboardDespiteTick`,
`UpdateEnds`, `OutageEnds` and `PendingClears`), since temporal reasoning about fairness
is out of the prover's reach. Every other property of a passing run is a theorem.

## 6. Plan

Done: `ReplayLedger`, `ReplayArchive`, `GenerationLoop`, `ReplayAnalysis`,
`AutonomyTick`, `ServiceUpdate`, `ImitationShards`, `TrainingChainAudit`, `SourceBundle`
and `LiveBot`, each with its proofs. What is left, in this order:

1. `AutonomyTick`: the manifest's identity, to compose it with `GenerationLoop`
   (baseline trained on one manifest, state naming another).
2. What two complete receipts say of each other, and of an import that read other bytes
   than either: the converse of `BracketedImport`.
3. Pure algorithms as operators over bounded inputs: promotion, controller, player
   selection, quality tiers, shrinkage of ratings.
4. `ArchiveAudit` beside `ReplayArchive`; `RunnerPool`; `ChatController`.

## 7. Not modelled, and why

The replay decoder and the training of models (numerical computation on
third-party engines; their outcomes are constants or choices of the models); the
dashboard and report commands (read only, nothing acts on them); the event log
(written, never read to decide); CI workflows and recorded runtime evidence (no
program state). The runner pool (`ops/portfolio_runner_pool.sh`) and the chat bot
(`tools/chatgpt-project-bot/bot.py`) automate the project rather than the system: the
first must not stop a runner that took a job since it was found idle (line 104), the
second persists a request before it types it (line 192); both are in the plan. The
auditors of one file (baseline, manifest, leaderboard) are long conjunctions without
state. `PROJECT.json` lists each component with its status and each hazard with the
properties about it.
