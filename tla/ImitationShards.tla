--------------------------- MODULE ImitationShards ---------------------------
(***************************************************************************)
(* From the leaderboard to the behavioural-cloning baseline: the finalizer *)
(* publishes a leaderboard and a training manifest (runtime/finalize.py,   *)
(* learning/selector.py), haxlab-build-shards extracts the manifest's      *)
(* replays into shards (learning/shards.py, tools/extract_imitation.js),   *)
(* haxlab-train-bc trains on them (learning/baseline.py).  The autonomy    *)
(* tick runs the last two once, an operator may build by hand.             *)
(*                                                                         *)
(* A manifest depends on the state of the corpus when it was built, called *)
(* a ranking here: which replays have a selected player, and which players *)
(* those are.  A selection is what a shard's metadata copies from the      *)
(* manifest: the players, and the weight that follows from their ratings.  *)
(* What is extracted from a replay depends on its selection and on the     *)
(* sampling cadence, and on nothing else.  One process builds shards at a  *)
(* time: the tick's lock, and the operator's discipline.  The manifest has *)
(* two writers, the finalizer and the tick, and no lock.                   *)
(***************************************************************************)
EXTENDS Integers, FiniteSetsExt

CONSTANTS Replays,      \* the SHA-256 names of replays, in their order
          HoldoutSet,   \* those whose hash falls into the holdout bucket
          Rankings, Selections, NoOne,
          Picks,        \* Picks[k][r]: the selection of r under ranking k
          Samples,      \* Samples[s][t]: rows extracted for s at cadence t
          Cadences, TickCadence,
          Limit,        \* Limit[split]: --limit of the tick
          Workers,      \* --workers
          None,
          MaxPublications, \* bound: leaderboards published
          MaxManual,    \* bound: builds started by hand
          MaxMishaps    \* bound: extractions that fail, deaths of the
                        \* finalizer or of the builder

Splits == {"train", "holdout"}

\* What the files hold.
Boards == [stamp : Nat, ranking : Rankings]
Manifests == [stamp : Nat, board : Boards]
Extractions == [sel : Selections, ticks : Cadences]
Results == UNION {[some -> Extractions] : some \in SUBSET Replays}
Indexes == [stamp : Nat, from : Rankings, ticks : Cadences, ok : Results,
            failed : SUBSET Replays]
Models == [data : [Splits -> Results], whole : BOOLEAN]

ASSUME ShardsAssumption ==
    /\ Replays \subseteq Nat /\ IsFiniteSet(Replays)
    /\ HoldoutSet \subseteq Replays
    /\ NoOne \notin Selections
    /\ None \notin Rankings \cup Boards \cup Manifests \cup Extractions \cup Indexes \cup Models
    /\ Picks \in [Rankings -> [Replays -> Selections \cup {NoOne}]]
    /\ Samples \in [Selections -> [Cadences -> Nat]]
    /\ TickCadence \in Cadences
    /\ Limit \in [Splits -> Nat]
    /\ Workers \in Nat \ {0}
    /\ MaxPublications \in Nat /\ MaxManual \in Nat /\ MaxMishaps \in Nat

VARIABLES
    \* published files
    board,      \* leaderboards/<version>.json
    manifest,   \* training/human-imitation-<version>.json
    shard,      \* <sha>.f32.gz: the selection and cadence it was extracted for
    meta,       \* <sha>.meta.json: the selection and cadence it names
    litter,     \* replays with an abandoned .f32.gz.tmp-<pid>
    index,      \* _index.json of each split
    model,      \* model.npz of the baseline
    metrics,    \* metrics.json of the baseline
    \* processes
    publisher,  \* the finalizer
    maker,      \* the tick's haxlab-training-manifest
    builder,    \* the tick, or an operator's haxlab-build-shards
    manual, mishaps

files == <<shard, meta, litter, index>>
baseline == <<model, metrics>>
publication == <<board, manifest, publisher, maker>>
budget == <<manual, mishaps>>
shardVars == <<publication, files, baseline, builder, budget>>

NotMaking == [at |-> "idle", board |-> None]

NoStages == [r \in {} |-> "waiting"]

Resting == [at |-> "idle", split |-> "train", tick |-> FALSE,
            ticks |-> TickCadence, force |-> FALSE, from |-> None,
            stage |-> NoStages]

ShardsInit ==
    /\ board = None /\ manifest = None /\ publisher = "idle" /\ maker = NotMaking
    /\ shard = [r \in Replays |-> None] /\ meta = [r \in Replays |-> None]
    /\ litter = {}
    /\ index = [split \in Splits |-> None]
    /\ model = None /\ metrics = None
    /\ builder = Resting
    /\ manual = 0 /\ mishaps = 0

Mishap == mishaps < MaxMishaps /\ mishaps' = mishaps + 1 /\ UNCHANGED manual

OfSplit(split) ==
    IF split = "holdout" THEN HoldoutSet ELSE Replays \ HoldoutSet

Selection(k, r) == Picks[k][r]

\* The replays of one list of a manifest made under the ranking k.
Rows(k, split) == {r \in OfSplit(split) : Selection(k, r) # NoOne}

\* entries[:limit]; the lists are sorted by SHA-256.
Requested(k, split) ==
    {r \in Rows(k, split) :
        Cardinality({q \in Rows(k, split) : q < r}) < Limit[split]}

-----------------------------------------------------------------------------
(* finalize_analysis_if_ready: the leaderboard, then the manifest made from *)
(* it, each replaced atomically.  generated_at makes every file's bytes new.*)

PublishLeaderboard(k) ==
    /\ publisher = "idle"
    /\ LET stamp == IF board = None THEN 1 ELSE board.stamp + 1
       IN  /\ stamp <= MaxPublications
           /\ board' = [stamp |-> stamp, ranking |-> k]
    /\ publisher' = "ranked"
    /\ UNCHANGED <<manifest, maker, files, baseline, builder, budget>>

ManifestOf(b) ==
    [stamp |-> IF manifest = None THEN 1 ELSE manifest.stamp + 1, board |-> b]

PublishManifest ==
    /\ publisher = "ranked"
    /\ manifest' = ManifestOf(board)
    /\ publisher' = "idle"
    /\ UNCHANGED <<board, maker, files, baseline, builder, budget>>

PublisherDies ==
    /\ publisher = "ranked"
    /\ Mishap
    /\ publisher' = "idle"
    /\ UNCHANGED <<board, manifest, maker, files, baseline, builder>>

-----------------------------------------------------------------------------
(* The tick builds the manifest when it finds none: beside the finalizer,   *)
(* which may publish a leaderboard or a manifest between any two steps.     *)

MissManifest ==
    /\ maker.at = "idle" /\ ~builder.tick
    /\ board # None /\ manifest = None
    /\ maker' = [NotMaking EXCEPT !.at = "reading"]
    /\ UNCHANGED <<board, manifest, publisher, files, baseline, builder, budget>>

\* haxlab-training-manifest reads the leaderboard before it scans the corpus...
ReadBoard ==
    /\ maker.at = "reading"
    /\ maker' = [at |-> "writing", board |-> board]
    /\ UNCHANGED <<board, manifest, publisher, files, baseline, builder, budget>>

\* ...and writes when it has ended, over whatever is there by then.
BuildMissingManifest ==
    /\ maker.at = "writing"
    /\ manifest' = ManifestOf(maker.board)
    /\ maker' = NotMaking
    /\ UNCHANGED <<board, publisher, files, baseline, builder, budget>>

MakerDies ==
    /\ maker.at # "idle"
    /\ Mishap
    /\ maker' = NotMaking
    /\ UNCHANGED <<board, manifest, publisher, files, baseline, builder>>

-----------------------------------------------------------------------------
(* build_shards.                                                           *)

\* Reads the manifest and queues its entries; the file's identity is not kept.
Begin(split, tick, ticks, force) ==
    LET k == manifest.board.ranking IN
    builder' = [at |-> "building", split |-> split, tick |-> tick,
                ticks |-> ticks, force |-> force, from |-> k,
                stage |-> [r \in Requested(k, split) |-> "waiting"]]

\* The tick has work while the baseline has no metrics.json.
StartTick ==
    /\ builder.at = "idle" /\ maker.at = "idle"
    /\ manifest # None /\ metrics = None
    /\ Begin("train", TRUE, TickCadence, FALSE)
    /\ UNCHANGED <<publication, files, baseline, budget>>

\* The second command of the tick reads the manifest again.
StartHoldout ==
    /\ builder.at = "between"
    /\ Begin("holdout", TRUE, TickCadence, FALSE)
    /\ UNCHANGED <<publication, files, baseline, budget>>

StartManual(split, ticks, force) ==
    /\ builder.at = "idle"
    /\ manifest # None
    /\ manual < MaxManual
    /\ manual' = manual + 1
    /\ Begin(split, FALSE, ticks, force)
    /\ UNCHANGED <<publication, files, baseline, mishaps>>

InStage(s) == {r \in DOMAIN builder.stage : builder.stage[r] = s}

MoveTo(r, s) == builder' = [builder EXCEPT !.stage[r] = s]

\* What the extraction of r yields in this build.
Extraction(r) == [sel |-> Selection(builder.from, r), ticks |-> builder.ticks]

SamplesOf(x) == Samples[x.sel][x.ticks]

\* Faulty variant of Cached: any metadata will do.
CachedAtAnyCadence(r) ==
    /\ ~builder.force
    /\ shard[r] # None /\ meta[r] # None
    /\ SamplesOf(meta[r]) > 0

\* The test of _extract_one: neither the selection nor the shard is looked at.
Cached(r) ==
    /\ ~builder.force
    /\ shard[r] # None /\ meta[r] # None
    /\ meta[r].ticks = builder.ticks
    /\ SamplesOf(meta[r]) > 0

\* The pool's workers take the entries in their order.
Taken(r) ==
    /\ InStage("waiting") # {} /\ r = Min(InStage("waiting"))
    /\ Cardinality(InStage("extracting") \cup InStage("moved")) < Workers

Reuse(r) ==
    /\ Taken(r) /\ Cached(r)
    /\ MoveTo(r, "ok")
    /\ UNCHANGED <<publication, files, baseline, budget>>

Extract(r) ==
    /\ Taken(r) /\ ~Cached(r)
    /\ MoveTo(r, "extracting")
    /\ UNCHANGED <<publication, files, baseline, budget>>

\* Faulty variant of RenameShard: the temporary file is not renamed.
KeepTemporary(r) ==
    /\ r \in InStage("extracting")
    /\ MoveTo(r, "moved")
    /\ UNCHANGED <<publication, files, baseline, budget>>

\* The extractor has read the whole replay and renames its temporary file.
RenameShard(r) ==
    /\ r \in InStage("extracting")
    /\ shard' = [shard EXCEPT ![r] = Extraction(r)]
    /\ MoveTo(r, "moved")
    /\ UNCHANGED <<publication, meta, litter, index, baseline, budget>>

\* Its summary is parsed and written beside the shard.
WriteMeta(r) ==
    /\ r \in InStage("moved")
    /\ meta' = [meta EXCEPT ![r] = Extraction(r)]
    /\ MoveTo(r, "ok")
    /\ UNCHANGED <<publication, shard, litter, index, baseline, budget>>

\* The raw replay is missing, or the extractor fails: by itself, which removes
\* the temporary file, or killed at the timeout, which leaves it.
FailExtraction(r) ==
    /\ r \in InStage("extracting") \cup InStage("moved")
    /\ Mishap
    /\ \/ UNCHANGED litter
       \/ r \in InStage("extracting") /\ litter' = litter \cup {r}
    /\ MoveTo(r, "failed")
    /\ UNCHANGED <<publication, shard, meta, index, baseline>>

\* What follows the index: an operator's build ends; the tick goes on to its
\* next command unless a failed replay made this one exit with 1.
After == IF ~builder.tick \/ InStage("failed") # {} THEN "idle"
         ELSE IF builder.split = "train" THEN "between" ELSE "fit"

\* The results of the futures; a result is the metadata, cached or just written.
Outcome ==
    [ok |-> [r \in InStage("ok") |-> meta[r]], failed |-> InStage("failed")]

PublishIndex ==
    /\ builder.at = "building"
    /\ DOMAIN builder.stage = InStage("ok") \cup InStage("failed")
    /\ LET split == builder.split
           old == index[split]
       IN  index' = [index EXCEPT ![split] =
                        [stamp |-> IF old = None THEN 1 ELSE old.stamp + 1,
                         from |-> builder.from,  \* not in the file: see README
                         ticks |-> builder.ticks,
                         ok |-> Outcome.ok,
                         failed |-> Outcome.failed]]
    /\ builder' = IF After = "idle" THEN Resting
                  ELSE [builder EXCEPT !.at = After, !.stage = NoStages]
    /\ UNCHANGED <<publication, shard, meta, litter, baseline, budget>>

-----------------------------------------------------------------------------
(* train_baseline, the third command of the tick.                          *)

\* The rows loaded for one split: every shard its index names.
Loaded(split) == [r \in DOMAIN index[split].ok |-> shard[r]]

HasSamples(data) == \E r \in DOMAIN data : SamplesOf(data[r]) > 0

TrainedOn == [split \in Splits |-> Loaded(split)]

\* Without a sample in either split the training raises.
Fit ==
    /\ builder.at = "fit"
    /\ builder' = IF \A split \in Splits : HasSamples(Loaded(split))
                  THEN [builder EXCEPT !.at = "save"] ELSE Resting
    /\ UNCHANGED <<publication, files, baseline, budget>>

\* Faulty variant of SaveModel: the metrics are written first.
SaveMetricsFirst ==
    /\ builder.at = "save"
    /\ metrics' = TrainedOn
    /\ model' = [data |-> TrainedOn, whole |-> FALSE]
    /\ builder' = [builder EXCEPT !.at = "saving"]
    /\ UNCHANGED <<publication, files, budget>>

\* np.savez_compressed writes model.npz in place.
SaveModel ==
    /\ builder.at = "save"
    /\ model' = [data |-> TrainedOn, whole |-> FALSE]
    /\ builder' = [builder EXCEPT !.at = "saving"]
    /\ UNCHANGED <<publication, files, metrics, budget>>

SavedModel ==
    /\ builder.at = "saving"
    /\ model' = [model EXCEPT !.whole = TRUE]
    /\ builder' = [builder EXCEPT !.at = "metrics"]
    /\ UNCHANGED <<publication, files, metrics, budget>>

WriteMetrics ==
    /\ builder.at = "metrics"
    /\ metrics' = TrainedOn
    /\ builder' = Resting
    /\ UNCHANGED <<publication, files, model, budget>>

\* The process dies with its extractors; what they were writing stays behind.
BuilderDies ==
    /\ builder.at # "idle"
    /\ Mishap
    /\ litter' = litter \cup InStage("extracting")
    /\ builder' = Resting
    /\ UNCHANGED <<publication, shard, meta, index, baseline>>

-----------------------------------------------------------------------------
PublisherStep ==
    \/ \E k \in Rankings : PublishLeaderboard(k)
    \/ PublishManifest
    \/ MissManifest \/ ReadBoard \/ BuildMissingManifest

BuilderStep ==
    \/ StartTick \/ StartHoldout
    \/ \E r \in Replays : Reuse(r) \/ Extract(r) \/ RenameShard(r) \/ WriteMeta(r)
    \/ PublishIndex
    \/ Fit \/ SaveModel \/ SavedModel \/ WriteMetrics

OperatorStep ==
    \E split \in Splits, ticks \in Cadences, force \in BOOLEAN :
       StartManual(split, ticks, force)

MishapStep ==
    \/ PublisherDies \/ MakerDies
    \/ \E r \in Replays : FailExtraction(r)
    \/ BuilderDies

ShardsNext == PublisherStep \/ BuilderStep \/ OperatorStep \/ MishapStep

ShardsSpec == ShardsInit /\ [][ShardsNext]_shardVars

-----------------------------------------------------------------------------
(* Properties.                                                             *)

Stages == {"waiting", "extracting", "moved", "ok", "failed"}

Pools == UNION {[some -> Stages] : some \in SUBSET Replays}

Builders ==
    [at : {"idle", "building", "between", "fit", "save", "saving", "metrics"},
     split : Splits, tick : BOOLEAN, ticks : Cadences, force : BOOLEAN,
     from : Rankings \cup {None},
     stage : Pools]

ShardsTypeOK ==
    /\ board \in Boards \cup {None}
    /\ manifest \in Manifests \cup {None}
    /\ publisher \in {"idle", "ranked"}
    /\ maker \in [at : {"idle", "reading", "writing"}, board : Boards \cup {None}]
    /\ shard \in [Replays -> Extractions \cup {None}]
    /\ meta \in [Replays -> Extractions \cup {None}]
    /\ litter \subseteq Replays
    /\ index \in [Splits -> Indexes \cup {None}]
    /\ model \in Models \cup {None}
    /\ metrics \in [Splits -> Results] \cup {None}
    /\ builder \in Builders
    /\ manual \in 0..MaxManual /\ mishaps \in 0..MaxMishaps

\* An index accounts for every replay its build was asked for, exactly once, at
\* the index's cadence, whatever failed, was reused or died on the way.
IndexAccounts ==
    \A split \in Splits :
       index[split] # None =>
          LET i == index[split] IN
          /\ DOMAIN i.ok \cup i.failed = Requested(i.from, split)
          /\ DOMAIN i.ok \cap i.failed = {}
          /\ \A r \in DOMAIN i.ok : i.ok[r].ticks = i.ticks

\* What an index names can be loaded at any later time: both files are there
\* and never go away, since metadata is written only beside a shard.
IndexLoadable ==
    \A split \in Splits :
       index[split] # None =>
          \A r \in DOMAIN index[split].ok : shard[r] # None /\ meta[r] # None

\* metrics.json, which ends the training for good, is there only beside the
\* whole model it describes, trained on the same rows.
MetricsDescribeModel ==
    metrics # None => model # None /\ model.whole /\ model.data = metrics

-----------------------------------------------------------------------------
(* What keeps these properties true from step to step                      *)
(* (TrainingChainAudit_proofs).                                            *)

\* A leaderboard is only replaced by a newer one, and a manifest is made from one
\* that was read: the present one, or an older.
PastBoard(b) ==
    board # None /\ b \in Boards /\ (b = board \/ b.stamp < board.stamp)

PublishedInv ==
    /\ manifest # None => PastBoard(manifest.board)
    /\ publisher = "ranked" \/ maker.at = "reading" => board # None
    /\ maker.at = "writing" => PastBoard(maker.board)

\* A build knows every replay it was asked for, and a replay it is done with has
\* a shard and metadata at the build's cadence.
BuildInv ==
    /\ builder.at # "idle" => manifest # None
    /\ builder.at = "building" =>
          /\ builder.from # None
          /\ DOMAIN builder.stage = Requested(builder.from, builder.split)
    /\ builder.at # "building" => builder.stage = NoStages
    /\ \A r \in DOMAIN builder.stage :
          /\ builder.stage[r] \in {"moved", "ok"} => shard[r] # None
          /\ builder.stage[r] = "ok" => meta[r] # None /\ meta[r].ticks = builder.ticks

\* The tick trains while there are no metrics, and both indexes were published.
TrainInv ==
    /\ builder.at \notin {"idle", "building"} => builder.tick
    /\ builder.at # "idle" /\ builder.tick => metrics = None
    /\ \/ builder.at = "building" /\ builder.tick /\ builder.split = "holdout"
       \/ builder.at \notin {"idle", "building"}
       => index["train"] # None
    /\ builder.at \in {"fit", "save", "saving", "metrics"} =>
          \A split \in Splits : index[split] # None
    /\ builder.at \in {"saving", "metrics"} => model # None /\ model.data = TrainedOn
    /\ builder.at = "metrics" => model.whole

ShardsInv ==
    /\ ShardsTypeOK /\ PublishedInv /\ BuildInv /\ TrainInv
    /\ IndexAccounts /\ IndexLoadable /\ MetricsDescribeModel
=============================================================================
