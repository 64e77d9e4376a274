---------------------- MODULE TrainingChainAudit_proofs ----------------------
(***************************************************************************)
(* The safety properties of the shard builder, the training and the two    *)
(* auditors, for every set of replays, rankings and cadences, every number *)
(* of workers, publications, builds by hand and mishaps.                   *)
(*                                                                         *)
(* The argument: a build knows the replays it was asked for and ends with  *)
(* each of them once, "ok" only with both files in place (BuildInv); the   *)
(* tick alone trains, and only while there are no metrics (TrainInv); the  *)
(* finalizer and the tick write the manifest without a lock, each from a   *)
(* leaderboard that is the present one or an older one (PublishedInv).     *)
(* Whatever an auditor has read is the current file or is superseded by    *)
(* one with a higher stamp (ReadInv), so that comparing again shows what   *)
(* was current before (TogetherInv), and a leaderboard that was replaced   *)
(* never comes back (SourcesInv).  ChainInv is the conjunction.            *)
(***************************************************************************)
EXTENDS TrainingChainAudit, WellFoundedInduction, TLAPS

-----------------------------------------------------------------------------
(* The constants and the types.                                            *)

\* The mark for an absent file is none of the things a file holds.
LEMMA NoneFacts ==
    /\ None \notin Rankings /\ None \notin Boards /\ None \notin Manifests
    /\ None \notin Extractions /\ None \notin Indexes /\ None \notin Models
BY ShardsAssumption

\* The fields of a leaderboard and of a manifest.
LEMMA PublishedFacts ==
    /\ \A b \in Boards : b.stamp \in Nat /\ b.ranking \in Rankings
    /\ \A m \in Manifests : m.stamp \in Nat /\ m.board \in Boards
    /\ \A n \in Nat, k \in Rankings : [stamp |-> n, ranking |-> k] \in Boards
    /\ \A n \in Nat, b \in Boards : [stamp |-> n, board |-> b] \in Manifests
BY DEF Boards, Manifests

\* A replay that a list of the manifest names has a selection.
LEMMA RowFacts ==
    ASSUME NEW k \in Rankings, NEW split \in Splits
    PROVE  /\ Rows(k, split) \subseteq Replays /\ Requested(k, split) \subseteq Rows(k, split)
           /\ \A r \in Rows(k, split) : r \in OfSplit(split) /\ Selection(k, r) \in Selections
<1>1. OfSplit(split) \subseteq Replays
  BY ShardsAssumption DEF OfSplit
<1>2. \A r \in Replays : Picks[k][r] \in Selections \cup {NoOne}
  BY ShardsAssumption
<1> QED BY <1>1, <1>2 DEF Rows, Requested, Selection

\* No replay is of both splits.
LEMMA SplitsApart == OfSplit("train") \cap OfSplit("holdout") = {}
BY DEF OfSplit

\* What a build or an index says of some replays.
LEMMA ResultFacts ==
    /\ \A f \in Results : /\ DOMAIN f \subseteq Replays
                          /\ \A r \in DOMAIN f : f[r] \in Extractions
    /\ \A some \in SUBSET Replays : \A f \in [some -> Extractions] : f \in Results
BY DEF Results

\* The fields of an index.
LEMMA IndexFacts ==
    ASSUME NEW i \in Indexes
    PROVE  /\ i.stamp \in Nat /\ i.from \in Rankings /\ i.ticks \in Cadences
           /\ i.ok \in Results /\ i.failed \subseteq Replays
           /\ DOMAIN i.ok \subseteq Replays /\ \A r \in DOMAIN i.ok : i.ok[r] \in Extractions
<1>1. /\ i.stamp \in Nat /\ i.from \in Rankings /\ i.ticks \in Cadences
      /\ i.ok \in Results /\ i.failed \subseteq Replays
  BY DEF Indexes
<1> QED BY <1>1, ResultFacts

\* The fields of the builder.
LEMMA BuilderFacts ==
    ASSUME NEW b \in Builders
    PROVE  /\ b.at \in {"idle", "building", "between", "fit", "save", "saving", "metrics"}
           /\ b.split \in Splits /\ b.tick \in BOOLEAN /\ b.ticks \in Cadences
           /\ b.force \in BOOLEAN /\ b.from \in Rankings \cup {None} /\ b.stage \in Pools
           /\ b = [at |-> b.at, split |-> b.split, tick |-> b.tick, ticks |-> b.ticks,
                   force |-> b.force, from |-> b.from, stage |-> b.stage]
BY DEF Builders

\* The stages of the replays in a pool.
LEMMA PoolFacts ==
    /\ \A p \in Pools : /\ DOMAIN p \subseteq Replays
                        /\ \A r \in DOMAIN p : p[r] \in Stages
                        /\ p = [r \in DOMAIN p |-> p[r]]
    /\ \A some \in SUBSET Replays : \A p \in [some -> Stages] : p \in Pools
BY DEF Pools

\* A builder at rest is a builder.
LEMMA RestingFacts == Resting \in Builders /\ NoStages \in Pools /\ DOMAIN NoStages = {}
<1>1. NoStages \in [{} -> Stages] /\ DOMAIN NoStages = {}
  BY DEF NoStages
<1>2. NoStages \in Pools
  BY <1>1, PoolFacts
<1> QED BY <1>1, <1>2, ShardsAssumption DEF Resting, Builders, Splits

\* A manifest build at rest is one.
LEMMA NotMakingFacts ==
    /\ NotMaking \in [at : {"idle", "reading", "writing"}, board : Boards \cup {None}]
    /\ NotMaking.at = "idle"
BY DEF NotMaking

\* One entry of a pool moves to another stage.
LEMMA MoveFacts ==
    ASSUME builder \in Builders, NEW r \in Replays, NEW s \in Stages, MoveTo(r, s)
    PROVE  /\ builder' \in Builders
           /\ builder'.at = builder.at /\ builder'.split = builder.split
           /\ builder'.tick = builder.tick /\ builder'.ticks = builder.ticks
           /\ builder'.from = builder.from
           /\ DOMAIN builder'.stage = DOMAIN builder.stage
           /\ \A q \in DOMAIN builder.stage :
                 builder'.stage[q] = IF q = r THEN s ELSE builder.stage[q]
<1> DEFINE p == [builder.stage EXCEPT ![r] = s]
<1>1. builder' = [at |-> builder.at, split |-> builder.split, tick |-> builder.tick,
                  ticks |-> builder.ticks, force |-> builder.force, from |-> builder.from,
                  stage |-> p]
  BY BuilderFacts DEF MoveTo
<1>2. /\ DOMAIN p = DOMAIN builder.stage
      /\ \A q \in DOMAIN builder.stage : p[q] = IF q = r THEN s ELSE builder.stage[q]
  OBVIOUS
<1>3. p \in Pools
  <2>1. DOMAIN builder.stage \in SUBSET Replays /\ \A q \in DOMAIN builder.stage : builder.stage[q] \in Stages
    BY BuilderFacts, PoolFacts
  <2>2. p \in [DOMAIN builder.stage -> Stages]
    BY <2>1
  <2> QED BY <2>1, <2>2, PoolFacts
<1> HIDE DEF p
<1>4. builder' \in Builders
  BY <1>1, <1>3, BuilderFacts DEF Builders
<1> QED BY <1>1, <1>2, <1>4

\* What a build that begins knows.
LEMMA BeginFacts ==
    ASSUME manifest \in Manifests, NEW split \in Splits, NEW tick \in BOOLEAN,
           NEW ticks \in Cadences, NEW force \in BOOLEAN, Begin(split, tick, ticks, force)
    PROVE  /\ builder' \in Builders
           /\ builder'.at = "building" /\ builder'.split = split /\ builder'.tick = tick
           /\ builder'.ticks = ticks /\ builder'.from = manifest.board.ranking
           /\ DOMAIN builder'.stage = Requested(manifest.board.ranking, split)
           /\ \A r \in DOMAIN builder'.stage : builder'.stage[r] = "waiting"
<1> DEFINE p == [r \in Requested(manifest.board.ranking, split) |-> "waiting"]
<1>0. manifest.board.ranking \in Rankings
  BY PublishedFacts
<1>1. builder' = [at |-> "building", split |-> split, tick |-> tick, ticks |-> ticks,
                  force |-> force, from |-> manifest.board.ranking, stage |-> p]
  BY DEF Begin
<1>2. Requested(manifest.board.ranking, split) \in SUBSET Replays
  BY <1>0, RowFacts
<1>3. p \in [Requested(manifest.board.ranking, split) -> Stages]
  BY DEF Stages
<1>4. p \in Pools
  BY <1>2, <1>3, PoolFacts
<1>5. DOMAIN p = Requested(manifest.board.ranking, split) /\ \A r \in DOMAIN p : p[r] = "waiting"
  OBVIOUS
<1> HIDE DEF p
<1> QED BY <1>0, <1>1, <1>4, <1>5 DEF Builders

\* A death of either process, or a failed extraction, is counted.
LEMMA MishapTyped == ASSUME ShardsTypeOK, Mishap PROVE mishaps' \in 0..MaxMishaps /\ manual' = manual
BY ShardsAssumption DEF ShardsTypeOK, Mishap


-----------------------------------------------------------------------------
(* What the steps do to the files.                                         *)

\* The steps that work on one replay.
PoolStep ==
    \E r \in Replays :
        Reuse(r) \/ Extract(r) \/ RenameShard(r) \/ WriteMeta(r) \/ FailExtraction(r)

\* The steps that read a manifest and queue its replays.
StartStep == StartTick \/ StartHoldout \/ OperatorStep

\* The steps of the two that publish.
PublishStep == PublisherStep \/ PublisherDies \/ MakerDies

\* The steps of the training, and the builder's death.
TrainStep == Fit \/ SaveModel \/ SavedModel \/ WriteMetrics

\* Whose step it is.
LEMMA StepKinds ==
    ASSUME [ShardsNext]_shardVars
    PROVE  \/ PublishStep \/ StartStep \/ PoolStep \/ PublishIndex \/ TrainStep
           \/ BuilderDies \/ UNCHANGED shardVars
BY DEF ShardsNext, PublisherStep, BuilderStep, OperatorStep, MishapStep, PublishStep,
       StartStep, PoolStep, TrainStep

\* What the publisher leaves alone.
LEMMA PublishFrame == PublishStep => UNCHANGED <<files, baseline, builder>>
BY DEF PublishStep, PublisherStep, PublishLeaderboard, PublishManifest, PublisherDies,
       MissManifest, ReadBoard, BuildMissingManifest, MakerDies

\* What the builder leaves alone, and which of its steps write a file.
LEMMA BuilderFrame ==
    /\ StartStep => UNCHANGED <<publication, files, baseline, mishaps>>
    /\ PoolStep => UNCHANGED <<publication, index, baseline>>
    /\ PublishIndex => UNCHANGED <<publication, shard, meta, litter, baseline, budget>>
    /\ TrainStep => UNCHANGED <<publication, files, budget>>
    /\ BuilderDies => UNCHANGED <<publication, shard, meta, index, baseline>>
<1>1. StartStep => UNCHANGED <<publication, files, baseline, mishaps>>
  BY DEF StartStep, StartTick, StartHoldout, OperatorStep, StartManual, budget
<1>2. PoolStep => UNCHANGED <<publication, index, baseline>>
  BY DEF PoolStep, Reuse, Extract, RenameShard, WriteMeta, FailExtraction, files
<1>3. TrainStep => UNCHANGED <<publication, files, budget>>
  BY DEF TrainStep, Fit, SaveModel, SavedModel, WriteMetrics, baseline
<1>4. PublishIndex => UNCHANGED <<publication, shard, meta, litter, baseline, budget>>
  BY DEF PublishIndex
<1>5. BuilderDies => UNCHANGED <<publication, shard, meta, index, baseline>>
  BY DEF BuilderDies
<1> QED BY <1>1, <1>2, <1>3, <1>4, <1>5

\* A manifest that is there stays, or is followed by one made from the present
\* leaderboard or from an older one.
LEMMA ManifestMoves ==
    ASSUME ShardsTypeOK, PublishedInv, [ShardsNext]_shardVars
    PROVE  \/ manifest' = manifest
           \/ board' = board /\ \E b \in Boards : PastBoard(b) /\ manifest' = ManifestOf(b)
<1>1. CASE PublishManifest
  <2>1. board \in Boards /\ PastBoard(board)
    BY <1>1 DEF PublishManifest, PublishedInv, PastBoard, ShardsTypeOK
  <2> QED BY <1>1, <2>1 DEF PublishManifest
<1>2. CASE BuildMissingManifest
  <2>1. PastBoard(maker.board) /\ maker.board \in Boards
    BY <1>2 DEF BuildMissingManifest, PublishedInv, PastBoard
  <2> QED BY <1>2, <2>1 DEF BuildMissingManifest
<1>3. CASE PublishStep /\ ~PublishManifest /\ ~BuildMissingManifest
  BY <1>3 DEF PublishStep, PublisherStep, PublishLeaderboard, PublisherDies, MissManifest,
              ReadBoard, MakerDies
<1>4. CASE ~PublishStep
  BY <1>4, StepKinds, BuilderFrame DEF publication, shardVars
<1> QED BY <1>1, <1>2, <1>3, <1>4

\* The manifest made from a leaderboard has a new, higher stamp.
LEMMA ManifestMade ==
    ASSUME ShardsTypeOK, NEW b \in Boards
    PROVE  /\ ManifestOf(b) \in Manifests /\ ManifestOf(b) # None
           /\ ManifestOf(b).board = b
           /\ manifest # None => ManifestOf(b).stamp = manifest.stamp + 1
<1>1. manifest # None => manifest \in Manifests /\ manifest.stamp \in Nat
  BY PublishedFacts DEF ShardsTypeOK
<1>2. ManifestOf(b) \in Manifests
  BY <1>1, PublishedFacts DEF ManifestOf
<1> QED BY <1>2, NoneFacts DEF ManifestOf

\* A leaderboard stays, or is followed by one with a higher stamp.
LEMMA BoardMoves ==
    ASSUME ShardsTypeOK, [ShardsNext]_shardVars
    PROVE  \/ board' = board
           \/ /\ board' \in Boards /\ board' # None
              /\ board # None => board.stamp < board'.stamp
<1>1. CASE \E k \in Rankings : PublishLeaderboard(k)
  <2>1. PICK k \in Rankings : PublishLeaderboard(k)
    BY <1>1
  <2>2. board' = [stamp |-> IF board = None THEN 1 ELSE board.stamp + 1, ranking |-> k]
    BY <2>1 DEF PublishLeaderboard
  <2>3. board # None => board.stamp \in Nat
    BY PublishedFacts DEF ShardsTypeOK
  <2>4. board' \in Boards
    BY <2>2, <2>3, PublishedFacts
  <2>5. board # None => board'.stamp = board.stamp + 1
    BY <2>2
  <2> QED BY <2>3, <2>4, <2>5, NoneFacts
<1>2. CASE PublishStep /\ ~(\E k \in Rankings : PublishLeaderboard(k))
  BY <1>2 DEF PublishStep, PublisherStep, PublishManifest, PublisherDies, MissManifest,
              ReadBoard, BuildMissingManifest, MakerDies
<1>3. CASE ~PublishStep
  BY <1>3, StepKinds, BuilderFrame DEF publication, shardVars
<1> QED BY <1>1, <1>2, <1>3

\* A leaderboard that was published stays one that was, and never comes back when it
\* has been replaced.
LEMMA PastKept ==
    ASSUME ShardsTypeOK, [ShardsNext]_shardVars, NEW b, PastBoard(b)
    PROVE  PastBoard(b)' /\ (b.stamp < board.stamp => b.stamp < board'.stamp)
<1>1. b \in Boards /\ board # None /\ board \in Boards
  BY DEF PastBoard, ShardsTypeOK
<1>2. b.stamp \in Nat /\ board.stamp \in Nat
  BY <1>1, PublishedFacts
<1>3. b = board \/ b.stamp < board.stamp
  BY DEF PastBoard
<1>4. CASE board' = board
  BY <1>1, <1>3, <1>4 DEF PastBoard
<1>5. CASE board' # board
  <2>1. board' \in Boards /\ board' # None /\ board.stamp < board'.stamp
    BY <1>1, <1>5, BoardMoves
  <2>2. board'.stamp \in Nat
    BY <2>1, PublishedFacts
  <2>3. b.stamp < board'.stamp
    BY <1>2, <1>3, <2>1, <2>2
  <2> QED BY <1>1, <2>1, <2>3 DEF PastBoard
<1> QED BY <1>4, <1>5

\* A build that starts.
LEMMA StartMoves ==
    ASSUME ShardsTypeOK, StartStep
    PROVE  /\ \E split \in Splits, tick \in BOOLEAN, ticks \in Cadences, force \in BOOLEAN :
                 /\ Begin(split, tick, ticks, force)
                 /\ tick => /\ metrics = None \/ builder.at = "between"
                            /\ split = "holdout" => builder.at = "between"
           /\ manual' \in 0..MaxManual
<1>1. CASE StartTick
  <2>1. Begin("train", TRUE, TickCadence, FALSE) /\ metrics = None
    BY <1>1 DEF StartTick
  <2>2. manual' = manual
    BY <1>1 DEF StartTick, budget
  <2> QED BY <2>1, <2>2, ShardsAssumption DEF Splits, ShardsTypeOK
<1>2. CASE StartHoldout
  <2>1. Begin("holdout", TRUE, TickCadence, FALSE) /\ builder.at = "between"
    BY <1>2 DEF StartHoldout
  <2>2. manual' = manual
    BY <1>2 DEF StartHoldout, budget
  <2> QED BY <2>1, <2>2, ShardsAssumption DEF Splits, ShardsTypeOK
<1>3. CASE OperatorStep
  <2>1. PICK split \in Splits, ticks \in Cadences, force \in BOOLEAN :
            StartManual(split, ticks, force)
    BY <1>3 DEF OperatorStep
  <2>2. Begin(split, FALSE, ticks, force)
    BY <2>1 DEF StartManual
  <2>3. manual' \in 0..MaxManual
    BY <2>1, ShardsAssumption DEF StartManual, ShardsTypeOK
  <2> QED BY <2>2, <2>3
<1> QED BY <1>1, <1>2, <1>3 DEF StartStep

\* What one replay's step does to its two files and its stage.
LEMMA PoolMoves ==
    ASSUME ShardsTypeOK, BuildInv, PoolStep
    PROVE  \E r \in Replays, s \in Stages :
               /\ MoveTo(r, s) /\ s # "waiting" /\ builder.at = "building"
               /\ shard' = shard \/ shard' = [shard EXCEPT ![r] = Extraction(r)]
               /\ meta' = meta \/ meta' = [meta EXCEPT ![r] = Extraction(r)]
               /\ shard' # shard \/ meta' # meta => r \in DOMAIN builder.stage
               /\ s = "moved" => shard'[r] = Extraction(r) /\ meta' = meta
               /\ s = "ok" => \/ /\ r \in InStage("moved")
                                 /\ meta' = [meta EXCEPT ![r] = Extraction(r)]
                                 /\ shard' = shard
                              \/ Cached(r) /\ meta' = meta /\ shard' = shard
               /\ s \notin {"moved", "ok"} => shard' = shard /\ meta' = meta
<1>1. PICK r \in Replays :
          Reuse(r) \/ Extract(r) \/ RenameShard(r) \/ WriteMeta(r) \/ FailExtraction(r)
  BY DEF PoolStep
<1>2. /\ DOMAIN shard = Replays /\ DOMAIN meta = Replays
      /\ "extracting" \in Stages /\ "moved" \in Stages /\ "ok" \in Stages
      /\ "failed" \in Stages
  BY DEF ShardsTypeOK, Stages
<1>3. \A s \in Stages : InStage(s) # {} => builder.at = "building"
  BY RestingFacts DEF InStage, BuildInv
<1>4. CASE Reuse(r)
  <2>1. MoveTo(r, "ok") /\ Cached(r) /\ UNCHANGED <<shard, meta>> /\ InStage("waiting") # {}
    BY <1>4 DEF Reuse, Taken, files
  <2>2. "waiting" \in Stages
    BY DEF Stages
  <2> QED BY <1>2, <1>3, <2>1, <2>2
<1>5. CASE Extract(r)
  <2>1. MoveTo(r, "extracting") /\ UNCHANGED <<shard, meta>> /\ InStage("waiting") # {}
    BY <1>5 DEF Extract, Taken, files
  <2>2. "waiting" \in Stages
    BY DEF Stages
  <2> QED BY <1>2, <1>3, <2>1, <2>2
<1>6. CASE RenameShard(r)
  <2>1. /\ MoveTo(r, "moved") /\ shard' = [shard EXCEPT ![r] = Extraction(r)]
        /\ meta' = meta /\ r \in InStage("extracting")
    BY <1>6 DEF RenameShard
  <2>2. shard'[r] = Extraction(r) /\ r \in DOMAIN builder.stage
    BY <1>2, <2>1 DEF InStage
  <2> QED BY <1>2, <1>3, <2>1, <2>2
<1>7. CASE WriteMeta(r)
  <2>1. /\ MoveTo(r, "ok") /\ meta' = [meta EXCEPT ![r] = Extraction(r)]
        /\ shard' = shard /\ r \in InStage("moved")
    BY <1>7 DEF WriteMeta
  <2>2. r \in DOMAIN builder.stage
    BY <2>1 DEF InStage
  <2> QED BY <1>2, <1>3, <2>1, <2>2
<1>8. CASE FailExtraction(r)
  <2>1. /\ MoveTo(r, "failed") /\ UNCHANGED <<shard, meta>>
        /\ InStage("extracting") # {} \/ InStage("moved") # {}
    BY <1>8 DEF FailExtraction
  <2> QED BY <1>2, <1>3, <2>1
<1> QED BY <1>1, <1>4, <1>5, <1>6, <1>7, <1>8

\* What a build extracts has a selection and a cadence.
LEMMA ExtractionTyped ==
    ASSUME ShardsTypeOK, BuildInv, NEW r \in DOMAIN builder.stage
    PROVE  /\ Extraction(r) \in Extractions /\ r \in Replays
           /\ Extraction(r).ticks = builder.ticks
<1>1. builder \in Builders
  BY DEF ShardsTypeOK
<1>2. builder.at = "building"
  BY RestingFacts DEF BuildInv
<1>3. /\ builder.from \in Rankings /\ builder.split \in Splits
      /\ r \in Requested(builder.from, builder.split)
  BY <1>1, <1>2, BuilderFacts DEF BuildInv
<1>4. Selection(builder.from, r) \in Selections /\ r \in Replays /\ builder.ticks \in Cadences
  BY <1>1, <1>3, RowFacts, BuilderFacts
<1> QED BY <1>4 DEF Extraction, Extractions

\* A file of a replay, once there, stays or is replaced.
LEMMA FilesStay ==
    ASSUME ShardsTypeOK, BuildInv, [ShardsNext]_shardVars
    PROVE  \A r \in Replays : /\ shard[r] # None => shard'[r] # None
                              /\ meta[r] # None => meta'[r] # None
<1>1. CASE PoolStep
  <2>1. PICK r \in Replays :
            /\ shard' = shard \/ shard' = [shard EXCEPT ![r] = Extraction(r)]
            /\ meta' = meta \/ meta' = [meta EXCEPT ![r] = Extraction(r)]
            /\ shard' # shard \/ meta' # meta => r \in DOMAIN builder.stage
    BY <1>1, PoolMoves
  <2>2. r \in DOMAIN builder.stage => Extraction(r) # None
    BY ExtractionTyped, NoneFacts
  <2> QED BY <2>1, <2>2 DEF ShardsTypeOK
<1>2. CASE ~PoolStep
  BY <1>2, StepKinds, PublishFrame, BuilderFrame DEF files, shardVars
<1> QED BY <1>1, <1>2

\* The index that a build publishes.
LEMMA IndexPublished ==
    ASSUME ShardsTypeOK, BuildInv, PublishIndex
    PROVE  /\ builder.split \in Splits
           /\ index' \in [Splits -> Indexes \cup {None}]
           /\ \A split \in Splits : split # builder.split => index'[split] = index[split]
           /\ LET i == index'[builder.split] IN
              /\ i \in Indexes
              /\ i.from = builder.from /\ i.ticks = builder.ticks
              /\ DOMAIN i.ok = InStage("ok") /\ i.failed = InStage("failed")
              /\ \A r \in DOMAIN i.ok : i.ok[r] = meta[r]
              /\ index[builder.split] # None => i.stamp > index[builder.split].stamp
<1> DEFINE old == index[builder.split]
           i == [stamp |-> IF old = None THEN 1 ELSE old.stamp + 1, from |-> builder.from,
                 ticks |-> builder.ticks, ok |-> Outcome.ok, failed |-> Outcome.failed]
<1>1. builder \in Builders /\ index \in [Splits -> Indexes \cup {None}]
  BY DEF ShardsTypeOK
<1>2. builder.split \in Splits /\ old \in Indexes \cup {None} /\ builder.ticks \in Cadences
  BY <1>1, BuilderFacts
<1>3. index' = [index EXCEPT ![builder.split] = i]
  BY DEF PublishIndex
<1>4. builder.from \in Rankings
  BY <1>1, BuilderFacts DEF PublishIndex, BuildInv
<1>5. InStage("ok") \subseteq Replays /\ InStage("failed") \subseteq Replays
  BY <1>1, BuilderFacts, PoolFacts DEF InStage
<1>6. Outcome.failed = InStage("failed") /\ Outcome.ok = [r \in InStage("ok") |-> meta[r]]
  BY DEF Outcome
<1>7. Outcome.ok \in [InStage("ok") -> Extractions]
  <2>1. \A r \in InStage("ok") : meta[r] \in Extractions
    BY <1>5 DEF InStage, BuildInv, ShardsTypeOK
  <2> QED BY <1>6, <2>1
<1>8. Outcome.ok \in Results
  BY <1>5, <1>7, ResultFacts
<1>9. /\ i.stamp \in Nat /\ (old # None => i.stamp > old.stamp)
      /\ i.from = builder.from /\ i.ticks = builder.ticks
      /\ i.ok = Outcome.ok /\ i.failed = Outcome.failed
  BY <1>2, IndexFacts
<1>10. i \in Indexes
  BY <1>2, <1>4, <1>5, <1>6, <1>8, <1>9 DEF Indexes
<1> HIDE DEF i
<1>11. index'[builder.split] = i
  BY <1>1, <1>2, <1>3
<1> QED BY <1>1, <1>2, <1>3, <1>6, <1>9, <1>10, <1>11

\* The rows the training loads.
LEMMA TrainedOnTyped ==
    ASSUME ShardsTypeOK, IndexLoadable, \A split \in Splits : index[split] # None
    PROVE  TrainedOn \in [Splits -> Results]
<1>1. ASSUME NEW split \in Splits PROVE Loaded(split) \in Results
  <2>1. index[split] \in Indexes
    BY DEF ShardsTypeOK
  <2>2. DOMAIN index[split].ok \in SUBSET Replays
    BY <2>1, IndexFacts
  <2>3. \A r \in DOMAIN index[split].ok : shard[r] \in Extractions
    BY <2>2 DEF ShardsTypeOK, IndexLoadable
  <2>4. Loaded(split) \in [DOMAIN index[split].ok -> Extractions]
    BY <2>3 DEF Loaded
  <2> QED BY <2>2, <2>4, ResultFacts
<1> QED BY <1>1 DEF TrainedOn


-----------------------------------------------------------------------------
(* The invariant of the builder, conjunct by conjunct.                     *)

\* Every step keeps the types.
LEMMA ShardsTypeStep ==
    ASSUME ShardsInv, [ShardsNext]_shardVars
    PROVE  ShardsTypeOK'
<1> USE DEF ShardsInv
<1>1. CASE PublishStep
  <2>1. UNCHANGED <<files, baseline, builder>>
    BY <1>1, PublishFrame
  <2>3. CASE \E k \in Rankings : PublishLeaderboard(k)
    <3>1. PICK k \in Rankings : PublishLeaderboard(k)
      BY <2>3
    <3>2. board # None => board \in Boards /\ board.stamp \in Nat
      BY PublishedFacts DEF ShardsTypeOK
    <3>3. board' \in Boards
      BY <3>1, <3>2, PublishedFacts DEF PublishLeaderboard
    <3> QED BY <2>1, <3>1, <3>3
            DEF PublishLeaderboard, ShardsTypeOK, files, baseline, budget
  <2>4. CASE PublishManifest \/ BuildMissingManifest
    <3>1. manifest' \in Manifests \cup {None} /\ board' = board
      <4>1. board' = board
        BY <2>4 DEF PublishManifest, BuildMissingManifest
      <4>2. CASE manifest' = manifest
        BY <4>1, <4>2 DEF ShardsTypeOK
      <4>3. CASE \E b \in Boards : manifest' = ManifestOf(b)
        BY <4>1, <4>3, ManifestMade
      <4> QED BY <4>2, <4>3, ManifestMoves
    <3>2. publisher' \in {"idle", "ranked"} /\ UNCHANGED budget
      BY <2>4 DEF PublishManifest, BuildMissingManifest, ShardsTypeOK
    <3>3. maker' \in [at : {"idle", "reading", "writing"}, board : Boards \cup {None}]
      BY <2>4, NotMakingFacts DEF PublishManifest, BuildMissingManifest, ShardsTypeOK
    <3> QED BY <2>1, <3>1, <3>2, <3>3 DEF ShardsTypeOK, files, baseline, budget
  <2>5. CASE MissManifest \/ ReadBoard
    <3>1. UNCHANGED <<board, manifest, publisher, budget>>
      BY <2>5 DEF MissManifest, ReadBoard
    <3>2. maker' \in [at : {"idle", "reading", "writing"}, board : Boards \cup {None}]
      BY <2>5 DEF MissManifest, ReadBoard, NotMaking, ShardsTypeOK
    <3> QED BY <2>1, <3>1, <3>2 DEF ShardsTypeOK, files, baseline, budget
  <2>6. CASE PublisherDies
    <3>1. mishaps' \in 0..MaxMishaps /\ manual' = manual
      BY <2>6, MishapTyped DEF PublisherDies
    <3> QED BY <2>6, <3>1 DEF PublisherDies, ShardsTypeOK, files, baseline
  <2>7. CASE MakerDies
    <3>1. mishaps' \in 0..MaxMishaps /\ manual' = manual
      BY <2>7, MishapTyped DEF MakerDies
    <3> QED BY <2>7, <3>1, NotMakingFacts DEF MakerDies, ShardsTypeOK, files, baseline
  <2> QED BY <1>1, <2>3, <2>4, <2>5, <2>6, <2>7 DEF PublishStep, PublisherStep
<1>2. CASE StartStep
  <2>1. UNCHANGED <<publication, files, baseline, mishaps>>
    BY <1>2, BuilderFrame
  <2>2. manifest # None
    BY <1>2 DEF StartStep, StartTick, StartHoldout, OperatorStep, StartManual, BuildInv
  <2>3. manifest \in Manifests
    BY <2>2 DEF ShardsTypeOK
  <2>4. builder' \in Builders
    <3>1. PICK split \in Splits, tick \in BOOLEAN, ticks \in Cadences, force \in BOOLEAN :
              Begin(split, tick, ticks, force)
      BY <1>2, StartMoves
    <3> QED BY <2>3, <3>1, BeginFacts
  <2>5. manual' \in 0..MaxManual
    BY <1>2, StartMoves
  <2> QED BY <2>1, <2>4, <2>5 DEF ShardsTypeOK, publication, files, baseline
<1>3. CASE PoolStep
  <2>1. UNCHANGED <<publication, index, baseline>>
    BY <1>3, BuilderFrame
  <2>2. PICK r \in Replays, s \in Stages :
            /\ MoveTo(r, s)
            /\ shard' = shard \/ shard' = [shard EXCEPT ![r] = Extraction(r)]
            /\ meta' = meta \/ meta' = [meta EXCEPT ![r] = Extraction(r)]
            /\ shard' # shard \/ meta' # meta => r \in DOMAIN builder.stage
    BY <1>3, PoolMoves
  <2>3. builder' \in Builders
    BY <2>2, MoveFacts DEF ShardsTypeOK
  <2>4. r \in DOMAIN builder.stage => Extraction(r) \in Extractions
    BY ExtractionTyped
  <2>5. /\ shard' \in [Replays -> Extractions \cup {None}]
        /\ meta' \in [Replays -> Extractions \cup {None}]
    BY <2>2, <2>4 DEF ShardsTypeOK
  <2>6. litter' \subseteq Replays
    BY <1>3 DEF PoolStep, Reuse, Extract, RenameShard, WriteMeta, FailExtraction,
                ShardsTypeOK, files
  <2>7. mishaps' \in 0..MaxMishaps /\ manual' \in 0..MaxManual
    <3>1. UNCHANGED budget \/ Mishap
      BY <1>3 DEF PoolStep, Reuse, Extract, RenameShard, WriteMeta, FailExtraction
    <3> QED BY <3>1, MishapTyped DEF budget, ShardsTypeOK
  <2> QED BY <2>1, <2>3, <2>5, <2>6, <2>7 DEF ShardsTypeOK, publication, baseline
<1>4. CASE PublishIndex
  <2>1. UNCHANGED <<publication, shard, meta, litter, baseline, budget>>
    BY <1>4, BuilderFrame
  <2>2. index' \in [Splits -> Indexes \cup {None}]
    BY <1>4, IndexPublished
  <2>3. builder' \in Builders
    <3>1. builder \in Builders
      BY DEF ShardsTypeOK
    <3>2. After \in {"idle", "between", "fit"}
      BY DEF After
    <3>3. \/ builder' = Resting
          \/ builder' = [builder EXCEPT !.at = After, !.stage = NoStages]
      BY <1>4 DEF PublishIndex
    <3> QED BY <3>1, <3>2, <3>3, BuilderFacts, RestingFacts DEF Builders
  <2> QED BY <2>1, <2>2, <2>3 DEF ShardsTypeOK, publication, baseline, budget
<1>5. CASE TrainStep
  <2>1. UNCHANGED <<publication, files, budget>>
    BY <1>5, BuilderFrame
  <2>2. builder' \in Builders
    <3>1. builder \in Builders
      BY DEF ShardsTypeOK
    <3>2. \/ builder' = Resting
          \/ \E at \in {"save", "saving", "metrics"} : builder' = [builder EXCEPT !.at = at]
      BY <1>5 DEF TrainStep, Fit, SaveModel, SavedModel, WriteMetrics
    <3> QED BY <3>1, <3>2, BuilderFacts, RestingFacts DEF Builders
  <2>3. builder.at \in {"save", "metrics"} => TrainedOn \in [Splits -> Results]
    BY TrainedOnTyped DEF TrainInv
  <2>4. model' \in Models \cup {None}
    <3>1. CASE SaveModel
      BY <2>3, <3>1 DEF SaveModel, Models
    <3>2. CASE SavedModel
      <4>1. model \in Models
        BY <3>2 DEF SavedModel, TrainInv, ShardsTypeOK
      <4> QED BY <3>2, <4>1 DEF SavedModel, Models
    <3> QED BY <1>5, <3>1, <3>2
            DEF TrainStep, Fit, WriteMetrics, ShardsTypeOK, baseline
  <2>5. metrics' \in [Splits -> Results] \cup {None}
    BY <1>5, <2>3 DEF TrainStep, Fit, SaveModel, SavedModel, WriteMetrics, ShardsTypeOK, baseline
  <2> QED BY <2>1, <2>2, <2>4, <2>5 DEF ShardsTypeOK, publication, files, budget
<1>6. CASE BuilderDies
  <2>1. UNCHANGED <<publication, shard, meta, index, baseline>> /\ builder' = Resting
    BY <1>6 DEF BuilderDies
  <2>2. InStage("extracting") \subseteq Replays
    BY BuilderFacts, PoolFacts DEF InStage, ShardsTypeOK
  <2>3. litter' \subseteq Replays
    BY <1>6, <2>2 DEF BuilderDies, ShardsTypeOK
  <2>4. mishaps' \in 0..MaxMishaps /\ manual' = manual
    BY <1>6, MishapTyped DEF BuilderDies
  <2> QED BY <2>1, <2>3, <2>4, RestingFacts DEF ShardsTypeOK, publication, baseline
<1>7. CASE UNCHANGED shardVars
  BY <1>7 DEF shardVars, publication, files, baseline, budget, ShardsTypeOK
<1> QED BY <1>1, <1>2, <1>3, <1>4, <1>5, <1>6, <1>7, StepKinds

\* Every step keeps manifests, and a manifest that is being built, behind leaderboards
\* that were published.
LEMMA PublishedStep ==
    ASSUME ShardsInv, [ShardsNext]_shardVars
    PROVE  PublishedInv'
<1> USE DEF ShardsInv
<1>1. manifest' # None => PastBoard(manifest.board)'
  <2>1. CASE manifest' = manifest
    BY <2>1, PastKept DEF PublishedInv, PastBoard
  <2>2. CASE manifest' # manifest
    <3>1. PICK b \in Boards : board' = board /\ PastBoard(b) /\ manifest' = ManifestOf(b)
      BY <2>2, ManifestMoves
    <3>2. manifest'.board = b
      BY <3>1, ManifestMade
    <3> QED BY <3>1, <3>2 DEF PastBoard
  <2> QED BY <2>1, <2>2
<1>2. publisher' = "ranked" \/ maker'.at = "reading" => board' # None
  <2>1. CASE board' = board
    <3>1. maker'.at = "reading" => maker.at = "reading" \/ board # None
      BY StepKinds, BuilderFrame, NotMakingFacts
         DEF PublishStep, PublisherStep, PublishLeaderboard, PublishManifest, PublisherDies,
             MissManifest, ReadBoard, BuildMissingManifest, MakerDies, publication, shardVars
    <3>2. publisher' = "ranked" => publisher = "ranked" \/ board' # board
      <4>1. \A k \in Rankings : PublishLeaderboard(k) => board' # board
        <5> SUFFICES ASSUME NEW k \in Rankings, PublishLeaderboard(k), board' = board
                     PROVE  FALSE
          OBVIOUS
        <5>1. board' = [stamp |-> IF board = None THEN 1 ELSE board.stamp + 1, ranking |-> k]
          BY DEF PublishLeaderboard
        <5>2. board # None => board \in Boards /\ board.stamp \in Nat
          BY PublishedFacts DEF ShardsTypeOK
        <5>3. board' \in Boards /\ board'.stamp = IF board = None THEN 1 ELSE board.stamp + 1
          BY <5>1, <5>2, PublishedFacts
        <5> QED BY <5>2, <5>3, NoneFacts
      <4> QED BY <4>1, StepKinds, BuilderFrame
              DEF PublishStep, PublisherStep, PublishManifest, PublisherDies, MissManifest,
                  ReadBoard, BuildMissingManifest, MakerDies, publication, shardVars
    <3> QED BY <2>1, <3>1, <3>2 DEF PublishedInv
  <2>2. CASE board' # board
    BY <2>2, BoardMoves
  <2> QED BY <2>1, <2>2
<1>3. maker'.at = "writing" => PastBoard(maker.board)'
  <2>1. CASE maker' = maker
    BY <2>1, PastKept DEF PublishedInv, PastBoard
  <2>2. CASE ReadBoard
    BY <2>2 DEF ReadBoard, PublishedInv, PastBoard, ShardsTypeOK
  <2>3. CASE ~ReadBoard /\ maker' # maker
    <3>1. maker'.at # "writing"
      BY <2>3, StepKinds, BuilderFrame, NotMakingFacts
         DEF PublishStep, PublisherStep, PublishLeaderboard, PublishManifest, PublisherDies,
             MissManifest, NotMaking, BuildMissingManifest, MakerDies, publication, shardVars
    <3> QED BY <3>1
  <2> QED BY <2>1, <2>2, <2>3
<1> QED BY <1>1, <1>2, <1>3 DEF PublishedInv, PastBoard

\* A manifest that is there is never taken away.
LEMMA ManifestStays ==
    ASSUME ShardsInv, [ShardsNext]_shardVars
    PROVE  manifest # None => manifest' # None
BY ManifestMoves, ManifestMade DEF ShardsInv

\* Every step keeps what a build knows.
LEMMA BuildStep ==
    ASSUME ShardsInv, [ShardsNext]_shardVars
    PROVE  BuildInv'
<1> USE DEF ShardsInv
<1>0. builder \in Builders
  BY DEF ShardsTypeOK
<1>1. CASE StartStep
  <2>1. UNCHANGED <<publication, files>>
    BY <1>1, BuilderFrame
  <2>2. manifest \in Manifests
    BY <1>1 DEF StartStep, StartTick, StartHoldout, OperatorStep, StartManual, BuildInv,
                ShardsTypeOK
  <2>3. PICK split \in Splits, tick \in BOOLEAN, ticks \in Cadences, force \in BOOLEAN :
            Begin(split, tick, ticks, force)
    BY <1>1, StartMoves
  <2>4. /\ builder'.at = "building" /\ builder'.split = split /\ builder'.from = manifest.board.ranking
        /\ DOMAIN builder'.stage = Requested(manifest.board.ranking, split)
        /\ \A r \in DOMAIN builder'.stage : builder'.stage[r] = "waiting"
    BY <2>2, <2>3, BeginFacts
  <2>5. manifest' = manifest
    BY <2>1 DEF publication
  <2>6. manifest.board.ranking # None /\ manifest # None
    BY <2>2, PublishedFacts, NoneFacts
  <2>7. builder'.from # None /\ DOMAIN builder'.stage = Requested(builder'.from, builder'.split)
    BY <2>4, <2>6
  <2> QED BY <2>4, <2>5, <2>6, <2>7 DEF BuildInv, Requested, Rows, Selection
<1>2. CASE PoolStep
  <2>1. PICK r \in Replays, s \in Stages :
               /\ MoveTo(r, s) /\ s # "waiting" /\ builder.at = "building"
               /\ shard' = shard \/ shard' = [shard EXCEPT ![r] = Extraction(r)]
               /\ meta' = meta \/ meta' = [meta EXCEPT ![r] = Extraction(r)]
               /\ shard' # shard \/ meta' # meta => r \in DOMAIN builder.stage
               /\ s = "moved" => shard'[r] = Extraction(r) /\ meta' = meta
               /\ s = "ok" => \/ /\ r \in InStage("moved")
                                 /\ meta' = [meta EXCEPT ![r] = Extraction(r)]
                                 /\ shard' = shard
                              \/ Cached(r) /\ meta' = meta /\ shard' = shard
               /\ s \notin {"moved", "ok"} => shard' = shard /\ meta' = meta
    BY <1>2, PoolMoves
  <2>2. /\ builder'.at = builder.at /\ builder'.split = builder.split
        /\ builder'.from = builder.from /\ builder'.ticks = builder.ticks
        /\ DOMAIN builder'.stage = DOMAIN builder.stage
        /\ \A q \in DOMAIN builder.stage :
              builder'.stage[q] = IF q = r THEN s ELSE builder.stage[q]
    BY <1>0, <2>1, MoveFacts
  <2>3. manifest' = manifest
    BY <1>2, BuilderFrame DEF publication
  <2>4. DOMAIN builder.stage \subseteq Replays
    BY <1>0, BuilderFacts, PoolFacts
  <2>5. \A q \in Replays : q # r => shard'[q] = shard[q] /\ meta'[q] = meta[q]
    BY <2>1 DEF ShardsTypeOK
  <2>6. ASSUME r \in DOMAIN builder.stage
        PROVE  /\ s \in {"moved", "ok"} => shard'[r] # None
               /\ s = "ok" => meta'[r] # None /\ meta'[r].ticks = builder.ticks
    <3>1. Extraction(r) # None /\ Extraction(r).ticks = builder.ticks
      BY <2>6, ExtractionTyped, NoneFacts
    <3>2. CASE s = "moved"
      BY <2>1, <3>1, <3>2
    <3>3. CASE s = "ok" /\ r \in InStage("moved")
      <4>1. shard[r] # None
        BY <3>3 DEF InStage, BuildInv
      <4>2. \/ meta' = [meta EXCEPT ![r] = Extraction(r)] /\ shard' = shard
            \/ Cached(r) /\ meta' = meta /\ shard' = shard
        BY <2>1, <3>3
      <4>3. DOMAIN meta = Replays
        BY DEF ShardsTypeOK
      <4> QED BY <3>1, <4>1, <4>2, <4>3 DEF Cached
    <3>4. CASE s = "ok" /\ r \notin InStage("moved")
      BY <2>1, <3>4 DEF Cached
    <3> QED BY <3>2, <3>3, <3>4
  <2> QED BY <2>1, <2>2, <2>3, <2>4, <2>5, <2>6 DEF BuildInv
<1>3. CASE PublishIndex \/ TrainStep \/ BuilderDies
  <2>1. UNCHANGED <<manifest, shard, meta>>
    BY <1>3, BuilderFrame DEF publication, files
  <2>2. CASE builder' = Resting
    BY <2>1, <2>2, RestingFacts DEF BuildInv, Resting
  <2>3. CASE PublishIndex /\ builder' = [builder EXCEPT !.at = After, !.stage = NoStages]
    <3>1. After \in {"idle", "between", "fit"}
      BY DEF After
    <3>2. builder'.at = After /\ builder'.stage = NoStages /\ builder.at = "building"
      BY <1>0, <2>3, BuilderFacts DEF PublishIndex
    <3> QED BY <2>1, <3>1, <3>2, RestingFacts DEF BuildInv
  <2>4. CASE TrainStep /\ builder' # Resting
    <3>1. PICK at \in {"save", "saving", "metrics"} : builder' = [builder EXCEPT !.at = at]
      BY <2>4 DEF TrainStep, Fit, SaveModel, SavedModel, WriteMetrics
    <3>2. builder'.at = at /\ builder'.stage = builder.stage
      BY <1>0, <3>1, BuilderFacts
    <3>3. builder.at \in {"fit", "save", "saving"}
      BY <2>4 DEF TrainStep, Fit, SaveModel, SavedModel, WriteMetrics
    <3> QED BY <2>1, <3>2, <3>3, RestingFacts DEF BuildInv
  <2> QED BY <1>3, <2>2, <2>3, <2>4 DEF PublishIndex, BuilderDies
<1>4. CASE PublishStep
  <2>1. UNCHANGED <<shard, meta, builder>>
    BY <1>4, PublishFrame DEF files
  <2> QED BY <2>1, ManifestStays DEF BuildInv
<1>5. CASE UNCHANGED shardVars
  BY <1>5 DEF shardVars, publication, files, BuildInv
<1> QED BY <1>1, <1>2, <1>3, <1>4, <1>5, StepKinds


\* Every step keeps what the training relies on.
LEMMA TrainKept ==
    ASSUME ShardsInv, [ShardsNext]_shardVars
    PROVE  TrainInv'
<1> USE DEF ShardsInv
<1>0. builder \in Builders
  BY DEF ShardsTypeOK
<1>1. CASE StartStep
  <2>1. UNCHANGED <<index, model, metrics>>
    BY <1>1, BuilderFrame DEF files, baseline
  <2>2. PICK split \in Splits, tick \in BOOLEAN, ticks \in Cadences, force \in BOOLEAN :
            /\ Begin(split, tick, ticks, force)
            /\ tick => /\ metrics = None \/ builder.at = "between"
                       /\ split = "holdout" => builder.at = "between"
    BY <1>1, StartMoves
  <2>3. builder'.at = "building" /\ builder'.split = split /\ builder'.tick = tick
    BY <2>2 DEF Begin
  <2>4. tick => metrics = None /\ (split = "holdout" => index["train"] # None)
    BY <2>2 DEF TrainInv
  <2> QED BY <2>1, <2>3, <2>4 DEF TrainInv
<1>2. CASE PoolStep
  <2>1. PICK r \in Replays, s \in Stages : MoveTo(r, s) /\ builder.at = "building"
    BY <1>2, PoolMoves
  <2>2. builder'.at = "building" /\ builder'.split = builder.split /\ builder'.tick = builder.tick
    BY <1>0, <2>1, MoveFacts
  <2>3. UNCHANGED <<index, model, metrics>>
    BY <1>2, BuilderFrame DEF baseline
  <2> QED BY <2>1, <2>2, <2>3 DEF TrainInv
<1>3. CASE PublishIndex
  <2>1. UNCHANGED <<model, metrics>>
    BY <1>3, BuilderFrame DEF baseline
  <2>2. /\ builder.split \in Splits
        /\ index'[builder.split] # None
        /\ \A split \in Splits : split # builder.split => index'[split] = index[split]
    BY <1>3, IndexPublished, NoneFacts
  <2>3. CASE After = "idle"
    BY <1>3, <2>3 DEF PublishIndex, TrainInv, Resting
  <2>4. CASE After # "idle"
    <3>1. builder'.at = After /\ builder'.tick = builder.tick
      BY <1>0, <1>3, <2>4, BuilderFacts DEF PublishIndex
    <3>2. /\ builder.tick /\ builder.at = "building"
          /\ After = IF builder.split = "train" THEN "between" ELSE "fit"
      BY <1>3, <2>4 DEF After, PublishIndex
    <3>3. index'["train"] # None
      BY <2>2, <3>2 DEF TrainInv, Splits
    <3>4. After = "fit" => \A split \in Splits : index'[split] # None
      BY <2>2, <3>2, <3>3 DEF Splits
    <3> QED BY <2>1, <3>1, <3>2, <3>3, <3>4 DEF TrainInv
  <2> QED BY <2>3, <2>4
<1>4. CASE TrainStep
  <2>1. UNCHANGED <<index, shard>>
    BY <1>4, BuilderFrame DEF files
  <2>2. TrainedOn' = TrainedOn
    BY <2>1 DEF TrainedOn, Loaded
  <2>3. CASE builder' = Resting
    BY <2>3 DEF TrainInv, Resting
  <2>4. CASE Fit /\ builder' # Resting
    <3>1. builder' = [builder EXCEPT !.at = "save"] /\ builder.at = "fit"
          /\ UNCHANGED <<model, metrics>>
      BY <2>4 DEF Fit, baseline
    <3>2. builder'.at = "save" /\ builder'.tick = builder.tick
      BY <1>0, <3>1, BuilderFacts
    <3> QED BY <2>1, <3>1, <3>2 DEF TrainInv
  <2>5. CASE SaveModel
    <3>1. /\ builder' = [builder EXCEPT !.at = "saving"] /\ builder.at = "save"
          /\ metrics' = metrics /\ model' = [data |-> TrainedOn, whole |-> FALSE]
      BY <2>5 DEF SaveModel
    <3>2. builder'.at = "saving" /\ builder'.tick = builder.tick
      BY <1>0, <3>1, BuilderFacts
    <3>3. TrainedOn \in [Splits -> Results]
      BY <3>1, TrainedOnTyped DEF TrainInv
    <3>4. [data |-> TrainedOn, whole |-> FALSE] \in Models
      BY <3>3 DEF Models
    <3>5. model' # None
      BY <3>1, <3>4, NoneFacts
    <3>6. model'.data = TrainedOn
      BY <3>1
    <3> QED BY <2>1, <2>2, <3>1, <3>2, <3>5, <3>6 DEF TrainInv
  <2>6. CASE SavedModel
    <3>1. /\ builder' = [builder EXCEPT !.at = "metrics"] /\ builder.at = "saving"
          /\ metrics' = metrics /\ model' = [model EXCEPT !.whole = TRUE]
      BY <2>6 DEF SavedModel
    <3>2. builder'.at = "metrics" /\ builder'.tick = builder.tick
      BY <1>0, <3>1, BuilderFacts
    <3>3. model \in Models /\ model.data = TrainedOn
      BY <3>1 DEF TrainInv, ShardsTypeOK
    <3>4. model' # None /\ model'.data = TrainedOn /\ model'.whole
      BY <3>1, <3>3, NoneFacts DEF Models
    <3> QED BY <2>1, <2>2, <3>1, <3>2, <3>4 DEF TrainInv
  <2> QED BY <1>4, <2>3, <2>4, <2>5, <2>6 DEF TrainStep, WriteMetrics
<1>5. CASE BuilderDies
  BY <1>5 DEF BuilderDies, TrainInv, Resting
<1>6. CASE PublishStep \/ UNCHANGED shardVars
  <2>1. UNCHANGED <<builder, index, shard, model, metrics>>
    BY <1>6, PublishFrame DEF shardVars, files, baseline
  <2>2. TrainedOn' = TrainedOn
    BY <2>1 DEF TrainedOn, Loaded
  <2> QED BY <2>1, <2>2 DEF TrainInv
<1> QED BY <1>1, <1>2, <1>3, <1>4, <1>5, <1>6, StepKinds

\* Only the end of a build changes an index.
LEMMA IndexMoves ==
    ASSUME ShardsInv, [ShardsNext]_shardVars
    PROVE  PublishIndex \/ index' = index
BY StepKinds, PublishFrame, BuilderFrame DEF files, shardVars

\* Every step keeps the indexes complete.
LEMMA AccountsStep ==
    ASSUME ShardsInv, [ShardsNext]_shardVars
    PROVE  IndexAccounts'
<1> USE DEF ShardsInv
<1>1. CASE PublishIndex
  <2>1. /\ \A split \in Splits : split # builder.split => index'[split] = index[split]
        /\ LET i == index'[builder.split] IN
              /\ i.from = builder.from /\ i.ticks = builder.ticks
              /\ DOMAIN i.ok = InStage("ok") /\ i.failed = InStage("failed")
              /\ \A r \in DOMAIN i.ok : i.ok[r] = meta[r]
    BY <1>1, IndexPublished
  <2>2. InStage("ok") \cup InStage("failed") = Requested(builder.from, builder.split)
    BY <1>1 DEF PublishIndex, BuildInv
  <2>3. InStage("ok") \cap InStage("failed") = {}
    BY DEF InStage
  <2>4. \A r \in InStage("ok") : meta[r].ticks = builder.ticks
    BY DEF InStage, BuildInv
  <2> SUFFICES ASSUME NEW split \in Splits, index'[split] # None
               PROVE  LET i == index'[split] IN
                      /\ DOMAIN i.ok \cup i.failed = Requested(i.from, split)
                      /\ DOMAIN i.ok \cap i.failed = {}
                      /\ \A r \in DOMAIN i.ok : i.ok[r].ticks = i.ticks
    BY DEF IndexAccounts, Requested, Rows, Selection
  <2>5. CASE split = builder.split
    BY <2>1, <2>2, <2>3, <2>4, <2>5
  <2>6. CASE split # builder.split
    BY <2>1, <2>6 DEF IndexAccounts
  <2> QED BY <2>5, <2>6
<1>2. CASE index' = index
  BY <1>2 DEF IndexAccounts, Requested, Rows, Selection
<1> QED BY <1>1, <1>2, IndexMoves

\* Every step keeps what an index names loadable.
LEMMA LoadableStep ==
    ASSUME ShardsInv, [ShardsNext]_shardVars
    PROVE  IndexLoadable'
<1> USE DEF ShardsInv
<1> SUFFICES ASSUME NEW split \in Splits, index'[split] # None,
                    NEW r \in DOMAIN index'[split].ok
             PROVE  shard'[r] # None /\ meta'[r] # None
  BY DEF IndexLoadable
<1>1. CASE PublishIndex /\ split = builder.split
  <2>1. r \in InStage("ok")
    BY <1>1, IndexPublished
  <2>2. shard' = shard /\ meta' = meta
    BY <1>1, BuilderFrame
  <2> QED BY <2>1, <2>2 DEF InStage, BuildInv
<1>2. CASE index'[split] = index[split]
  <2>1. r \in Replays
    BY <1>2, IndexFacts DEF ShardsTypeOK
  <2>2. shard[r] # None /\ meta[r] # None
    BY <1>2 DEF IndexLoadable
  <2> QED BY <2>1, <2>2, FilesStay
<1> QED BY <1>1, <1>2, IndexMoves, IndexPublished

\* Every step keeps the metrics beside the model they describe.
LEMMA MetricsStep ==
    ASSUME ShardsInv, [ShardsNext]_shardVars
    PROVE  MetricsDescribeModel'
<1> USE DEF ShardsInv
<1>1. CASE WriteMetrics
  BY <1>1 DEF WriteMetrics, TrainInv, MetricsDescribeModel
<1>2. CASE SaveModel \/ SavedModel
  BY <1>2 DEF SaveModel, SavedModel, TrainInv, MetricsDescribeModel
<1>3. CASE ~WriteMetrics /\ ~SaveModel /\ ~SavedModel
  <2>1. UNCHANGED <<model, metrics>>
    BY <1>3, StepKinds, PublishFrame, BuilderFrame DEF TrainStep, Fit, baseline, shardVars
  <2> QED BY <2>1 DEF MetricsDescribeModel
<1> QED BY <1>1, <1>2, <1>3

\* Every step of the builder and of the publisher preserves the builder's invariant.
LEMMA ShardsInvStep == ShardsInv /\ [ShardsNext]_shardVars => ShardsInv'
BY ShardsTypeStep, PublishedStep, BuildStep, TrainKept, AccountsStep, LoadableStep,
   MetricsStep DEF ShardsInv

\* Nothing is published at first.
LEMMA ShardsInvInit == ShardsInit => ShardsInv
<1> SUFFICES ASSUME ShardsInit PROVE ShardsInv
  OBVIOUS
<1> USE DEF ShardsInit
<1>1. ShardsTypeOK
  BY RestingFacts, NotMakingFacts, ShardsAssumption DEF ShardsTypeOK
<1>2. PublishedInv
  BY NotMakingFacts DEF PublishedInv
<1>3. BuildInv /\ TrainInv
  BY RestingFacts DEF BuildInv, TrainInv, Resting
<1>4. IndexAccounts /\ IndexLoadable /\ MetricsDescribeModel
  BY DEF IndexAccounts, IndexLoadable, MetricsDescribeModel
<1> QED BY <1>1, <1>2, <1>3, <1>4 DEF ShardsInv


-----------------------------------------------------------------------------
(* The least replay of a set, the one that is taken or audited next.       *)

Less == {p \in Nat \X Nat : p[1] < p[2]}

\* The order of the natural numbers, as the library states it.
LEMMA LessWellFounded == IsWellFoundedOn(Less, Nat)
BY NatLessThanWellFounded DEF OpToRel, Less

\* Membership in that order.
LEMMA LessIs == \A x, y \in Nat : x < y => <<x, y>> \in Less
BY DEF Less

\* A set of replays that is not empty has a least one.
LEMMA MinIn == ASSUME NEW some \in SUBSET Replays, some # {} PROVE Min(some) \in some
<1>1. some \in SUBSET Nat
  BY ShardsAssumption
<1>2. PICK x \in some : \A y \in some : ~ (<<y, x>> \in Less)
  BY <1>1, LessWellFounded, WFMin
<1>3. ASSUME NEW y \in some PROVE x <= y
  <2>1. ~(y < x)
    BY <1>1, <1>2, LessIs
  <2> QED BY <1>1, <2>1
<1> QED BY <1>3 DEF Min

-----------------------------------------------------------------------------
(* What the auditors see of the publications.                              *)

\* The fields of an audit.
LEMMA AuditFacts ==
    ASSUME NEW a \in Audits
    PROVE  /\ a.at \in {"idle", "train index", "holdout index", "meta", "shard",
                        "manifest again", "train index again", "holdout index again",
                        "chain clean", "leaderboard", "sources ok"}
           /\ a.manifest \in Manifests \cup {None} /\ a.indexes \in [Splits -> Indexes \cup {None}]
           /\ a.split \in Splits /\ a.todo \subseteq Replays /\ a.hashed \in Results
           /\ a.together \in BOOLEAN
           /\ a = [at |-> a.at, manifest |-> a.manifest, indexes |-> a.indexes,
                   split |-> a.split, todo |-> a.todo, hashed |-> a.hashed,
                   together |-> a.together]
BY DEF Audits

\* No audit, and what it knows.
LEMMA NoAuditFacts ==
    /\ NoAudit \in Audits
    /\ NoAudit.at = "idle" /\ NoAudit.hashed \in Results /\ DOMAIN NoAudit.hashed = {}
<1>1. [r \in {} |-> None] \in [{} -> Extractions]
  OBVIOUS
<1>2. [r \in {} |-> None] \in Results /\ DOMAIN [r \in {} |-> None] = {}
  BY <1>1, ResultFacts
<1>3. [split \in Splits |-> None] \in [Splits -> Indexes \cup {None}] /\ "train" \in Splits
  BY DEF Splits
<1> QED BY <1>2, <1>3 DEF NoAudit, Audits

\* An auditor only reads.
LEMMA AuditFrame == AuditStep => UNCHANGED shardVars
BY DEF AuditStep, StartChain, ReadTrainIndex, ReadHoldoutIndex, AuditMeta, AuditShard,
       ScanDirectory, RecheckManifest, RecheckTrain, RecheckHoldout, StartSources,
       ReadLeaderboard, Finish

\* A manifest that was read stays the current one, or is superseded for good.
LEMMA ManifestTracked ==
    ASSUME ShardsInv, [ShardsNext]_shardVars, NEW m \in Manifests
    PROVE  /\ Superseded(m, manifest) => Superseded(m, manifest')
           /\ Tracks(m, manifest) => Tracks(m, manifest')
<1>1. CASE manifest' = manifest
  BY <1>1
<1>2. CASE manifest' # manifest /\ manifest # None
  <2>1. PICK b \in Boards : manifest' = ManifestOf(b)
    BY <1>2, ManifestMoves DEF ShardsInv
  <2>2. manifest' \in Manifests /\ manifest' # None /\ manifest'.stamp = manifest.stamp + 1
    BY <1>2, <2>1, ManifestMade DEF ShardsInv
  <2>3. manifest.stamp \in Nat /\ m.stamp \in Nat
    BY <1>2, PublishedFacts DEF ShardsInv, ShardsTypeOK
  <2> QED BY <2>2, <2>3 DEF Superseded, Tracks
<1>3. CASE manifest = None
  BY <1>3, NoneFacts DEF Superseded, Tracks
<1> QED BY <1>1, <1>2, <1>3

\* An index that was read stays the current one, or is superseded for good.
LEMMA IndexTracked ==
    ASSUME ShardsInv, [ShardsNext]_shardVars, NEW i \in Indexes, NEW split \in Splits
    PROVE  /\ Superseded(i, index[split]) => Superseded(i, index'[split])
           /\ Tracks(i, index[split]) => Tracks(i, index'[split])
<1>1. CASE index'[split] = index[split]
  BY <1>1
<1>2. CASE index'[split] # index[split]
  <2>1. PublishIndex
    BY <1>2, IndexMoves
  <2>2. split = builder.split /\ index'[split] \in Indexes
        /\ (index[split] # None => index'[split].stamp > index[split].stamp)
    BY <1>2, <2>1, IndexPublished DEF ShardsInv
  <2>3. index[split] \in Indexes \cup {None}
    BY DEF ShardsInv, ShardsTypeOK
  <2>4. i.stamp \in Nat /\ index'[split].stamp \in Nat
        /\ (index[split] # None => index[split].stamp \in Nat)
    BY <2>2, <2>3, IndexFacts
  <2>5. index'[split] # None
    BY <2>2, NoneFacts
  <2>6. i # None
    BY NoneFacts
  <2> QED BY <2>2, <2>4, <2>5, <2>6 DEF Superseded, Tracks
<1> QED BY <1>1, <1>2


-----------------------------------------------------------------------------
(* The audit beside the publications.                                      *)

\* What is read in an audit under way.
LEMMA ReadFacts ==
    ASSUME ChainInv
    PROVE  /\ audit.at # "idle" => audit.manifest \in Manifests
           /\ audit.at \in InChain \cup {"holdout index"} => audit.indexes["train"] \in Indexes
           /\ audit.at \in InChain => audit.indexes["holdout"] \in Indexes
BY AuditFacts DEF ChainInv, ReadInv, Splits

\* While the files change, what was read stays current or superseded.
LEMMA ReadKept ==
    ASSUME ChainInv, [ShardsNext]_shardVars, audit' = audit
    PROVE  ReadInv'
<1> USE DEF ChainInv
<1>1. audit.at # "idle" =>
          /\ audit.manifest # None
          /\ Tracks(audit.manifest, manifest')
          /\ PastBoard(audit.manifest.board)'
  BY ReadFacts, ManifestTracked, PastKept DEF ReadInv, ShardsInv, PastBoard
<1>2. audit.at \in InChain \cup {"holdout index"} =>
          /\ audit.indexes["train"] # None
          /\ Tracks(audit.indexes["train"], index'["train"])
          /\ MatchesManifest(audit.manifest, audit.indexes["train"], "train")
  BY ReadFacts, IndexTracked DEF ReadInv, Splits
<1>3. audit.at \in InChain =>
          /\ audit.indexes["holdout"] # None
          /\ MatchesManifest(audit.manifest, audit.indexes["holdout"], "holdout")
          /\ audit.indexes["holdout"].ticks = audit.indexes["train"].ticks
  BY DEF ReadInv
<1> QED BY <1>1, <1>2, <1>3 DEF ReadInv, Tracks, Superseded, PastBoard, MatchesManifest, Rows, Selection

\* While the files change, an audit that will meet a newer file still does, and what
\* was hashed stays hashed.
LEMMA VerdictKept ==
    ASSUME ChainInv, [ShardsNext]_shardVars, audit' = audit
    PROVE  TogetherInv' /\ HashedInv' /\ SourcesInv'
<1> USE DEF ChainInv
<1>1. audit.at \in InChain =>
          /\ Superseded(audit.manifest, manifest) => Superseded(audit.manifest, manifest')
          /\ Superseded(audit.indexes["train"], index["train"]) =>
                Superseded(audit.indexes["train"], index'["train"])
  BY ReadFacts, ManifestTracked, IndexTracked DEF InChain, Splits
<1>2. TogetherInv'
  BY <1>1 DEF TogetherInv, InChain, Superseded
<1>3. HashedInv'
  BY DEF HashedInv, SamplesTellApart, SamplesOf, Audited, Selection
<1>4. SourcesInv'
  <2>1. audit.at = "leaderboard" => PastBoard(audit.manifest.board)
    BY DEF ReadInv
  <2>2. audit.at = "leaderboard" /\ audit.manifest.board.stamp < board.stamp =>
           audit.manifest.board.stamp < board'.stamp
    BY <2>1, PastKept DEF ShardsInv
  <2> QED BY <2>2 DEF SourcesInv, SourcesOfOneMoment
<1> QED BY <1>2, <1>3, <1>4

\* An auditor's step has the type of an audit.
LEMMA AuditTyped ==
    ASSUME ChainInv, AuditStep
    PROVE  audit' \in Audits
<1> USE DEF ChainInv
<1>0. audit \in Audits /\ manifest \in Manifests \cup {None}
      /\ index \in [Splits -> Indexes \cup {None}] /\ shard \in [Replays -> Extractions \cup {None}]
  BY DEF ShardsInv, ShardsTypeOK
<1>1. Reject => audit' \in Audits
  BY NoAuditFacts DEF Reject
<1>2. \A at \in {"train index", "holdout index", "meta", "shard", "manifest again",
                 "train index again", "holdout index again", "chain clean", "sources ok"} :
         Continue(at) => audit' \in Audits
  BY <1>0 DEF Continue, Audits
<1>3. CASE StartChain \/ StartSources
  <2>1. (board = manifest.board) \in BOOLEAN
    OBVIOUS
  <2> QED BY <1>0, <1>3, <2>1, NoAuditFacts DEF StartChain, StartSources, Audits
<1>4. CASE ReadTrainIndex
  <2>1. CASE Reject
    BY <1>1, <2>1
  <2>2. CASE ~Reject
    <3>1. index["train"] \in Indexes
      BY <1>0, <1>4, <2>2 DEF ReadTrainIndex, Splits
    <3>2. [audit.indexes EXCEPT !["train"] = index["train"]] \in [Splits -> Indexes \cup {None}]
      BY <1>0, <3>1, AuditFacts
    <3>3. audit' = [audit EXCEPT !.at = "holdout index",
                                 !.indexes = [audit.indexes EXCEPT !["train"] = index["train"]]]
      BY <1>0, <1>4, <2>2, AuditFacts DEF ReadTrainIndex
    <3> QED BY <1>0, <3>2, <3>3 DEF Audits
  <2> QED BY <2>1, <2>2
<1>5. CASE ReadHoldoutIndex
  <2>1. CASE Reject
    BY <1>1, <2>1
  <2>2. CASE ~Reject
    <3>1. index["holdout"] # None /\ audit.indexes["train"] \in Indexes
      BY <1>5, <2>2, ReadFacts DEF ReadHoldoutIndex
    <3>2. DOMAIN audit.indexes["train"].ok \subseteq Replays
      BY <3>1, IndexFacts
    <3> DEFINE indexes == [audit.indexes EXCEPT !["holdout"] = index["holdout"]]
               together == /\ manifest = audit.manifest
                           /\ index["train"] = audit.indexes["train"]
    <3>3. index["holdout"] \in Indexes \cup {None} /\ "train" \in Splits /\ "holdout" \in Splits
      BY <1>0 DEF Splits
    <3>4. indexes \in [Splits -> Indexes \cup {None}]
      BY <1>0, <3>3, AuditFacts
    <3>5. audit' = [audit EXCEPT !.at = "meta", !.indexes = indexes, !.split = "train",
                                 !.todo = DOMAIN audit.indexes["train"].ok,
                                 !.together = together]
      BY <1>0, <1>5, <2>2, AuditFacts DEF ReadHoldoutIndex
    <3>6. together \in BOOLEAN
      OBVIOUS
    <3> HIDE DEF indexes, together
    <3> QED BY <1>0, <3>2, <3>3, <3>4, <3>5, <3>6 DEF Audits
  <2> QED BY <2>1, <2>2
<1>6. CASE AuditMeta
  BY <1>1, <1>2, <1>6 DEF AuditMeta
<1>7. CASE AuditShard
  <2> DEFINE r == Min(audit.todo)
             hashed == [q \in DOMAIN audit.hashed \cup {r} |->
                           IF q = r THEN shard[r] ELSE audit.hashed[q]]
  <2>1. CASE ~ShardValid(r)
    BY <1>1, <1>7, <2>1 DEF AuditShard
  <2>2. CASE ShardValid(r)
    <3>1. audit.todo # {} /\ audit.todo \subseteq Replays
      BY <1>0, <1>7, AuditFacts DEF AuditShard, HashedInv, InChain
    <3>2. r \in Replays
      BY <3>1, MinIn
    <3>3. shard[r] \in Extractions
      BY <1>0, <2>2, <3>2 DEF ShardValid
    <3>4. /\ DOMAIN audit.hashed \subseteq Replays
          /\ \A q \in DOMAIN audit.hashed : audit.hashed[q] \in Extractions
      BY <1>0, AuditFacts, ResultFacts
    <3>5. hashed \in [DOMAIN audit.hashed \cup {r} -> Extractions]
      BY <3>3, <3>4
    <3>6. DOMAIN audit.hashed \cup {r} \in SUBSET Replays
      BY <3>2, <3>4
    <3>7. hashed \in Results
      BY <3>5, <3>6, ResultFacts
    <3>8. audit' = [audit EXCEPT !.at = "meta", !.todo = audit.todo \ {r}, !.hashed = hashed]
      BY <1>7, <2>2 DEF AuditShard
    <3> HIDE DEF hashed, r
    <3> QED BY <1>0, <3>7, <3>8 DEF Audits
  <2> QED BY <2>1, <2>2
<1>8. CASE ScanDirectory
  <2>1. CASE audit.split = "holdout" \/ Reject
    BY <1>1, <1>2, <1>8, <2>1 DEF ScanDirectory
  <2>2. CASE audit.split # "holdout" /\ ~Reject
    <3>1. audit' = [audit EXCEPT !.split = "holdout", !.todo = DOMAIN audit.indexes["holdout"].ok]
      BY <1>8, <2>2 DEF ScanDirectory
    <3>2. audit.indexes["holdout"] \in Indexes
      BY <1>8, ReadFacts DEF ScanDirectory, InChain
    <3>3. DOMAIN audit.indexes["holdout"].ok \subseteq Replays /\ "holdout" \in Splits
      BY <3>2, IndexFacts DEF Splits
    <3> QED BY <1>0, <3>1, <3>3 DEF Audits
  <2> QED BY <2>1, <2>2
<1>9. CASE RecheckManifest \/ RecheckTrain \/ RecheckHoldout \/ Finish
  BY <1>1, <1>2, <1>9 DEF RecheckManifest, RecheckTrain, RecheckHoldout, Finish
<1>10. CASE ReadLeaderboard
  BY <1>1, <1>2, <1>10 DEF ReadLeaderboard
<1> QED BY <1>3, <1>4, <1>5, <1>6, <1>7, <1>8, <1>9, <1>10 DEF AuditStep


\* An audit that goes on with what it has read.
LEMMA ContinueFacts ==
    audit \in Audits =>
       \A at \in {"shard", "manifest again", "train index again", "holdout index again",
                  "chain clean", "sources ok"} :
          Continue(at) =>
             /\ audit'.at = at /\ audit'.manifest = audit.manifest
             /\ audit'.indexes = audit.indexes /\ audit'.split = audit.split
             /\ audit'.todo = audit.todo /\ audit'.hashed = audit.hashed
             /\ audit'.together = audit.together
BY DEF Continue, Audits

\* Nothing supersedes itself.
LEMMA NotItself ==
    /\ \A m \in Manifests : ~Superseded(m, m)
    /\ \A i \in Indexes : ~Superseded(i, i)
<1>1. \A n \in Nat : ~(n < n)
  OBVIOUS
<1> QED BY <1>1, PublishedFacts, IndexFacts DEF Superseded

\* The next replay of an audit is an entry of the index under audit.
LEMMA NextEntry ==
    ASSUME ChainInv, audit.at \in {"meta", "shard"}, audit.todo # {}
    PROVE  LET r == Min(audit.todo) IN
           /\ r \in audit.todo /\ r \in Replays /\ r \in DOMAIN Audited.ok
           /\ Audited \in Indexes /\ Audited.ok[r] \in Extractions
           /\ MatchesManifest(audit.manifest, Audited, audit.split)
           /\ Audited.ticks = audit.indexes["train"].ticks
<1> USE DEF ChainInv
<1>1. audit.todo \subseteq Replays /\ audit.split \in Splits
  BY AuditFacts
<1>2. Min(audit.todo) \in audit.todo
  BY <1>1, MinIn
<1>3. audit.todo \subseteq DOMAIN Audited.ok
  BY DEF HashedInv, InChain, Audited
<1>4. Audited \in Indexes
  BY <1>1, ReadFacts DEF Audited, InChain, Splits
<1>5. MatchesManifest(audit.manifest, Audited, audit.split)
  BY <1>1 DEF Audited, ReadInv, InChain, Splits
<1>6. Audited.ticks = audit.indexes["train"].ticks
  BY <1>1 DEF Audited, ReadInv, InChain, Splits
<1> QED BY <1>1, <1>2, <1>3, <1>4, <1>5, <1>6, IndexFacts

\* An audit that ends, or begins, keeps the invariant.
LEMMA EndsKeep ==
    ASSUME ChainInv, AuditStep, Reject \/ StartChain \/ StartSources
    PROVE  ReadInv' /\ TogetherInv' /\ HashedInv' /\ SourcesInv'
<1>1. CASE Reject
  <2>1. audit'.at = "idle" /\ DOMAIN audit'.hashed = {}
    BY <1>1, NoAuditFacts DEF Reject
  <2> QED BY <2>1 DEF ReadInv, TogetherInv, HashedInv, SourcesInv, SourcesOfOneMoment, InChain
<1>2. CASE StartChain \/ StartSources
  <2>1. /\ audit'.at \in {"train index", "leaderboard"} /\ audit'.manifest = manifest
        /\ manifest # None /\ audit'.hashed = NoAudit.hashed
        /\ audit'.at = "leaderboard" => (audit'.together <=> board = manifest.board)
    BY <1>2, NoAuditFacts DEF StartChain, StartSources, Audits
  <2>2. manifest' = manifest /\ board' = board
    BY AuditFrame DEF shardVars, publication
  <2>3. ReadInv'
    BY <2>1, <2>2 DEF ReadInv, InChain, Tracks, ChainInv, ShardsInv, PublishedInv, PastBoard
  <2>4. SourcesInv'
    BY <2>1, <2>2 DEF SourcesInv, SourcesOfOneMoment, ChainInv, ShardsInv, PublishedInv, PastBoard
  <2> QED BY <2>1, <2>3, <2>4, NoAuditFacts DEF TogetherInv, HashedInv, InChain
<1> QED BY <1>1, <1>2

\* An audit that compares again, or goes on to a shard, keeps the invariant.
LEMMA ContinueKeeps ==
    ASSUME ChainInv, AuditStep, ~Reject,
           AuditMeta \/ RecheckManifest \/ RecheckTrain \/ RecheckHoldout
           \/ (ScanDirectory /\ audit.split = "holdout")
    PROVE  ReadInv' /\ TogetherInv' /\ HashedInv' /\ SourcesInv'
<1> USE DEF ChainInv
<1>1. UNCHANGED <<board, manifest, index>>
  BY AuditFrame DEF shardVars, publication, files
<1>2. PICK at \in {"shard", "manifest again", "train index again", "holdout index again",
                   "chain clean"} : Continue(at)
  BY DEF AuditMeta, RecheckManifest, RecheckTrain, RecheckHoldout, ScanDirectory
<1>3. /\ audit'.at = at /\ audit'.manifest = audit.manifest
      /\ audit'.indexes = audit.indexes /\ audit'.split = audit.split
      /\ audit'.todo = audit.todo /\ audit'.hashed = audit.hashed
      /\ audit'.together = audit.together
  BY <1>2, ContinueFacts
<1>4. audit.at \in {"meta", "manifest again", "train index again", "holdout index again"}
  BY DEF AuditMeta, RecheckManifest, RecheckTrain, RecheckHoldout, ScanDirectory
<1>5. ReadInv'
  BY <1>1, <1>3, <1>4 DEF ReadInv, InChain, Tracks, Superseded, PastBoard, MatchesManifest, Rows, Selection
<1>6. /\ at = "shard" => AuditMeta
      /\ at = "manifest again" => ScanDirectory /\ audit.split = "holdout" /\ audit.todo = {}
      /\ at = "train index again" => RecheckManifest
      /\ at = "holdout index again" => RecheckTrain
      /\ at = "chain clean" => RecheckHoldout
  <2>1. /\ Continue("shard") => at = "shard"
        /\ Continue("manifest again") => at = "manifest again"
        /\ Continue("train index again") => at = "train index again"
        /\ Continue("holdout index again") => at = "holdout index again"
        /\ Continue("chain clean") => at = "chain clean"
    BY <1>3, ContinueFacts
  <2>2. AuditMeta => at = "shard"
    BY <2>1 DEF AuditMeta
  <2>3. ScanDirectory /\ audit.split = "holdout" => at = "manifest again" /\ audit.todo = {}
    BY <2>1 DEF ScanDirectory
  <2>4. /\ RecheckManifest => at = "train index again"
        /\ RecheckTrain => at = "holdout index again"
        /\ RecheckHoldout => at = "chain clean"
    BY <2>1 DEF RecheckManifest, RecheckTrain, RecheckHoldout
  <2> QED BY <2>2, <2>3, <2>4
<1>7. TogetherInv'
  <2>1. ~Superseded(audit.manifest, audit.manifest)
    BY <1>4, ReadFacts, NotItself
  <2>2. ~Superseded(audit.indexes["train"], audit.indexes["train"])
    BY <1>4, ReadFacts, NotItself DEF InChain
  <2>3. at = "train index again" => audit.at = "manifest again" /\ manifest = audit.manifest
    BY <1>6 DEF RecheckManifest
  <2>4. at = "holdout index again" =>
           audit.at = "train index again" /\ index["train"] = audit.indexes["train"]
    BY <1>6 DEF RecheckTrain
  <2>5. at = "chain clean" => audit.at = "holdout index again"
    BY <1>6 DEF RecheckHoldout
  <2>6. at \in {"shard", "manifest again"} => audit.at = "meta"
    BY <1>6 DEF AuditMeta, ScanDirectory
  <2> QED BY <1>1, <1>3, <2>1, <2>2, <2>3, <2>4, <2>5, <2>6 DEF TogetherInv, Superseded
<1>8. HashedInv'
  <2>1. at = "shard" => /\ audit.at = "meta" /\ audit.todo # {}
                        /\ Audited.ok[Min(audit.todo)].ticks = Audited.ticks
    BY <1>6 DEF AuditMeta, MetaValid, Reject
  <2>2. at \notin {"meta", "shard"} => audit.split = "holdout" /\ audit.todo = {}
    BY <1>4, <1>6 DEF HashedInv, InChain, RecheckManifest, RecheckTrain, RecheckHoldout
  <2> QED BY <1>3, <1>4, <2>1, <2>2
          DEF HashedInv, InChain, Audited, SamplesTellApart, SamplesOf, Selection
<1>9. SourcesInv'
  BY <1>2, <1>3 DEF SourcesInv, SourcesOfOneMoment
<1> QED BY <1>5, <1>7, <1>8, <1>9


\* An audit that reads an index keeps the invariant: at the second index, what was read
\* is current together or a newer file is there already.
LEMMA IndexReadKeeps ==
    ASSUME ChainInv, AuditStep, ~Reject, ReadTrainIndex \/ ReadHoldoutIndex
    PROVE  ReadInv' /\ TogetherInv' /\ HashedInv' /\ SourcesInv'
<1> USE DEF ChainInv
<1>1. UNCHANGED <<board, manifest, index>>
  BY AuditFrame DEF shardVars, publication, files
<1>2. index \in [Splits -> Indexes \cup {None}] /\ DOMAIN audit.indexes = Splits
  BY AuditFacts DEF ShardsInv, ShardsTypeOK
<1>3. CASE ReadTrainIndex
  <2>1. /\ audit'.at = "holdout index" /\ audit'.manifest = audit.manifest
        /\ audit'.indexes["train"] = index["train"]
        /\ index["train"] # None /\ MatchesManifest(audit.manifest, index["train"], "train")
        /\ audit.at = "train index"
    <3>1. audit' = [audit EXCEPT !.at = "holdout index", !.indexes["train"] = index["train"]]
      BY <1>3 DEF ReadTrainIndex
    <3>2. /\ audit'.at = "holdout index" /\ audit'.manifest = audit.manifest
          /\ audit'.indexes["train"] = index["train"]
      BY <1>2, <3>1 DEF Audits, Splits
    <3> QED BY <1>3, <3>2 DEF ReadTrainIndex
  <2>2. /\ audit'.manifest # None /\ Tracks(audit'.manifest, manifest')
        /\ PastBoard(audit.manifest.board)'
    BY <1>1, <2>1 DEF ReadInv, PastBoard
  <2>3. /\ audit'.indexes["train"] # None /\ Tracks(audit'.indexes["train"], index'["train"])
        /\ MatchesManifest(audit'.manifest, audit'.indexes["train"], "train")
    BY <1>1, <2>1 DEF Tracks
  <2>4. ReadInv'
    BY <2>1, <2>2, <2>3 DEF ReadInv, InChain, Tracks, Superseded, PastBoard, MatchesManifest, Rows, Selection
  <2>5. HashedInv'
    <3>1. audit'.hashed = audit.hashed
      BY <1>3 DEF ReadTrainIndex, Audits
    <3> QED BY <2>1, <3>1 DEF HashedInv, InChain
  <2> QED BY <2>1, <2>4, <2>5 DEF TogetherInv, SourcesInv, SourcesOfOneMoment
<1>4. CASE ReadHoldoutIndex
  <2>1. /\ audit'.at = "meta" /\ audit'.manifest = audit.manifest
        /\ audit'.indexes["train"] = audit.indexes["train"]
        /\ audit'.indexes["holdout"] = index["holdout"]
        /\ audit'.split = "train" /\ audit'.todo = DOMAIN audit.indexes["train"].ok
        /\ audit'.hashed = audit.hashed
    <3>1. PICK together :
             audit' = [audit EXCEPT
                        !.at = "meta",
                        !.indexes["holdout"] = index["holdout"],
                        !.split = "train",
                        !.todo = DOMAIN audit.indexes["train"].ok,
                        !.together = together]
      BY <1>4 DEF ReadHoldoutIndex
    <3> QED BY <1>2, <3>1 DEF Audits, Splits
  <2>2. /\ audit.at = "holdout index" /\ index["holdout"] # None
        /\ MatchesManifest(audit.manifest, index["holdout"], "holdout")
        /\ index["holdout"].ticks = audit.indexes["train"].ticks
    BY <1>4 DEF ReadHoldoutIndex
  <2>3. audit'.together <=> /\ manifest = audit.manifest
                            /\ index["train"] = audit.indexes["train"]
    BY <1>4 DEF ReadHoldoutIndex, Audits
  <2>4. ReadInv'
    <3>1. /\ audit'.manifest # None /\ Tracks(audit'.manifest, manifest')
          /\ PastBoard(audit.manifest.board)'
      BY <1>1, <2>1, <2>2 DEF ReadInv, PastBoard
    <3>2. /\ audit'.indexes["train"] # None /\ Tracks(audit'.indexes["train"], index'["train"])
          /\ MatchesManifest(audit'.manifest, audit'.indexes["train"], "train")
      BY <1>1, <2>1, <2>2 DEF ReadInv
    <3>3. /\ audit'.indexes["holdout"] # None
          /\ MatchesManifest(audit'.manifest, audit'.indexes["holdout"], "holdout")
          /\ audit'.indexes["holdout"].ticks = audit'.indexes["train"].ticks
      BY <2>1, <2>2
    <3> QED BY <2>1, <3>1, <3>2, <3>3
            DEF ReadInv, InChain, Tracks, Superseded, PastBoard, MatchesManifest, Rows, Selection
  <2>5. TogetherInv'
    BY <1>1, <2>1, <2>2, <2>3 DEF TogetherInv, ReadInv, Tracks, Superseded
  <2>6. DOMAIN audit.hashed = {}
    BY <2>2 DEF HashedInv, InChain
  <2>7. HashedInv'
    BY <2>1, <2>6 DEF HashedInv, InChain, Audited
  <2> QED BY <2>1, <2>4, <2>5, <2>7 DEF SourcesInv, SourcesOfOneMoment
<1> QED BY <1>3, <1>4


\* An audit that has hashed a shard keeps the invariant: as many rows as the index says
\* means the same extraction, where the number of rows tells two apart.
LEMMA ShardKeeps ==
    ASSUME ChainInv, AuditStep, ~Reject, AuditShard
    PROVE  ReadInv' /\ TogetherInv' /\ HashedInv' /\ SourcesInv'
<1> USE DEF ChainInv
<1> DEFINE r == Min(audit.todo)
           hashed == [q \in DOMAIN audit.hashed \cup {r} |->
                         IF q = r THEN shard[r] ELSE audit.hashed[q]]
<1>1. UNCHANGED <<board, manifest, index>>
  BY AuditFrame DEF shardVars, publication, files
<1>2. /\ audit.at = "shard" /\ ShardValid(r)
      /\ audit' = [audit EXCEPT !.at = "meta", !.todo = audit.todo \ {r}, !.hashed = hashed]
  BY DEF AuditShard
<1>3. audit.todo # {} /\ Audited.ok[r].ticks = Audited.ticks
  BY <1>2 DEF HashedInv, InChain
<1>4. /\ r \in audit.todo /\ r \in Replays /\ r \in DOMAIN Audited.ok
      /\ Audited.ok[r] \in Extractions
      /\ MatchesManifest(audit.manifest, Audited, audit.split)
      /\ Audited.ticks = audit.indexes["train"].ticks
  BY <1>2, <1>3, NextEntry
<1>5. DOMAIN hashed = DOMAIN audit.hashed \cup {r}
      /\ hashed[r] = shard[r] /\ \A q \in DOMAIN audit.hashed : q # r => hashed[q] = audit.hashed[q]
  OBVIOUS
<1>6. SamplesTellApart =>
         hashed[r] = [sel |-> Selection(audit.manifest.board.ranking, r),
                      ticks |-> audit.indexes["train"].ticks]
  <2> SUFFICES ASSUME SamplesTellApart
               PROVE  hashed[r] = [sel |-> Selection(audit.manifest.board.ranking, r),
                                   ticks |-> audit.indexes["train"].ticks]
    OBVIOUS
  <2>1. shard[r] \in Extractions /\ SamplesOf(shard[r]) = SamplesOf(Audited.ok[r])
    BY <1>2, <1>4 DEF ShardValid, ShardsInv, ShardsTypeOK
  <2>2. shard[r] = Audited.ok[r]
    BY <1>4, <2>1 DEF SamplesTellApart
  <2>3. Audited.ok[r].sel = Selection(audit.manifest.board.ranking, r)
    BY <1>4 DEF MatchesManifest
  <2>4. Audited.ok[r] = [sel |-> Audited.ok[r].sel, ticks |-> Audited.ok[r].ticks]
    BY <1>4 DEF Extractions
  <2> QED BY <1>3, <1>4, <1>5, <2>2, <2>3, <2>4
<1> HIDE DEF hashed, r
<1>7. /\ audit'.at = "meta" /\ audit'.manifest = audit.manifest
      /\ audit'.indexes = audit.indexes /\ audit'.split = audit.split
      /\ audit'.todo = audit.todo \ {r} /\ audit'.hashed = hashed
      /\ audit'.together = audit.together
  BY <1>2 DEF Audits
<1>8. ReadInv'
  BY <1>1, <1>2, <1>7 DEF ReadInv, InChain, Tracks, Superseded, PastBoard, MatchesManifest, Rows, Selection
<1>9. TogetherInv'
  BY <1>1, <1>2, <1>7 DEF TogetherInv, Superseded
<1>10. HashedInv'
  <2>1. SamplesTellApart => \A q \in DOMAIN hashed :
            hashed[q] = [sel |-> Selection(audit.manifest.board.ranking, q),
                         ticks |-> audit.indexes["train"].ticks]
    BY <1>2, <1>5, <1>6 DEF HashedInv, InChain
  <2>2. LET due(split) == DOMAIN audit.indexes[split].ok IN
        /\ audit.todo \subseteq due(audit.split)
        /\ due(audit.split) \subseteq audit.todo \cup DOMAIN audit.hashed
        /\ audit.split = "holdout" => due("train") \subseteq DOMAIN audit.hashed
    BY <1>2 DEF HashedInv, InChain
  <2> QED BY <1>5, <1>7, <2>1, <2>2 DEF HashedInv, InChain, SamplesTellApart, SamplesOf, Selection
<1>11. SourcesInv'
  BY <1>7 DEF SourcesInv, SourcesOfOneMoment
<1> QED BY <1>8, <1>9, <1>10, <1>11

\* An audit that goes over to the holdout split keeps the invariant: all train entries
\* have been hashed.
LEMMA NextSplitKeeps ==
    ASSUME ChainInv, AuditStep, ~Reject, ScanDirectory, audit.split # "holdout"
    PROVE  ReadInv' /\ TogetherInv' /\ HashedInv' /\ SourcesInv'
<1> USE DEF ChainInv
<1>1. UNCHANGED <<board, manifest, index>>
  BY AuditFrame DEF shardVars, publication, files
<1>2. /\ audit.at = "meta" /\ audit.todo = {} /\ audit.split = "train"
      /\ audit' = [audit EXCEPT !.split = "holdout",
                                !.todo = DOMAIN audit.indexes["holdout"].ok]
  BY AuditFacts DEF ScanDirectory, Splits
<1>3. /\ audit'.at = "meta" /\ audit'.manifest = audit.manifest
      /\ audit'.indexes = audit.indexes /\ audit'.split = "holdout"
      /\ audit'.todo = DOMAIN audit.indexes["holdout"].ok /\ audit'.hashed = audit.hashed
      /\ audit'.together = audit.together
  BY <1>2 DEF Audits
<1>4. ReadInv'
  <2>1. audit.at = "meta"
    BY <1>2
  <2> QED BY <1>1, <1>3, <2>1
          DEF ReadInv, InChain, Tracks, Superseded, PastBoard, MatchesManifest, Rows, Selection
<1>5. TogetherInv'
  BY <1>1, <1>2, <1>3 DEF TogetherInv, Superseded
<1>6. HashedInv'
  BY <1>2, <1>3 DEF HashedInv, InChain, SamplesTellApart, SamplesOf, Selection
<1>7. SourcesInv'
  BY <1>3 DEF SourcesInv, SourcesOfOneMoment
<1> QED BY <1>4, <1>5, <1>6, <1>7

\* The leaderboard is the one the manifest names only when it was so at the first read:
\* a newer leaderboard by then would still be newer.
LEMMA LeaderboardKeeps ==
    ASSUME ChainInv, AuditStep, ~Reject, ReadLeaderboard
    PROVE  ReadInv' /\ TogetherInv' /\ HashedInv' /\ SourcesInv'
<1> USE DEF ChainInv
<1>1. UNCHANGED <<board, manifest, index>>
  BY AuditFrame DEF shardVars, publication, files
<1>2. /\ audit.at = "leaderboard" /\ board = audit.manifest.board
      /\ audit'.at = "sources ok" /\ audit'.manifest = audit.manifest
      /\ audit'.hashed = audit.hashed /\ audit'.together = audit.together
  <2>1. Continue("sources ok") /\ audit.at = "leaderboard" /\ board = audit.manifest.board
    BY DEF ReadLeaderboard
  <2> QED BY <2>1, ContinueFacts
<1>3. audit.together
  <2>1. board \in Boards
    BY <1>2 DEF ReadInv, PastBoard
  <2>2. ~(board.stamp < board.stamp)
    BY <2>1, PublishedFacts
  <2> QED BY <1>2, <2>2 DEF SourcesInv
<1>4. ReadInv'
  BY <1>1, <1>2 DEF ReadInv, InChain, Tracks, Superseded, PastBoard
<1>5. HashedInv'
  BY <1>2 DEF HashedInv, InChain
<1> QED BY <1>2, <1>3, <1>4, <1>5 DEF TogetherInv, SourcesInv, SourcesOfOneMoment

-----------------------------------------------------------------------------
(* The invariant.                                                          *)

\* Nothing is published and nothing audited at first.
LEMMA ChainInvInit == ChainInit => ChainInv
<1> SUFFICES ASSUME ChainInit PROVE ChainInv
  OBVIOUS
<1>1. ShardsInv
  BY ShardsInvInit DEF ChainInit
<1>2. audit \in Audits /\ audit.at = "idle" /\ DOMAIN audit.hashed = {}
  BY NoAuditFacts DEF ChainInit
<1> QED BY <1>1, <1>2
        DEF ChainInv, ReadInv, TogetherInv, HashedInv, SourcesInv, SourcesOfOneMoment, InChain

\* Every step of the publisher, the builder and the auditors preserves the invariant.
LEMMA ChainInvStep == ChainInv /\ [ChainNext]_chainVars => ChainInv'
<1> SUFFICES ASSUME ChainInv, [ChainNext]_chainVars PROVE ChainInv'
  OBVIOUS
<1>1. CASE AuditStep
  <2>1. ShardsInv'
    BY <1>1, AuditFrame, ShardsInvStep DEF ChainInv
  <2>2. audit' \in Audits
    BY <1>1, AuditTyped
  <2>3. CASE Reject \/ StartChain \/ StartSources
    BY <1>1, <2>1, <2>2, <2>3, EndsKeep DEF ChainInv
  <2>4. CASE ~Reject /\ (ReadTrainIndex \/ ReadHoldoutIndex)
    BY <1>1, <2>1, <2>2, <2>4, IndexReadKeeps DEF ChainInv
  <2>5. CASE ~Reject /\ (AuditMeta \/ RecheckManifest \/ RecheckTrain \/ RecheckHoldout
                         \/ (ScanDirectory /\ audit.split = "holdout"))
    BY <1>1, <2>1, <2>2, <2>5, ContinueKeeps DEF ChainInv
  <2>6. CASE ~Reject /\ AuditShard
    BY <1>1, <2>1, <2>2, <2>6, ShardKeeps DEF ChainInv
  <2>7. CASE ~Reject /\ ScanDirectory /\ audit.split # "holdout"
    BY <1>1, <2>1, <2>2, <2>7, NextSplitKeeps DEF ChainInv
  <2>8. CASE ~Reject /\ ReadLeaderboard
    BY <1>1, <2>1, <2>2, <2>8, LeaderboardKeeps DEF ChainInv
  <2> QED BY <1>1, <2>3, <2>4, <2>5, <2>6, <2>7, <2>8 DEF AuditStep, Finish
<1>2. CASE [ShardsNext]_shardVars /\ audit' = audit
  <2>1. ShardsInv'
    BY <1>2, ShardsInvStep DEF ChainInv
  <2>2. audit' \in Audits
    BY <1>2 DEF ChainInv
  <2> QED BY <1>2, <2>1, <2>2, ReadKept, VerdictKept DEF ChainInv
<1> QED BY <1>1, <1>2 DEF ChainNext, chainVars

\* The inductive invariant of the published files, their builder and their auditors.
THEOREM ChainInvariant == ChainSpec => []ChainInv
BY ChainInvInit, ChainInvStep, PTL DEF ChainSpec

\* Every variable of the builder and of the auditors keeps its type.
THEOREM ChainTypes == ChainSpec => []ChainTypeOK
<1>1. ChainInv => ChainTypeOK
  BY DEF ChainInv, ShardsInv, ChainTypeOK
<1> QED BY <1>1, ChainInvariant, PTL

\* An index accounts for every replay its build was asked for (build_shards), whatever
\* failed, was reused or died on the way.
THEOREM IndexesAccount == ChainSpec => []IndexAccounts
<1>1. ChainInv => IndexAccounts
  BY DEF ChainInv, ShardsInv
<1> QED BY <1>1, ChainInvariant, PTL

\* What an index names can be loaded at any later time (load_shards).
THEOREM IndexesLoad == ChainSpec => []IndexLoadable
<1>1. ChainInv => IndexLoadable
  BY DEF ChainInv, ShardsInv
<1> QED BY <1>1, ChainInvariant, PTL

\* metrics.json is there only beside the whole model it describes (train_baseline).
THEOREM MetricsOfTheModel == ChainSpec => []MetricsDescribeModel
<1>1. ChainInv => MetricsDescribeModel
  BY DEF ChainInv, ShardsInv
<1> QED BY <1>1, ChainInvariant, PTL

\* A clean chain receipt names files that were current at one moment
\* (audit_training_chain), though nothing is locked.
THEOREM ChainReceipts == ChainSpec => []ChainOfOneMoment
<1>1. ChainInv => ChainOfOneMoment
  BY DEF ChainInv, TogetherInv, ChainOfOneMoment
<1> QED BY <1>1, ChainInvariant, PTL

\* A source receipt names a manifest and a leaderboard that were current at one moment
\* (audit_manifest_sources), though the manifest is read only once, and the finalizer
\* and the tick write it without a lock.
THEOREM SourceReceipts == ChainSpec => []SourcesOfOneMoment
<1>1. ChainInv => SourcesOfOneMoment
  BY DEF ChainInv, SourcesInv
<1> QED BY <1>1, ChainInvariant, PTL

\* Where the number of rows tells two extractions of the corpus apart, every shard of a
\* clean chain receipt was extracted for the selections of its manifest, at the cadence
\* of its index: of audit_shard_directory's checks, the row count is all there is.
THEOREM CleanShards == SamplesTellApart /\ ChainSpec => []CleanShardsAreTheManifests
<1>1. SamplesTellApart /\ ChainInv => CleanShardsAreTheManifests
  <2> SUFFICES ASSUME SamplesTellApart, ChainInv, audit.at = "chain clean",
                      NEW split \in Splits, NEW r \in DOMAIN audit.indexes[split].ok
               PROVE  /\ r \in DOMAIN audit.hashed
                      /\ audit.hashed[r] = [sel |-> Selection(audit.manifest.board.ranking, r),
                                            ticks |-> audit.indexes[split].ticks]
    BY DEF CleanShardsAreTheManifests
  <2>1. split \in {"train", "holdout"}
    BY DEF Splits
  <2>2. audit.indexes[split].ticks = audit.indexes["train"].ticks
    BY <2>1 DEF ChainInv, ReadInv, InChain
  <2>3. r \in DOMAIN audit.hashed
    BY <2>1 DEF ChainInv, HashedInv, InChain
  <2> QED BY <2>2, <2>3 DEF ChainInv, HashedInv, InChain
<1>2. SamplesTellApart => [](SamplesTellApart)
  <2>1. SamplesTellApart => SamplesTellApart'
    BY DEF SamplesTellApart, SamplesOf
  <2> QED BY <2>1, PTL
<1> QED BY <1>1, <1>2, ChainInvariant, PTL
==============================================================================
