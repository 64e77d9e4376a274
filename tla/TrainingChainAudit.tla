-------------------------- MODULE TrainingChainAudit --------------------------
(***************************************************************************)
(* The auditors of the published training evidence, read by read, beside   *)
(* the processes that publish it: the chain audit                          *)
(* (learning/training_chain_audit.py, shard_bundle_audit.py,               *)
(* shard_audit.py) follows the manifest into both shard directories, the   *)
(* source audit (learning/manifest_source_audit.py) back to the            *)
(* leaderboard.  They take no lock.                                        *)
(*                                                                         *)
(* An auditor lists every error it meets; here it stops at the first, the  *)
(* verdict being the same.  The indexes are re-read four times, the        *)
(* manifest twice; as no two publications have the same bytes, the last    *)
(* comparison implies the ones before it, and only that one is a step.     *)
(***************************************************************************)
EXTENDS ImitationShards

VARIABLE audit

chainVars == <<shardVars, audit>>

\* manifest, indexes: what has been read; todo: the entries left to audit in
\* the split; hashed: the shards whose bytes were hashed; together: whether the
\* three files were the current ones at one moment, which no auditor can see.
NoAudit == [at |-> "idle", manifest |-> None,
            indexes |-> [split \in Splits |-> None],
            split |-> "train", todo |-> {}, hashed |-> [r \in {} |-> None],
            together |-> FALSE]

ChainInit == ShardsInit /\ audit = NoAudit

Continue(at) == audit' = [audit EXCEPT !.at = at]

Reject == audit' = NoAudit

-----------------------------------------------------------------------------
(* audit_training_chain.                                                   *)

\* The manifest; one the publisher wrote passes the structural audit.
StartChain ==
    /\ audit.at = "idle"
    /\ manifest # None
    /\ audit' = [NoAudit EXCEPT !.at = "train index", !.manifest = manifest]
    /\ UNCHANGED shardVars

\* Faulty variant of MatchesManifest: only the identities are compared.
MatchesIdentities(m, i, split) ==
    DOMAIN i.ok \cup i.failed = Rows(m.board.ranking, split)

\* _compare_split: the requested replays are the manifest's, and every
\* extracted one carries the manifest's selection.
MatchesManifest(m, i, split) ==
    /\ DOMAIN i.ok \cup i.failed = Rows(m.board.ranking, split)
    /\ \A r \in DOMAIN i.ok : i.ok[r].sel = Selection(m.board.ranking, r)

ReadTrainIndex ==
    /\ audit.at = "train index"
    /\ LET i == index["train"] IN
       IF i = None \/ ~MatchesManifest(audit.manifest, i, "train") THEN Reject
       ELSE audit' = [audit EXCEPT !.at = "holdout index",
                                   !.indexes["train"] = i]
    /\ UNCHANGED shardVars

\* The bundle's comparisons come here too.
ReadHoldoutIndex ==
    /\ audit.at = "holdout index"
    /\ LET i == index["holdout"] IN
       IF \/ i = None
          \/ ~MatchesManifest(audit.manifest, i, "holdout")
          \/ i.ticks # audit.indexes["train"].ticks
       THEN Reject
       ELSE audit' = [audit EXCEPT
                        !.at = "meta",
                        !.indexes["holdout"] = i,
                        !.split = "train",
                        !.todo = DOMAIN audit.indexes["train"].ok,
                        !.together = /\ manifest = audit.manifest
                                     /\ index["train"] = audit.indexes["train"]]
    /\ UNCHANGED shardVars

-----------------------------------------------------------------------------
(* audit_shard_directory, for the train and then for the holdout split.    *)

Audited == audit.indexes[audit.split]

\* _validate_meta: the metadata is the index's entry, at the index's cadence,
\* with at least one row.
MetaValid(r) ==
    /\ meta[r] # None
    /\ meta[r] = Audited.ok[r]
    /\ meta[r].ticks = Audited.ticks
    /\ SamplesOf(meta[r]) >= 1

AuditMeta ==
    /\ audit.at = "meta" /\ audit.todo # {}
    /\ IF MetaValid(Min(audit.todo)) THEN Continue("shard") ELSE Reject
    /\ UNCHANGED shardVars

\* _inspect_gzip_shard_at: as many rows as the metadata says.
ShardValid(r) ==
    /\ shard[r] # None
    /\ SamplesOf(shard[r]) = SamplesOf(Audited.ok[r])

AuditShard ==
    /\ audit.at = "shard"
    /\ LET r == Min(audit.todo) IN
       IF ShardValid(r)
       THEN audit' = [audit EXCEPT
                        !.at = "meta",
                        !.todo = audit.todo \ {r},
                        !.hashed = [q \in DOMAIN audit.hashed \cup {r} |->
                                      IF q = r THEN shard[r] ELSE audit.hashed[q]]]
       ELSE Reject
    /\ UNCHANGED shardVars

\* The files the index does not know: orphans and temporary files.
Unexpected(split) ==
    {r \in OfSplit(split) :
        \/ r \notin DOMAIN audit.indexes[split].ok
           /\ (shard[r] # None \/ meta[r] # None)
        \/ r \in litter \cup InStage("extracting")}

ScanDirectory ==
    /\ audit.at = "meta" /\ audit.todo = {}
    /\ IF Unexpected(audit.split) # {} THEN Reject
       ELSE IF audit.split = "holdout" THEN Continue("manifest again")
       ELSE audit' = [audit EXCEPT !.split = "holdout",
                                   !.todo = DOMAIN audit.indexes["holdout"].ok]
    /\ UNCHANGED shardVars

-----------------------------------------------------------------------------
(* The last reads of audit_training_chain, and its receipt.                *)

\* Faulty variant of RecheckManifest: the manifest is not read again.
SkipManifest ==
    /\ audit.at = "manifest again"
    /\ Continue("train index again")
    /\ UNCHANGED shardVars

RecheckManifest ==
    /\ audit.at = "manifest again"
    /\ IF manifest = audit.manifest THEN Continue("train index again") ELSE Reject
    /\ UNCHANGED shardVars

RecheckTrain ==
    /\ audit.at = "train index again"
    /\ IF index["train"] = audit.indexes["train"]
       THEN Continue("holdout index again") ELSE Reject
    /\ UNCHANGED shardVars

RecheckHoldout ==
    /\ audit.at = "holdout index again"
    /\ IF index["holdout"] = audit.indexes["holdout"]
       THEN Continue("chain clean") ELSE Reject
    /\ UNCHANGED shardVars

-----------------------------------------------------------------------------
(* audit_manifest_sources.                                                 *)

StartSources ==
    /\ audit.at = "idle"
    /\ manifest # None
    /\ audit' = [NoAudit EXCEPT !.at = "leaderboard", !.manifest = manifest,
                                !.together = board = manifest.board]
    /\ UNCHANGED shardVars

\* Faulty variant of ReadLeaderboard: the selection is recomputed, the bytes are not
\* compared.
ReadSelection ==
    /\ audit.at = "leaderboard"
    /\ IF board.ranking = audit.manifest.board.ranking
       THEN Continue("sources ok") ELSE Reject
    /\ UNCHANGED shardVars

\* The leaderboard must have the bytes the manifest recorded; the selection
\* recomputed from it is then the manifest's.  The analyses it names are taken
\* as unchanged.
ReadLeaderboard ==
    /\ audit.at = "leaderboard"
    /\ IF board = audit.manifest.board
       THEN Continue("sources ok") ELSE Reject
    /\ UNCHANGED shardVars

\* The receipt has been printed.
Finish ==
    /\ audit.at \in {"chain clean", "sources ok"}
    /\ Reject
    /\ UNCHANGED shardVars

-----------------------------------------------------------------------------
AuditStep ==
    \/ StartChain \/ ReadTrainIndex \/ ReadHoldoutIndex
    \/ AuditMeta \/ AuditShard \/ ScanDirectory
    \/ RecheckManifest \/ RecheckTrain \/ RecheckHoldout
    \/ StartSources \/ ReadLeaderboard \/ Finish

ChainNext == (ShardsNext /\ UNCHANGED audit) \/ AuditStep

ChainSpec == ChainInit /\ [][ChainNext]_chainVars

-----------------------------------------------------------------------------
(* Properties.                                                             *)

Audits ==
    [at : {"idle", "train index", "holdout index", "meta", "shard", "manifest again",
           "train index again", "holdout index again", "chain clean", "leaderboard",
           "sources ok"},
     manifest : Manifests \cup {None},
     indexes : [Splits -> Indexes \cup {None}],
     split : Splits, todo : SUBSET Replays, hashed : Results, together : BOOLEAN]

ChainTypeOK == ShardsTypeOK /\ audit \in Audits

\* A clean chain receipt names a manifest and two indexes that were the
\* published ones at one moment, however they are replaced during the audit.
ChainOfOneMoment == audit.at = "chain clean" => audit.together

\* A source receipt names a manifest and a leaderboard that were the published
\* ones at one moment, that of the first read, though the manifest is not read
\* again and the tick may have written it long after its leaderboard: no
\* leaderboard comes back.
SourcesOfOneMoment == audit.at = "sources ok" => audit.together

\* Every shard a clean chain receipt vouches for was extracted for the players
\* its manifest selects, at the cadence of the index, though the builder reuses
\* shards without asking for whom they were made and may die between a shard
\* and its metadata: where the number of rows tells two extractions apart.
CleanShardsAreTheManifests ==
    audit.at = "chain clean" =>
       \A split \in Splits : \A r \in DOMAIN audit.indexes[split].ok :
          /\ r \in DOMAIN audit.hashed
          /\ audit.hashed[r] = [sel |-> Selection(audit.manifest.board.ranking, r),
                                ticks |-> audit.indexes[split].ticks]

-----------------------------------------------------------------------------
(* The inductive invariant (TrainingChainAudit_proofs).                    *)

\* A file that was read is the current one, or a newer one is.
Superseded(read, current) == current # None /\ read.stamp < current.stamp
Tracks(read, current) == current = read \/ Superseded(read, current)

InChain == {"meta", "shard", "manifest again", "train index again",
            "holdout index again", "chain clean"}

\* What has been read was current once, and fits together.
ReadInv ==
    /\ audit.at # "idle" =>
          /\ audit.manifest # None
          /\ Tracks(audit.manifest, manifest)
          /\ PastBoard(audit.manifest.board)
    /\ audit.at \in InChain \cup {"holdout index"} =>
          LET i == audit.indexes["train"] IN
          i # None /\ Tracks(i, index["train"]) /\ MatchesManifest(audit.manifest, i, "train")
    /\ audit.at \in InChain =>
          LET i == audit.indexes["holdout"] IN
          /\ i # None /\ MatchesManifest(audit.manifest, i, "holdout")
          /\ i.ticks = audit.indexes["train"].ticks

\* An audit whose files were not current together will meet a newer one.
TogetherInv ==
    /\ audit.at \in {"meta", "shard", "manifest again"} =>
          \/ audit.together
          \/ Superseded(audit.manifest, manifest)
          \/ Superseded(audit.indexes["train"], index["train"])
    /\ audit.at = "train index again" =>
          audit.together \/ Superseded(audit.indexes["train"], index["train"])
    /\ audit.at \in {"holdout index again", "chain clean"} => audit.together

\* A source audit that began with an older leaderboard's manifest meets a newer
\* leaderboard.
SourcesInv ==
    /\ audit.at = "leaderboard" =>
          audit.together \/ audit.manifest.board.stamp < board.stamp
    /\ SourcesOfOneMoment

\* The shards hashed so far were the manifest's, where the number of rows tells two
\* extractions apart, and the others are still to be hashed.
SamplesTellApart ==
    \A x, y \in Extractions : SamplesOf(x) = SamplesOf(y) => x = y

HashedInv ==
    /\ audit.at \notin InChain => DOMAIN audit.hashed = {}
    /\ audit.at \in InChain =>
          LET due(split) == DOMAIN audit.indexes[split].ok IN
          /\ audit.todo \subseteq due(audit.split)
          /\ due(audit.split) \subseteq audit.todo \cup DOMAIN audit.hashed
          /\ audit.split = "holdout" => due("train") \subseteq DOMAIN audit.hashed
          /\ audit.at \notin {"meta", "shard"} => audit.split = "holdout" /\ audit.todo = {}
          /\ audit.at = "shard" =>
                audit.todo # {} /\ Audited.ok[Min(audit.todo)].ticks = Audited.ticks
          /\ SamplesTellApart => \A r \in DOMAIN audit.hashed :
                audit.hashed[r] = [sel |-> Selection(audit.manifest.board.ranking, r),
                                   ticks |-> audit.indexes["train"].ticks]

ChainInv ==
    /\ ShardsInv /\ audit \in Audits /\ ReadInv /\ TogetherInv /\ HashedInv
    /\ SourcesInv
=============================================================================
