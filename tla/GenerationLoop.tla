---------------------------- MODULE GenerationLoop ----------------------------
(***************************************************************************)
(* The generation executor (research/generation_loop.py), which the        *)
(* autonomy tick starts once a minute under a lock: it preregisters the    *)
(* next generation, trains one candidate, compares it with the champion,   *)
(* promotes or rejects it and rolls over.  Each file it keeps is a         *)
(* variable, each write of a file is a step, and between any two steps the *)
(* process may die, a write may raise, or the analyzer's finalizer may     *)
(* replace the training manifest.                                          *)
(*                                                                         *)
(* Generation 0 is the bootstrap baseline.  Rates are in thousandths.      *)
(***************************************************************************)
EXTENDS Integers, Sequences

CONSTANTS Metrics,      \* holdout snapshots training may produce, as records
                        \* [direction, joint, kick] of rates
          Baseline,     \* the snapshot of the bootstrap baseline
          None,         \* an absent file, record or generation
          MaxPerTick,   \* --max-generations-per-tick
          LastGen,      \* bound: generations numbered up to LastGen
          MaxCrashes,   \* bound: deaths of the process
          MaxErrors,    \* bound: exceptions raised by a write or by training
          MaxRewrites   \* bound: manifests the finalizer publishes

Gens == 1..LastGen

\* The champions, preregistrations and ledger records.
Models == [id : 0..LastGen, metrics : Metrics]
Preregs == [parent : 0..LastGen, manifest : Nat]
Records == [generation : Gens, parent : 0..LastGen, promoted : BOOLEAN]

ASSUME LoopAssumption ==
    /\ Metrics \subseteq [direction : 0..1000, joint : 0..1000, kick : 0..1000]
    /\ Baseline \in Metrics
    /\ MaxPerTick \in Nat \ {0}
    /\ LastGen \in Nat \ {0}
    /\ MaxCrashes \in Nat /\ MaxErrors \in Nat /\ MaxRewrites \in Nat
    /\ None \notin Nat \union Metrics \union Models \union Preregs \union Records

VARIABLES
    \* files
    manifest,     \* which training manifest is published: its sha256
    saved,        \* generation-state.json
    pointer,      \* champions/champion.json
    archived,     \* the generations with a champions/champion-gen-N.json
    prereg,       \* generations/gen-N/preregistration.json
    metrics,      \* generations/gen-N/metrics.json
    inventory,    \* the generations with a failure-inventory.json
    ledger,       \* generation-ledger.jsonl
    status,       \* the action last written to autonomy-status.json
    \* the running process
    pc,
    mem,          \* the state dictionary
    result,       \* the record of the generation under way
    left,         \* iterations of run() still to come
    crashes, errors

files == <<manifest, saved, pointer, archived, prereg, metrics, inventory,
           ledger, status>>
bounds == <<crashes, errors>>
vars == <<files, pc, mem, result, left, bounds>>

Bootstrap == [id |-> 0, metrics |-> Baseline]

Fresh == [champion |-> None, manifest |-> 0, next |-> 1, active |-> None]

Init ==
    /\ manifest = 0
    /\ saved = Fresh
    /\ pointer = None
    /\ archived = {}
    /\ prereg = [g \in Gens |-> None]
    /\ metrics = [g \in Gens |-> None]
    /\ inventory = {}
    /\ ledger = <<>>
    /\ status = "none"
    /\ pc = "idle" /\ mem = Fresh /\ result = None /\ left = 0
    /\ crashes = 0 /\ errors = 0

-----------------------------------------------------------------------------
(* evaluate_candidate, with the thresholds of its defaults.                *)

CompositeScore(m) == 70 * m.joint + 30 * m.kick

\* Faulty variant of Promoted: the regression limits are forgotten.
PromotedOnScore(candidate, champion) ==
    CompositeScore(candidate) >= CompositeScore(champion) + 100

Regressed(candidate, champion) ==
    \/ candidate.direction < champion.direction - 20
    \/ candidate.kick < champion.kick - 50

Promoted(candidate, champion) ==
    /\ CompositeScore(candidate) >= CompositeScore(champion) + 100
    /\ ~Regressed(candidate, champion)

\* The generation execute_one works on.
Current == IF mem.active # None THEN mem.active ELSE mem.next

Champion(g) == [id |-> g, metrics |-> metrics[g]]

-----------------------------------------------------------------------------
(* initialize().                                                           *)

\* A saved champion is accepted only with the manifest it was chosen under;
\* otherwise the RuntimeError ends the process and the tick.
StartRun ==
    /\ pc = "idle"
    /\ saved.next \in Gens
    /\ mem' = saved
    /\ left' = MaxPerTick
    /\ \/ /\ saved.champion = None
          /\ pc' = "bootstrap"
       \/ /\ saved.champion # None
          /\ saved.manifest = manifest
          /\ pc' = "preregister"
    /\ UNCHANGED <<files, result, bounds>>

BootstrapPointer ==
    /\ pc = "bootstrap"
    /\ pointer' = Bootstrap
    /\ pc' = "bootsave"
    /\ UNCHANGED <<manifest, saved, archived, prereg, metrics, inventory,
                   ledger, status, mem, result, left, bounds>>

BootstrapSave ==
    /\ pc = "bootsave"
    /\ mem' = [champion |-> Bootstrap, manifest |-> manifest, next |-> 1,
               active |-> None]
    /\ saved' = mem'
    /\ pc' = "preregister"
    /\ UNCHANGED <<manifest, pointer, archived, prereg, metrics, inventory,
                   ledger, status, result, left, bounds>>

-----------------------------------------------------------------------------
(* execute_one().                                                          *)

\* Faulty variant of PreregMatches: the parent champion is not compared.
PreregSameManifest(g) == prereg[g].manifest = manifest

\* Faulty variant of PreregMatches: a generation that was activated before
\* the process died is not taken up again.
PreregUnstarted(g) ==
    /\ mem.active = None
    /\ prereg[g].parent = mem.champion.id
    /\ prereg[g].manifest = manifest

\* preregistration_issues finds nothing.
PreregMatches(g) ==
    /\ prereg[g].parent = mem.champion.id
    /\ prereg[g].manifest = manifest

Preregister ==
    /\ pc = "preregister"
    /\ LET g == Current IN
       IF prereg[g] = None
       THEN /\ prereg' = [prereg EXCEPT ![g] =
                            [parent |-> mem.champion.id, manifest |-> manifest]]
            /\ pc' = "activate"
       ELSE /\ UNCHANGED prereg
            /\ pc' = IF PreregMatches(g) THEN "activate" ELSE "handler"
    /\ UNCHANGED <<manifest, saved, pointer, archived, metrics, inventory,
                   ledger, status, mem, result, left, bounds>>

\* Faulty variant of Activate: training starts before the state is saved.
ActivateInMemory ==
    /\ pc = "activate"
    /\ mem' = [mem EXCEPT !.active = Current]
    /\ status' = "train_generation"
    /\ pc' = "train"
    /\ UNCHANGED <<manifest, saved, pointer, archived, prereg, metrics, inventory,
                   ledger, result, left, bounds>>

Activate ==
    /\ pc = "activate"
    /\ mem' = [mem EXCEPT !.active = Current]
    /\ saved' = mem'
    /\ status' = "train_generation"
    /\ pc' = "train"
    /\ UNCHANGED <<manifest, pointer, archived, prereg, metrics, inventory,
                   ledger, result, left, bounds>>

\* Faulty variant of Train: a candidate already trained is trained again.
TrainAgain ==
    /\ pc = "train"
    /\ \E m \in Metrics : metrics' = [metrics EXCEPT ![mem.active] = m]
    /\ pc' = "decide"
    /\ UNCHANGED <<manifest, saved, pointer, archived, prereg, inventory,
                   ledger, status, mem, result, left, bounds>>

\* run_training, unless a metrics.json is there from an earlier attempt.
Train ==
    /\ pc = "train"
    /\ IF metrics[mem.active] = None
       THEN \E m \in Metrics : metrics' = [metrics EXCEPT ![mem.active] = m]
       ELSE UNCHANGED metrics
    /\ pc' = "decide"
    /\ UNCHANGED <<manifest, saved, pointer, archived, prereg, inventory,
                   ledger, status, mem, result, left, bounds>>

\* The record of the generation, with the champion it is compared with.
Result(promoted) ==
    [generation |-> mem.active, parent |-> mem.champion.id, promoted |-> promoted]

Reject ==
    /\ pc = "decide"
    /\ ~Promoted(metrics[mem.active], mem.champion.metrics)
    /\ result' = Result(FALSE)
    /\ inventory' = inventory \union {mem.active}
    /\ status' = "generation_rejected"
    /\ pc' = "ledger"
    /\ UNCHANGED <<manifest, saved, pointer, archived, prereg, metrics, ledger,
                   mem, left, bounds>>

Promote ==
    /\ pc = "decide"
    /\ Promoted(metrics[mem.active], mem.champion.metrics)
    /\ result' = Result(TRUE)
    /\ archived' = archived \union {mem.active}
    /\ pc' = "publish"
    /\ UNCHANGED <<manifest, saved, pointer, prereg, metrics, inventory, ledger,
                   status, mem, left, bounds>>

\* Faulty variant of PublishChampion: the champion in memory stays.
PublishPointerOnly ==
    /\ pc = "publish"
    /\ pointer' = Champion(mem.active)
    /\ status' = "generation_promoted"
    /\ pc' = "ledger"
    /\ UNCHANGED <<manifest, saved, archived, prereg, metrics, inventory,
                   ledger, mem, result, left, bounds>>

\* champion.json is replaced, then the champion in memory, then the status.
PublishChampion ==
    /\ pc = "publish"
    /\ pointer' = Champion(mem.active)
    /\ mem' = [mem EXCEPT !.champion = pointer']
    /\ status' = "generation_promoted"
    /\ pc' = "ledger"
    /\ UNCHANGED <<manifest, saved, archived, prereg, metrics, inventory,
                   ledger, result, left, bounds>>

AppendLedger ==
    /\ pc = "ledger"
    /\ ledger' = Append(ledger, result)
    /\ pc' = "commit"
    /\ UNCHANGED <<manifest, saved, pointer, archived, prereg, metrics,
                   inventory, status, mem, result, left, bounds>>

Commit ==
    /\ pc = "commit"
    /\ mem' = [mem EXCEPT !.next = mem.active + 1, !.active = None]
    /\ saved' = mem'
    /\ result' = None
    /\ left' = left - 1
    /\ pc' = IF left' > 0 /\ mem'.next \in Gens THEN "preregister" ELSE "idle"
    /\ UNCHANGED <<manifest, pointer, archived, prereg, metrics, inventory,
                   ledger, status, bounds>>

-----------------------------------------------------------------------------
(* Failures, and the except clause of run().                               *)

\* An exception inside execute_one; what it had changed in memory stays, and
\* a record whose fsync fails may be in the ledger.
RaiseError ==
    /\ errors < MaxErrors
    /\ pc \in {"preregister", "activate", "train", "decide", "publish", "ledger",
               "commit"}
    /\ errors' = errors + 1
    /\ pc' = "handler"
    /\ mem' = CASE pc = "activate" -> [mem EXCEPT !.active = Current]
                [] pc = "commit" -> [mem EXCEPT !.next = mem.active + 1,
                                                !.active = None]
                [] OTHER -> mem
    /\ \/ UNCHANGED ledger
       \/ pc = "ledger" /\ ledger' = Append(ledger, result)
    /\ UNCHANGED <<manifest, saved, pointer, archived, prereg, metrics,
                   inventory, status, result, left, crashes>>

\* With an active generation the dictionary is saved as it is; without one,
\* state.get("active", {}) is None and the clause itself raises.
HandleError ==
    /\ pc = "handler"
    /\ IF mem.active # None
       THEN saved' = mem /\ status' = "generation_failed"
       ELSE UNCHANGED <<saved, status>>
    /\ pc' = "idle"
    /\ mem' = Fresh /\ result' = None /\ left' = 0
    /\ UNCHANGED <<manifest, pointer, archived, prereg, metrics, inventory,
                   ledger, bounds>>

Crash ==
    /\ pc # "idle"
    /\ crashes < MaxCrashes
    /\ crashes' = crashes + 1
    /\ pc' = "idle"
    /\ mem' = Fresh /\ result' = None /\ left' = 0
    /\ UNCHANGED <<files, errors>>

\* finalize_analysis_if_ready writes a manifest with another sha256.
RewriteManifest ==
    /\ manifest < MaxRewrites
    /\ manifest' = manifest + 1
    /\ UNCHANGED <<saved, pointer, archived, prereg, metrics, inventory, ledger,
                   status, pc, mem, result, left, bounds>>

ExecutorStep ==
    \/ StartRun \/ BootstrapPointer \/ BootstrapSave
    \/ Preregister \/ Activate \/ Train \/ Reject \/ Promote \/ PublishChampion
    \/ AppendLedger \/ Commit \/ HandleError

Next == ExecutorStep \/ RaiseError \/ Crash \/ RewriteManifest

Spec == Init /\ [][Next]_vars

\* The timer starts the executor again a minute after it ended.
FairSpec == Spec /\ WF_vars(ExecutorStep)

-----------------------------------------------------------------------------
(* Properties.                                                             *)

Champions == Models \union {None}

States == [champion : Champions, manifest : Nat, next : 1..LastGen + 1,
           active : Gens \union {None}]

TypeOK ==
    /\ manifest \in Nat
    /\ saved \in States /\ mem \in States
    /\ pointer \in Champions
    /\ archived \subseteq Gens /\ inventory \subseteq Gens
    /\ prereg \in [Gens -> Preregs \union {None}]
    /\ metrics \in [Gens -> Metrics \union {None}]
    /\ ledger \in Seq(Records)
    /\ status \in {"none", "train_generation", "generation_rejected",
                   "generation_promoted", "generation_failed"}
    /\ pc \in {"idle", "bootstrap", "bootsave", "preregister", "activate", "train",
               "decide", "publish", "ledger", "commit", "handler"}
    /\ result \in Records \union {None}
    /\ left \in Nat /\ crashes \in Nat /\ errors \in Nat

\* A new durable champion has a better score than the one it replaces, and
\* gives up at most 2 points of direction accuracy and 5 of kick F1: no crash,
\* retry or error handler puts an unevaluated or a regressed model in place.
ChampionRatchet ==
    [][LET old == saved.champion  new == saved'.champion IN
          old # None /\ new # old =>
              /\ CompositeScore(new.metrics) > CompositeScore(old.metrics)
              /\ new.metrics.direction >= old.metrics.direction - 20
              /\ new.metrics.kick >= old.metrics.kick - 50]_vars

\* champion.json, which the live bot reads, is the champion of the saved state
\* or the candidate of its active generation, never one that a crash orphaned.
PointerAccounted ==
    pointer # None /\ saved.champion # None =>
        \/ pointer = saved.champion
        \/ /\ saved.active # None
           /\ pointer = Champion(saved.active)
           /\ prereg[saved.active].parent = saved.champion.id

\* The ledger is one lineage: a record repeats its predecessor, after a crash
\* between the append and the save, or is the next generation, compared with
\* the champion that its predecessor left.
Heir(record) == IF record.promoted THEN record.generation ELSE record.parent

LedgerIsALineage ==
    /\ ledger # <<>> => ledger[1].generation = 1 /\ ledger[1].parent = 0
    /\ \A i \in 2..Len(ledger) :
          \/ ledger[i] = ledger[i - 1]
          \/ /\ ledger[i].generation = ledger[i - 1].generation + 1
             /\ ledger[i].parent = Heir(ledger[i - 1])

\* Once the generation of the last record is over, the saved champion is the
\* one that this record left, until the next generation itself is promoted.
StateFollowsLedger ==
    ledger # <<>> =>
        LET last == ledger[Len(ledger)] IN
        /\ saved.next \in {last.generation, last.generation + 1}
        /\ saved.next = last.generation + 1 =>
              saved.champion.id = Heir(last) \/ saved.champion.id = saved.active

\* Whenever the process dies, the generation under way is taken up again and
\* completed, unless an exception was handled or the manifest was replaced.
RollsOver ==
    \A g \in Gens :
        saved.next = g ~> saved.next = g + 1 \/ errors > 0 \/ manifest > 0

\* A generation that was reported as FAILED_RETRYABLE is completed by a retry
\* when no more errors happen.
FailedIsRetryable ==
    \A g \in Gens :
        status = "generation_failed" /\ saved.active = g ~> saved.next = g + 1

-----------------------------------------------------------------------------
(* The inductive invariant (GenerationLoop_proofs).                        *)

LastRecord == ledger[Len(ledger)]

\* The decision about the active generation of a state, and the record of it.
Wins(s) == Promoted(metrics[s.active], s.champion.metrics)
Verdict(s) == [generation |-> s.active, parent |-> s.champion.id, promoted |-> Wins(s)]

\* What an exception between the promotion and the record leaves behind.
HalfDone(s) == s.champion.id = s.next

\* Before the bootstrap is saved, nothing else is.
UnbornInv ==
    saved.champion = None =>
        /\ saved = Fresh /\ ledger = <<>>
        /\ \A g \in Gens : prereg[g] = None /\ metrics[g] = None

\* The saved state against the files of the generations: later ones have none, and
\* the files of the next one were made with its champion as the parent.
SavedInv ==
    saved.champion # None =>
        /\ saved.active \in {None, saved.next}
        /\ saved.active # None => saved.active \in Gens /\ prereg[saved.active] # None
        /\ saved.champion.id <= saved.next
        /\ \A g \in Gens : g > saved.next => prereg[g] = None /\ metrics[g] = None
        /\ \A g \in Gens : g = saved.next /\ metrics[g] # None => saved.active = g
        /\ \A g \in Gens : g = saved.next /\ prereg[g] # None =>
              IF HalfDone(saved) THEN prereg[g].parent < g
                                 ELSE prereg[g].parent = saved.champion.id
        /\ HalfDone(saved) => saved.active = saved.next /\ metrics[saved.active] # None

\* The saved state against the ledger: its last record is that of the generation
\* before the next one, or already that of the active one.
FollowsInv ==
    saved.champion # None =>
        IF ledger = <<>>
        THEN saved.next = 1 /\ (saved.champion.id = 0 \/ HalfDone(saved))
        ELSE \/ /\ LastRecord.generation + 1 = saved.next
                /\ saved.champion.id = Heir(LastRecord) \/ HalfDone(saved)
             \/ /\ LastRecord.generation = saved.next
                /\ saved.active = saved.next
                /\ metrics[saved.active] # None
                /\ LastRecord = Verdict(saved) \/ HalfDone(saved)

\* champion.json against the saved state.
PointerInv ==
    saved.champion # None =>
        \/ pointer = saved.champion
        \/ /\ saved.active # None /\ ~HalfDone(saved)
           /\ metrics[saved.active] # None
           /\ Wins(saved)
           /\ pointer = Champion(saved.active)

\* The state in memory once the candidate has won or lost.
Decided == IF Wins(saved) THEN [saved EXCEPT !.champion = Champion(saved.active)]
                          ELSE saved

\* The state in memory against the saved one, step by step.
RunningInv ==
    /\ pc \in {"bootstrap", "bootsave"} => saved.champion = None
    /\ pc = "bootsave" => pointer = Bootstrap
    /\ pc \notin {"idle", "bootstrap", "bootsave"} => saved.champion # None
    /\ pc \in {"preregister", "activate", "train", "decide", "publish"} =>
          mem = saved /\ saved.next \in Gens
    /\ pc \in {"activate", "train", "decide", "publish", "ledger", "commit"} =>
          ~HalfDone(saved) /\ saved.next \in Gens /\ prereg[saved.next] # None
    /\ pc \in {"train", "decide", "publish", "ledger", "commit"} =>
          saved.active = saved.next
    /\ pc \in {"decide", "publish", "ledger", "commit"} => metrics[saved.active] # None
    /\ pc \in {"publish", "ledger", "commit"} => result = Verdict(saved)
    /\ pc = "publish" => Wins(saved)
    /\ pc \in {"ledger", "commit"} =>
          mem = Decided /\ (Wins(saved) => pointer = Champion(saved.active))
    /\ pc = "commit" => ledger # <<>> /\ LastRecord = result
    /\ pc \notin {"idle", "handler"} => left > 0

\* The state that the except clause would save.
HandlerInv ==
    pc = "handler" /\ mem.active # None =>
        \/ mem = saved
        \/ /\ saved.active = None /\ saved.next \in Gens
           /\ prereg[saved.next] # None /\ ~HalfDone(saved)
           /\ mem = [saved EXCEPT !.active = saved.next]
        \/ /\ saved.active = saved.next /\ metrics[saved.active] # None
           /\ ~HalfDone(saved) /\ Wins(saved)
           /\ mem = Decided
           /\ pointer = Champion(saved.active)

IInv ==
    /\ TypeOK /\ UnbornInv /\ SavedInv /\ FollowsInv /\ PointerInv /\ RunningInv
    /\ HandlerInv /\ LedgerIsALineage
=============================================================================
