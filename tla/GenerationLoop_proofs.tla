------------------------- MODULE GenerationLoop_proofs -------------------------
(***************************************************************************)
(* Proofs about GenerationLoop: IInv is inductive, and the safety          *)
(* properties follow from it for every set of snapshots, every number of   *)
(* generations, crashes, exceptions and new manifests.                     *)
(***************************************************************************)
EXTENDS GenerationLoop, TLAPS

\* Rates are numbers.
LEMMA MetricFacts ==
    ASSUME NEW x \in Metrics
    PROVE  x.direction \in Int /\ x.joint \in Int /\ x.kick \in Int
<1>1. x.direction \in 0..1000
  BY LoopAssumption
<1>2. x.joint \in 0..1000
  BY LoopAssumption
<1>3. x.kick \in 0..1000
  BY LoopAssumption
<1>4. x.direction \in Int
  BY <1>1
<1>5. x.joint \in Int
  BY <1>2
<1>6. x.kick \in Int
  BY <1>3
<1> QED BY <1>4, <1>5, <1>6

USE DEF Gens

-----------------------------------------------------------------------------
(* Facts about the constants and the state.                                *)

\* The mark for an absent file is none of the things a file holds.
LEMMA NoneFacts ==
    /\ None \notin Nat /\ None \notin Metrics /\ None \notin Models
    /\ None \notin Preregs /\ None \notin Records
    /\ LastGen \in Nat /\ LastGen >= 1 /\ MaxPerTick \in Nat /\ MaxPerTick >= 1
    /\ Baseline \in Metrics
BY LoopAssumption DEF Gens

\* The state of the bootstrap and the one before it are states.
LEMMA InitialStates ==
    /\ Fresh \in States /\ Bootstrap \in Models
    /\ \A n \in Nat : [champion |-> Bootstrap, manifest |-> n, next |-> 1,
                       active |-> None] \in States
BY NoneFacts DEF Fresh, States, Champions, Bootstrap, Models

\* Whatever is in the saved state or in memory has its type.
LEMMA StateFacts ==
    ASSUME NEW s \in States
    PROVE  /\ s.champion \in Models \/ s.champion = None
           /\ s.champion # None => s.champion.id \in 0..LastGen
                                     /\ s.champion.metrics \in Metrics
           /\ s.next \in 1..LastGen + 1 /\ s.manifest \in Nat
           /\ s.active \in Gens \/ s.active = None
           /\ s = [champion |-> s.champion, manifest |-> s.manifest,
                   next |-> s.next, active |-> s.active]
BY DEF States, Champions, Models

\* The generation execute_one works on, at any step of it.
LEMMA CurrentFacts ==
    ASSUME TypeOK, RunningInv, SavedInv,
           pc \in {"preregister", "activate", "train", "decide", "publish"}
    PROVE  /\ Current = saved.next /\ Current \in Gens
           /\ mem = saved /\ mem.champion \in Models
BY NoneFacts, StateFacts DEF TypeOK, RunningInv, SavedInv, Current

\* The generation that was decided is the active one.
LEMMA DecidedFacts ==
    ASSUME TypeOK, RunningInv, SavedInv, pc \in {"ledger", "commit"}
    PROVE  /\ mem.active = saved.next /\ mem.next = saved.next /\ mem.active \in Gens
           /\ mem.champion \in Models /\ mem = Decided
           /\ saved.champion \in Models
           /\ result \in Records /\ left > 0
<1>1. mem = Decided /\ saved.active = saved.next /\ saved.next \in Gens
      /\ saved.champion # None /\ metrics[saved.active] # None
      /\ result = Verdict(saved)
  BY DEF RunningInv
<1>2. saved \in States /\ mem \in States /\ result \in Records \union {None}
  BY DEF TypeOK
<1>3. mem.active = saved.active /\ mem.next = saved.next /\ mem.champion # None
  <2>1. CASE Wins(saved)
    <3>1. mem = [saved EXCEPT !.champion = Champion(saved.active)]
      BY <1>1, <2>1 DEF Decided
    <3>2. metrics[saved.active] \in Metrics
      BY <1>1 DEF TypeOK
    <3>3. Champion(saved.active) \in Models
      BY <1>1, <3>2, NoneFacts DEF Champion, Models
    <3> QED BY <1>2, <3>1, <3>3, NoneFacts, StateFacts DEF States
  <2>2. CASE ~Wins(saved)
    BY <1>1, <2>2 DEF Decided
  <2> QED BY <2>1, <2>2
<1>4. result # None
  <2>1. Verdict(saved).generation = saved.active
    BY DEF Verdict
  <2>2. Wins(saved) \in BOOLEAN
    BY DEF Wins, Promoted
  <2>3. Verdict(saved) \in Records
    BY <1>1, <1>2, <2>2, StateFacts DEF Verdict, Records
  <2> QED BY <1>1, <2>3, NoneFacts
<1> QED BY <1>1, <1>2, <1>3, <1>4, StateFacts DEF RunningInv, Champions, States

-----------------------------------------------------------------------------
(* The inductive invariant.                                                *)

\* It holds before anything was started.
LEMMA InitInv == Init => IInv
<1> SUFFICES ASSUME Init PROVE IInv
  OBVIOUS
<1>1. saved = Fresh /\ mem = Fresh /\ saved.champion = None
  BY DEF Init, Fresh
<1>2. TypeOK
  BY <1>1, InitialStates, NoneFacts DEF Init, TypeOK, Champions
<1>3. UnbornInv
  BY <1>1 DEF Init, UnbornInv
<1>4. SavedInv /\ FollowsInv /\ PointerInv
  BY <1>1 DEF SavedInv, FollowsInv, PointerInv
<1>5. RunningInv /\ HandlerInv
  BY <1>1 DEF Init, RunningInv, HandlerInv
<1>6. LedgerIsALineage
  BY DEF Init, LedgerIsALineage
<1> QED BY <1>2, <1>3, <1>4, <1>5, <1>6 DEF IInv

\* Type correctness.
LEMMA TypeStep == IInv /\ [Next]_vars => TypeOK'
<1> SUFFICES ASSUME IInv, [Next]_vars PROVE TypeOK'
  OBVIOUS
<1> USE DEF IInv
<1>1. CASE StartRun
  BY <1>1, NoneFacts DEF StartRun, TypeOK, files, bounds
<1>2. CASE BootstrapPointer
  BY <1>2, InitialStates DEF BootstrapPointer, TypeOK, Champions, bounds
<1>3. CASE BootstrapSave
  BY <1>3, InitialStates DEF BootstrapSave, TypeOK, bounds
<1>4. CASE Preregister
  <2>1. Current \in Gens /\ mem.champion \in Models
    BY <1>4, CurrentFacts DEF Preregister
  <2>2. mem.champion.id \in 0..LastGen
    BY <2>1 DEF Models
  <2>3. [parent |-> mem.champion.id, manifest |-> manifest] \in Preregs
    BY <2>2 DEF Preregs, TypeOK
  <2>4. prereg' \in [Gens -> Preregs \union {None}]
    BY <1>4, <2>1, <2>3 DEF Preregister, TypeOK
  <2> QED BY <1>4, <2>4 DEF Preregister, TypeOK, bounds
<1>5. CASE Activate
  <2>1. Current \in Gens
    BY <1>5, CurrentFacts DEF Activate
  <2>2. mem' \in States
    BY <1>5, <2>1, NoneFacts DEF Activate, TypeOK, States
  <2> QED BY <1>5, <2>2 DEF Activate, TypeOK, bounds
<1>6. CASE Train
  BY <1>6 DEF Train, TypeOK, bounds
<1>7. CASE Reject \/ Promote
  <2>1. Current = saved.next /\ Current \in Gens /\ mem = saved
        /\ mem.champion \in Models /\ mem.active \in Gens
    BY <1>7, CurrentFacts DEF Reject, Promote, RunningInv
  <2>2. Result(TRUE) \in Records /\ Result(FALSE) \in Records
    BY <2>1 DEF Result, Records, Models
  <2> QED BY <1>7, <2>1, <2>2 DEF Reject, Promote, TypeOK, bounds
<1>8. CASE PublishChampion
  <2>1. mem = saved /\ mem.active \in Gens /\ metrics[mem.active] # None
    BY <1>8, CurrentFacts DEF PublishChampion, RunningInv
  <2>2. Champion(mem.active) \in Models
    BY <2>1, NoneFacts DEF Champion, Models, TypeOK
  <2>3. mem' \in States
    BY <1>8, <2>2 DEF PublishChampion, TypeOK, States, Champions
  <2> QED BY <1>8, <2>2, <2>3 DEF PublishChampion, TypeOK, Champions, bounds
<1>9. CASE AppendLedger
  <2>1. result \in Records
    BY <1>9, DecidedFacts DEF AppendLedger
  <2> QED BY <1>9, <2>1 DEF AppendLedger, TypeOK, bounds
<1>10. CASE Commit
  <2>1. mem.active \in Gens /\ left > 0
    BY <1>10, DecidedFacts DEF Commit
  <2>2. mem' \in States
    <3>1. mem.active + 1 \in 1..LastGen + 1
      BY <2>1, NoneFacts
    <3> QED BY <1>10, <3>1 DEF Commit, TypeOK, States
  <2>3. left' \in Nat
    BY <1>10, <2>1 DEF Commit, TypeOK
  <2> QED BY <1>10, <2>2, <2>3 DEF Commit, TypeOK, bounds
<1>11. CASE HandleError
  BY <1>11, InitialStates DEF HandleError, TypeOK, bounds
<1>12. CASE RaiseError
  <2>1. mem' \in States
    <3>1. CASE pc = "activate"
      <4>1. Current \in Gens
        BY <3>1, CurrentFacts
      <4> QED BY <1>12, <3>1, <4>1 DEF RaiseError, TypeOK, States
    <3>2. CASE pc = "commit"
      <4>1. mem.active \in Gens
        BY <3>2, DecidedFacts
      <4>2. mem.active + 1 \in 1..LastGen + 1
        BY <4>1, NoneFacts
      <4> QED BY <1>12, <3>2, <4>2 DEF RaiseError, TypeOK, States
    <3>3. CASE pc \notin {"activate", "commit"}
      BY <1>12, <3>3 DEF RaiseError, TypeOK
    <3> QED BY <3>1, <3>2, <3>3
  <2>2. ledger' \in Seq(Records)
    <3>1. CASE pc = "ledger"
      <4>1. result \in Records
        BY <3>1, DecidedFacts
      <4>2. ledger \in Seq(Records)
        BY DEF TypeOK
      <4>3. ledger' = ledger \/ ledger' = Append(ledger, result)
        BY <1>12 DEF RaiseError
      <4> QED BY <4>1, <4>2, <4>3
    <3>2. CASE pc # "ledger"
      <4>1. ledger' = ledger
        BY <1>12, <3>2 DEF RaiseError
      <4> QED BY <4>1 DEF TypeOK
    <3> QED BY <3>1, <3>2
  <2> QED BY <1>12, <2>1, <2>2 DEF RaiseError, TypeOK, bounds
<1>13. CASE Crash
  BY <1>13, InitialStates DEF Crash, TypeOK, files
<1>14. CASE RewriteManifest
  BY <1>14 DEF RewriteManifest, TypeOK, bounds
<1>15. CASE UNCHANGED vars
  BY <1>15 DEF vars, files, bounds, TypeOK
<1> QED
  BY <1>1, <1>2, <1>3, <1>4, <1>5, <1>6, <1>7, <1>8, <1>9, <1>10, <1>11, <1>12,
     <1>13, <1>14, <1>15 DEF Next, ExecutorStep

-----------------------------------------------------------------------------
(* What a step does to the files, in terms of the files alone.             *)

durable == <<saved, pointer, prereg, metrics, ledger>>

UnderWay ==
    /\ saved.champion # None /\ saved.active = saved.next /\ saved.next \in Gens
    /\ ~HalfDone(saved) /\ metrics[saved.active] # None

Pointed ==
    /\ saved.champion = None /\ pointer' = Bootstrap
    /\ UNCHANGED <<saved, prereg, metrics, ledger>>

Born ==
    /\ saved.champion = None /\ pointer = Bootstrap
    /\ saved' = [champion |-> Bootstrap, manifest |-> manifest, next |-> 1,
                 active |-> None]
    /\ UNCHANGED <<pointer, prereg, metrics, ledger>>

Preregistered ==
    /\ saved.champion # None /\ saved.next \in Gens /\ prereg[saved.next] = None
    /\ prereg' = [prereg EXCEPT ![saved.next] =
                    [parent |-> saved.champion.id, manifest |-> manifest]]
    /\ UNCHANGED <<saved, pointer, metrics, ledger>>

Activated ==
    /\ saved.champion # None /\ saved.active = None /\ saved.next \in Gens
    /\ prereg[saved.next] # None /\ ~HalfDone(saved)
    /\ saved' = [saved EXCEPT !.active = saved.next]
    /\ UNCHANGED <<pointer, prereg, metrics, ledger>>

Trained ==
    /\ saved.champion # None /\ saved.active = saved.next /\ saved.next \in Gens
    /\ metrics[saved.active] = None
    /\ \E m \in Metrics : metrics' = [metrics EXCEPT ![saved.active] = m]
    /\ UNCHANGED <<saved, pointer, prereg, ledger>>

Published ==
    /\ UnderWay /\ Wins(saved)
    /\ pointer' = Champion(saved.active)
    /\ UNCHANGED <<saved, prereg, metrics, ledger>>

Recorded ==
    /\ UnderWay
    /\ ledger' = Append(ledger, Verdict(saved))
    /\ UNCHANGED <<saved, pointer, prereg, metrics>>

Committed ==
    /\ UnderWay
    /\ Wins(saved) => pointer = Champion(saved.active)
    /\ ledger # <<>> /\ LastRecord = Verdict(saved)
    /\ saved' = [Decided EXCEPT !.next = saved.next + 1, !.active = None]
    /\ UNCHANGED <<pointer, prereg, metrics, ledger>>

Halved ==
    /\ UnderWay /\ Wins(saved)
    /\ pointer = Champion(saved.active)
    /\ saved' = [saved EXCEPT !.champion = Champion(saved.active)]
    /\ UNCHANGED <<pointer, prereg, metrics, ledger>>

DurableStep ==
    \/ UNCHANGED durable
    \/ Pointed \/ Born \/ Preregistered \/ Activated \/ Trained
    \/ Published \/ Recorded \/ Committed \/ Halved

\* Every step is one of these.
LEMMA StepIsDurable == IInv /\ [Next]_vars => DurableStep
<1> SUFFICES ASSUME IInv, [Next]_vars PROVE DurableStep
  OBVIOUS
<1> USE DEF IInv
<1>1. CASE BootstrapPointer
  BY <1>1 DEF BootstrapPointer, RunningInv, DurableStep, Pointed
<1>2. CASE BootstrapSave
  BY <1>2 DEF BootstrapSave, RunningInv, DurableStep, Born
<1>3. CASE Preregister
  <2>1. Current = saved.next /\ saved.next \in Gens /\ mem = saved
        /\ saved.champion # None
    BY <1>3, CurrentFacts DEF Preregister, RunningInv
  <2>2. CASE prereg[Current] = None
    <3>1. Preregistered
      BY <1>3, <2>1, <2>2 DEF Preregister, Preregistered
    <3> QED BY <3>1 DEF DurableStep
  <2>3. CASE prereg[Current] # None
    BY <1>3, <2>3 DEF Preregister, DurableStep, durable
  <2> QED BY <2>2, <2>3
<1>4. CASE Activate
  <2>1. /\ Current = saved.next /\ saved.next \in Gens /\ mem = saved
        /\ saved.champion # None /\ ~HalfDone(saved) /\ prereg[saved.next] # None
    BY <1>4, CurrentFacts DEF Activate, RunningInv
  <2>2. saved' = [saved EXCEPT !.active = saved.next]
        /\ UNCHANGED <<pointer, prereg, metrics, ledger>>
    BY <1>4, <2>1 DEF Activate
  <2>3. CASE saved.active = None
    BY <2>1, <2>2, <2>3 DEF DurableStep, Activated
  <2>4. CASE saved.active # None
    <3>1. saved.active = saved.next /\ saved \in States
      BY <2>1, <2>4 DEF SavedInv, TypeOK
    <3>2. saved' = saved
      BY <2>2, <3>1 DEF States
    <3> QED BY <2>2, <3>2 DEF DurableStep, durable
  <2> QED BY <2>3, <2>4
<1>5. CASE Train
  <2>1. /\ saved.champion # None /\ mem = saved /\ saved.active = saved.next
        /\ saved.next \in Gens
    BY <1>5 DEF Train, RunningInv
  <2>2. CASE metrics[saved.active] = None
    <3>1. Trained
      BY <1>5, <2>1, <2>2 DEF Train, Trained
    <3> QED BY <3>1 DEF DurableStep
  <2>3. CASE metrics[saved.active] # None
    BY <1>5, <2>1, <2>3 DEF Train, DurableStep, durable
  <2> QED BY <2>2, <2>3
<1>6. CASE PublishChampion
  <2>1. UnderWay /\ Wins(saved) /\ mem = saved
    BY <1>6 DEF PublishChampion, RunningInv, UnderWay
  <2>2. Published
    BY <1>6, <2>1 DEF PublishChampion, Published
  <2> QED BY <2>2 DEF DurableStep
<1>7. CASE AppendLedger \/ (RaiseError /\ ledger' = Append(ledger, result))
  <2>1. CASE pc = "ledger"
    <3>1. UnderWay /\ result = Verdict(saved)
      BY <2>1 DEF RunningInv, UnderWay
    <3>2. Recorded
      BY <1>7, <3>1 DEF AppendLedger, RaiseError, Recorded
    <3> QED BY <3>2 DEF DurableStep
  <2>2. CASE pc # "ledger"
    <3>1. RaiseError /\ ledger' = ledger
      BY <1>7, <2>2 DEF AppendLedger, RaiseError
    <3> QED BY <3>1 DEF RaiseError, DurableStep, durable
  <2> QED BY <2>1, <2>2
<1>8. CASE Commit
  <2>1. UnderWay /\ LastRecord = Verdict(saved) /\ ledger # <<>> /\ mem = Decided
        /\ (Wins(saved) => pointer = Champion(saved.active))
    BY <1>8 DEF Commit, RunningInv, UnderWay
  <2>2. mem.active = saved.next
    BY <1>8, DecidedFacts DEF Commit
  <2>3. saved' = [Decided EXCEPT !.next = saved.next + 1, !.active = None]
        /\ UNCHANGED <<pointer, prereg, metrics, ledger>>
    BY <1>8, <2>1, <2>2 DEF Commit
  <2> QED BY <2>1, <2>3 DEF DurableStep, Committed
<1>9. CASE HandleError
  <2>1. saved.champion # None
    BY <1>9 DEF HandleError, RunningInv
  <2>2. UNCHANGED <<pointer, prereg, metrics, ledger>>
    BY <1>9 DEF HandleError
  <2>3. CASE mem.active = None
    BY <1>9, <2>2, <2>3 DEF HandleError, DurableStep, durable
  <2>4. CASE mem.active # None
    <3>1. saved' = mem /\ pc = "handler"
      BY <1>9, <2>4 DEF HandleError
    <3>2. CASE mem = saved
      BY <2>2, <3>1, <3>2 DEF DurableStep, durable
    <3>3. CASE /\ saved.active = None /\ saved.next \in Gens
               /\ prereg[saved.next] # None /\ ~HalfDone(saved)
               /\ mem = [saved EXCEPT !.active = saved.next]
      BY <2>1, <2>2, <3>1, <3>3 DEF DurableStep, Activated
    <3>4. CASE /\ saved.active = saved.next /\ metrics[saved.active] # None
               /\ ~HalfDone(saved) /\ Wins(saved)
               /\ mem = Decided
               /\ pointer = Champion(saved.active)
      <4>1. mem = [saved EXCEPT !.champion = Champion(saved.active)]
        BY <3>4 DEF Decided
      <4>2. saved.next \in Gens
        <5>1. saved.active # None
          BY <3>4, NoneFacts, StateFacts DEF TypeOK
        <5> QED BY <2>1, <3>4, <5>1 DEF SavedInv
      <4>3. UnderWay
        BY <2>1, <3>4, <4>2 DEF UnderWay
      <4> QED BY <2>2, <3>1, <3>4, <4>1, <4>3 DEF DurableStep, Halved
    <3> QED BY <2>4, <3>1, <3>2, <3>3, <3>4 DEF HandlerInv
  <2> QED BY <2>3, <2>4
<1>10. CASE StartRun \/ Reject \/ Promote \/ Crash \/ RewriteManifest
            \/ UNCHANGED vars
  BY <1>10 DEF StartRun, Reject, Promote, Crash, RewriteManifest, vars, files,
               DurableStep, durable
<1>11. CASE RaiseError /\ ledger' = ledger
  BY <1>11 DEF RaiseError, DurableStep, durable
<1>12. RaiseError => ledger' = ledger \/ ledger' = Append(ledger, result)
  BY DEF RaiseError
<1> QED
  BY <1>1, <1>2, <1>3, <1>4, <1>5, <1>6, <1>7, <1>8, <1>9, <1>10, <1>11, <1>12
  DEF Next, ExecutorStep

\* The saved state before and while a generation is under way.
LEMMA UnderWayFacts ==
    ASSUME TypeOK, UnderWay
    PROVE  /\ saved \in States /\ saved.champion \in Models
           /\ saved.champion.id \in 0..LastGen
           /\ saved.active \in Gens /\ saved.active = saved.next
           /\ saved.next \in 1..LastGen
           /\ metrics[saved.active] \in Metrics
           /\ Champion(saved.active) \in Models /\ Champion(saved.active) # None
           /\ Champion(saved.active).id = saved.active
           /\ Verdict(saved) \in Records
<1>1. saved \in States /\ saved.champion \in Models /\ saved.active \in Gens
      /\ saved.active = saved.next /\ metrics[saved.active] \in Metrics
  BY StateFacts DEF TypeOK, UnderWay
<1>2. saved.champion.id \in 0..LastGen
  BY <1>1 DEF Models
<1>3. Champion(saved.active) \in Models /\ Champion(saved.active).id = saved.active
  BY <1>1, NoneFacts DEF Champion, Models
<1>4. Wins(saved) \in BOOLEAN
  BY DEF Wins, Promoted
<1>5. Verdict(saved) \in Records
  BY <1>1, <1>2, <1>4 DEF Verdict, Records
<1> QED BY <1>1, <1>2, <1>3, <1>5, NoneFacts

\* The fields of a state that was changed in one place.
LEMMA ExceptFacts ==
    ASSUME NEW s \in States, NEW c, NEW n, NEW a
    PROVE  /\ [s EXCEPT !.champion = c].champion = c
           /\ [s EXCEPT !.champion = c].next = s.next
           /\ [s EXCEPT !.champion = c].active = s.active
           /\ [s EXCEPT !.active = a].champion = s.champion
           /\ [s EXCEPT !.active = a].next = s.next
           /\ [s EXCEPT !.active = a].active = a
           /\ [s EXCEPT !.next = n, !.active = a].champion = s.champion
           /\ [s EXCEPT !.next = n, !.active = a].next = n
           /\ [s EXCEPT !.next = n, !.active = a].active = a

BY DEF States

\* The state that a generation leaves when it is over.
LEMMA CommittedFacts ==
    ASSUME TypeOK, Committed
    PROVE  /\ saved'.next = saved.next + 1 /\ saved'.active = None
           /\ saved'.champion = IF Wins(saved) THEN Champion(saved.active)
                                               ELSE saved.champion
           /\ saved'.champion \in Models
<1>1. saved \in States /\ Champion(saved.active) \in Models /\ saved.champion \in Models
  BY UnderWayFacts DEF Committed
<1>2. CASE Wins(saved)
  BY <1>1, <1>2 DEF Committed, Decided, States
<1>3. CASE ~Wins(saved)
  BY <1>1, <1>3 DEF Committed, Decided, States
<1> QED BY <1>1, <1>2, <1>3

\* Before the bootstrap is saved, nothing else is.
LEMMA UnbornStep == IInv /\ DurableStep => UnbornInv'
<1> SUFFICES ASSUME IInv, DurableStep PROVE UnbornInv'
  OBVIOUS
<1> USE DEF IInv
<1>1. CASE UNCHANGED durable
  BY <1>1 DEF durable, UnbornInv
<1>2. CASE Pointed
  BY <1>2 DEF Pointed, UnbornInv
<1>3. CASE Born
  BY <1>3, InitialStates, NoneFacts DEF Born, UnbornInv
<1>4. CASE Preregistered \/ Trained \/ Published \/ Recorded
  BY <1>4 DEF Preregistered, Trained, Published, Recorded, UnderWay, UnbornInv
<1>5. CASE Activated
  BY <1>5, ExceptFacts DEF Activated, UnbornInv, TypeOK
<1>6. CASE Committed
  BY <1>6, CommittedFacts, NoneFacts DEF UnbornInv
<1>7. CASE Halved
  BY <1>7, UnderWayFacts, ExceptFacts DEF Halved, UnbornInv
<1> QED BY <1>1, <1>2, <1>3, <1>4, <1>5, <1>6, <1>7 DEF DurableStep

\* The saved state and the files of the generations.
LEMMA SavedStep == IInv /\ DurableStep => SavedInv'
<1> SUFFICES ASSUME IInv, DurableStep PROVE SavedInv'
  OBVIOUS
<1> USE DEF IInv
<1>1. CASE UNCHANGED durable
  BY <1>1 DEF durable, SavedInv, HalfDone
<1>2. CASE Pointed
  BY <1>2 DEF Pointed, SavedInv
<1>3. CASE Born
  <2>1. /\ saved'.champion = Bootstrap /\ saved'.next = 1 /\ saved'.active = None
        /\ Bootstrap.id = 0
    BY <1>3 DEF Born, Bootstrap
  <2>2. \A g \in Gens : prereg'[g] = None /\ metrics'[g] = None
    BY <1>3 DEF Born, UnbornInv
  <2> QED BY <2>1, <2>2, NoneFacts DEF SavedInv, HalfDone
<1>4. CASE Preregistered
  <2>1. /\ saved.champion # None /\ saved.next \in Gens /\ saved' = saved
        /\ metrics' = metrics /\ prereg[saved.next] = None
    BY <1>4 DEF Preregistered
  <2>2. prereg'[saved.next] = [parent |-> saved.champion.id, manifest |-> manifest]
        /\ \A g \in Gens : g # saved.next => prereg'[g] = prereg[g]
    BY <1>4 DEF Preregistered, TypeOK
  <2>3. prereg'[saved.next] # None
    <3>1. saved.champion.id \in 0..LastGen /\ manifest \in Nat
      BY <2>1, StateFacts DEF TypeOK
    <3>2. prereg'[saved.next] \in Preregs
      BY <2>2, <3>1 DEF Preregs
    <3> QED BY <3>2, NoneFacts
  <2>4. ~HalfDone(saved)
    BY <2>1, NoneFacts DEF SavedInv
  <2> QED BY <2>1, <2>2, <2>3, <2>4, StateFacts DEF SavedInv, HalfDone, TypeOK
<1>5. CASE Activated
  <2>1. /\ saved'.champion = saved.champion /\ saved'.next = saved.next
        /\ saved'.active = saved.next /\ prereg' = prereg /\ metrics' = metrics
    BY <1>5, ExceptFacts DEF Activated, TypeOK
  <2> QED BY <1>5, <2>1 DEF Activated, SavedInv, HalfDone
<1>6. CASE Trained
  <2>1. /\ saved.champion # None /\ saved.active = saved.next /\ saved.next \in Gens
        /\ saved' = saved /\ prereg' = prereg /\ metrics[saved.active] = None
    BY <1>6 DEF Trained
  <2>2. \A g \in Gens : g # saved.next => metrics'[g] = metrics[g]
    BY <1>6, <2>1 DEF Trained, TypeOK
  <2>3. ~HalfDone(saved)
    BY <2>1 DEF SavedInv
  <2> QED BY <2>1, <2>2, <2>3, StateFacts DEF SavedInv, HalfDone, TypeOK
<1>7. CASE Published \/ Recorded
  BY <1>7 DEF Published, Recorded, SavedInv, HalfDone, UnderWay
<1>8. CASE Committed
  <2>1. /\ saved'.next = saved.next + 1 /\ saved'.active = None
        /\ prereg' = prereg /\ metrics' = metrics
    BY <1>8, CommittedFacts DEF Committed
  <2>2. saved.next \in 1..LastGen /\ saved'.champion.id <= saved.next
        /\ saved'.champion.id \in 0..LastGen
    <3>1. UnderWay /\ saved.champion # None
      BY <1>8 DEF Committed, UnderWay
    <3> QED BY <1>8, <3>1, CommittedFacts, UnderWayFacts DEF SavedInv
  <2>3. saved.champion # None
    BY <1>8 DEF Committed, UnderWay
  <2>4. \A g \in Gens : g >= saved'.next => prereg'[g] = None /\ metrics'[g] = None
    BY <2>1, <2>2, <2>3 DEF SavedInv
  <2> QED BY <2>1, <2>2, <2>4, NoneFacts DEF SavedInv, HalfDone
<1>9. CASE Halved
  <2>1. /\ saved'.champion = Champion(saved.active) /\ saved'.next = saved.next
        /\ saved'.active = saved.active /\ prereg' = prereg /\ metrics' = metrics
        /\ UnderWay
    BY <1>9, ExceptFacts DEF Halved, TypeOK
  <2>2. saved'.champion.id = saved.next /\ saved.active = saved.next
        /\ saved.next \in 1..LastGen /\ saved.champion.id \in 0..LastGen
    BY <2>1, UnderWayFacts
  <2>3. prereg[saved.next] # None /\ prereg[saved.next].parent = saved.champion.id
        /\ saved.champion.id < saved.next
    BY <2>1, <2>2, NoneFacts DEF UnderWay, SavedInv, HalfDone
  <2> QED BY <2>1, <2>2, <2>3 DEF UnderWay, SavedInv, HalfDone
<1> QED
  BY <1>1, <1>2, <1>3, <1>4, <1>5, <1>6, <1>7, <1>8, <1>9 DEF DurableStep

\* champion.json and the saved state.
LEMMA PointerStep == IInv /\ DurableStep => PointerInv'
<1> SUFFICES ASSUME IInv, DurableStep PROVE PointerInv'
  OBVIOUS
<1> USE DEF IInv
<1>1. CASE UNCHANGED durable
  BY <1>1 DEF durable, PointerInv, HalfDone, Wins, Champion
<1>2. CASE Pointed
  BY <1>2 DEF Pointed, PointerInv
<1>3. CASE Born
  BY <1>3 DEF Born, PointerInv
<1>4. CASE Preregistered \/ Recorded
  BY <1>4 DEF Preregistered, Recorded, PointerInv, HalfDone, Wins, Champion
<1>5. CASE Activated
  <2>1. saved'.champion = saved.champion /\ pointer' = pointer
    BY <1>5, ExceptFacts DEF Activated, TypeOK
  <2>2. pointer = saved.champion
    BY <1>5 DEF Activated, PointerInv
  <2> QED BY <2>1, <2>2 DEF PointerInv
<1>6. CASE Trained
  <2>1. pointer = saved.champion
    BY <1>6 DEF Trained, PointerInv
  <2> QED BY <1>6, <2>1 DEF Trained, PointerInv
<1>7. CASE Published
  <2>1. saved.active # None
    BY <1>7, UnderWayFacts, NoneFacts DEF Published
  <2> QED BY <1>7, <2>1 DEF Published, UnderWay, PointerInv, HalfDone, Wins, Champion
<1>8. CASE Committed
  <2>1. CASE Wins(saved)
    BY <1>8, <2>1, CommittedFacts DEF Committed, PointerInv
  <2>2. CASE ~Wins(saved)
    <3>1. pointer = saved.champion
      BY <1>8, <2>2 DEF Committed, UnderWay, PointerInv
    <3> QED BY <1>8, <2>2, <3>1, CommittedFacts DEF Committed, PointerInv
  <2> QED BY <2>1, <2>2
<1>9. CASE Halved
  BY <1>9, ExceptFacts DEF Halved, TypeOK, PointerInv
<1> QED
  BY <1>1, <1>2, <1>3, <1>4, <1>5, <1>6, <1>7, <1>8, <1>9 DEF DurableStep

\* A record appended now continues the ledger.
LEMMA VerdictContinues ==
    ASSUME IInv, UnderWay
    PROVE  \/ ledger = <<>> /\ Verdict(saved).generation = 1 /\ Verdict(saved).parent = 0
           \/ ledger # <<>> /\ LastRecord = Verdict(saved)
           \/ /\ ledger # <<>>
              /\ Verdict(saved).generation = LastRecord.generation + 1
              /\ Verdict(saved).parent = Heir(LastRecord)
<1>1. Verdict(saved).generation = saved.next /\ Verdict(saved).parent = saved.champion.id
  BY DEF Verdict, UnderWay
<1>2. ~HalfDone(saved) /\ saved.champion # None
  BY DEF UnderWay
<1> QED BY <1>1, <1>2 DEF IInv, FollowsInv

\* The ledger is one lineage.
LEMMA LineageStep == IInv /\ DurableStep => LedgerIsALineage'
<1> SUFFICES ASSUME IInv, DurableStep PROVE LedgerIsALineage'
  OBVIOUS
<1> USE DEF IInv
<1>1. CASE ledger' = ledger
  BY <1>1 DEF LedgerIsALineage, Heir
<1>2. CASE Recorded
  <2>1. ledger' = Append(ledger, Verdict(saved)) /\ UnderWay
    BY <1>2 DEF Recorded
  <2>2. ledger \in Seq(Records) /\ Verdict(saved) \in Records
    BY <2>1, UnderWayFacts DEF TypeOK
  <2>3. /\ Len(ledger') = Len(ledger) + 1
        /\ \A i \in 1..Len(ledger) : ledger'[i] = ledger[i]
        /\ ledger'[Len(ledger) + 1] = Verdict(saved)
    BY <2>1, <2>2
  <2>4. CASE ledger = <<>>
    <3>1. Len(ledger) = 0 /\ Verdict(saved).generation = 1 /\ Verdict(saved).parent = 0
      BY <2>1, <2>4, VerdictContinues
    <3> QED BY <2>3, <3>1 DEF LedgerIsALineage
  <2>5. CASE ledger # <<>>
    <3> DEFINE n == Len(ledger)
    <3>1. n \in Nat \ {0} /\ LastRecord = ledger[n]
      BY <2>2, <2>5 DEF LastRecord
    <3>2. ledger'[1].generation = 1 /\ ledger'[1].parent = 0
      BY <2>3, <2>5, <3>1 DEF LedgerIsALineage
    <3>3. ASSUME NEW i \in 2..Len(ledger')
          PROVE  \/ ledger'[i] = ledger'[i - 1]
                 \/ /\ ledger'[i].generation = ledger'[i - 1].generation + 1
                    /\ ledger'[i].parent = Heir(ledger'[i - 1])
      <4>1. CASE i \in 2..n
        <5>1. ledger'[i] = ledger[i] /\ ledger'[i - 1] = ledger[i - 1]
          BY <2>3, <3>1, <4>1
        <5> QED BY <4>1, <5>1 DEF LedgerIsALineage
      <4>2. CASE i = n + 1
        <5>1. ledger'[i] = Verdict(saved) /\ ledger'[i - 1] = LastRecord
          BY <2>3, <3>1, <4>2
        <5> QED BY <2>1, <2>5, <5>1, VerdictContinues
      <4> QED BY <2>3, <3>1, <4>1, <4>2
    <3> QED BY <3>2, <3>3 DEF LedgerIsALineage, Heir
  <2> QED BY <2>4, <2>5
<1> QED
  BY <1>1, <1>2 DEF DurableStep, durable, Pointed, Born, Preregistered, Activated,
                    Trained, Published, Committed, Halved

\* The saved state and the ledger.
LEMMA FollowsStep == IInv /\ DurableStep => FollowsInv'
<1> SUFFICES ASSUME IInv, DurableStep PROVE FollowsInv'
  OBVIOUS
<1> USE DEF IInv
<1>1. CASE UNCHANGED durable
  BY <1>1 DEF durable, FollowsInv, HalfDone, LastRecord, Verdict, Wins, Heir
<1>2. CASE Pointed
  BY <1>2 DEF Pointed, FollowsInv
<1>3. CASE Born
  BY <1>3 DEF Born, UnbornInv, FollowsInv, Bootstrap
<1>4. CASE Preregistered \/ Published
  BY <1>4 DEF Preregistered, Published, FollowsInv, HalfDone, LastRecord, Verdict,
              Wins, Heir
<1>5. CASE Activated
  <2>1. /\ saved'.champion = saved.champion /\ saved'.next = saved.next
        /\ saved'.active = saved.next /\ ledger' = ledger
    BY <1>5, ExceptFacts DEF Activated, TypeOK
  <2>2. saved.active # saved.next
    BY <1>5, NoneFacts DEF Activated
  <2>3. saved.champion # None /\ ~HalfDone(saved)
    BY <1>5 DEF Activated
  <2> QED BY <2>1, <2>2, <2>3 DEF FollowsInv, HalfDone, LastRecord, Heir
<1>6. CASE Trained
  BY <1>6 DEF Trained, FollowsInv, HalfDone, LastRecord, Heir
<1>7. CASE Recorded
  <2>1. ledger' = Append(ledger, Verdict(saved)) /\ UnderWay
        /\ saved' = saved /\ metrics' = metrics
    BY <1>7 DEF Recorded
  <2>2. ledger \in Seq(Records) /\ Verdict(saved) \in Records
    BY <2>1, UnderWayFacts DEF TypeOK
  <2>3. ledger' # <<>> /\ LastRecord' = Verdict(saved)
    BY <2>1, <2>2 DEF LastRecord
  <2>4. Verdict(saved)' = Verdict(saved)
    BY <2>1 DEF Verdict, Wins
  <2>5. Verdict(saved).generation = saved.next
    BY <2>1 DEF Verdict, UnderWay
  <2> QED BY <2>1, <2>3, <2>4, <2>5 DEF UnderWay, FollowsInv
<1>8. CASE Committed
  <2>1. /\ saved'.next = saved.next + 1 /\ ledger' = ledger /\ UnderWay
        /\ saved'.champion = IF Wins(saved) THEN Champion(saved.active)
                                            ELSE saved.champion
    BY <1>8, CommittedFacts DEF Committed
  <2>2. ledger' # <<>> /\ LastRecord' = Verdict(saved)
    BY <1>8 DEF Committed, LastRecord
  <2>3. Verdict(saved).generation + 1 = saved'.next
    BY <2>1 DEF Verdict, UnderWay
  <2>4. saved'.champion.id = Heir(Verdict(saved))
    BY <2>1, UnderWayFacts DEF Heir, Verdict
  <2> QED BY <2>2, <2>3, <2>4 DEF FollowsInv, Heir
<1>9. CASE Halved
  <2>1. /\ saved'.champion = Champion(saved.active) /\ saved'.next = saved.next
        /\ saved'.active = saved.active /\ metrics' = metrics /\ ledger' = ledger
        /\ UnderWay
    BY <1>9, ExceptFacts DEF Halved, TypeOK
  <2>2. saved'.champion.id = saved'.next
    BY <2>1, UnderWayFacts
  <2> QED BY <2>1, <2>2 DEF UnderWay, FollowsInv, HalfDone, LastRecord
<1> QED
  BY <1>1, <1>2, <1>3, <1>4, <1>5, <1>6, <1>7, <1>8, <1>9 DEF DurableStep

-----------------------------------------------------------------------------
(* The state in memory.                                                    *)

\* The comparison of the active generation with the champion is decided by files
\* that do not change any more.
LEMMA SameVerdict ==
    ASSUME UNCHANGED <<saved, metrics>>
    PROVE  /\ Verdict(saved)' = Verdict(saved) /\ Wins(saved)' = Wins(saved)
           /\ Champion(saved.active)' = Champion(saved.active)
           /\ Decided' = Decided /\ HalfDone(saved)' = HalfDone(saved)
<1>1. Wins(saved)' = Wins(saved)
  BY DEF Wins
<1> QED BY <1>1 DEF Verdict, Wins, Champion, Decided, HalfDone

\* The record that execute_one makes is the verdict.
LEMMA ResultFacts ==
    ASSUME mem = saved
    PROVE  /\ Promoted(metrics[mem.active], mem.champion.metrics) = Wins(saved)
           /\ ~Wins(saved) => Result(FALSE) = Verdict(saved)
           /\ Wins(saved) => Result(TRUE) = Verdict(saved)
<1>1. Promoted(metrics[mem.active], mem.champion.metrics) = Wins(saved)
  BY DEF Wins
<1>2. Wins(saved) \in BOOLEAN
  BY DEF Wins, Promoted
<1>3. ~Wins(saved) => Wins(saved) = FALSE
  BY <1>2
<1>4. Wins(saved) => Wins(saved) = TRUE
  BY <1>2
<1> QED BY <1>1, <1>3, <1>4 DEF Result, Verdict

\* Step by step, what the executor holds is the saved state or its successor.
LEMMA RunningStep == IInv /\ [Next]_vars => RunningInv'
<1> SUFFICES ASSUME IInv, [Next]_vars PROVE RunningInv'
  OBVIOUS
<1> USE DEF IInv
<1>1. CASE StartRun
  BY <1>1, NoneFacts DEF StartRun, RunningInv, files, bounds
<1>2. CASE BootstrapPointer
  BY <1>2 DEF BootstrapPointer, RunningInv
<1>3. CASE BootstrapSave
  <2>1. /\ pc' = "preregister" /\ saved' = mem' /\ saved'.champion = Bootstrap
        /\ saved'.next = 1 /\ left' > 0
    BY <1>3 DEF BootstrapSave, RunningInv, Bootstrap
  <2> QED BY <2>1, InitialStates, NoneFacts DEF RunningInv
<1>4. CASE Preregister
  <2>1. /\ Current = saved.next /\ saved.next \in Gens /\ mem = saved
        /\ saved.champion # None /\ saved' = saved /\ mem' = mem /\ left' = left
        /\ left > 0 /\ saved.champion \in Models
    BY <1>4, CurrentFacts DEF Preregister, RunningInv
  <2>2. CASE pc' = "handler"
    BY <2>1, <2>2 DEF RunningInv
  <2>3. CASE prereg[Current] = None
    <3>1. pc' = "activate" /\ prereg'[saved.next] =
             [parent |-> mem.champion.id, manifest |-> manifest]
      BY <1>4, <2>1, <2>3 DEF Preregister, TypeOK
    <3>2. prereg'[saved.next] \in Preregs
      BY <2>1, <3>1 DEF Models, Preregs, TypeOK
    <3>3. ~HalfDone(saved)
      BY <2>1, <2>3, NoneFacts DEF SavedInv
    <3> QED BY <2>1, <3>1, <3>2, <3>3, NoneFacts DEF RunningInv, HalfDone
  <2>4. CASE prereg[Current] # None /\ PreregMatches(Current)
    <3>1. pc' = "activate" /\ prereg' = prereg
      BY <1>4, <2>4 DEF Preregister
    <3>2. ~HalfDone(saved)
      <4>1. prereg[saved.next].parent = saved.champion.id
        BY <2>1, <2>4 DEF PreregMatches
      <4> QED BY <2>1, <2>4, <4>1 DEF SavedInv, HalfDone
    <3> QED BY <2>1, <2>4, <3>1, <3>2 DEF RunningInv, HalfDone
  <2> QED BY <1>4, <2>2, <2>3, <2>4 DEF Preregister
<1>5. CASE Activate
  <2>1. /\ Current = saved.next /\ saved.next \in Gens /\ mem = saved
        /\ saved.champion # None /\ ~HalfDone(saved) /\ prereg[saved.next] # None
        /\ left > 0 /\ saved \in States
    BY <1>5, CurrentFacts DEF Activate, RunningInv, TypeOK
  <2>2. /\ pc' = "train" /\ saved' = mem' /\ prereg' = prereg /\ left' = left
        /\ saved' = [saved EXCEPT !.active = saved.next]
    BY <1>5, <2>1 DEF Activate
  <2>3. /\ saved'.champion = saved.champion /\ saved'.next = saved.next
        /\ saved'.active = saved.next
    BY <2>1, <2>2, ExceptFacts
  <2> QED BY <2>1, <2>2, <2>3 DEF RunningInv, HalfDone
<1>6. CASE Train
  <2>1. /\ mem = saved /\ saved.active = saved.next /\ saved.next \in Gens
        /\ saved.champion # None /\ ~HalfDone(saved) /\ prereg[saved.next] # None
        /\ left > 0
    BY <1>6 DEF Train, RunningInv
  <2>2. metrics'[saved.active] # None
    BY <1>6, <2>1, NoneFacts DEF Train, TypeOK
  <2> QED BY <1>6, <2>1, <2>2 DEF Train, RunningInv, HalfDone
<1>7. CASE Reject
  <2>1. ~Wins(saved) /\ result' = Verdict(saved) /\ mem = saved
    BY <1>7, ResultFacts DEF Reject, RunningInv
  <2>2. mem = Decided
    BY <2>1 DEF Decided
  <2>3. UNCHANGED <<saved, metrics, mem, prereg, pointer, left>> /\ pc' = "ledger"
    BY <1>7 DEF Reject
  <2> QED BY <1>7, <2>1, <2>2, <2>3, SameVerdict DEF Reject, RunningInv
<1>8. CASE Promote
  <2>1. Wins(saved) /\ result' = Verdict(saved) /\ mem = saved
    BY <1>8, ResultFacts DEF Promote, RunningInv
  <2>2. UNCHANGED <<saved, metrics, mem, prereg, pointer, left>> /\ pc' = "publish"
    BY <1>8 DEF Promote
  <2> QED BY <1>8, <2>1, <2>2, SameVerdict DEF Promote, RunningInv
<1>9. CASE PublishChampion
  <2>1. Wins(saved) /\ mem = saved
    BY <1>9 DEF PublishChampion, RunningInv
  <2>2. pointer' = Champion(saved.active) /\ mem' = Decided
    BY <1>9, <2>1 DEF PublishChampion, Decided
  <2>3. UNCHANGED <<saved, metrics, result, prereg, left>> /\ pc' = "ledger"
    BY <1>9 DEF PublishChampion
  <2> QED BY <1>9, <2>1, <2>2, <2>3, SameVerdict DEF PublishChampion, RunningInv
<1>10. CASE AppendLedger
  <2>1. result \in Records /\ ledger \in Seq(Records)
    BY <1>10, DecidedFacts DEF AppendLedger, TypeOK
  <2>2. ledger' # <<>> /\ LastRecord' = result
    BY <1>10, <2>1 DEF AppendLedger, LastRecord
  <2>3. UNCHANGED <<saved, metrics, result, mem, prereg, pointer, left>>
        /\ pc' = "commit"
    BY <1>10 DEF AppendLedger
  <2> QED BY <1>10, <2>2, <2>3, SameVerdict DEF AppendLedger, RunningInv
<1>11. CASE Commit
  <2>1. mem' = saved' /\ mem'.next = mem.active + 1 /\ mem'.champion = mem.champion
    BY <1>11, ExceptFacts DEF Commit, TypeOK
  <2>2. saved'.champion # None
    BY <1>11, <2>1, DecidedFacts, NoneFacts DEF Commit
  <2>3. \/ pc' = "idle"
        \/ pc' = "preregister" /\ left' > 0 /\ saved'.next \in Gens
    BY <1>11, <2>1 DEF Commit
  <2> QED BY <2>1, <2>2, <2>3 DEF RunningInv
<1>12. CASE HandleError \/ Crash
  BY <1>12 DEF HandleError, Crash, RunningInv
<1>13. CASE RaiseError
  BY <1>13 DEF RaiseError, RunningInv
<1>14. CASE RewriteManifest \/ UNCHANGED vars
  <2>1. UNCHANGED <<saved, pointer, prereg, metrics, ledger, pc, mem, result, left>>
    BY <1>14 DEF RewriteManifest, vars, files, bounds
  <2> QED BY <2>1, SameVerdict DEF RunningInv, LastRecord
<1> QED
  BY <1>1, <1>2, <1>3, <1>4, <1>5, <1>6, <1>7, <1>8, <1>9, <1>10, <1>11, <1>12,
     <1>13, <1>14 DEF Next, ExecutorStep

\* What the except clause finds in memory.
LEMMA HandlerStep == IInv /\ [Next]_vars => HandlerInv'
<1> SUFFICES ASSUME IInv, [Next]_vars, pc' = "handler", mem'.active # None
             PROVE  HandlerInv'
  BY DEF HandlerInv
<1> USE DEF IInv
<1>1. CASE RaiseError
  <2>1. UNCHANGED <<saved, metrics, pointer, prereg>>
    BY <1>1 DEF RaiseError
  <2>2. CASE pc \in {"preregister", "train", "decide", "publish"}
    <3>1. mem' = mem /\ mem = saved
      BY <1>1, <2>2 DEF RaiseError, RunningInv
    <3> QED BY <2>1, <3>1 DEF HandlerInv
  <2>3. CASE pc = "activate"
    <3>1. /\ mem' = [saved EXCEPT !.active = saved.next] /\ saved.next \in Gens
          /\ saved.champion # None /\ ~HalfDone(saved) /\ prereg[saved.next] # None
          /\ saved \in States
      BY <1>1, <2>3, CurrentFacts DEF RaiseError, RunningInv, TypeOK
    <3>2. CASE saved.active = None
      BY <2>1, <3>1, <3>2, SameVerdict DEF HandlerInv
    <3>3. CASE saved.active # None
      <4>1. saved.active = saved.next
        BY <3>1, <3>3 DEF SavedInv
      <4>2. mem' = saved
        BY <3>1, <4>1 DEF States
      <4> QED BY <2>1, <4>2 DEF HandlerInv
    <3> QED BY <3>2, <3>3
  <2>4. CASE pc = "ledger"
    <3>1. /\ mem' = Decided /\ saved.active = saved.next /\ metrics[saved.active] # None
          /\ ~HalfDone(saved) /\ (Wins(saved) => pointer = Champion(saved.active))
      BY <1>1, <2>4 DEF RaiseError, RunningInv
    <3>2. CASE Wins(saved)
      BY <2>1, <3>1, <3>2, SameVerdict DEF HandlerInv
    <3>3. CASE ~Wins(saved)
      BY <2>1, <3>1, <3>3 DEF HandlerInv, Decided
    <3> QED BY <3>2, <3>3
  <2>5. CASE pc = "commit"
    <3>1. mem' = [mem EXCEPT !.next = mem.active + 1, !.active = None]
      BY <1>1, <2>5 DEF RaiseError
    <3>2. mem'.active = None
      BY <3>1, ExceptFacts DEF TypeOK
    <3> QED BY <3>2
  <2> QED BY <1>1, <2>2, <2>3, <2>4, <2>5 DEF RaiseError
<1>2. CASE Preregister
  <2>1. mem' = saved' /\ UNCHANGED <<saved, metrics, pointer>>
    BY <1>2 DEF Preregister, RunningInv
  <2> QED BY <2>1 DEF HandlerInv
<1>3. CASE RewriteManifest \/ UNCHANGED vars
  <2>1. UNCHANGED <<saved, pointer, prereg, metrics, pc, mem>>
    BY <1>3 DEF RewriteManifest, vars, files, bounds
  <2> QED BY <2>1, SameVerdict DEF HandlerInv
<1>4. CASE \/ StartRun \/ BootstrapPointer \/ BootstrapSave \/ Activate \/ Train
           \/ Reject \/ Promote \/ PublishChampion \/ AppendLedger \/ Commit
           \/ HandleError \/ Crash
  BY <1>4 DEF StartRun, BootstrapPointer, BootstrapSave, Activate, Train, Reject,
              Promote, PublishChampion, AppendLedger, Commit, HandleError, Crash
<1> QED BY <1>1, <1>2, <1>3, <1>4 DEF Next, ExecutorStep

\* Every step preserves the inductive invariant.
LEMMA InvStep == IInv /\ [Next]_vars => IInv'
BY TypeStep, StepIsDurable, UnbornStep, SavedStep, FollowsStep, PointerStep,
   RunningStep, HandlerStep, LineageStep DEF IInv

-----------------------------------------------------------------------------
(* Theorems.                                                               *)

\* The inductive invariant of the executor.
THEOREM GenerationInvariant == Spec => []IInv
BY InitInv, InvStep, PTL DEF Spec

\* Type correctness of the files and of the running process.
THEOREM GenerationTypes == Spec => []TypeOK
<1>1. IInv => TypeOK
  BY DEF IInv
<1> QED BY <1>1, GenerationInvariant, PTL

\* champion.json is the saved champion or the candidate of the active generation,
\* which was preregistered against the saved champion.
THEOREM PointerIsAccounted == Spec => []PointerAccounted
<1>1. IInv => PointerAccounted
  <2> SUFFICES ASSUME IInv, saved.champion # None, pointer # saved.champion
               PROVE  /\ saved.active # None
                      /\ pointer = Champion(saved.active)
                      /\ prereg[saved.active].parent = saved.champion.id
    BY DEF PointerAccounted
  <2>1. saved.active # None /\ ~HalfDone(saved) /\ pointer = Champion(saved.active)
    BY DEF IInv, PointerInv
  <2>2. saved.active = saved.next /\ saved.active \in Gens /\ prereg[saved.active] # None
    BY <2>1 DEF IInv, SavedInv
  <2>3. prereg[saved.active].parent = saved.champion.id
    BY <2>1, <2>2 DEF IInv, SavedInv
  <2> QED BY <2>1, <2>3
<1> QED BY <1>1, GenerationInvariant, PTL

\* The ledger is one lineage, whatever died, raised or was retried.
THEOREM LedgerLineage == Spec => []LedgerIsALineage
<1>1. IInv => LedgerIsALineage
  BY DEF IInv
<1> QED BY <1>1, GenerationInvariant, PTL

\* The saved champion is the one the ledger's last record left.
THEOREM StateAndLedger == Spec => []StateFollowsLedger
<1>1. IInv => StateFollowsLedger
  <2> SUFFICES ASSUME IInv, ledger # <<>>
               PROVE  /\ saved.next \in {LastRecord.generation, LastRecord.generation + 1}
                      /\ saved.next = LastRecord.generation + 1 =>
                            \/ saved.champion.id = Heir(LastRecord)
                            \/ saved.champion.id = saved.active
    BY DEF StateFollowsLedger, LastRecord
  <2>1. saved.champion # None
    BY DEF IInv, UnbornInv
  <2>2. HalfDone(saved) => saved.champion.id = saved.active
    BY <2>1 DEF IInv, SavedInv, HalfDone
  <2>3. ledger \in Seq(Records)
    BY DEF IInv, TypeOK
  <2>4. LastRecord.generation \in Nat
    <3>1. Len(ledger) \in 1..Len(ledger)
      BY <2>3
    <3>2. LastRecord \in Records
      BY <2>3, <3>1 DEF LastRecord
    <3> QED BY <3>2 DEF Records
  <2> QED BY <2>1, <2>2, <2>4 DEF IInv, FollowsInv
<1> QED BY <1>1, GenerationInvariant, PTL

\* A promoted candidate is better and gives up no more than the limits allow.
LEMMA PromotedFacts ==
    ASSUME NEW c \in Metrics, NEW m \in Metrics, Promoted(c, m)
    PROVE  /\ CompositeScore(c) > CompositeScore(m)
           /\ c.direction >= m.direction - 20 /\ c.kick >= m.kick - 50
<1>1. /\ c.direction \in Int /\ c.joint \in Int /\ c.kick \in Int
      /\ m.direction \in Int /\ m.joint \in Int /\ m.kick \in Int
  BY MetricFacts
<1>2. CompositeScore(c) \in Int /\ CompositeScore(m) \in Int
  BY <1>1 DEF CompositeScore
<1>3. CompositeScore(c) > CompositeScore(m)
  BY <1>2 DEF Promoted
<1>4. c.direction >= m.direction - 20 /\ c.kick >= m.kick - 50
  BY <1>1 DEF Promoted, Regressed
<1> QED BY <1>3, <1>4

\* A step that replaces the saved champion puts a better one in its place that
\* gives up no more than the limits allow.
LEMMA RatchetStep ==
    ASSUME IInv, DurableStep, saved.champion # None, saved'.champion # saved.champion
    PROVE  /\ CompositeScore(saved'.champion.metrics)
                > CompositeScore(saved.champion.metrics)
           /\ saved'.champion.metrics.direction >= saved.champion.metrics.direction - 20
           /\ saved'.champion.metrics.kick >= saved.champion.metrics.kick - 50
<1> USE DEF IInv
<1>1. Committed \/ Halved
  <2>1. CASE Activated
    BY <2>1, ExceptFacts DEF Activated, TypeOK
  <2> QED
    BY <2>1 DEF DurableStep, durable, Pointed, Born, Preregistered, Trained, Published,
                Recorded
<1>2. UnderWay /\ Wins(saved) /\ saved'.champion = Champion(saved.active)
  <2>1. CASE Committed
    BY <2>1, CommittedFacts DEF Committed
  <2>2. CASE Halved
    BY <2>2, ExceptFacts DEF Halved, TypeOK
  <2> QED BY <1>1, <2>1, <2>2
<1>3. saved'.champion.metrics = metrics[saved.active]
  BY <1>2 DEF Champion
<1>4. Promoted(saved'.champion.metrics, saved.champion.metrics)
  BY <1>2, <1>3 DEF Wins
<1>5. saved'.champion.metrics \in Metrics /\ saved.champion.metrics \in Metrics
  BY <1>2, <1>3, UnderWayFacts DEF Models
<1> QED BY <1>4, <1>5, PromotedFacts

\* No crash, retry or handler ever puts an unevaluated or regressed model in place.
THEOREM ChampionsRatchet == Spec => ChampionRatchet
<1>1. IInv /\ [Next]_vars =>
        [LET old == saved.champion  new == saved'.champion IN
          old # None /\ new # old =>
              /\ CompositeScore(new.metrics) > CompositeScore(old.metrics)
              /\ new.metrics.direction >= old.metrics.direction - 20
              /\ new.metrics.kick >= old.metrics.kick - 50]_vars
  BY RatchetStep, StepIsDurable
<1> QED BY <1>1, GenerationInvariant, PTL DEF Spec, ChampionRatchet
==============================================================================
