-------------------------- MODULE ServiceUpdate_proofs --------------------------
(***************************************************************************)
(* Proofs about ServiceUpdate, for every number of rechecks, failures,     *)
(* deaths, kills and operator changes.                                     *)
(*                                                                         *)
(* EnvironmentFacts, StopFacts and StartFacts say once what systemd, a     *)
(* stop job and a start job do to the units; then there is one lemma per   *)
(* conjunct of the inductive invariant UInv.                               *)
(***************************************************************************)
EXTENDS ServiceUpdate, TLAPS

(* What systemd does by itself while the updater is anywhere.              *)
Environment == TimerFires \/ TickEnds \/ UnitDies \/ DaemonRestarts

UpType ==
    /\ up \in [Units -> {"inactive", "activating", "active"}]
    /\ up["tick"] # "active" /\ up["timer"] # "activating" /\ up["live"] # "activating"

-----------------------------------------------------------------------------
(* The list of managed units, position by position.                        *)
LEMMA ManagedFacts ==
    /\ Len(Managed) = 6
    /\ Managed[1] = "live" /\ Managed[2] = "timer" /\ Managed[3] = "tick"
    /\ Managed[4] = "analyzer" /\ Managed[5] = "worker" /\ Managed[6] = "ingest"
    /\ \A j \in 1..6 : Managed[j] \in Units
    /\ \A u \in Units : \E j \in 1..6 : Managed[j] = u
    /\ \A i, j \in 1..6 : Managed[i] = Managed[j] => i = j
<1>1. /\ Len(Managed) = 6
      /\ Managed[1] = "live" /\ Managed[2] = "timer" /\ Managed[3] = "tick"
      /\ Managed[4] = "analyzer" /\ Managed[5] = "worker" /\ Managed[6] = "ingest"
  BY DEF Managed
<1>2. \A j \in 1..6 : Managed[j] \in Units
  <2>1. TAKE j \in 1..6
  <2>2. j = 1 \/ j = 2 \/ j = 3 \/ j = 4 \/ j = 5 \/ j = 6
    OBVIOUS
  <2>3. QED
    BY <1>1, <2>2 DEF Units
<1>3. \A u \in Units : \E j \in 1..6 : Managed[j] = u
  BY <1>1 DEF Units
<1>4. \A i, j \in 1..6 : Managed[i] = Managed[j] => i = j
  <2>1. TAKE i, j \in 1..6
  <2>2. i = 1 \/ i = 2 \/ i = 3 \/ i = 4 \/ i = 5 \/ i = 6
    OBVIOUS
  <2>3. j = 1 \/ j = 2 \/ j = 3 \/ j = 4 \/ j = 5 \/ j = 6
    OBVIOUS
  <2>4. QED
    BY <1>1, <2>2, <2>3
<1>5. QED
  BY <1>1, <1>2, <1>3, <1>4

(* The list of units that a successful update starts and checks.           *)
LEMMA PipelineFacts ==
    /\ Len(Pipeline) = 4
    /\ \A j \in 1..4 : Pipeline[j] \in Units \ {"tick", "live"}
<1>1. /\ Len(Pipeline) = 4
      /\ Pipeline[1] = "ingest" /\ Pipeline[2] = "worker"
      /\ Pipeline[3] = "analyzer" /\ Pipeline[4] = "timer"
  BY DEF Pipeline
<1>2. \A j \in 1..4 : Pipeline[j] \in Units \ {"tick", "live"}
  <2>1. TAKE j \in 1..4
  <2>2. j = 1 \/ j = 2 \/ j = 3 \/ j = 4
    OBVIOUS
  <2>3. QED
    BY <1>1, <2>2 DEF Units
<1>3. QED
  BY <1>1, <1>2

(* The dependencies, unit by unit.                                         *)
LEMMA DependencyFacts ==
    /\ StartedWith("live") = {"live"} /\ StartedWith("timer") = {"timer"}
    /\ StartedWith("tick") = {"tick", "analyzer", "worker", "ingest"}
    /\ StartedWith("analyzer") = {"analyzer", "worker", "ingest"}
    /\ StartedWith("worker") = {"worker", "ingest"}
    /\ StartedWith("ingest") = {"ingest"}
    /\ StoppedWith("live") = {"live"} /\ StoppedWith("timer") = {"timer"}
    /\ StoppedWith("tick") = {"tick"} /\ StoppedWith("analyzer") = {"analyzer"}
    /\ StoppedWith("worker") = {"worker", "analyzer"}
    /\ StoppedWith("ingest") = {"ingest", "worker", "analyzer"}
BY DEF StartedWith, StoppedWith

(* systemd on its own stops only a tick or the live bot, and starts a unit *)
(* only when an active timer fires.                                        *)
LEMMA EnvironmentFacts ==
    ASSUME UpType, RequiresInv, Environment
    PROVE  /\ UNCHANGED <<updater, failures, kills, changes>>
           /\ UpType' /\ RequiresInv'
           /\ \A u \in Units \ {"live", "tick"} : Running(u) => Running(u)'
           /\ \A u \in Units :
                 Running(u)' => \/ Running(u)
                                \/ up["timer"] = "active" /\ u \in StartedWith("tick")
<1> USE DependencyFacts DEF UpType, RequiresInv, Running, Units
<1>1. CASE TimerFires
  BY <1>1 DEF TimerFires, Started, updater, bounds
<1>2. CASE TickEnds
  BY <1>2 DEF TickEnds, Stopped, updater, bounds
<1>3. CASE UnitDies
  <2>1. PICK u \in Daemons \union {"live"} :
            /\ up[u] = "active"
            /\ up' = [up EXCEPT ![u] = IF u = "live" THEN "inactive" ELSE "activating"]
    BY <1>3 DEF UnitDies
  <2>2. UNCHANGED <<updater, failures, kills, changes>>
    BY <1>3 DEF UnitDies
  <2>3. QED
    BY <2>1, <2>2 DEF Daemons
<1>4. CASE DaemonRestarts
  <2>1. PICK u \in Daemons : up[u] = "activating" /\ up' = Started({u})
    BY <1>4 DEF DaemonRestarts
  <2>2. UNCHANGED <<updater, failures, kills, changes>>
    BY <1>4 DEF DaemonRestarts, bounds
  <2>3. QED
    BY <2>1, <2>2 DEF Started, Daemons
<1>5. QED
  BY <1>1, <1>2, <1>3, <1>4 DEF Environment

(* A stop job leaves the unit down, or is refused and changes no unit.     *)
LEMMA StopFacts ==
    ASSUME UpType, RequiresInv, NEW u \in Units, StopJob(u)
    PROVE  /\ UpType' /\ RequiresInv'
           /\ \A v \in Units : Running(v)' => Running(v)
           /\ \A v \in Units : Running(v) => Running(v)' \/ v \in StoppedWith(u)
           /\ \/ refused' = refused /\ ~Running(u)'
              \/ refused' = refused \union {u}
<1> USE DependencyFacts DEF UpType, RequiresInv, Running, Units, StopJob, Stopped
<1>1. CASE u = "live" \/ u = "timer" \/ u = "tick"
  BY <1>1
<1>2. CASE u = "analyzer" \/ u = "worker" \/ u = "ingest"
  BY <1>2
<1>3. QED
  BY <1>1, <1>2

(* A start job leaves the unit up, or is refused; besides it starts at     *)
(* most what the unit requires.                                            *)
LEMMA StartFacts ==
    ASSUME UpType, RequiresInv, NEW u \in Units \ {"tick"}, StartJob(u)
    PROVE  /\ UpType' /\ RequiresInv'
           /\ \A v \in Units : Running(v) => Running(v)'
           /\ \A v \in Units : Running(v)' => Running(v) \/ v \in StartedWith(u)
           /\ \/ refused' = refused /\ Running(u)'
              \/ refused' = refused \union {u}
<1> USE DependencyFacts DEF UpType, RequiresInv, Running, Units, StartJob, Started
<1>1. CASE u = "live" \/ u = "timer"
  BY <1>1
<1>2. CASE u = "analyzer"
  BY <1>2
<1>3. CASE u = "worker"
  BY <1>3
<1>4. CASE u = "ingest"
  BY <1>4
<1>5. QED
  BY <1>1, <1>2, <1>3, <1>4

(* The steps of the updater and of the operator that leave the units alone. *)
Bookkeeping ==
    \/ StartUpdate \/ CaptureUnit \/ PollUnit \/ CaptureFails \/ CaptureEnds
    \/ StopsEnd \/ Mutate \/ StartsEnd \/ CheckUnit \/ Succeed \/ CommandFails
    \/ RestopEnds \/ RestoreEnds \/ Killed \/ Exit

\* The bookkeeping of the script stops and starts nothing.
LEMMA BookkeepingFacts ==
    ASSUME Bookkeeping PROVE UNCHANGED up
BY DEF Bookkeeping, StartUpdate, CaptureUnit, PollUnit, CaptureFails, CaptureEnds,
    StopsEnd, Mutate, StartsEnd, CheckUnit, Succeed, CommandFails, RestopEnds,
    RestoreEnds, Killed, Exit, vars

(* Every step is one of five kinds.                                        *)
LEMMA NextCases ==
    ASSUME Next
    PROVE  \/ Environment \/ OperatorChanges \/ Bookkeeping
           \/ StopUnit \/ StartUnit \/ StartLive \/ RestopUnit \/ RestoreUnit
BY DEF Next, UpdaterStep, Environment, Bookkeeping

-----------------------------------------------------------------------------
(* Units keep their type and their dependencies.                           *)
LEMMA UnitsPreserved ==
    ASSUME TypeOK, RequiresInv, [Next]_vars
    PROVE  UpType' /\ RequiresInv'
<1>1. UpType
  BY DEF TypeOK, UpType
<1>2. CASE UNCHANGED up
  BY <1>1, <1>2 DEF UpType, RequiresInv, Running
<1>3. CASE Environment
  BY <1>1, <1>3, EnvironmentFacts
<1>4. CASE OperatorChanges
  <2>1. PICK u \in Units \ {"tick"} :
            up' = IF Running(u) THEN Stopped(StoppedWith(u)) ELSE Started(StartedWith(u))
    BY <1>4 DEF OperatorChanges
  <2> USE <1>1, <2>1, DependencyFacts
      DEF UpType, RequiresInv, Running, Units, Started, Stopped
  <2>2. CASE u = "live" \/ u = "timer"
    BY <2>2
  <2>3. CASE u = "analyzer"
    BY <2>3
  <2>4. CASE u = "worker"
    BY <2>4
  <2>5. CASE u = "ingest"
    BY <2>5
  <2>6. QED
    BY <2>2, <2>3, <2>4, <2>5
<1>5. CASE StopUnit
  BY <1>1, <1>5, ManagedFacts, StopFacts DEF StopUnit
<1>6. CASE StartUnit
  BY <1>1, <1>6, PipelineFacts, StartFacts DEF StartUnit
<1>7. CASE StartLive
  BY <1>1, <1>7, StartFacts DEF StartLive, Units
<1>8. CASE RestopUnit
  <2>1. CASE Managed[at] \in captured
    BY <1>2, <1>8, <2>1 DEF RestopUnit
  <2>2. CASE Managed[at] \notin captured
    BY <1>1, <1>8, <2>2, ManagedFacts, StopFacts DEF RestopUnit
  <2>3. QED
    BY <2>1, <2>2
<1>9. CASE RestoreUnit
  <2>1. CASE Managed[at] \in captured
    BY <1>1, <1>9, <2>1, ManagedFacts, StartFacts DEF RestoreUnit, TypeOK
  <2>2. CASE Managed[at] \notin captured
    BY <1>2, <1>9, <2>2 DEF RestoreUnit
  <2>3. QED
    BY <2>1, <2>2
<1>10. CASE UNCHANGED vars
  BY <1>2, <1>10 DEF vars
<1>11. QED
  BY <1>2, <1>3, <1>4, <1>5, <1>6, <1>7, <1>8, <1>9, <1>10, BookkeepingFacts, NextCases

(* The remaining variables keep their types.                               *)
LEMMA TypePreserved ==
    ASSUME UpdateAssumption, TypeOK, RequiresInv, [Next]_vars
    PROVE  TypeOK'
<1>1. UpType'
  BY UnitsPreserved
<1> USE ManagedFacts, PipelineFacts DEF TypeOK
<1>2. SUFFICES /\ pc' \in {"idle", "capture", "aborted", "stop", "start", "check",
                           "updated", "restop", "restore", "failed"} \union Mutating
               /\ at' \in 0..Len(Managed) + 1
               /\ polls' \in 0..MaxPolls
               /\ captured' \subseteq Units \ {"tick"} /\ refused' \subseteq Units
               /\ failures' \in Nat /\ deaths' \in Nat /\ kills' \in Nat
               /\ changes' \in Nat
  BY <1>1 DEF UpType
<1>3. CASE Environment
  BY <1>3 DEF Environment, TimerFires, TickEnds, UnitDies, DaemonRestarts, updater,
      bounds
<1>4. CASE OperatorChanges
  BY <1>4 DEF OperatorChanges, updater
<1>5. CASE StartUpdate \/ CaptureFails \/ CaptureEnds \/ StopsEnd \/ StartsEnd
  <2>1. CASE StartUpdate
    BY <2>1 DEF UpdateAssumption, StartUpdate, bounds
  <2>2. CASE CaptureFails \/ CaptureEnds
    BY <2>2 DEF CaptureFails, CaptureEnds, bounds
  <2>3. CASE StopsEnd \/ StartsEnd
    BY <2>3 DEF StopsEnd, StartsEnd, bounds, Mutating
  <2>4. QED
    BY <1>5, <2>1, <2>2, <2>3
<1>6. CASE CaptureUnit
  <2>1. Managed[at] \in Units /\ at \in 1..6
    BY <1>6 DEF CaptureUnit
  <2>2. captured' \subseteq Units \ {"tick"}
    BY <1>6, <2>1 DEF CaptureUnit
  <2>3. QED
    BY <1>6, <2>1, <2>2 DEF UpdateAssumption, CaptureUnit, bounds
<1>7. CASE PollUnit
  BY <1>7 DEF UpdateAssumption, PollUnit, bounds
<1>8. CASE Mutate
  BY <1>8 DEF Mutate, After, Mutating, bounds
<1>9. CASE CheckUnit \/ Succeed \/ CommandFails
  BY <1>9 DEF CheckUnit, Succeed, CommandFails, bounds
<1>10. CASE RestopEnds \/ RestoreEnds \/ Killed \/ Exit
  BY <1>10 DEF RestopEnds, RestoreEnds, Killed, Exit, bounds
<1>11. CASE StopUnit
  BY <1>11 DEF StopUnit, StopJob
<1>12. CASE StartUnit
  BY <1>12 DEF StartUnit, StartJob
<1>13. CASE StartLive
  BY <1>13 DEF StartLive, StartJob, Units
<1>14. CASE RestopUnit
  BY <1>14 DEF RestopUnit, StopJob
<1>15. CASE RestoreUnit
  BY <1>15 DEF RestoreUnit, StartJob
<1>16. CASE UNCHANGED vars
  BY <1>16 DEF vars, updater, bounds
<1>17. QED
  BY <1>3, <1>4, <1>5, <1>6, <1>7, <1>8, <1>9, <1>10, <1>11, <1>12, <1>13, <1>14,
     <1>15, <1>16, NextCases DEF Bookkeeping

-----------------------------------------------------------------------------
(* Which steps lead into each phase of the updater.                        *)
LEMMA PhaseFacts ==
    ASSUME TypeOK, Next, ~Environment
    PROVE  /\ pc' = "capture" => StartUpdate \/ CaptureUnit \/ (PollUnit /\ pc = "capture")
           /\ pc' = "stop" => CaptureEnds \/ StopUnit
           /\ pc' \in Mutating => (StopsEnd /\ refused = {}) \/ Mutate
           /\ pc' = "start" => Mutate \/ StartUnit \/ StartLive
           /\ pc' = "restop" =>
                 at' = 1 \/ RestopUnit
           /\ pc' = "restore" => RestopEnds \/ RestoreUnit
           /\ pc' = "failed" => RestoreEnds
           /\ pc' \notin {"idle", "capture", "aborted"} =>
                 captured' = captured /\ (pc \notin {"idle", "capture", "aborted"} \/ CaptureEnds)
<1> USE ManagedFacts, PipelineFacts DEF TypeOK, Mutating
<1>1. CASE OperatorChanges \/ Killed \/ Exit
  BY <1>1 DEF OperatorChanges, Killed, Exit, updater
<1>2. CASE StartUpdate \/ CaptureUnit \/ PollUnit \/ CaptureFails \/ CaptureEnds
  BY <1>2 DEF StartUpdate, CaptureUnit, PollUnit, CaptureFails, CaptureEnds
<1>3. CASE StopUnit \/ StopsEnd \/ StartUnit \/ StartLive \/ StartsEnd
  BY <1>3 DEF StopUnit, StopsEnd, StartUnit, StartLive, StartsEnd
<1>4. CASE Mutate
  BY <1>4 DEF Mutate, After
<1>5. CASE CheckUnit \/ Succeed \/ CommandFails
  BY <1>5 DEF CheckUnit, Succeed, CommandFails
<1>6. CASE RestopUnit \/ RestopEnds \/ RestoreUnit \/ RestoreEnds
  BY <1>6 DEF RestopUnit, RestopEnds, RestoreUnit, RestoreEnds
<1>7. QED
  BY <1>1, <1>2, <1>3, <1>4, <1>5, <1>6, NextCases DEF Bookkeeping

(* What a unit requires comes with it, is no tick and not the live bot,    *)
(* and stands at or behind its place in the list.                          *)
LEMMA RequirementFacts ==
    /\ \A u \in Units \ {"live", "tick"} :
          u \in StartedWith(u) /\ StartedWith(u) \subseteq Units \ {"live", "tick"}
    /\ \A i, j \in 1..6 : i # 1 /\ Managed[j] \in StartedWith(Managed[i]) =>
          Managed[j] = Managed[i] \/ i < j
    /\ \A j \in 1..6 : Managed[j] \in StartedWith("tick") => j > 2
<1> USE DependencyFacts, ManagedFacts
<1>1. \A u \in Units \ {"live", "tick"} :
          u \in StartedWith(u) /\ StartedWith(u) \subseteq Units \ {"live", "tick"}
  BY DEF Units
<1>2. \A i, j \in 1..6 : i # 1 /\ Managed[j] \in StartedWith(Managed[i]) =>
          Managed[j] = Managed[i] \/ i < j
  <2>1. TAKE i, j \in 1..6
  <2>2. i = 1 \/ i = 2 \/ i = 3 \/ i = 4 \/ i = 5 \/ i = 6
    OBVIOUS
  <2>3. j = 1 \/ j = 2 \/ j = 3 \/ j = 4 \/ j = 5 \/ j = 6
    OBVIOUS
  <2>4. QED
    BY <2>2, <2>3
<1>3. \A j \in 1..6 : Managed[j] \in StartedWith("tick") => j > 2
  <2>1. TAKE j \in 1..6
  <2>2. j = 1 \/ j = 2 \/ j = 3 \/ j = 4 \/ j = 5 \/ j = 6
    OBVIOUS
  <2>3. QED
    BY <2>2
<1>4. QED
  BY <1>1, <1>2, <1>3

(* A noted unit stays up, with what it requires, during the queries.       *)
LEMMA CapturePreserved ==
    ASSUME UInv, [Next]_vars
    PROVE  CaptureInv'
<1> USE ManagedFacts DEF UInv
<1>1. UpType
  BY DEF TypeOK, UpType
<1>2. CASE Environment
  <2>1. /\ UNCHANGED updater
        /\ \A v \in Units \ {"live", "tick"} : Running(v) => Running(v)'
    BY <1>1, <1>2, EnvironmentFacts
  <2>2. \A u \in captured : u # "live" => u \in Units \ {"live", "tick"}
    BY DEF TypeOK
  <2>3. QED
    BY <2>1, <2>2, RequirementFacts DEF CaptureInv, updater
<1>3. CASE ~Environment /\ Next
  <2>1. SUFFICES ASSUME pc' = "capture" PROVE CaptureInv'
    BY DEF CaptureInv
  <2>2. CASE StartUpdate
    BY <2>2 DEF StartUpdate, CaptureInv
  <2>3. CASE PollUnit /\ pc = "capture"
    BY <2>1, <2>3 DEF PollUnit, CaptureInv, Running
  <2>4. CASE CaptureUnit
    <3>1. /\ at \in 1..6 /\ at' = at + 1 /\ up' = up /\ pc = "capture"
          /\ Managed[at] \in Units
          /\ up[Managed[at]] # "activating"
          /\ captured' = IF up[Managed[at]] = "active"
                         THEN captured \union {Managed[at]} ELSE captured
      BY <2>4 DEF CaptureUnit, bounds
    <3>2. ASSUME NEW u \in captured'
          PROVE  \E j \in 1..6 : j < at' /\ Managed[j] = u
      BY <3>1, <3>2 DEF CaptureInv
    <3>3. ASSUME NEW u \in captured', u # "live", NEW j \in 1..6,
                 Managed[j] \in StartedWith(u)
          PROVE  Running(Managed[j])' /\ (j < at' => Managed[j] \in captured')
      <4>1. CASE u \in captured
        <5>1. Running(Managed[j]) /\ (j < at => Managed[j] \in captured)
          BY <3>1, <3>3, <4>1 DEF CaptureInv
        <5>2. j = at => up[Managed[at]] = "active"
          BY <3>1, <5>1 DEF Running, TypeOK
        <5>3. QED
          BY <3>1, <5>1, <5>2 DEF Running
      <4>2. CASE u \notin captured
        <5>1. u = Managed[at] /\ up[u] = "active"
          BY <3>1, <3>3, <4>2
        <5>2. Running(Managed[j])
          BY <5>1, <3>1, <3>3, DependencyFacts DEF Running, RequiresInv, TypeOK, Units
        <5>3. Managed[j] = u \/ at < j
          BY <5>1, <3>1, <3>3, RequirementFacts
        <5>4. QED
          BY <3>1, <3>3, <5>1, <5>2, <5>3 DEF Running
      <4>3. QED
        BY <4>1, <4>2
    <3>4. QED
      BY <3>2, <3>3 DEF CaptureInv
  <2>5. QED
    BY <1>3, <2>1, <2>2, <2>3, <2>4, PhaseFacts
<1>4. CASE UNCHANGED vars
  BY <1>4 DEF vars, updater, CaptureInv, Running
<1>5. QED
  BY <1>2, <1>3, <1>4

(* What was noted stays closed, and is closed when the queries are over.   *)
LEMMA ClosedPreserved ==
    ASSUME UInv, [Next]_vars
    PROVE  CaptureIsClosed'
<1> USE ManagedFacts DEF UInv
<1>1. UpType
  BY DEF TypeOK, UpType
<1>2. CASE UNCHANGED updater
  BY <1>2 DEF updater, CaptureIsClosed
<1>3. CASE Environment
  BY <1>1, <1>2, <1>3, EnvironmentFacts
<1>4. CASE ~Environment /\ Next
  <2>1. SUFFICES ASSUME pc' \notin {"idle", "capture", "aborted"},
                        NEW u \in captured
                 PROVE  StartedWith(u) \subseteq captured
    BY <1>4, PhaseFacts DEF CaptureIsClosed
  <2>2. CASE pc \notin {"idle", "capture", "aborted"}
    BY <2>2 DEF CaptureIsClosed
  <2>3. CASE CaptureEnds
    <3>1. pc = "capture" /\ at > 6
      BY <2>3 DEF CaptureEnds
    <3>2. CASE u = "live"
      BY <3>2, DependencyFacts
    <3>3. CASE u # "live"
      <4>1. \A j \in 1..6 : Managed[j] \in StartedWith(u) => Managed[j] \in captured
        BY <3>1, <3>3 DEF CaptureInv, TypeOK
      <4>2. StartedWith(u) \subseteq Units
        BY <3>3, RequirementFacts DEF TypeOK
      <4>3. QED
        BY <4>1, <4>2
    <3>4. QED
      BY <3>2, <3>3
  <2>4. QED
    BY <1>4, <2>1, <2>2, <2>3, PhaseFacts
<1>5. QED
  BY <1>2, <1>3, <1>4 DEF vars

(* A unit that was stopped stays down until all are, unless a stop fails.  *)
LEMMA StopPreserved ==
    ASSUME UInv, [Next]_vars
    PROVE  StopInv'
<1>1. UpType /\ RequiresInv /\ TypeOK /\ StopInv /\ MutatedWhileStopped
  BY DEF UInv, TypeOK, UpType
<1>2. CASE Environment
  <2>1. ASSUME NEW v \in Units, Running(v)'
        PROVE  \/ Running(v)
               \/ up["timer"] = "active" /\ v \in StartedWith("tick")
    BY <1>1, <1>2, <2>1, EnvironmentFacts
  <2>2. SUFFICES ASSUME pc = "stop", refused = {}, NEW j \in 1..6, j < at, Running(Managed[j])'
                 PROVE  FALSE
    BY <1>1, <1>2, EnvironmentFacts, ManagedFacts DEF StopInv, updater
  <2>3. ~Running(Managed[j])
    BY <1>1, <2>2, ManagedFacts DEF StopInv
  <2>4. up["timer"] = "active" /\ j > 2
    BY <2>1, <2>2, <2>3, RequirementFacts, ManagedFacts
  <2>5. ~Running("timer")
    BY <1>1, <2>2, <2>4, ManagedFacts DEF StopInv, TypeOK
  <2>6. QED
    BY <2>4, <2>5 DEF Running
<1>3. CASE ~Environment /\ Next
  <2>1. SUFFICES ASSUME pc' = "stop", refused' = {} PROVE StopInv'
    BY DEF StopInv
  <2>2. CASE CaptureEnds
    BY <2>2, ManagedFacts DEF CaptureEnds, StopInv
  <2>3. CASE StopUnit
    <3>1. pc = "stop" /\ at \in 1..6 /\ at' = at + 1 /\ StopJob(Managed[at])
      BY <2>3, ManagedFacts DEF StopUnit
    <3>2. PICK u \in Units : u = Managed[at]
      BY <3>1, ManagedFacts
    <3>3. /\ \A v \in Units : Running(v)' => Running(v)
          /\ \/ refused' = refused /\ ~Running(u)'
             \/ refused' = refused \union {u}
      BY <1>1, <3>1, <3>2, StopFacts
    <3>6. refused = {} /\ ~Running(u)'
      BY <2>1, <3>3
    <3>4. ASSUME NEW j \in 1..6, j < at' PROVE ~Running(Managed[j])'
      <4>1. CASE j = at
        BY <3>2, <3>6, <4>1
      <4>2. CASE j < at
        BY <1>1, <3>1, <3>3, <3>4, <3>6, <4>2, ManagedFacts DEF StopInv
      <4>3. QED
        BY <3>1, <3>4, <4>1, <4>2
    <3>5. QED
      BY <3>4, ManagedFacts DEF StopInv
  <2>4. QED
    BY <1>1, <1>3, <2>1, <2>2, <2>3, PhaseFacts
<1>4. CASE UNCHANGED vars
  BY <1>1, <1>4 DEF vars, updater, StopInv, Running
<1>5. QED
  BY <1>2, <1>3, <1>4

(* Nothing runs while packages, checkout and unit files are replaced.      *)
LEMMA MutationPreserved ==
    ASSUME UInv, [Next]_vars
    PROVE  MutatedWhileStopped'
<1>1. UpType /\ RequiresInv /\ TypeOK /\ StopInv /\ MutatedWhileStopped
  BY DEF UInv, TypeOK, UpType
<1>2. CASE Environment
  <2>1. /\ UNCHANGED updater
        /\ \A v \in Units : Running(v)' => Running(v) \/ up["timer"] = "active"
    BY <1>1, <1>2, EnvironmentFacts
  <2>2. QED
    BY <1>1, <2>1 DEF MutatedWhileStopped, updater, Running, Units
<1>3. CASE ~Environment /\ Next
  <2>1. SUFFICES ASSUME pc' \in Mutating PROVE \A u \in Units : ~Running(u)'
    BY DEF MutatedWhileStopped
  <2>2. CASE StopsEnd /\ refused = {}
    <3>1. pc = "stop" /\ at > 6 /\ up' = up
      BY <2>2, ManagedFacts DEF StopsEnd
    <3>2. \A j \in 1..6 : ~Running(Managed[j])
      BY <1>1, <2>2, <3>1, ManagedFacts DEF StopInv, TypeOK
    <3>3. QED
      BY <3>1, <3>2, ManagedFacts DEF Running
  <2>3. CASE Mutate
    BY <1>1, <2>3 DEF Mutate, MutatedWhileStopped, Running
  <2>4. QED
    BY <1>1, <1>3, <2>1, <2>2, <2>3, PhaseFacts
<1>4. CASE UNCHANGED vars
  BY <1>1, <1>4 DEF vars, updater, MutatedWhileStopped, Running
<1>5. QED
  BY <1>2, <1>3, <1>4

(* During the recovery a unit that is down stays down, as far as Down says,*)
(* whatever systemd does: only an active timer starts units.               *)
LEMMA DownKept ==
    ASSUME UpType, RequiresInv, Environment, NEW u \in Units, Down(u),
           "timer" \in captured \/ Down("timer") \/ u \notin StartedWith("tick")
    PROVE  Down(u)'
<1>1. /\ captured' = captured /\ refused' = refused
      /\ Running(u)' => \/ Running(u)
                        \/ up["timer"] = "active" /\ u \in StartedWith("tick")
  BY EnvironmentFacts DEF updater
<1>2. up["timer"] = "active" /\ Down("timer") => "timer" \in captured \union refused
  BY DEF Down, Running
<1>3. QED
  BY <1>1, <1>2 DEF Down

(* A unit that is down stays down when no unit is started and no refusal is *)
(* forgotten.                                                              *)
LEMMA DownGrows ==
    ASSUME NEW u \in Units, Down(u), Running(u)' => Running(u),
           captured' = captured, refused \subseteq refused'
    PROVE  Down(u)'
BY DEF Down

(* The units the recovery has gone past are down, unless they were noted.  *)
LEMMA RestopPreserved ==
    ASSUME UInv, [Next]_vars
    PROVE  RestopInv'
<1>1. UpType /\ RequiresInv /\ TypeOK /\ RestopInv
  BY DEF UInv, TypeOK, UpType
<1>2. CASE Environment
  <2>1. pc' = pc /\ at' = at /\ captured' = captured
    BY <1>1, <1>2, EnvironmentFacts DEF updater
  <2>2. SUFFICES ASSUME pc = "restop", NEW j \in 1..6, j < at, Managed[j] \notin captured
                 PROVE  Down(Managed[j])'
    BY <2>1, ManagedFacts DEF RestopInv
  <2>3. PICK u \in Units : u = Managed[j]
    BY ManagedFacts
  <2>4. Down(u)
    BY <1>1, <2>2, <2>3, ManagedFacts DEF RestopInv
  <2>5. "timer" \in captured \/ Down("timer") \/ u \notin StartedWith("tick")
    BY <1>1, <2>2, <2>3, ManagedFacts, RequirementFacts DEF RestopInv, TypeOK
  <2>6. Down(u)'
    BY <1>1, <1>2, <2>4, <2>5, DownKept
  <2>7. QED
    BY <2>3, <2>6
<1>3. CASE ~Environment /\ Next
  <2>1. SUFFICES ASSUME pc' = "restop" PROVE RestopInv'
    BY DEF RestopInv
  <2>2. CASE at' = 1
    BY <2>2, ManagedFacts DEF RestopInv
  <2>3. CASE RestopUnit
    <3>1. /\ pc = "restop" /\ at \in 1..6 /\ at' = at + 1 /\ captured' = captured
          /\ IF Managed[at] \in captured
             THEN UNCHANGED <<up, refused, failures>>
             ELSE StopJob(Managed[at])
      BY <2>3, ManagedFacts DEF RestopUnit
    <3>2. PICK u \in Units : u = Managed[at]
      BY <3>1, ManagedFacts
    <3>3. ASSUME u \notin captured
          PROVE  /\ \A v \in Units : Running(v)' => Running(v)
                 /\ \/ refused' = refused /\ ~Running(u)'
                    \/ refused' = refused \union {u}
      BY <1>1, <3>1, <3>2, <3>3, StopFacts
    <3>4. ASSUME NEW v \in Units
          PROVE  (Running(v)' => Running(v)) /\ refused \subseteq refused'
      BY <3>1, <3>2, <3>3 DEF Running
    <3>5. u \notin captured => Down(u)'
      BY <3>3 DEF Down
    <3>6. ASSUME NEW j \in 1..6, j < at', Managed[j] \notin captured'
          PROVE  Down(Managed[j])'
      <4>1. PICK v \in Units : v = Managed[j]
        BY ManagedFacts
      <4>2. CASE j = at
        BY <3>1, <3>2, <3>5, <3>6, <4>1, <4>2
      <4>3. CASE j < at
        <5>1. Down(v)
          BY <1>1, <3>1, <3>6, <4>1, <4>3, ManagedFacts DEF RestopInv
        <5>2. Down(v)'
          BY <3>1, <3>4, <5>1, DownGrows
        <5>3. QED
          BY <4>1, <5>2
      <4>4. QED
        BY <3>1, <3>6, <4>2, <4>3
    <3>7. QED
      BY <3>6, ManagedFacts DEF RestopInv
  <2>4. QED
    BY <1>1, <1>3, <2>1, <2>2, <2>3, PhaseFacts
<1>4. CASE UNCHANGED vars
  BY <1>1, <1>4 DEF vars, updater, RestopInv, Down, Running
<1>5. QED
  BY <1>2, <1>3, <1>4

(* What systemd does by itself undoes no restoration: noted units that run *)
(* go on running, the others stay down as far as Down says.                *)
LEMMA RestorationKept ==
    ASSUME TypeOK, RequiresInv, Environment
    PROVE  /\ (\A u \in Units \ captured : Down(u)) =>
                  \A u \in Units \ captured' : Down(u)'
           /\ \A u \in captured \ {"live"} :
                  Running(u) \/ u \in refused => Running(u)' \/ u \in refused'
<1>1. UpType
  BY DEF TypeOK, UpType
<1>2. captured' = captured /\ refused' = refused
  BY <1>1, EnvironmentFacts DEF updater
<1>3. ASSUME \A u \in Units \ captured : Down(u), NEW u \in Units \ captured'
      PROVE  Down(u)'
  <2>1. Down(u)
    BY <1>2, <1>3
  <2>2. "timer" \in captured \/ Down("timer")
    BY <1>3 DEF Units
  <2>3. QED
    BY <1>1, <2>1, <2>2, DownKept
<1>4. ASSUME NEW u \in captured \ {"live"}, Running(u) \/ u \in refused
      PROVE  Running(u)' \/ u \in refused'
  <2>1. u \in Units \ {"live", "tick"}
    BY DEF TypeOK
  <2>2. QED
    BY <1>1, <1>2, <1>4, <2>1, EnvironmentFacts
<1>5. QED
  BY <1>3, <1>4

(* The units the restoration has gone past run if they were noted.         *)
LEMMA RestorePreserved ==
    ASSUME UInv, [Next]_vars
    PROVE  RestoreInv'
<1>1. /\ UpType /\ RequiresInv /\ TypeOK /\ CaptureIsClosed /\ RestopInv /\ RestoreInv
  BY DEF UInv, TypeOK, UpType
<1>2. CASE Environment
  <2>1. pc' = pc /\ at' = at /\ captured' = captured
    BY <1>1, <1>2, EnvironmentFacts DEF updater
  <2>2. SUFFICES ASSUME pc = "restore" PROVE RestoreInv'
    BY <2>1 DEF RestoreInv
  <2>3. \A u \in Units \ captured' : Down(u)'
    BY <1>1, <1>2, <2>2, RestorationKept DEF RestoreInv
  <2>4. ASSUME NEW j \in 1..6, j > at, Managed[j] \in captured \ {"live"}
        PROVE  Running(Managed[j])' \/ Managed[j] \in refused'
    <3>1. PICK u \in Units : u = Managed[j]
      BY ManagedFacts
    <3>2. u \in captured \ {"live"} /\ (Running(u) \/ u \in refused)
      BY <1>1, <2>2, <2>4, <3>1, ManagedFacts DEF RestoreInv
    <3>3. Running(u)' \/ u \in refused'
      BY <1>1, <1>2, <3>2, RestorationKept
    <3>4. QED
      BY <3>1, <3>3
  <2>5. QED
    BY <2>1, <2>3, <2>4, ManagedFacts DEF RestoreInv
<1>3. CASE ~Environment /\ Next
  <2>1. SUFFICES ASSUME pc' = "restore" PROVE RestoreInv'
    BY DEF RestoreInv
  <2>2. CASE RestopEnds
    <3>1. /\ pc = "restop" /\ at > 6 /\ at' = 6 /\ UNCHANGED <<up, captured, refused>>
      BY <2>2, ManagedFacts DEF RestopEnds
    <3>2. ASSUME NEW u \in Units \ captured' PROVE Down(u)'
      <4>1. PICK j \in 1..6 : Managed[j] = u
        BY ManagedFacts
      <4>2. Down(u)
        BY <1>1, <3>1, <3>2, <4>1, ManagedFacts DEF RestopInv, TypeOK
      <4>3. QED
        BY <3>1, <4>2 DEF Down, Running
    <3>3. QED
      BY <3>1, <3>2, ManagedFacts DEF RestoreInv
  <2>3. CASE RestoreUnit
    <3>1. /\ pc = "restore" /\ at \in 1..6 /\ at' = at - 1 /\ captured' = captured
          /\ IF Managed[at] \in captured
             THEN StartJob(Managed[at])
             ELSE UNCHANGED <<up, refused, failures>>
      BY <2>3, ManagedFacts DEF RestoreUnit
    <3>2. PICK u \in Units : u = Managed[at]
      BY <3>1, ManagedFacts
    <3>3. ASSUME u \in captured
          PROVE  /\ \A v \in Units : Running(v) => Running(v)'
                 /\ \A v \in Units : Running(v)' => Running(v) \/ v \in StartedWith(u)
                 /\ \/ refused' = refused /\ Running(u)'
                    \/ refused' = refused \union {u}
                 /\ StartedWith(u) \subseteq captured
      <4>1. u \in Units \ {"tick"} /\ StartJob(u)
        BY <1>1, <3>1, <3>2, <3>3 DEF TypeOK
      <4>2. StartedWith(u) \subseteq captured
        BY <1>1, <3>1, <3>3 DEF CaptureIsClosed
      <4>3. QED
        BY <1>1, <4>1, <4>2, StartFacts
    <3>4. ASSUME NEW v \in Units
          PROVE  /\ Running(v) => Running(v)'
                 /\ v \notin captured => (Running(v)' => Running(v))
                 /\ refused \subseteq refused'
      <4>1. CASE u \in captured
        BY <3>3, <4>1
      <4>2. CASE u \notin captured
        BY <3>1, <3>2, <4>2 DEF Running
      <4>3. QED
        BY <4>1, <4>2
    <3>5. ASSUME NEW v \in Units \ captured' PROVE Down(v)'
      <4>1. Down(v)
        BY <1>1, <3>1, <3>5 DEF RestoreInv
      <4>2. QED
        BY <3>1, <3>4, <3>5, <4>1, DownGrows
    <3>6. ASSUME NEW j \in 1..6, j > at', Managed[j] \in captured \ {"live"}
          PROVE  Running(Managed[j])' \/ Managed[j] \in refused'
      <4>1. PICK v \in Units : v = Managed[j]
        BY ManagedFacts
      <4>2. CASE j = at
        <5>1. v = u /\ u \in captured
          BY <3>2, <3>6, <4>1, <4>2
        <5>2. Running(u)' \/ u \in refused'
          BY <3>3, <5>1
        <5>3. QED
          BY <4>1, <5>1, <5>2
      <4>3. CASE j > at
        <5>1. Running(v) \/ v \in refused
          BY <1>1, <3>1, <3>6, <4>1, <4>3, ManagedFacts DEF RestoreInv
        <5>2. Running(v)' \/ v \in refused'
          BY <3>4, <5>1
        <5>3. QED
          BY <4>1, <5>2
      <4>4. QED
        BY <3>1, <3>6, <4>2, <4>3
    <3>7. QED
      BY <3>1, <3>5, <3>6, ManagedFacts DEF RestoreInv
  <2>4. QED
    BY <1>1, <1>3, <2>1, <2>2, <2>3, PhaseFacts
<1>4. CASE UNCHANGED vars
  BY <1>1, <1>4 DEF vars, updater, RestoreInv, Down, Running
<1>5. QED
  BY <1>2, <1>3, <1>4

(* A failed update has restored the units, and they stay restored.         *)
LEMMA RestoredPreserved ==
    ASSUME UInv, [Next]_vars
    PROVE  Restored'
<1>1. UpType /\ RequiresInv /\ TypeOK /\ RestoreInv /\ Restored
  BY DEF UInv, TypeOK, UpType
<1>2. CASE Environment
  <2>1. pc' = pc /\ captured' = captured
    BY <1>1, <1>2, EnvironmentFacts DEF updater
  <2>2. SUFFICES ASSUME pc = "failed" PROVE Restored'
    BY <2>1 DEF Restored
  <2>3. \A u \in Units \ captured : Down(u)
    BY <1>1, <2>2 DEF Restored, Down
  <2>4. \A u \in Units \ captured' : Down(u)'
    BY <1>1, <1>2, <2>3, RestorationKept
  <2>5. ASSUME NEW u \in captured' \ {"live"} PROVE Running(u)' \/ u \in refused'
    <3>1. u \in captured \ {"live"} /\ (Running(u) \/ u \in refused)
      BY <1>1, <2>1, <2>2, <2>5 DEF Restored
    <3>2. QED
      BY <1>1, <1>2, <3>1, RestorationKept
  <2>6. QED
    BY <2>4, <2>5 DEF Restored, Down
<1>3. CASE ~Environment /\ Next
  <2>1. SUFFICES ASSUME pc' = "failed" PROVE Restored'
    BY DEF Restored
  <2>2. pc = "restore" /\ at = 0 /\ UNCHANGED <<up, captured, refused>>
    BY <1>1, <1>3, <2>1, PhaseFacts DEF RestoreEnds
  <2>3. ASSUME NEW u \in captured \ {"live"} PROVE Running(u) \/ u \in refused
    <3>1. PICK j \in 1..6 : Managed[j] = u
      BY <1>1, ManagedFacts DEF TypeOK
    <3>2. QED
      BY <1>1, <2>2, <2>3, <3>1, ManagedFacts DEF RestoreInv
  <2>4. \A u \in Units \ captured : Down(u)
    BY <1>1, <2>2 DEF RestoreInv
  <2>5. QED
    BY <2>2, <2>3, <2>4 DEF Restored, Down, Running
<1>4. CASE UNCHANGED vars
  BY <1>1, <1>4 DEF vars, updater, Restored, Running
<1>5. QED
  BY <1>2, <1>3, <1>4

-----------------------------------------------------------------------------
(* The strengthened invariant holds initially.                             *)
LEMMA InitInvariant ==
    ASSUME UpdateAssumption, Init PROVE UInv
<1>1. /\ up = [u \in Units |-> IF u \in {"live", "tick"} THEN "inactive" ELSE "active"]
      /\ pc = "idle" /\ at = 1 /\ polls = 0 /\ captured = {} /\ refused = {}
      /\ failures = 0 /\ deaths = 0 /\ kills = 0 /\ changes = 0
  BY DEF Init
<1>2. TypeOK
  BY <1>1, ManagedFacts DEF UpdateAssumption, TypeOK, Units
<1>3. RequiresInv
  BY <1>1 DEF RequiresInv, Running, Units
<1>4. /\ CaptureInv /\ CaptureIsClosed /\ StopInv /\ MutatedWhileStopped
      /\ RestopInv /\ RestoreInv /\ Restored
  BY <1>1 DEF CaptureInv, CaptureIsClosed, StopInv, MutatedWhileStopped, Mutating,
     RestopInv, RestoreInv, Restored
<1>5. QED
  BY <1>2, <1>3, <1>4 DEF UInv

(* UInv is an invariant of the updater beside systemd.                     *)
THEOREM UpdateInvariant == Spec => []UInv
<1>1. Init => UInv
  BY InitInvariant, UpdateAssumption
<1>2. UInv /\ [Next]_vars => UInv'
  <2>1. SUFFICES ASSUME UInv, [Next]_vars PROVE UInv'
    OBVIOUS
  <2>2. TypeOK /\ RequiresInv
    BY <2>1 DEF UInv
  <2>3. TypeOK' /\ RequiresInv'
    BY <2>1, <2>2, UpdateAssumption, TypePreserved, UnitsPreserved
  <2>4. QED
    BY <2>1, <2>3, CapturePreserved, ClosedPreserved, StopPreserved, MutationPreserved,
       RestopPreserved, RestorePreserved, RestoredPreserved DEF UInv
<1>3. QED
  BY <1>1, <1>2, PTL DEF Spec

(* Every variable stays in the set it is meant to range over.              *)
THEOREM UpdateTypes == Spec => []TypeOK
<1>1. UInv => TypeOK
  BY DEF UInv
<1>2. QED
  BY <1>1, UpdateInvariant, PTL

(* update-vps.sh replaces packages, checkout, dependencies and unit files  *)
(* only while no managed unit runs.                                        *)
THEOREM ReplacedOnlyWhileStopped == Spec => []MutatedWhileStopped
<1>1. UInv => MutatedWhileStopped
  BY DEF UInv
<1>2. QED
  BY <1>1, UpdateInvariant, PTL

(* haxlab_capture_update_service_state, which queries the units one after  *)
(* the other, notes a unit only together with what it requires.            *)
THEOREM CapturedUnitsAreClosed == Spec => []CaptureIsClosed
<1>1. UInv => CaptureIsClosed
  BY DEF UInv
<1>2. QED
  BY <1>1, UpdateInvariant, PTL

(* When the EXIT trap of a failed update has run, the noted units run and  *)
(* the others do not, up to refused jobs and what a timer that is on pulls *)
(* in.                                                                     *)
THEOREM FailedUpdateRestores == Spec => []Restored
<1>1. UInv => Restored
  BY DEF UInv
<1>2. QED
  BY <1>1, UpdateInvariant, PTL
==============================================================================
