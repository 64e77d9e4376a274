----------------------------- MODULE ServiceUpdate -----------------------------
(***************************************************************************)
(* The updater (deploy/update-vps.sh with update-service-recovery.sh)      *)
(* beside systemd: it notes which managed units are active, stops all of   *)
(* them, replaces packages, checkout, dependencies and unit files, starts  *)
(* the pipeline and checks it; any command that fails ends it through an   *)
(* EXIT trap that restores the units noted.  Meanwhile the timer starts    *)
(* ticks, ticks pull in the analyzer, and daemons die and are restarted.   *)
(*                                                                         *)
(* Control actions and updates run one at a time, on the single runner, so *)
(* an operator changes units only between two updates.                     *)
(***************************************************************************)
EXTENDS Integers, Sequences

CONSTANTS MaxPolls,     \* rechecks of a unit that is in transition
          MaxFailures,  \* bound: commands that fail
          MaxDeaths,    \* bound: daemons that die
          MaxKills,     \* bound: updaters killed before their trap ends
          MaxChanges    \* bound: units an operator starts or stops

ASSUME UpdateAssumption ==
    /\ MaxPolls \in Nat /\ MaxFailures \in Nat /\ MaxDeaths \in Nat
    /\ MaxKills \in Nat /\ MaxChanges \in Nat

\* HAXLAB_UPDATE_MANAGED_SERVICES, in stop order.
Managed == <<"live", "timer", "tick", "analyzer", "worker", "ingest">>
Units == {"live", "timer", "tick", "analyzer", "worker", "ingest"}

\* The units started and checked by a successful update, in that order.
Pipeline == <<"ingest", "worker", "analyzer", "timer">>
Daemons == {"ingest", "worker", "analyzer"}

\* The unit files: a unit is started with what it Requires= (a tick with what
\* it Wants=), and stopped with what requires it.
StartedWith(u) ==
    CASE u \in {"analyzer", "tick"} -> {u, "analyzer", "worker", "ingest"}
      [] u = "worker"   -> {"worker", "ingest"}
      [] OTHER          -> {u}

StoppedWith(u) ==
    CASE u = "ingest" -> {"ingest", "worker", "analyzer"}
      [] u = "worker" -> {"worker", "analyzer"}
      [] OTHER        -> {u}

VARIABLES
    up,         \* what systemctl is-active says of each unit
    pc,         \* where the updater is
    at,         \* its position in the list of units it goes through
    polls,      \* rechecks of the unit being captured
    captured,   \* HAXLAB_UPDATE_ACTIVE_BEFORE
    refused,    \* the units whose last start or stop failed in this phase
    failures, deaths, kills, changes

bounds == <<failures, deaths, kills, changes>>
updater == <<pc, at, polls, captured, refused>>
vars == <<up, updater, bounds>>

\* As install-vps.sh leaves the machine.
Init ==
    /\ up = [u \in Units |-> IF u \in {"live", "tick"} THEN "inactive" ELSE "active"]
    /\ pc = "idle" /\ at = 1 /\ polls = 0
    /\ captured = {} /\ refused = {}
    /\ failures = 0 /\ deaths = 0 /\ kills = 0 /\ changes = 0

Running(u) == up[u] # "inactive"

\* up after a start or a stop job; a tick is a oneshot, never active.
Started(S) ==
    [v \in Units |-> IF v \notin S THEN up[v]
                     ELSE IF v = "tick" THEN "activating" ELSE "active"]
Stopped(S) == [v \in Units |-> IF v \in S THEN "inactive" ELSE up[v]]

-----------------------------------------------------------------------------
(* systemd and the operator.                                               *)

TimerFires ==
    /\ up["timer"] = "active" /\ up["tick"] = "inactive"
    /\ up' = Started({v \in StartedWith("tick") : v = "tick" \/ ~Running(v)})
    /\ UNCHANGED <<updater, bounds>>

TickEnds ==
    /\ up["tick"] = "activating"
    /\ up' = Stopped({"tick"})
    /\ UNCHANGED <<updater, bounds>>

\* Restart=always puts a daemon in auto-restart; the live bot stays down.
UnitDies ==
    /\ deaths < MaxDeaths
    /\ deaths' = deaths + 1
    /\ \E u \in Daemons \union {"live"} :
          /\ up[u] = "active"
          /\ up' = [up EXCEPT ![u] = IF u = "live" THEN "inactive" ELSE "activating"]
    /\ UNCHANGED <<updater, failures, kills, changes>>

DaemonRestarts ==
    /\ \E u \in Daemons : up[u] = "activating" /\ up' = Started({u})
    /\ UNCHANGED <<updater, bounds>>

\* An operator, or a control action such as live-play-start, live-play-stop or
\* a retry-failed-analysis that stops the analyzer and fails.
OperatorChanges ==
    /\ pc = "idle" /\ changes < MaxChanges
    /\ changes' = changes + 1
    /\ \E u \in Units \ {"tick"} :
          up' = IF Running(u) THEN Stopped(StoppedWith(u)) ELSE Started(StartedWith(u))
    /\ UNCHANGED <<updater, failures, deaths, kills>>

-----------------------------------------------------------------------------
(* haxlab_capture_update_service_state.                                    *)

StartUpdate ==
    /\ pc = "idle"
    /\ pc' = "capture" /\ at' = 1 /\ polls' = 0 /\ captured' = {} /\ refused' = {}
    /\ UNCHANGED <<up, bounds>>

\* Faulty variant of CaptureUnit: the units are queried in start order.
CaptureBackwards ==
    /\ pc = "capture" /\ at \in 1..Len(Managed)
    /\ LET u == Managed[Len(Managed) + 1 - at] IN
       /\ up[u] # "activating"
       /\ captured' = IF up[u] = "active" THEN captured \union {u} ELSE captured
    /\ at' = at + 1 /\ polls' = 0
    /\ UNCHANGED <<up, pc, refused, bounds>>

CaptureUnit ==
    /\ pc = "capture" /\ at \in 1..Len(Managed)
    /\ LET u == Managed[at] IN
       /\ up[u] # "activating"
       /\ captured' = IF up[u] = "active" THEN captured \union {u} ELSE captured
    /\ at' = at + 1 /\ polls' = 0
    /\ UNCHANGED <<up, pc, refused, bounds>>

\* Faulty variant of PollUnit: it waits as long as the transition takes.
PollForEver ==
    /\ pc = "capture" /\ at \in 1..Len(Managed)
    /\ up[Managed[at]] = "activating"
    /\ UNCHANGED vars

\* A transition is rechecked after two seconds, then the update is refused.
PollUnit ==
    /\ pc = "capture" /\ at \in 1..Len(Managed)
    /\ up[Managed[at]] = "activating"
    /\ IF polls < MaxPolls
       THEN polls' = polls + 1 /\ UNCHANGED <<pc, captured>>
       ELSE pc' = "aborted" /\ captured' = {} /\ UNCHANGED polls
    /\ UNCHANGED <<up, at, refused, bounds>>

\* The query itself fails; the trap is not installed yet.
CaptureFails ==
    /\ pc = "capture" /\ failures < MaxFailures
    /\ failures' = failures + 1
    /\ pc' = "aborted" /\ captured' = {}
    /\ UNCHANGED <<up, at, polls, refused, deaths, kills, changes>>

CaptureEnds ==
    /\ pc = "capture" /\ at > Len(Managed)
    /\ pc' = "stop" /\ at' = 1
    /\ UNCHANGED <<up, polls, captured, refused, bounds>>

-----------------------------------------------------------------------------
(* One systemctl start or stop job.                                        *)

StopJob(u) ==
    \/ /\ up' = Stopped(StoppedWith(u))
       /\ UNCHANGED <<refused, failures>>
    \/ /\ failures < MaxFailures /\ failures' = failures + 1
       /\ refused' = refused \union {u}
       /\ UNCHANGED up

\* A start that fails may have started what the unit requires.
StartJob(u) ==
    \/ /\ up' = Started(StartedWith(u))
       /\ UNCHANGED <<refused, failures>>
    \/ /\ failures < MaxFailures /\ failures' = failures + 1
       /\ refused' = refused \union {u}
       /\ ~Running(u)
       /\ up' = up \/ up' = Started(StartedWith(u) \ {u})

(* haxlab_apply_verified_main_update.                                      *)

StopUnit ==
    /\ pc = "stop" /\ at \in 1..Len(Managed)
    /\ StopJob(Managed[at])
    /\ at' = at + 1
    /\ UNCHANGED <<pc, polls, captured, deaths, kills, changes>>

\* Faulty variant of StopsEnd: a stop that failed is ignored.
StopsEndAnyway ==
    /\ pc = "stop" /\ at > Len(Managed)
    /\ pc' = "packages" /\ refused' = {} /\ at' = 1
    /\ UNCHANGED <<up, polls, captured, bounds>>

\* Refusing to update the checkout unless every stop succeeded.
StopsEnd ==
    /\ pc = "stop" /\ at > Len(Managed)
    /\ pc' = IF refused = {} THEN "packages" ELSE "restop"
    /\ refused' = {} /\ at' = 1
    /\ UNCHANGED <<up, polls, captured, bounds>>

\* apt-get, then fetch and reset, then pip and npm and the node checks, then
\* unit files, links, daemon-reload and enable.
After(phase) ==
    CASE phase = "packages"     -> "checkout"
      [] phase = "checkout"     -> "dependencies"
      [] phase = "dependencies" -> "unitfiles"
      [] phase = "unitfiles"    -> "start"

Mutating == {"packages", "checkout", "dependencies", "unitfiles"}

Mutate ==
    /\ pc \in Mutating
    /\ pc' = After(pc)
    /\ UNCHANGED <<up, at, polls, captured, refused, bounds>>

StartUnit ==
    /\ pc = "start" /\ at \in 1..Len(Pipeline)
    /\ StartJob(Pipeline[at])
    /\ at' = at + 1
    /\ UNCHANGED <<pc, polls, captured, deaths, kills, changes>>

\* live-play.env is there whenever the bot was active: it cannot start without.
StartLive ==
    /\ pc = "start" /\ at = Len(Pipeline) + 1 /\ refused = {}
    /\ "live" \in captured
    /\ StartJob("live")
    /\ at' = at + 1
    /\ UNCHANGED <<pc, polls, captured, deaths, kills, changes>>

StartsEnd ==
    /\ pc = "start"
    /\ \/ at > Len(Pipeline) + 1
       \/ at = Len(Pipeline) + 1 /\ (refused # {} \/ "live" \notin captured)
    /\ pc' = IF refused = {} THEN "check" ELSE "restop"
    /\ at' = 1 /\ refused' = {}
    /\ UNCHANGED <<up, polls, captured, bounds>>

CheckUnit ==
    /\ pc = "check" /\ at \in 1..Len(Pipeline)
    /\ IF up[Pipeline[at]] = "active"
       THEN at' = at + 1 /\ UNCHANGED pc
       ELSE at' = 1 /\ pc' = "restop"
    /\ UNCHANGED <<up, polls, captured, refused, bounds>>

\* haxlab-status returned; the trap is disabled.
Succeed ==
    /\ pc = "check" /\ at > Len(Pipeline)
    /\ pc' = "updated"
    /\ UNCHANGED <<up, at, polls, captured, refused, bounds>>

-----------------------------------------------------------------------------
(* _haxlab_update_exit_recovery and haxlab_restore_update_services.        *)

\* Faulty variant of CommandFails: no trap is armed.
FailWithoutTrap ==
    /\ pc \in Mutating \union {"check"} /\ failures < MaxFailures
    /\ failures' = failures + 1
    /\ pc' = "failed" /\ at' = 1
    /\ UNCHANGED <<up, polls, captured, refused, deaths, kills, changes>>

CommandFails ==
    /\ pc \in Mutating \union {"check"} /\ failures < MaxFailures
    /\ failures' = failures + 1
    /\ pc' = "restop" /\ at' = 1
    /\ UNCHANGED <<up, polls, captured, refused, deaths, kills, changes>>

\* Faulty variant of RestopUnit: nothing is stopped, only availability returns.
RestopNothing ==
    /\ pc = "restop" /\ at \in 1..Len(Managed)
    /\ at' = at + 1
    /\ UNCHANGED <<up, pc, polls, captured, refused, bounds>>

RestopUnit ==
    /\ pc = "restop" /\ at \in 1..Len(Managed)
    /\ IF Managed[at] \in captured
       THEN UNCHANGED <<up, refused, failures>>
       ELSE StopJob(Managed[at])
    /\ at' = at + 1
    /\ UNCHANGED <<pc, polls, captured, deaths, kills, changes>>

RestopEnds ==
    /\ pc = "restop" /\ at > Len(Managed)
    /\ pc' = "restore" /\ at' = Len(Managed)
    /\ UNCHANGED <<up, polls, captured, refused, bounds>>

RestoreUnit ==
    /\ pc = "restore" /\ at \in 1..Len(Managed)
    /\ IF Managed[at] \in captured
       THEN StartJob(Managed[at])
       ELSE UNCHANGED <<up, refused, failures>>
    /\ at' = at - 1
    /\ UNCHANGED <<pc, polls, captured, deaths, kills, changes>>

RestoreEnds ==
    /\ pc = "restore" /\ at = 0
    /\ pc' = "failed"
    /\ UNCHANGED <<up, at, polls, captured, refused, bounds>>

\* SIGKILL, or the runner's time limit: no trap runs.
Killed ==
    /\ pc \notin {"idle", "updated", "failed", "aborted"}
    /\ kills < MaxKills
    /\ kills' = kills + 1
    /\ pc' = "idle"
    /\ UNCHANGED <<up, at, polls, captured, refused, failures, deaths, changes>>

\* The process has ended, and with it what it noted.
Exit ==
    /\ pc \in {"updated", "failed", "aborted"}
    /\ pc' = "idle"
    /\ UNCHANGED <<up, at, polls, captured, refused, bounds>>

UpdaterStep ==
    \/ CaptureUnit \/ PollUnit \/ CaptureEnds
    \/ StopUnit \/ StopsEnd \/ Mutate \/ StartUnit \/ StartLive \/ StartsEnd
    \/ CheckUnit \/ Succeed
    \/ RestopUnit \/ RestopEnds \/ RestoreUnit \/ RestoreEnds \/ Exit

Next ==
    \/ TimerFires \/ TickEnds \/ UnitDies \/ DaemonRestarts \/ OperatorChanges
    \/ StartUpdate \/ UpdaterStep \/ CaptureFails \/ CommandFails \/ Killed

Spec == Init /\ [][Next]_vars

\* The shell runs on, and systemd restarts a dead daemon after RestartSec.  A
\* tick may run for ever, and nobody has to start another update.
FairSpec == Spec /\ WF_vars(UpdaterStep) /\ WF_vars(DaemonRestarts)

-----------------------------------------------------------------------------
(* Properties.                                                             *)

TypeOK ==
    /\ up \in [Units -> {"inactive", "activating", "active"}]
    /\ up["tick"] # "active" /\ up["timer"] # "activating" /\ up["live"] # "activating"
    /\ pc \in {"idle", "capture", "aborted", "stop", "start", "check", "updated",
               "restop", "restore", "failed"} \union Mutating
    /\ at \in 0..Len(Managed) + 1
    /\ polls \in 0..MaxPolls
    /\ captured \subseteq Units \ {"tick"} /\ refused \subseteq Units
    /\ failures \in Nat /\ deaths \in Nat /\ kills \in Nat /\ changes \in Nat

\* Packages, checkout, dependencies and unit files are replaced only while no
\* managed unit runs, whatever the timer, a tick or an automatic restart does
\* between the queries and the stops.
MutatedWhileStopped ==
    pc \in Mutating => \A u \in Units : ~Running(u)

\* A unit is noted as active only together with what it requires, although the
\* units are queried one after the other while a tick may start them: so the
\* recovery never stops a unit under one that it keeps.
CaptureIsClosed ==
    pc \notin {"idle", "capture", "aborted"} =>
        \A u \in captured : StartedWith(u) \subseteq captured

\* After a failed update the noted units run, unless their own start failed,
\* and the others do not, unless their own stop failed or a timer that was noted
\* or would not stop started a tick.
Restored ==
    pc = "failed" =>
        /\ \A u \in captured \ {"live"} : Running(u) \/ u \in refused
        /\ \A u \in Units \ captured :
              Running(u) => \/ u \in refused
                            \/ /\ "timer" \in captured \union refused
                               /\ u \in StartedWith("tick")

\* Every update ends, even when a tick never does.
UpdateEnds == pc = "capture" ~> pc = "idle"

\* A failed update is no lasting outage: a daemon that was noted and stopped
\* runs again, unless its start is refused or the updater is killed.
OutageEnds ==
    \A u \in Daemons :
        pc = "packages" /\ u \in captured ~> Running(u) \/ u \in refused \/ kills > 0

-----------------------------------------------------------------------------
(* The inductive invariant of the proofs.                                  *)

\* What a running unit requires is running.
RequiresInv ==
    /\ Running("analyzer") => Running("worker")
    /\ Running("worker") => Running("ingest")

\* While the units are queried, one that was noted stays up with what it
\* requires, and what it requires is noted or still to be queried.
CaptureInv ==
    pc = "capture" =>
        \A u \in captured :
            /\ \E j \in 1..Len(Managed) : j < at /\ Managed[j] = u
            /\ u # "live" =>
                  \A j \in 1..Len(Managed) :
                      Managed[j] \in StartedWith(u) =>
                          Running(Managed[j]) /\ (j < at => Managed[j] \in captured)

\* While no stop has failed, what was stopped stays down.
StopInv ==
    pc = "stop" /\ refused = {} =>
        \A j \in 1..Len(Managed) : j < at => ~Running(Managed[j])

\* A unit that was not noted is down, as Restored says it.
Down(u) ==
    Running(u) => \/ u \in refused
                  \/ "timer" \in captured \union refused /\ u \in StartedWith("tick")

RestopInv ==
    pc = "restop" =>
        \A j \in 1..Len(Managed) : j < at /\ Managed[j] \notin captured => Down(Managed[j])

RestoreInv ==
    pc = "restore" =>
        /\ \A u \in Units \ captured : Down(u)
        /\ \A j \in 1..Len(Managed) :
              j > at /\ Managed[j] \in captured \ {"live"} =>
                  Running(Managed[j]) \/ Managed[j] \in refused

UInv ==
    /\ TypeOK
    /\ RequiresInv
    /\ CaptureInv
    /\ CaptureIsClosed
    /\ StopInv
    /\ MutatedWhileStopped
    /\ RestopInv
    /\ RestoreInv
    /\ Restored
=============================================================================
