------------------------------- MODULE LiveBot -------------------------------
(***************************************************************************)
(* The live player: the node process that sits in a HaxBall room           *)
(* (tools/live_haxball_bot.js) and the inference process it starts         *)
(* (live/inference.py).  They talk over two pipes, one request and one     *)
(* answer a line.  The callbacks of the room and of the answers are        *)
(* handled one after the other by node's event loop, in any order; the     *)
(* inference process takes the requests one after the other.               *)
(*                                                                         *)
(* Simplifications.  A frame of features is the side it was taken from;    *)
(* an answer is the horizontal direction, which the bot mirrors for the    *)
(* blue side, and a key state is the mirrored direction.  epoch and asked  *)
(* are not in the program: they number the resets the bot has sent and     *)
(* note the request an answer is to.                                       *)
(***************************************************************************)
EXTENDS Integers, Sequences, FiniteSets

CONSTANTS Every,        \* HAXLAB_INFER_EVERY_TICKS
          Window,       \* frames the champion's model looks at
          MaxChanges,   \* bound: changes of the bot's team and starts of a game
          MaxLaunches   \* bound: starts of the service

ASSUME BotAssumption ==
    /\ Every \in Nat \ {0} /\ Window \in Nat \ {0}
    /\ MaxChanges \in Nat /\ MaxLaunches \in Nat

VARIABLES
    \* the room, as node-haxball shows it
    team,         \* of the bot: 0 spectators, 1 red, 2 blue
    game,         \* a game is running
    keys,         \* the key state the room has of the bot
    \* the bot
    up,           \* "down", "connecting", "joined"
    tick, lastTeam, lastAction,
    lastTeamSent, \* teamId of lastCanonical, which fixes its sign too; 0 is null
    inferenceReady, inferencePending,
    \* the inference process
    serving,      \* the model is loaded and the first line printed
    history,      \* the deque of LiveChampion
    \* the pipes, oldest line first
    requests, replies,
    epoch, changes, launches

roomVars == <<team, game>>
botVars == <<up, tick, lastTeam, lastAction, lastTeamSent, inferenceReady,
             inferencePending>>
pipeVars == <<requests, replies>>
vars == <<roomVars, keys, botVars, serving, history, pipeVars, epoch, changes,
          launches>>

Frame(side, number) == [op |-> "frame", side |-> side, epoch |-> number]
Reset(number) == [op |-> "reset", side |-> 0, epoch |-> number]
Line(type, dir, request) == [type |-> type, dir |-> dir, asked |-> request]

Sign(side) == IF side = 1 THEN 1 ELSE -1

Init ==
    /\ team = 0 /\ game \in BOOLEAN /\ keys = 0
    /\ up = "down"
    /\ tick = 0 /\ lastTeam = 0 /\ lastAction = 0 /\ lastTeamSent = 0
    /\ inferenceReady = FALSE /\ inferencePending = FALSE
    /\ serving = FALSE /\ history = <<>>
    /\ requests = <<>> /\ replies = <<>>
    /\ epoch = 0 /\ changes = 0 /\ launches = 0

-----------------------------------------------------------------------------
(* The service, and the room around the bot.                               *)

\* live-play-start, or live-host-start: the bot starts the inference process.
Launch ==
    /\ up = "down" /\ launches < MaxLaunches
    /\ launches' = launches + 1
    /\ up' = "connecting"
    /\ UNCHANGED <<roomVars, keys, tick, lastTeam, lastAction, lastTeamSent,
                   inferenceReady, inferencePending, serving, history, pipeVars,
                   epoch, changes>>

\* onOpen: a player who enters a room is a spectator.
Join ==
    /\ up = "connecting"
    /\ up' = "joined"
    /\ team' = 0
    /\ UNCHANGED <<game, keys, tick, lastTeam, lastAction, lastTeamSent,
                   inferenceReady, inferencePending, serving, history, pipeVars,
                   epoch, changes, launches>>

\* The bot stops, for good (Restart=no), and with it the inference process: on a
\* signal, when the room closes, and when the inference process has ended.
Exit ==
    /\ up # "down"
    /\ up' = "down"
    /\ keys' = 0
    /\ tick' = 0 /\ lastTeam' = 0 /\ lastAction' = 0 /\ lastTeamSent' = 0
    /\ inferenceReady' = FALSE /\ inferencePending' = FALSE
    /\ serving' = FALSE /\ history' = <<>>
    /\ requests' = <<>> /\ replies' = <<>>
    /\ epoch' = 0
    /\ UNCHANGED <<roomVars, changes, launches>>

\* Someone moves the bot to another team.
ChangeTeam(t) ==
    /\ up = "joined" /\ t # team /\ changes < MaxChanges
    /\ team' = t
    /\ changes' = changes + 1
    /\ UNCHANGED <<game, keys, botVars, serving, history, pipeVars, epoch, launches>>

EndGame ==
    /\ game
    /\ game' = FALSE
    /\ UNCHANGED <<team, keys, botVars, serving, history, pipeVars, epoch, changes,
                   launches>>

\* A game starts, and onAfterGameStart with it.
StartGame ==
    /\ ~game /\ changes < MaxChanges
    /\ game' = TRUE
    /\ changes' = changes + 1
    /\ IF up = "joined"
       THEN /\ inferencePending' = FALSE
            /\ epoch' = epoch + 1
            /\ requests' = Append(requests, Reset(epoch + 1))
       ELSE UNCHANGED <<inferencePending, epoch, requests>>
    /\ UNCHANGED <<team, keys, up, tick, lastTeam, lastAction, lastTeamSent,
                   inferenceReady, serving, history, replies, launches>>

-----------------------------------------------------------------------------
(* onGameTick.                                                             *)

\* Faulty variant of Noticed: only the first team of the bot makes a difference.
NoticedOnce == team # lastTeam /\ lastTeam = 0

\* Its first part: what is left of the variables after a change of team.
Noticed == team # lastTeam
StillPending == inferencePending /\ ~Noticed
ActionKept == IF Noticed THEN 0 ELSE lastAction
EpochNow == IF Noticed THEN epoch + 1 ELSE epoch
Written == IF Noticed THEN Append(requests, Reset(epoch + 1)) ELSE requests

\* The second part is reached.
Due == inferenceReady /\ ~StillPending /\ (tick + 1) % Every = 0

TickPart ==
    /\ up = "joined" /\ game
    /\ tick' = (tick + 1) % Every
    /\ lastTeam' = team
    /\ epoch' = EpochNow
    /\ UNCHANGED <<roomVars, up, inferenceReady, serving, history, replies, changes,
                   launches>>

TickIdle ==
    /\ TickPart
    /\ ~Due
    /\ inferencePending' = StillPending
    /\ lastAction' = ActionKept
    /\ requests' = Written
    /\ UNCHANGED <<keys, lastTeamSent>>

\* buildFeatures finds no team, or no disc of the bot or the ball.
TickBlind ==
    /\ TickPart
    /\ Due
    /\ inferencePending' = FALSE
    /\ lastAction' = 0
    /\ keys' = IF ActionKept # 0 THEN 0 ELSE keys
    /\ requests' = Written
    /\ UNCHANGED lastTeamSent

TickSend ==
    /\ TickPart
    /\ Due
    /\ team # 0
    /\ inferencePending' = TRUE
    /\ lastTeamSent' = team
    /\ lastAction' = ActionKept
    /\ requests' = Append(Written, Frame(team, EpochNow))
    /\ UNCHANGED keys

GameTick == TickIdle \/ TickBlind \/ TickSend

-----------------------------------------------------------------------------
(* The inference process.                                                  *)

\* The champion is loaded and announced.
Announce ==
    /\ up # "down" /\ ~serving
    /\ serving' = TRUE
    /\ replies' = Append(replies, Line("ready", 0, Reset(0)))
    /\ UNCHANGED <<roomVars, keys, botVars, history, requests, epoch, changes, launches>>

\* One line of _serve.
TakeRequest ==
    /\ serving /\ requests # <<>>
    /\ requests' = Tail(requests)
    /\ UNCHANGED <<roomVars, keys, botVars, serving, epoch, changes, launches>>

\* Faulty variant of ServeReset: the frames seen are kept.
ServeResetKeeping ==
    /\ TakeRequest
    /\ Head(requests).op = "reset"
    /\ replies' = Append(replies, Line("reset", 0, Head(requests)))
    /\ UNCHANGED history

ServeReset ==
    /\ TakeRequest
    /\ Head(requests).op = "reset"
    /\ history' = <<>>
    /\ replies' = Append(replies, Line("reset", 0, Head(requests)))

\* The deque keeps the newest Window frames.
Pushed(frame) ==
    LET longer == Append(history, frame)
    IN IF Len(longer) > Window THEN Tail(longer) ELSE longer

\* LiveChampion.infer: the answer is a direction, or, when a probability is not a
\* number, a line that is not JSON for node.
ServeFrame ==
    /\ TakeRequest
    /\ Head(requests).op = "frame"
    /\ history' = Pushed(Head(requests))
    /\ \/ \E dir \in {-1, 0, 1} :
             replies' = Append(replies, Line("action", dir, Head(requests)))
       \/ replies' = Append(replies, Line("invalid", 0, Head(requests)))

\* The features cannot be read as numbers.
ServeError ==
    /\ TakeRequest
    /\ Head(requests).op = "frame"
    /\ replies' = Append(replies, Line("error", 0, Head(requests)))
    /\ UNCHANGED history

Serve == Announce \/ ServeReset \/ ServeFrame \/ ServeError

-----------------------------------------------------------------------------
(* The handler of a line the inference process has written.                *)

TakeReply ==
    /\ up # "down" /\ replies # <<>>
    /\ replies' = Tail(replies)
    /\ UNCHANGED <<roomVars, up, tick, lastTeam, lastTeamSent, serving, history,
                   requests, epoch, changes, launches>>

ReceiveReady ==
    /\ TakeReply
    /\ Head(replies).type = "ready"
    /\ inferenceReady' = TRUE
    /\ UNCHANGED <<keys, lastAction, inferencePending>>

\* Faulty variant of ReceiveReset: any answer ends the waiting.
ReceiveResetAsAnswer ==
    /\ TakeReply
    /\ Head(replies).type = "reset"
    /\ inferencePending' = FALSE
    /\ UNCHANGED <<keys, lastAction, inferenceReady>>

ReceiveReset ==
    /\ TakeReply
    /\ Head(replies).type = "reset"
    /\ UNCHANGED <<keys, lastAction, inferenceReady, inferencePending>>

\* Faulty variant of ReceiveFailure: a line that cannot be used is only logged.
ReceiveFailureLogged ==
    /\ TakeReply
    /\ Head(replies).type \in {"error", "invalid"}
    /\ UNCHANGED <<keys, lastAction, inferenceReady, inferencePending>>

ReceiveFailure ==
    /\ TakeReply
    /\ Head(replies).type \in {"error", "invalid"}
    /\ inferencePending' = FALSE
    /\ UNCHANGED <<keys, lastAction, inferenceReady>>

\* The answer is for the side of the last frame, or for nobody.
Applicable == up = "joined" /\ lastTeamSent # 0 /\ team = lastTeamSent

\* Faulty variant of ReceiveAction: the early return comes before the flag.
ReceiveActionReturning ==
    /\ TakeReply
    /\ Head(replies).type = "action"
    /\ inferencePending' = (inferencePending /\ ~Applicable)
    /\ LET keyState == Sign(lastTeamSent) * Head(replies).dir IN
       \/ /\ Applicable
          /\ keys' = keyState /\ lastAction' = keyState
       \/ /\ Applicable => keyState = lastAction
          /\ UNCHANGED <<keys, lastAction>>
    /\ UNCHANGED inferenceReady

\* With the same key state as before, it is sent again when the room shows another
\* state of the kick key.
ReceiveAction ==
    /\ TakeReply
    /\ Head(replies).type = "action"
    /\ inferencePending' = FALSE
    /\ LET keyState == Sign(lastTeamSent) * Head(replies).dir IN
       \/ /\ Applicable
          /\ keys' = keyState /\ lastAction' = keyState
       \/ /\ Applicable => keyState = lastAction
          /\ UNCHANGED <<keys, lastAction>>
    /\ UNCHANGED inferenceReady

Receive == ReceiveReady \/ ReceiveReset \/ ReceiveFailure \/ ReceiveAction

-----------------------------------------------------------------------------
Next ==
    \/ Launch \/ Join \/ Exit
    \/ \E t \in 0..2 : ChangeTeam(t)
    \/ EndGame \/ StartGame
    \/ GameTick
    \/ Serve
    \/ Receive

\* Two live processes; the room is free to do nothing.
Spec == Init /\ [][Next]_vars /\ WF_vars(Serve) /\ WF_vars(Receive)

-----------------------------------------------------------------------------
(* Properties.                                                             *)

Sides == {0, 1, 2}
Requests == [op : {"frame", "reset"}, side : Sides, epoch : Nat]
Replies == [type : {"ready", "reset", "action", "error", "invalid"},
            dir : {-1, 0, 1}, asked : Requests]

TypeOK ==
    /\ team \in Sides /\ game \in BOOLEAN /\ keys \in {-1, 0, 1}
    /\ up \in {"down", "connecting", "joined"}
    /\ tick \in Nat /\ lastTeam \in Sides /\ lastAction \in {-1, 0, 1}
    /\ lastTeamSent \in Sides
    /\ inferenceReady \in BOOLEAN /\ inferencePending \in BOOLEAN
    /\ serving \in BOOLEAN /\ history \in Seq(Requests)
    /\ requests \in Seq(Requests) /\ replies \in Seq(Replies)
    /\ epoch \in Nat /\ changes \in Nat /\ launches \in Nat

Frames(lines) == {i \in DOMAIN lines : lines[i].op = "frame"}
Answers(lines) == {i \in DOMAIN lines : lines[i].type \in {"action", "error", "invalid"}}

\* The model never sees frames of two games or of two sides in one window, whose
\* coordinates are mirrored differently: the reset overtakes no frame and none
\* overtakes it.
WindowOfOneEpoch == \A i, j \in DOMAIN history : history[i] = history[j]

\* The bot never waits for nothing: while it holds back frames because an answer is
\* due, a frame or its answer is on the way, whatever resets went between.
AnswerOnTheWay ==
    inferencePending => Frames(requests) # {} \/ Answers(replies) # {}

InFlight == Cardinality(Frames(requests)) + Cardinality(Answers(replies))

\* A team change or a game start while an answer is due lets the bot send one more
\* frame before it, but no more than one for each, so the pipes do not fill up.
OneMorePerReset == InFlight <= epoch + (IF inferencePending THEN 1 ELSE 0)

\* A direction asked since the last reset is mirrored for the side its frame was
\* taken from, although the handler takes the side of the last frame sent.
OwnSideApplied ==
    [][up' # "down" /\ replies # <<>> /\ replies' = Tail(replies)
         /\ Head(replies).type = "action" /\ Head(replies).asked.epoch = epoch
       => keys' \in {keys, Sign(Head(replies).asked.side) * Head(replies).dir}]_vars

\* The bot never holds back its frames for ever.
PendingClears == inferencePending ~> ~inferencePending
=============================================================================
