--------------------------- MODULE LiveBot_proofs ---------------------------
(***************************************************************************)
(* Theorems about LiveBot, for every number of resets, every window and    *)
(* every length of the pipes.                                              *)
(***************************************************************************)
EXTENDS LiveBot, FiniteSetTheorems, TLAPS

-----------------------------------------------------------------------------
(* Types.                                                                  *)

\* What is written into the pipes has its type.
LEMMA LinesTyped ==
    /\ \A side \in Sides, number \in Nat : Frame(side, number) \in Requests
    /\ \A number \in Nat : Reset(number) \in Requests
    /\ \A type \in {"ready", "reset", "action", "error", "invalid"},
          dir \in {-1, 0, 1}, request \in Requests :
            Line(type, dir, request) \in Replies
BY DEF Frame, Reset, Line, Requests, Replies, Sides

\* Both pipes start empty.
LEMMA EmptyTyped == <<>> \in Seq(Requests) /\ <<>> \in Seq(Replies)
OBVIOUS

\* So has what a tick leaves for the inference process before its frame.
LEMMA WrittenTyped ==
    ASSUME TypeOK
    PROVE  EpochNow \in Nat /\ Written \in Seq(Requests)
<1>1. Reset(epoch + 1) \in Requests
  BY LinesTyped DEF TypeOK
<1>2. QED
  BY <1>1 DEF TypeOK, EpochNow, Written

\* Every step keeps the types.
LEMMA TypeStep ==
    ASSUME TypeOK, [Next]_vars
    PROVE  TypeOK'
<1> USE BotAssumption
<1>1. CASE Launch
  BY <1>1 DEF TypeOK, Launch, roomVars, pipeVars
<1>2. CASE Join
  BY <1>2 DEF TypeOK, Join, pipeVars, Sides
<1>3. CASE Exit
  <2>1. /\ history' \in Seq(Requests) /\ requests' \in Seq(Requests)
        /\ replies' \in Seq(Replies)
    BY <1>3, EmptyTyped DEF Exit
  <2>2. /\ team' = team /\ game' = game /\ changes' = changes
        /\ launches' = launches
    BY <1>3 DEF Exit, roomVars
  <2>3. /\ team' \in Sides /\ game' \in BOOLEAN
        /\ changes' \in Nat /\ launches' \in Nat
    BY <2>2 DEF TypeOK
  <2>4. QED
    BY <1>3, <2>1, <2>3 DEF TypeOK, Exit, Sides
<1>4. ASSUME NEW t \in 0..2, ChangeTeam(t) PROVE TypeOK'
  BY <1>4 DEF TypeOK, ChangeTeam, botVars, pipeVars, Sides
<1>5. CASE EndGame
  BY <1>5 DEF TypeOK, EndGame, botVars, pipeVars
<1>6. CASE StartGame
  <2>1. Reset(epoch + 1) \in Requests
    BY LinesTyped DEF TypeOK
  <2>2. CASE up = "joined"
    <3>1. /\ game' = TRUE /\ inferencePending' = FALSE
          /\ epoch' = epoch + 1 /\ requests' = Append(requests, Reset(epoch + 1))
      BY <1>6, <2>2, Zenon DEF StartGame
    <3>2. epoch' \in Nat /\ requests' \in Seq(Requests)
      BY <2>1, <3>1 DEF TypeOK
    <3>3. changes' \in Nat
      BY <1>6 DEF TypeOK, StartGame
    <3>4. QED
      BY <1>6, <3>1, <3>2, <3>3 DEF TypeOK, StartGame
  <2>3. CASE up # "joined"
    <3>1. game' = TRUE /\ UNCHANGED <<inferencePending, epoch, requests>>
      BY <1>6, <2>3, Zenon DEF StartGame
    <3>2. changes' \in Nat
      BY <1>6 DEF TypeOK, StartGame
    <3>3. QED
      BY <1>6, <3>1, <3>2 DEF TypeOK, StartGame
  <2>4. QED
    BY <2>2, <2>3
<1>7. CASE GameTick
  <2>1. tick' \in Nat
    BY <1>7 DEF TypeOK, GameTick, TickIdle, TickBlind, TickSend, TickPart
  <2>2. ActionKept \in {-1, 0, 1} /\ StillPending \in BOOLEAN
    BY DEF TypeOK, ActionKept, StillPending
  <2>3. Frame(team, EpochNow) \in Requests
    BY LinesTyped, WrittenTyped DEF TypeOK
  <2>4. CASE TickIdle
    BY <2>1, <2>2, <2>4, WrittenTyped DEF TypeOK, TickIdle, TickPart, roomVars
  <2>5. CASE TickBlind
    BY <2>1, <2>2, <2>5, WrittenTyped DEF TypeOK, TickBlind, TickPart, roomVars
  <2>6. CASE TickSend
    BY <2>1, <2>2, <2>3, <2>6, WrittenTyped DEF TypeOK, TickSend, TickPart, roomVars
  <2>7. QED
    BY <1>7, <2>4, <2>5, <2>6 DEF GameTick
<1>8. CASE Serve
  <2>1. CASE Announce
    <3>1. Line("ready", 0, Reset(0)) \in Replies
      BY LinesTyped
    <3>2. QED
      BY <2>1, <3>1 DEF TypeOK, Announce, roomVars, botVars
  <2>2. ASSUME TakeRequest
        PROVE  /\ Head(requests) \in Requests
               /\ Tail(requests) \in Seq(Requests)
               /\ \A type \in {"reset", "action", "error", "invalid"}, dir \in {-1, 0, 1} :
                    Append(replies, Line(type, dir, Head(requests))) \in Seq(Replies)
    <3>1. Head(requests) \in Requests /\ Tail(requests) \in Seq(Requests)
      BY <2>2 DEF TypeOK, TakeRequest
    <3>2. QED
      BY <3>1, LinesTyped DEF TypeOK
  <2>3. CASE ServeReset
    <3>1. TakeRequest
      BY <2>3 DEF ServeReset
    <3>2. QED
      BY <2>2, <2>3, <3>1 DEF TypeOK, ServeReset, TakeRequest, roomVars, botVars
  <2>4. CASE ServeFrame
    <3>1. TakeRequest
      BY <2>4 DEF ServeFrame
    <3>2. Append(history, Head(requests)) \in Seq(Requests)
      BY <2>2, <3>1 DEF TypeOK
    <3>3. Pushed(Head(requests)) \in Seq(Requests)
      <4>1. Append(history, Head(requests)) # <<>>
        BY <3>2, <2>2, <3>1 DEF TypeOK
      <4>2. QED
        BY <3>2, <4>1 DEF Pushed
    <3>4. replies' \in Seq(Replies)
      BY <2>2, <2>4, <3>1 DEF ServeFrame
    <3>5. QED
      BY <2>2, <2>4, <3>1, <3>3, <3>4
      DEF TypeOK, ServeFrame, TakeRequest, roomVars, botVars
  <2>5. CASE ServeError
    <3>1. TakeRequest
      BY <2>5 DEF ServeError
    <3>2. QED
      BY <2>2, <2>5, <3>1 DEF TypeOK, ServeError, TakeRequest, roomVars, botVars
  <2>6. QED
    BY <1>8, <2>1, <2>3, <2>4, <2>5 DEF Serve
<1>9. CASE Receive
  <2>1. replies # <<>> /\ TakeReply
    BY <1>9 DEF Receive, ReceiveReady, ReceiveReset, ReceiveFailure, ReceiveAction,
                TakeReply
  <2>2. Head(replies) \in Replies /\ replies' \in Seq(Replies)
    BY <2>1 DEF TypeOK, TakeReply
  <2>3. Sign(lastTeamSent) * Head(replies).dir \in {-1, 0, 1}
    BY <2>2 DEF Sign, Replies
  <2>4. keys' \in {-1, 0, 1} /\ lastAction' \in {-1, 0, 1}
        /\ inferenceReady' \in BOOLEAN /\ inferencePending' \in BOOLEAN
    BY <1>9, <2>3 DEF TypeOK, Receive, ReceiveReady, ReceiveReset, ReceiveFailure,
                      ReceiveAction
  <2>5. QED
    BY <2>1, <2>2, <2>4 DEF TypeOK, TakeReply, roomVars
<1>10. CASE UNCHANGED vars
  BY <1>10 DEF TypeOK, vars, roomVars, botVars, pipeVars
<1>11. QED
  BY <1>1, <1>2, <1>3, <1>4, <1>5, <1>6, <1>7, <1>8, <1>9, <1>10 DEF Next

\* The variables keep their types: no line of either pipe is of a kind its reader
\* does not know.
THEOREM TypeCorrect == Spec => []TypeOK
<1>1. Init => TypeOK
  <2>1. SUFFICES ASSUME Init PROVE TypeOK
    OBVIOUS
  <2>2. history \in Seq(Requests) /\ requests \in Seq(Requests) /\ replies \in Seq(Replies)
    BY <2>1, EmptyTyped DEF Init
  <2>3. QED
    BY <2>1, <2>2 DEF Init, TypeOK, Sides
<1>2. QED
  BY <1>1, TypeStep, PTL DEF Spec


-----------------------------------------------------------------------------
(* Sequences.                                                              *)

\* What is left of a pipe when its oldest line is taken.
LEMMA TailElements ==
    ASSUME NEW S, NEW s \in Seq(S), s # <<>>
    PROVE  /\ Tail(s) \in Seq(S) /\ Len(Tail(s)) = Len(s) - 1
           /\ Head(s) = s[1] /\ 1 \in DOMAIN s
           /\ \A i \in DOMAIN Tail(s) : i + 1 \in DOMAIN s /\ Tail(s)[i] = s[i + 1]
           /\ \A i \in DOMAIN s : i # 1 => i - 1 \in DOMAIN Tail(s)
OBVIOUS

\* What a pipe holds when a line is written.
LEMMA AppendElements ==
    ASSUME NEW S, NEW s \in Seq(S), NEW e \in S
    PROVE  /\ Append(s, e) \in Seq(S) /\ Len(Append(s, e)) = Len(s) + 1
           /\ Append(s, e)[Len(s) + 1] = e
           /\ \A i \in DOMAIN s : i \in DOMAIN Append(s, e) /\ Append(s, e)[i] = s[i]
           /\ \A i \in DOMAIN Append(s, e) : i \in DOMAIN s \/ i = Len(s) + 1
OBVIOUS

-----------------------------------------------------------------------------
(* Something is on the way.                                                *)

Expected(reply) == reply.type \in {"action", "error", "invalid"}

Awaited ==
    \/ \E i \in DOMAIN requests : requests[i].op = "frame"
    \/ \E i \in DOMAIN replies : Expected(replies[i])

\* The property, read off the positions in the pipes.
LEMMA AwaitedIsOnTheWay == AnswerOnTheWay <=> (inferencePending => Awaited)
BY DEF AnswerOnTheWay, Awaited, Frames, Answers, Expected

\* A line put into a pipe takes nothing out of it.
LEMMA SendingKeepsAwaited ==
    ASSUME TypeOK, Awaited,
           requests' = requests \/ \E r \in Requests : requests' = Append(requests, r),
           replies' = replies
    PROVE  Awaited'
<1>1. CASE requests' = requests
  BY <1>1 DEF Awaited
<1>2. ASSUME NEW r \in Requests, requests' = Append(requests, r)
      PROVE  Awaited'
  BY <1>2, AppendElements DEF Awaited, TypeOK
<1>3. QED
  BY <1>1, <1>2

\* A tick that waits afterwards has just sent its frame, or waited before.
LEMMA TickKeepsAwaited ==
    ASSUME TypeOK, inferencePending => Awaited, GameTick
    PROVE  (inferencePending => Awaited)'
<1>1. \/ Written = requests
      \/ Written = Append(requests, Reset(epoch + 1))
  BY DEF Written
<1>2. Reset(epoch + 1) \in Requests
  BY LinesTyped DEF TypeOK
<1>3. replies' = replies
  BY DEF GameTick, TickIdle, TickBlind, TickSend, TickPart
<1>4. CASE TickIdle
  <2>1. inferencePending' => inferencePending
    BY <1>4, Zenon DEF TickIdle, StillPending
  <2>2. requests' = Written
    BY <1>4 DEF TickIdle
  <2>3. QED
    BY <1>1, <1>2, <1>3, <2>1, <2>2, SendingKeepsAwaited
<1>5. CASE TickBlind
  BY <1>5 DEF TickBlind
<1>6. CASE TickSend
  <2>1. Frame(team, EpochNow) \in Requests /\ Written \in Seq(Requests)
    BY LinesTyped, WrittenTyped DEF TypeOK
  <2>2. /\ requests' = Append(Written, Frame(team, EpochNow))
        /\ Frame(team, EpochNow).op = "frame"
    BY <1>6 DEF TickSend, Frame
  <2>3. QED
    BY <2>1, <2>2, AppendElements DEF Awaited
<1>7. QED
  BY <1>4, <1>5, <1>6 DEF GameTick

\* The inference process turns each frame into its answer.
LEMMA ServeKeepsAwaited ==
    ASSUME TypeOK, Awaited, Serve
    PROVE  Awaited'
<1>1. CASE Announce
  <2>1. requests' = requests /\ replies' = Append(replies, Line("ready", 0, Reset(0)))
    BY <1>1 DEF Announce
  <2>2. Line("ready", 0, Reset(0)) \in Replies
    BY LinesTyped
  <2>3. QED
    BY <2>1, <2>2, AppendElements DEF TypeOK, Awaited
<1>2. ASSUME TakeRequest, NEW line \in Replies, replies' = Append(replies, line),
             Head(requests).op = "frame" => Expected(line)
      PROVE  Awaited'
  <2>1. requests \in Seq(Requests) /\ requests # <<>> /\ requests' = Tail(requests)
    BY <1>2 DEF TypeOK, TakeRequest
  <2>2. replies \in Seq(Replies)
    BY DEF TypeOK
  <2>3. CASE \E i \in DOMAIN replies : Expected(replies[i])
    BY <1>2, <2>2, <2>3, AppendElements DEF Awaited
  <2>4. ASSUME NEW i \in DOMAIN requests, requests[i].op = "frame" PROVE Awaited'
    <3>1. CASE i = 1
      <4>1. Expected(line)
        BY <1>2, <2>1, <2>4, <3>1, TailElements
      <4>2. QED
        BY <1>2, <2>2, <4>1, AppendElements DEF Awaited
    <3>2. CASE i # 1
      <4>1. i - 1 \in DOMAIN Tail(requests) /\ Tail(requests)[i - 1] = requests[i]
        BY <2>1, <3>2, TailElements
      <4>2. QED
        BY <2>1, <2>4, <4>1 DEF Awaited
    <3>3. QED
      BY <3>1, <3>2
  <2>5. QED
    BY <2>3, <2>4 DEF Awaited
<1>3. ASSUME TakeRequest
      PROVE  /\ Line("reset", 0, Head(requests)) \in Replies
             /\ \A dir \in {-1, 0, 1} : Line("action", dir, Head(requests)) \in Replies
             /\ Line("invalid", 0, Head(requests)) \in Replies
             /\ Line("error", 0, Head(requests)) \in Replies
  <2>1. Head(requests) \in Requests
    BY <1>3 DEF TypeOK, TakeRequest
  <2>2. QED
    BY <2>1, LinesTyped
<1>4. CASE ServeReset
  BY <1>2, <1>3, <1>4 DEF ServeReset
<1>5. CASE ServeFrame
  <2>1. \E line \in Replies : replies' = Append(replies, line) /\ Expected(line)
    <3>1. /\ \A dir \in {-1, 0, 1} : Expected(Line("action", dir, Head(requests)))
          /\ Expected(Line("invalid", 0, Head(requests)))
      BY DEF Expected, Line
    <3>2. QED
      BY <1>3, <1>5, <3>1 DEF ServeFrame
  <2>2. QED
    BY <1>2, <1>5, <2>1 DEF ServeFrame
<1>6. CASE ServeError
  <2>1. Expected(Line("error", 0, Head(requests)))
    BY DEF Expected, Line
  <2>2. QED
    BY <1>2, <1>3, <1>6, <2>1 DEF ServeError
<1>7. QED
  BY <1>1, <1>4, <1>5, <1>6 DEF Serve

\* Taking an answer ends the waiting; the other lines are not the awaited one.
LEMMA ReceiveKeepsAwaited ==
    ASSUME TypeOK, inferencePending => Awaited, Receive
    PROVE  (inferencePending => Awaited)'
<1>1. CASE ReceiveReady \/ ReceiveReset
  <2>1. /\ inferencePending' = inferencePending /\ requests' = requests
        /\ replies # <<>> /\ replies' = Tail(replies)
    BY <1>1, Zenon DEF ReceiveReady, ReceiveReset, TakeReply
  <2>2. ~Expected(Head(replies))
    BY <1>1 DEF ReceiveReady, ReceiveReset, Expected
  <2>3. ASSUME NEW i \in DOMAIN replies, Expected(replies[i]) PROVE Awaited'
    <3>1. replies \in Seq(Replies)
      BY DEF TypeOK
    <3>2. i # 1
      BY <2>1, <2>2, <2>3, <3>1, TailElements
    <3>3. i - 1 \in DOMAIN Tail(replies) /\ Tail(replies)[i - 1] = replies[i]
      BY <2>1, <3>1, <3>2, TailElements
    <3>4. QED
      BY <2>1, <2>3, <3>3 DEF Awaited
  <2>4. Awaited => Awaited'
    BY <2>1, <2>3 DEF Awaited
  <2>5. QED
    BY <2>1, <2>4, Zenon
<1>2. CASE ReceiveFailure \/ ReceiveAction
  BY <1>2 DEF ReceiveFailure, ReceiveAction
<1>3. QED
  BY <1>1, <1>2 DEF Receive

\* Every step keeps an answer on the way while the bot waits.
LEMMA AwaitedStep ==
    ASSUME TypeOK, inferencePending => Awaited, [Next]_vars
    PROVE  (inferencePending => Awaited)'
<1>1. CASE Launch \/ Join \/ EndGame \/ UNCHANGED vars \/ \E t \in 0..2 : ChangeTeam(t)
  <2>1. /\ inferencePending' = inferencePending
        /\ requests' = requests /\ replies' = replies
    BY <1>1, Zenon DEF Launch, Join, EndGame, ChangeTeam, vars, botVars, pipeVars
  <2>2. Awaited => Awaited'
    BY <2>1 DEF Awaited
  <2>3. QED
    BY <2>1, <2>2, Zenon
<1>2. CASE Exit
  BY <1>2 DEF Exit
<1>3. CASE StartGame
  <2>1. CASE up = "joined"
    BY <1>3, <2>1, Zenon DEF StartGame
  <2>2. CASE up # "joined"
    <3>1. /\ inferencePending' = inferencePending
          /\ requests' = requests /\ replies' = replies
      BY <1>3, <2>2, Zenon DEF StartGame
    <3>2. Awaited => Awaited'
      BY <3>1 DEF Awaited
    <3>3. QED
      BY <3>1, <3>2, Zenon
  <2>3. QED
    BY <2>1, <2>2
<1>4. CASE GameTick
  BY <1>4, TickKeepsAwaited
<1>5. CASE Serve
  <2>1. inferencePending' = inferencePending
    BY <1>5, Zenon DEF Serve, Announce, ServeReset, ServeFrame, ServeError, TakeRequest,
                       botVars
  <2>2. QED
    BY <1>5, <2>1, ServeKeepsAwaited, Zenon
<1>6. CASE Receive
  BY <1>6, ReceiveKeepsAwaited
<1>7. QED
  BY <1>1, <1>2, <1>3, <1>4, <1>5, <1>6 DEF Next

\* While the bot holds back frames for an answer, the frame or its answer is in a
\* pipe, so no order of resets, answers and failures makes it wait for nothing.
THEOREM NothingLost == Spec => []AnswerOnTheWay
<1>1. Init => (inferencePending => Awaited)
  BY DEF Init
<1>2. Spec => [](inferencePending => Awaited)
  BY <1>1, TypeCorrect, AwaitedStep, PTL DEF Spec
<1>3. QED
  BY <1>2, AwaitedIsOnTheWay, PTL


-----------------------------------------------------------------------------
(* The frames between two resets.                                          *)

\* A queue q of requests behind a window h: the number of the resets never falls
\* along them, it rises only at a reset, and the last of them has number e.
Ordered(h, q, e) ==
    /\ \A i \in DOMAIN h : h[i].op = "frame" /\ h[i].epoch <= e
    /\ \A i, j \in DOMAIN h : h[i] = h[j]
    /\ \A i \in DOMAIN q : q[i].epoch <= e
    /\ \A i \in DOMAIN q : i + 1 \in DOMAIN q /\ q[i + 1].op = "frame" =>
          /\ q[i + 1].epoch = q[i].epoch
          /\ q[i].op = "frame" => q[i + 1] = q[i]
    /\ q # <<>> /\ q[1].op = "frame" => \A i \in DOMAIN h : h[i] = q[1]
    /\ q # <<>> => q[Len(q)].epoch = e
    /\ q = <<>> => \A i \in DOMAIN h : h[i].epoch = e

\* What was asked since reset e is of the side t the bot has last seen itself on,
\* which is also the side s of the last frame sent.
OfSide(h, q, r, e, t, s) ==
    /\ \A i \in DOMAIN h : h[i].epoch = e => h[i].side = t
    /\ \A i \in DOMAIN q :
          q[i].op = "frame" /\ q[i].epoch = e => q[i].side = t /\ q[i].side = s
    /\ \A i \in DOMAIN r :
          /\ r[i].asked.epoch <= e
          /\ r[i].type = "action" /\ r[i].asked.epoch = e
                => r[i].asked.side = t /\ r[i].asked.side = s

PipesOrdered ==
    /\ Ordered(history, requests, epoch)
    /\ OfSide(history, requests, replies, epoch, lastTeam, lastTeamSent)

\* Requests are compared by their fields.
LEMMA SameRequest ==
    ASSUME NEW a \in Requests, NEW b \in Requests,
           a.op = b.op, a.side = b.side, a.epoch = b.epoch
    PROVE  a = b
BY DEF Requests

\* A reset closes an epoch: what follows it may be of another side.
LEMMA ResetSent ==
    ASSUME NEW h \in Seq(Requests), NEW q \in Seq(Requests), NEW r \in Seq(Replies),
           NEW e \in Nat, NEW t, NEW s, NEW t2, NEW s2,
           Ordered(h, q, e), OfSide(h, q, r, e, t, s)
    PROVE  /\ Ordered(h, Append(q, Reset(e + 1)), e + 1)
           /\ OfSide(h, Append(q, Reset(e + 1)), r, e + 1, t2, s2)
<1> DEFINE new == Reset(e + 1)
           q2 == Append(q, new)
<1>1. new \in Requests /\ new.op = "reset" /\ new.epoch = e + 1
  BY LinesTyped DEF Reset
<1> HIDE DEF new
<1>2. /\ q2 \in Seq(Requests) /\ Len(q2) = Len(q) + 1 /\ q2[Len(q) + 1] = new
      /\ \A i \in DOMAIN q : i \in DOMAIN q2 /\ q2[i] = q[i]
      /\ \A i \in DOMAIN q2 : i \in DOMAIN q \/ i = Len(q) + 1
  BY <1>1, AppendElements
<1> HIDE DEF q2
<1>3. /\ \A i \in DOMAIN h : h[i].epoch \in Nat
      /\ \A i \in DOMAIN q : q[i].epoch \in Nat
      /\ \A i \in DOMAIN r : r[i].asked.epoch \in Nat
  <2>1. \A request \in Requests : request.epoch \in Nat
    BY DEF Requests
  <2>2. \A reply \in Replies : reply.asked \in Requests
    BY DEF Replies
  <2>3. /\ \A i \in DOMAIN h : h[i] \in Requests
        /\ \A i \in DOMAIN q : q[i] \in Requests
        /\ \A i \in DOMAIN r : r[i] \in Replies
    OBVIOUS
  <2>4. QED
    BY <2>1, <2>2, <2>3
<1>4. ASSUME NEW i \in DOMAIN q2 PROVE q2[i].epoch <= e + 1
  <2>1. CASE i \in DOMAIN q
    <3>1. q2[i] = q[i] /\ q[i].epoch <= e
      BY <1>2, <2>1 DEF Ordered
    <3>2. QED
      BY <1>3, <2>1, <3>1
  <2>2. CASE i = Len(q) + 1
    BY <1>1, <1>2, <2>2
  <2>3. QED
    BY <1>2, <2>1, <2>2
<1>5. ASSUME NEW i \in DOMAIN q2, i + 1 \in DOMAIN q2, q2[i + 1].op = "frame"
      PROVE  /\ q2[i + 1].epoch = q2[i].epoch
             /\ q2[i].op = "frame" => q2[i + 1] = q2[i]
  <2>1. i + 1 # Len(q) + 1
    BY <1>1, <1>2, <1>5
  <2>2. i + 1 \in DOMAIN q /\ i \in DOMAIN q
    BY <1>2, <1>5, <2>1
  <2>3. q2[i] = q[i] /\ q2[i + 1] = q[i + 1]
    BY <1>2, <2>2
  <2>4. QED
    BY <1>5, <2>2, <2>3 DEF Ordered
<1>6. ASSUME q2[1].op = "frame", NEW i \in DOMAIN h PROVE h[i] = q2[1]
  <2>1. 1 # Len(q) + 1
    BY <1>1, <1>2, <1>6
  <2>2. q # <<>> /\ q2[1] = q[1]
    BY <1>2, <2>1
  <2>3. QED
    BY <1>6, <2>2 DEF Ordered
<1>7. Ordered(h, q2, e + 1)
  BY <1>1, <1>2, <1>3, <1>4, <1>5, <1>6 DEF Ordered
<1>8. OfSide(h, q2, r, e + 1, t2, s2)
  <2>1. \A i \in DOMAIN h : h[i].epoch # e + 1
    BY <1>3 DEF Ordered
  <2>2. \A i \in DOMAIN q2 : q2[i].op = "frame" => q2[i].epoch # e + 1
    BY <1>1, <1>2, <1>3 DEF Ordered
  <2>3. \A i \in DOMAIN r : r[i].asked.epoch <= e + 1 /\ r[i].asked.epoch # e + 1
    BY <1>3 DEF OfSide
  <2>4. QED
    BY <2>1, <2>2, <2>3 DEF OfSide
<1>9. QED
  BY <1>7, <1>8 DEF new, q2

\* A frame is of the side of its epoch, the newest.
LEMMA FrameSent ==
    ASSUME NEW h \in Seq(Requests), NEW q \in Seq(Requests), NEW r \in Seq(Replies),
           NEW e \in Nat, NEW t \in Sides, NEW s,
           Ordered(h, q, e), OfSide(h, q, r, e, t, s)
    PROVE  /\ Ordered(h, Append(q, Frame(t, e)), e)
           /\ OfSide(h, Append(q, Frame(t, e)), r, e, t, t)
<1> DEFINE new == Frame(t, e)
           q2 == Append(q, new)
<1>1. new \in Requests /\ new.op = "frame" /\ new.epoch = e /\ new.side = t
  BY LinesTyped DEF Frame
<1> HIDE DEF new
<1>2. /\ q2 \in Seq(Requests) /\ Len(q2) = Len(q) + 1 /\ q2[Len(q) + 1] = new
      /\ \A i \in DOMAIN q : i \in DOMAIN q2 /\ q2[i] = q[i]
      /\ \A i \in DOMAIN q2 : i \in DOMAIN q \/ i = Len(q) + 1
  BY <1>1, AppendElements
<1> HIDE DEF q2
<1>3. ASSUME NEW f \in Requests, f.op = "frame", f.epoch = e, f.side = t
      PROVE  f = new
  BY <1>1, <1>3, SameRequest
<1>4. /\ \A i \in DOMAIN q : q[i] \in Requests
      /\ \A i \in DOMAIN h : h[i] \in Requests
  OBVIOUS
<1>5. \A i \in DOMAIN q2 : q2[i].epoch <= e
  BY <1>1, <1>2 DEF Ordered
<1>6. ASSUME NEW i \in DOMAIN q2, i + 1 \in DOMAIN q2, q2[i + 1].op = "frame"
      PROVE  /\ q2[i + 1].epoch = q2[i].epoch
             /\ q2[i].op = "frame" => q2[i + 1] = q2[i]
  <2>1. CASE i + 1 \in DOMAIN q
    <3>1. i \in DOMAIN q /\ q2[i] = q[i] /\ q2[i + 1] = q[i + 1]
      BY <1>2, <1>6, <2>1
    <3>2. QED
      BY <1>6, <2>1, <3>1 DEF Ordered
  <2>2. CASE i = Len(q)
    <3>1. i \in DOMAIN q /\ q2[i] = q[i] /\ q2[i + 1] = new /\ q # <<>>
      BY <1>2, <1>6, <2>2
    <3>2. q[i].epoch = e
      BY <2>2, <3>1 DEF Ordered
    <3>3. q[i].op = "frame" => q[i].side = t
      BY <3>1, <3>2 DEF OfSide
    <3>4. q[i].op = "frame" => q[i] = new
      BY <1>3, <1>4, <3>1, <3>2, <3>3
    <3>5. QED
      BY <1>1, <3>1, <3>2, <3>4
  <2>3. QED
    BY <1>2, <1>6, <2>1, <2>2
<1>7. ASSUME q2[1].op = "frame", NEW i \in DOMAIN h PROVE h[i] = q2[1]
  <2>1. CASE q = <<>>
    <3>1. q2[1] = new
      BY <1>2, <2>1
    <3>2. h[i].op = "frame" /\ h[i].epoch = e /\ h[i].side = t
      BY <2>1 DEF Ordered, OfSide
    <3>3. QED
      BY <1>3, <1>4, <3>1, <3>2
  <2>2. CASE q # <<>>
    <3>1. q2[1] = q[1]
      BY <1>2, <2>2
    <3>2. QED
      BY <1>7, <2>2, <3>1 DEF Ordered
  <2>3. QED
    BY <2>1, <2>2
<1>8. Ordered(h, q2, e)
  BY <1>1, <1>2, <1>5, <1>6, <1>7 DEF Ordered
<1>9. OfSide(h, q2, r, e, t, t)
  <2>1. \A i \in DOMAIN q2 : q2[i].op = "frame" /\ q2[i].epoch = e => q2[i].side = t
    BY <1>1, <1>2 DEF OfSide
  <2>2. QED
    BY <2>1 DEF OfSide
<1>10. QED
  BY <1>8, <1>9 DEF new, q2

\* A request moves on into the history and its answer into the other pipe.
LEMMA RequestTaken ==
    ASSUME NEW h \in Seq(Requests), NEW q \in Seq(Requests), NEW r \in Seq(Replies),
           NEW e \in Nat, NEW t, NEW s, q # <<>>,
           Ordered(h, q, e), OfSide(h, q, r, e, t, s),
           NEW h2 \in Seq(Requests),
           \A i \in DOMAIN h2 : h2[i] = Head(q) /\ Head(q).op = "frame",
           NEW line \in Replies, line.asked = Head(q),
           line.type = "action" => Head(q).op = "frame"
    PROVE  /\ Ordered(h2, Tail(q), e)
           /\ OfSide(h2, Tail(q), Append(r, line), e, t, s)
<1> DEFINE q2 == Tail(q)
           r2 == Append(r, line)
<1>1. /\ q2 \in Seq(Requests) /\ Len(q2) = Len(q) - 1
      /\ Head(q) = q[1] /\ 1 \in DOMAIN q
      /\ \A i \in DOMAIN q2 : i + 1 \in DOMAIN q /\ q2[i] = q[i + 1]
  BY TailElements
<1> HIDE DEF q2
<1>2. /\ r2[Len(r) + 1] = line
      /\ \A i \in DOMAIN r : i \in DOMAIN r2 /\ r2[i] = r[i]
      /\ \A i \in DOMAIN r2 : i \in DOMAIN r \/ i = Len(r) + 1
  BY AppendElements
<1> HIDE DEF r2
<1>3. q[1].epoch <= e
  BY <1>1 DEF Ordered
<1>4. \A i \in DOMAIN q2 : q2[i].epoch <= e
  BY <1>1 DEF Ordered
<1>5. ASSUME NEW i \in DOMAIN q2, i + 1 \in DOMAIN q2, q2[i + 1].op = "frame"
      PROVE  /\ q2[i + 1].epoch = q2[i].epoch
             /\ q2[i].op = "frame" => q2[i + 1] = q2[i]
  <2>1. /\ i + 1 \in DOMAIN q /\ q2[i] = q[i + 1]
        /\ (i + 1) + 1 \in DOMAIN q /\ q2[i + 1] = q[(i + 1) + 1]
    BY <1>1, <1>5
  <2>2. QED
    BY <1>5, <2>1 DEF Ordered
<1>6. ASSUME q2 # <<>>, q2[1].op = "frame", NEW i \in DOMAIN h2 PROVE h2[i] = q2[1]
  <2>1. 1 \in DOMAIN q2
    BY <1>1, <1>6
  <2>2. 1 + 1 \in DOMAIN q /\ q2[1] = q[1 + 1]
    BY <1>1, <2>1
  <2>3. q[1].op = "frame" => q[1 + 1] = q[1]
    BY <1>1, <1>6, <2>2 DEF Ordered
  <2>4. QED
    BY <1>1, <1>6, <2>2, <2>3
<1>7. q2 # <<>> => q2[Len(q2)].epoch = e
  <2>1. SUFFICES ASSUME q2 # <<>> PROVE q2[Len(q2)].epoch = e
    OBVIOUS
  <2>2. Len(q2) \in DOMAIN q2
    BY <1>1, <2>1
  <2>3. q2[Len(q2)] = q[Len(q)]
    <3>1. q2[Len(q2)] = q[Len(q2) + 1]
      BY <1>1, <2>2
    <3>2. QED
      BY <1>1, <3>1
  <2>4. QED
    BY <2>3 DEF Ordered
<1>8. ASSUME q2 = <<>>, NEW i \in DOMAIN h2 PROVE h2[i].epoch = e
  <2>1. Len(q) = 1
    BY <1>1, <1>8
  <2>2. q[1].epoch = e
    BY <2>1 DEF Ordered
  <2>3. QED
    BY <1>1, <1>8, <2>2
<1>9. Ordered(h2, q2, e)
  <2>1. \A i \in DOMAIN h2 : h2[i].op = "frame" /\ h2[i].epoch <= e
    BY <1>1, <1>3
  <2>2. QED
    BY <1>4, <1>5, <1>6, <1>7, <1>8, <2>1 DEF Ordered
<1>10. q[1].op = "frame" /\ q[1].epoch = e => q[1].side = t /\ q[1].side = s
  BY <1>1 DEF OfSide
<1>11. \A i \in DOMAIN q2 :
          q2[i].op = "frame" /\ q2[i].epoch = e => q2[i].side = t /\ q2[i].side = s
  BY <1>1 DEF OfSide
<1>12. ASSUME NEW i \in DOMAIN r2
       PROVE  /\ r2[i].asked.epoch <= e
              /\ r2[i].type = "action" /\ r2[i].asked.epoch = e
                    => r2[i].asked.side = t /\ r2[i].asked.side = s
  <2>1. CASE i \in DOMAIN r
    BY <1>2, <2>1 DEF OfSide
  <2>2. CASE i = Len(r) + 1
    BY <1>1, <1>2, <1>3, <1>10, <2>2
  <2>3. QED
    BY <1>2, <2>1, <2>2
<1>13. OfSide(h2, q2, r2, e, t, s)
  <2>1. \A i \in DOMAIN h2 : h2[i].epoch = e => h2[i].side = t
    BY <1>1, <1>10
  <2>2. QED
    BY <1>11, <1>12, <2>1 DEF OfSide
<1>14. QED
  BY <1>9, <1>13 DEF q2, r2

\* The inference process keeps the order of the lines.
LEMMA ServeKeepsOrder ==
    ASSUME TypeOK, PipesOrdered, Serve
    PROVE  PipesOrdered'
<1>1. /\ epoch' = epoch /\ lastTeam' = lastTeam /\ lastTeamSent' = lastTeamSent
  BY DEF Serve, Announce, ServeReset, ServeFrame, ServeError, TakeRequest, botVars
<1>2. CASE Announce
  <2>1. /\ history' = history /\ requests' = requests
        /\ replies' = Append(replies, Line("ready", 0, Reset(0)))
    BY <1>2 DEF Announce
  <2>2. /\ Line("ready", 0, Reset(0)) \in Replies
        /\ Line("ready", 0, Reset(0)).type = "ready"
        /\ Line("ready", 0, Reset(0)).asked.epoch = 0
    BY LinesTyped DEF Line, Reset
  <2>3. replies \in Seq(Replies) /\ 0 <= epoch
    BY DEF TypeOK
  <2>4. OfSide(history, requests, replies', epoch, lastTeam, lastTeamSent)
    BY <2>1, <2>2, <2>3, AppendElements DEF PipesOrdered, OfSide
  <2>5. QED
    BY <1>1, <2>1, <2>4 DEF PipesOrdered
<1>3. ASSUME TakeRequest,
             NEW line \in Replies, line.asked = Head(requests),
             line.type = "action" => Head(requests).op = "frame",
             replies' = Append(replies, line),
             history' \in Seq(Requests),
             \A i \in DOMAIN history' :
                history'[i] = Head(requests) /\ Head(requests).op = "frame"
      PROVE  PipesOrdered'
  <2>1. requests # <<>> /\ requests' = Tail(requests)
    BY <1>3 DEF TakeRequest
  <2>2. /\ history \in Seq(Requests) /\ requests \in Seq(Requests)
        /\ replies \in Seq(Replies) /\ epoch \in Nat
    BY DEF TypeOK
  <2>3. /\ Ordered(history', Tail(requests), epoch)
        /\ OfSide(history', Tail(requests), Append(replies, line), epoch, lastTeam,
                  lastTeamSent)
    BY <1>3, <2>1, <2>2, RequestTaken DEF PipesOrdered
  <2>4. QED
    BY <1>1, <1>3, <2>1, <2>3 DEF PipesOrdered
<1>4. ASSUME TakeRequest
      PROVE  /\ Head(requests) \in Requests /\ Head(requests) = requests[1]
             /\ requests # <<>>
  BY <1>4 DEF TypeOK, TakeRequest
<1>5. CASE ServeReset
  <2>1. TakeRequest /\ replies' = Append(replies, Line("reset", 0, Head(requests)))
        /\ history' = <<>>
    BY <1>5 DEF ServeReset
  <2>2. /\ Line("reset", 0, Head(requests)) \in Replies
        /\ Line("reset", 0, Head(requests)).asked = Head(requests)
        /\ Line("reset", 0, Head(requests)).type = "reset"
    BY <1>4, <2>1, LinesTyped DEF Line
  <2>3. QED
    BY <1>3, <2>1, <2>2, EmptyTyped
<1>6. ASSUME TakeRequest, Head(requests).op = "frame", NEW i \in DOMAIN history
      PROVE  history[i] = Head(requests)
  BY <1>4, <1>6 DEF PipesOrdered, Ordered
<1>7. CASE ServeFrame
  <2>1. TakeRequest /\ Head(requests).op = "frame" /\ history' = Pushed(Head(requests))
    BY <1>7 DEF ServeFrame
  <2>2. PICK line \in Replies : line.asked = Head(requests) /\ replies' = Append(replies, line)
    <3>1. /\ \A dir \in {-1, 0, 1} :
                /\ Line("action", dir, Head(requests)) \in Replies
                /\ Line("action", dir, Head(requests)).asked = Head(requests)
          /\ Line("invalid", 0, Head(requests)) \in Replies
          /\ Line("invalid", 0, Head(requests)).asked = Head(requests)
      BY <1>4, <2>1, LinesTyped DEF Line
    <3>2. QED
      BY <1>7, <3>1 DEF ServeFrame
  <2>3. /\ history' \in Seq(Requests)
        /\ \A i \in DOMAIN history' : history'[i] = Head(requests)
    <3> DEFINE longer == Append(history, Head(requests))
    <3>1. history \in Seq(Requests)
      BY DEF TypeOK
    <3>2. /\ longer \in Seq(Requests) /\ longer # <<>>
          /\ \A i \in DOMAIN longer : longer[i] = Head(requests)
      BY <1>4, <1>6, <2>1, <3>1, AppendElements
    <3>3. history' = longer \/ history' = Tail(longer)
      BY <2>1 DEF Pushed
    <3> HIDE DEF longer
    <3>4. CASE history' = longer
      BY <3>2, <3>4
    <3>5. CASE history' = Tail(longer)
      BY <3>2, <3>5, TailElements
    <3>6. QED
      BY <3>3, <3>4, <3>5
  <2>4. QED
    BY <1>3, <2>1, <2>2, <2>3
<1>8. CASE ServeError
  <2>1. /\ TakeRequest /\ Head(requests).op = "frame" /\ history' = history
        /\ replies' = Append(replies, Line("error", 0, Head(requests)))
    BY <1>8 DEF ServeError
  <2>2. /\ Line("error", 0, Head(requests)) \in Replies
        /\ Line("error", 0, Head(requests)).asked = Head(requests)
    BY <1>4, <2>1, LinesTyped DEF Line
  <2>3. history \in Seq(Requests)
    BY DEF TypeOK
  <2>4. QED
    BY <1>3, <1>6, <2>1, <2>2, <2>3
<1>9. QED
  BY <1>2, <1>5, <1>7, <1>8 DEF Serve

\* A tick sends the reset of a new side before the first frame of it.
LEMMA TickKeepsOrder ==
    ASSUME TypeOK, PipesOrdered, GameTick
    PROVE  PipesOrdered'
<1>1. /\ history' = history /\ replies' = replies /\ lastTeam' = team
      /\ epoch' = EpochNow
  BY DEF GameTick, TickIdle, TickBlind, TickSend, TickPart
<1>2. /\ history \in Seq(Requests) /\ requests \in Seq(Requests)
      /\ replies \in Seq(Replies) /\ epoch \in Nat /\ team \in Sides
  BY DEF TypeOK
\* After the first part.
<1>3. ASSUME NEW s, s = lastTeamSent
      PROVE  /\ Ordered(history, Written, EpochNow)
             /\ OfSide(history, Written, replies, EpochNow, team, s)
  <2>1. CASE Noticed
    BY <1>2, <1>3, <2>1, ResetSent DEF PipesOrdered, Written, EpochNow
  <2>2. CASE ~Noticed
    BY <1>3, <2>2 DEF PipesOrdered, Written, EpochNow, Noticed
  <2>3. QED
    BY <2>1, <2>2
<1>4. CASE TickIdle \/ TickBlind
  <2>1. requests' = Written /\ lastTeamSent' = lastTeamSent
    BY <1>4 DEF TickIdle, TickBlind
  <2>2. QED
    BY <1>1, <1>3, <2>1 DEF PipesOrdered
<1>5. CASE TickSend
  <2>1. requests' = Append(Written, Frame(team, EpochNow)) /\ lastTeamSent' = team
    BY <1>5 DEF TickSend
  <2>2. Written \in Seq(Requests) /\ EpochNow \in Nat
    BY WrittenTyped
  <2>3. /\ Ordered(history, Append(Written, Frame(team, EpochNow)), EpochNow)
        /\ OfSide(history, Append(Written, Frame(team, EpochNow)), replies, EpochNow,
                  team, team)
    BY <1>2, <1>3, <2>2, FrameSent
  <2>4. QED
    BY <1>1, <2>1, <2>3 DEF PipesOrdered
<1>6. QED
  BY <1>4, <1>5 DEF GameTick

\* Every step keeps the order.
LEMMA OrderStep ==
    ASSUME TypeOK, PipesOrdered, [Next]_vars
    PROVE  PipesOrdered'
<1>1. CASE UNCHANGED <<history, requests, replies, epoch, lastTeam, lastTeamSent>>
  BY <1>1 DEF PipesOrdered
<1>2. CASE Launch \/ Join \/ EndGame \/ UNCHANGED vars \/ \E t \in 0..2 : ChangeTeam(t)
  BY <1>1, <1>2 DEF Launch, Join, EndGame, ChangeTeam, vars, botVars, pipeVars
<1>3. CASE Exit
  <2>1. /\ history' = <<>> /\ requests' = <<>> /\ replies' = <<>>
    BY <1>3 DEF Exit
  <2>2. QED
    BY <2>1 DEF PipesOrdered, Ordered, OfSide
<1>4. CASE StartGame
  <2>1. /\ history' = history /\ replies' = replies
        /\ lastTeam' = lastTeam /\ lastTeamSent' = lastTeamSent
    BY <1>4 DEF StartGame
  <2>2. CASE up = "joined"
    <3>1. epoch' = epoch + 1 /\ requests' = Append(requests, Reset(epoch + 1))
      BY <1>4, <2>2, Zenon DEF StartGame
    <3>2. /\ history \in Seq(Requests) /\ requests \in Seq(Requests)
          /\ replies \in Seq(Replies) /\ epoch \in Nat
      BY DEF TypeOK
    <3>3. /\ Ordered(history, Append(requests, Reset(epoch + 1)), epoch + 1)
          /\ OfSide(history, Append(requests, Reset(epoch + 1)), replies, epoch + 1,
                    lastTeam, lastTeamSent)
      BY <3>2, ResetSent DEF PipesOrdered
    <3>4. QED
      BY <2>1, <3>1, <3>3 DEF PipesOrdered
  <2>3. CASE up # "joined"
    <3>1. epoch' = epoch /\ requests' = requests
      BY <1>4, <2>3, Zenon DEF StartGame
    <3>2. QED
      BY <1>1, <2>1, <3>1
  <2>4. QED
    BY <2>2, <2>3
<1>5. CASE GameTick
  BY <1>5, TickKeepsOrder
<1>6. CASE Serve
  BY <1>6, ServeKeepsOrder
<1>7. CASE Receive
  <2>1. TakeReply
    BY <1>7 DEF Receive, ReceiveReady, ReceiveReset, ReceiveFailure, ReceiveAction
  <2>2. /\ replies # <<>> /\ replies' = Tail(replies)
        /\ UNCHANGED <<history, requests, epoch, lastTeam, lastTeamSent>>
    BY <2>1 DEF TakeReply
  <2>3. replies \in Seq(Replies)
    BY DEF TypeOK
  <2>4. OfSide(history, requests, Tail(replies), epoch, lastTeam, lastTeamSent)
    BY <2>2, <2>3, TailElements DEF PipesOrdered, OfSide
  <2>5. QED
    BY <2>2, <2>4 DEF PipesOrdered
<1>8. QED
  BY <1>2, <1>3, <1>4, <1>5, <1>6, <1>7 DEF Next

\* The order holds in every reachable state.
LEMMA AlwaysOrdered == Spec => []PipesOrdered
<1>1. Init => PipesOrdered
  <2>1. SUFFICES ASSUME Init PROVE PipesOrdered
    OBVIOUS
  <2>2. history = <<>> /\ requests = <<>> /\ replies = <<>>
    BY <2>1 DEF Init
  <2>3. QED
    BY <2>2 DEF PipesOrdered, Ordered, OfSide
<1>2. QED
  BY <1>1, TypeCorrect, OrderStep, PTL DEF Spec

\* The frames the model looks at are of one game and one side: whatever the room
\* does while frames are in the pipe, a reset is between the frames it separates.
THEOREM OneWindow == Spec => []WindowOfOneEpoch
<1>1. PipesOrdered => WindowOfOneEpoch
  BY DEF PipesOrdered, Ordered, WindowOfOneEpoch
<1>2. QED
  BY <1>1, AlwaysOrdered, PTL

\* An answer asked since the last reset is mirrored for the side its frame was taken
\* from, for every number of frames and resets between the two.
THEOREM OwnSide == Spec => OwnSideApplied
<1>1. ASSUME TypeOK, PipesOrdered, [Next]_vars,
             up' # "down", replies # <<>>, replies' = Tail(replies),
             Head(replies).type = "action", Head(replies).asked.epoch = epoch
      PROVE  keys' \in {keys, Sign(Head(replies).asked.side) * Head(replies).dir}
  <2>1. /\ replies \in Seq(Replies) /\ 1 \in DOMAIN replies /\ Head(replies) = replies[1]
        /\ Len(replies') = Len(replies) - 1
    BY <1>1, TailElements DEF TypeOK
  <2>2. Head(replies).asked.side = lastTeamSent
    BY <1>1, <2>1 DEF PipesOrdered, OfSide
  <2>3. replies' # replies
    BY <2>1
  <2>4. ASSUME NEW line \in Replies, replies' = Append(replies, line) PROVE FALSE
    <3>1. Len(replies') = Len(replies) + 1
      BY <2>1, <2>4, AppendElements
    <3>2. Len(replies) \in Nat
      BY <2>1
    <3>3. QED
      BY <2>1, <3>1, <3>2
  <2>5. ~Serve
    <3>1. ASSUME TakeRequest
          PROVE  \A type \in {"reset", "action", "error", "invalid"}, dir \in {-1, 0, 1} :
                    Line(type, dir, Head(requests)) \in Replies
      <4>1. Head(requests) \in Requests
        BY <1>1, <3>1 DEF TypeOK, TakeRequest
      <4>2. QED
        BY <4>1, LinesTyped
    <3>2. Line("ready", 0, Reset(0)) \in Replies
      BY LinesTyped
    <3>3. ~Announce
      BY <2>4, <3>2 DEF Announce
    <3>4. ~ServeReset /\ ~ServeError
      BY <2>4, <3>1 DEF ServeReset, ServeError
    <3>5. ~ServeFrame
      BY <2>4, <3>1 DEF ServeFrame
    <3>6. QED
      BY <3>3, <3>4, <3>5 DEF Serve
  <2>6. /\ ~Launch /\ ~Join /\ ~Exit /\ ~EndGame /\ ~StartGame /\ ~UNCHANGED vars
        /\ ~GameTick /\ \A t \in 0..2 : ~ChangeTeam(t)
    BY <1>1, <2>3
    DEF Launch, Join, Exit, EndGame, StartGame, ChangeTeam, GameTick, TickIdle,
        TickBlind, TickSend, TickPart, vars, pipeVars
  <2>7. Receive
    BY <1>1, <2>5, <2>6 DEF Next
  <2>8. ReceiveAction
    BY <1>1, <2>7 DEF Receive, ReceiveReady, ReceiveReset, ReceiveFailure
  <2>9. keys' \in {keys, Sign(lastTeamSent) * Head(replies).dir}
    BY <2>8 DEF ReceiveAction
  <2>10. QED
    BY <2>2, <2>9
<1>2. QED
  BY <1>1, TypeCorrect, AlwaysOrdered, PTL DEF Spec, OwnSideApplied


-----------------------------------------------------------------------------
(* How much is in the pipes.                                               *)

\* How many elements of q are in the set P.
Count(q, P) == Cardinality({i \in DOMAIN q : q[i] \in P})

\* The lines of a kind in a pipe can be counted.
LEMMA CountFinite ==
    ASSUME NEW S, NEW P, NEW q \in Seq(S)
    PROVE  IsFiniteSet({i \in DOMAIN q : q[i] \in P}) /\ Count(q, P) \in Nat
<1>1. {i \in DOMAIN q : q[i] \in P} \in SUBSET (1..Len(q)) /\ Len(q) \in Nat
  OBVIOUS
<1>2. IsFiniteSet({i \in DOMAIN q : q[i] \in P})
  BY <1>1, FS_Interval, FS_Subset
<1>3. QED
  BY <1>2, FS_CardinalityType DEF Count

\* A line written counts when it is of the kind.
LEMMA CountAppend ==
    ASSUME NEW S, NEW P, NEW q \in Seq(S), NEW e \in S
    PROVE  Count(Append(q, e), P) = Count(q, P) + (IF e \in P THEN 1 ELSE 0)
<1> DEFINE I == {i \in DOMAIN q : q[i] \in P}
           J == {i \in DOMAIN Append(q, e) : Append(q, e)[i] \in P}
<1>1. IsFiniteSet(I) /\ Cardinality(I) \in Nat
  BY CountFinite DEF Count
<1>2. J = IF e \in P THEN I \cup {Len(q) + 1} ELSE I
  BY AppendElements
<1>3. Len(q) + 1 \notin I
  OBVIOUS
<1> HIDE DEF I, J
<1>4. CASE e \in P
  <2>1. Cardinality(I \cup {Len(q) + 1}) = Cardinality(I) + 1
    BY <1>1, <1>3, FS_AddElement
  <2>2. QED
    BY <1>2, <1>4, <2>1 DEF Count, I, J
<1>5. CASE e \notin P
  <2>1. Cardinality(J) = Cardinality(I) + 0
    BY <1>1, <1>2, <1>5
  <2>2. QED
    BY <1>5, <2>1 DEF Count, I, J
<1>6. QED
  BY <1>4, <1>5

\* A line taken counted when it was of the kind.
LEMMA CountTail ==
    ASSUME NEW S, NEW P, NEW q \in Seq(S), q # <<>>
    PROVE  Count(q, P) = Count(Tail(q), P) + (IF Head(q) \in P THEN 1 ELSE 0)
<1> DEFINE I == {i \in DOMAIN q : q[i] \in P}
           J == {i \in DOMAIN Tail(q) : Tail(q)[i] \in P}
           f == [j \in J |-> j + 1]
<1>1. IsFiniteSet(I) /\ Cardinality(I) \in Nat
  BY CountFinite DEF Count
<1>2. IsFiniteSet(J) /\ Cardinality(J) \in Nat
  <2>1. Tail(q) \in Seq(S)
    BY TailElements
  <2>2. QED
    BY <2>1, CountFinite DEF Count
<1>3. ExistsBijection(J, I \ {1})
  <2>1. \A j \in J : j \in Int /\ j + 1 \in I \ {1}
    <3>1. ASSUME NEW j \in DOMAIN Tail(q)
          PROVE  j \in Int /\ j + 1 # 1 /\ j + 1 \in DOMAIN q /\ Tail(q)[j] = q[j + 1]
      BY TailElements
    <3>2. QED
      BY <3>1
  <2>2. \A i \in I \ {1} : i - 1 \in J /\ (i - 1) + 1 = i
    BY TailElements
  <2>3. f \in [J -> I \ {1}]
    BY <2>1
  <2>4. ASSUME NEW a \in J, NEW b \in J, f[a] = f[b] PROVE a = b
    <3>1. a \in Int /\ b \in Int
      BY <2>1
    <3>2. f[a] = a + 1 /\ f[b] = b + 1
      OBVIOUS
    <3>3. QED
      BY <2>4, <3>1, <3>2
  <2>5. ASSUME NEW i \in I \ {1} PROVE \E j \in J : f[j] = i
    <3>1. i - 1 \in J /\ f[i - 1] = (i - 1) + 1
      BY <2>2
    <3>2. QED
      BY <2>2, <3>1
  <2> HIDE DEF I, J, f
  <2>6. f \in Injection(J, I \ {1})
    BY <2>3, <2>4 DEF Injection, IsInjective
  <2>7. f \in Surjection(J, I \ {1})
    BY <2>3, <2>5 DEF Surjection
  <2>8. QED
    BY <2>6, <2>7 DEF ExistsBijection, Bijection
<1>4. 1 \in I <=> Head(q) \in P
  BY TailElements
<1> HIDE DEF I, J
<1>5. Cardinality(I \ {1}) = Cardinality(J)
  BY <1>2, <1>3, FS_Bijection
<1>6. Cardinality(I \ {1}) = IF 1 \in I THEN Cardinality(I) - 1 ELSE Cardinality(I)
  BY <1>1, FS_RemoveElement
<1>7. Cardinality(I) = Cardinality(J) + (IF Head(q) \in P THEN 1 ELSE 0)
  BY <1>1, <1>2, <1>4, <1>5, <1>6
<1>8. QED
  BY <1>7 DEF Count, I, J

Asked == {request \in Requests : request.op = "frame"}
Given == {reply \in Replies : Expected(reply)}
Held == IF inferencePending THEN 1 ELSE 0
Load == Count(requests, Asked) + Count(replies, Given)
LoadBound == Load <= epoch + Held

\* The load is the number the property bounds.
LEMMA LoadIsInFlight == TypeOK => (LoadBound <=> OneMorePerReset)
<1>1. SUFFICES ASSUME TypeOK PROVE LoadBound <=> OneMorePerReset
  OBVIOUS
<1>2. {i \in DOMAIN requests : requests[i] \in Asked} = Frames(requests)
  BY <1>1 DEF TypeOK, Asked, Frames
<1>3. {i \in DOMAIN replies : replies[i] \in Given} = Answers(replies)
  BY <1>1 DEF TypeOK, Given, Expected, Answers
<1>4. Load = InFlight
  BY <1>2, <1>3 DEF Load, Count, InFlight
<1>5. QED
  BY <1>4, Zenon DEF LoadBound, OneMorePerReset, Held

\* The load is a number.
LEMMA LoadTyped ==
    ASSUME TypeOK
    PROVE  /\ Count(requests, Asked) \in Nat /\ Count(replies, Given) \in Nat
           /\ Held \in {0, 1} /\ epoch \in Nat
<1>1. requests \in Seq(Requests) /\ replies \in Seq(Replies) /\ epoch \in Nat
  BY DEF TypeOK
<1>2. Count(requests, Asked) \in Nat /\ Count(replies, Given) \in Nat
  BY <1>1, CountFinite
<1>3. Held \in {0, 1}
  BY Zenon DEF Held
<1>4. QED
  BY <1>1, <1>2, <1>3

\* Resets are no load.
LEMMA ResetIsNotCounted ==
    ASSUME TypeOK
    PROVE  Count(Append(requests, Reset(epoch + 1)), Asked) = Count(requests, Asked)
<1>1. /\ Reset(epoch + 1) \in Requests /\ Reset(epoch + 1) \notin Asked
      /\ requests \in Seq(Requests)
  BY LinesTyped DEF TypeOK, Asked, Reset
<1>2. Count(Append(requests, Reset(epoch + 1)), Asked) = Count(requests, Asked) + 0
  BY <1>1, CountAppend
<1>3. QED
  BY <1>2, LoadTyped

\* A tick sends a frame only when none is held to be under way, or after its reset.
LEMMA TickKeepsLoad ==
    ASSUME TypeOK, LoadBound, GameTick
    PROVE  LoadBound'
<1>1. replies' = replies /\ epoch' = EpochNow
  BY DEF GameTick, TickIdle, TickBlind, TickSend, TickPart
<1>2. Count(Written, Asked) = Count(requests, Asked)
  BY ResetIsNotCounted DEF Written
<1>3. Held' \in {0, 1}
  BY Zenon DEF Held
<1>4. CASE TickIdle
  <2>1. requests' = Written
    BY <1>4 DEF TickIdle
  <2>2. Load' = Load
    BY <1>1, <1>2, <2>1 DEF Load
  <2>3. CASE Noticed
    <3>1. epoch' = epoch + 1
      BY <1>1, <2>3 DEF EpochNow
    <3>2. QED
      BY <1>3, <2>2, <3>1, LoadTyped DEF LoadBound, Load
  <2>4. CASE ~Noticed
    <3>1. Held' = Held
      BY <1>4, <2>4, Zenon DEF TickIdle, StillPending, Held
    <3>2. epoch' = epoch
      BY <1>1, <2>4 DEF EpochNow
    <3>3. QED
      BY <2>2, <3>1, <3>2 DEF LoadBound
  <2>5. QED
    BY <2>3, <2>4
<1>5. ASSUME Due PROVE Load <= EpochNow
  <2>1. CASE Noticed
    BY <2>1, LoadTyped DEF EpochNow, LoadBound, Load
  <2>2. CASE ~Noticed
    <3>1. Held = 0
      BY <1>5, <2>2, Zenon DEF Due, StillPending, Held
    <3>2. QED
      BY <2>2, <3>1, LoadTyped DEF EpochNow, LoadBound, Load
  <2>3. QED
    BY <2>1, <2>2
<1>6. EpochNow \in Nat
  BY WrittenTyped
<1>7. CASE TickBlind
  <2>1. requests' = Written /\ Due
    BY <1>7 DEF TickBlind
  <2>2. Load' = Load
    BY <1>1, <1>2, <2>1 DEF Load
  <2>3. QED
    BY <1>1, <1>3, <1>5, <1>6, <2>1, <2>2, LoadTyped DEF LoadBound, Load
<1>8. CASE TickSend
  <2>1. requests' = Append(Written, Frame(team, EpochNow)) /\ Due
    BY <1>8 DEF TickSend
  <2>2. /\ Frame(team, EpochNow) \in Requests /\ Frame(team, EpochNow) \in Asked
        /\ Written \in Seq(Requests)
    BY LinesTyped, WrittenTyped DEF TypeOK, Asked, Frame
  <2>3. Count(requests', Asked) = Count(requests, Asked) + 1
    BY <1>2, <2>1, <2>2, CountAppend
  <2>4. Load' = Load + 1
    BY <1>1, <2>3, LoadTyped DEF Load
  <2>5. Held' = 1
    BY <1>8, Zenon DEF TickSend, Held
  <2>6. QED
    BY <1>1, <1>5, <1>6, <2>1, <2>4, <2>5, LoadTyped DEF LoadBound, Load
<1>9. QED
  BY <1>4, <1>7, <1>8 DEF GameTick

\* A request is replaced by one answer at most.
LEMMA ServeKeepsLoad ==
    ASSUME TypeOK, LoadBound, Serve
    PROVE  LoadBound'
<1>1. epoch' = epoch /\ Held' = Held
  <2>1. epoch' = epoch
    BY DEF Serve, Announce, ServeReset, ServeFrame, ServeError, TakeRequest
  <2>2. inferencePending' = inferencePending
    BY Zenon DEF Serve, Announce, ServeReset, ServeFrame, ServeError, TakeRequest, botVars
  <2>3. QED
    BY <2>1, <2>2, Zenon DEF Held
<1>2. replies \in Seq(Replies) /\ requests \in Seq(Requests)
  BY DEF TypeOK
<1>3. CASE Announce
  <2>1. requests' = requests /\ replies' = Append(replies, Line("ready", 0, Reset(0)))
    BY <1>3 DEF Announce
  <2>2. Line("ready", 0, Reset(0)) \in Replies /\ Line("ready", 0, Reset(0)) \notin Given
    BY LinesTyped DEF Given, Expected, Line
  <2>3. Count(replies', Given) = Count(replies, Given) + 0
    BY <1>2, <2>1, <2>2, CountAppend
  <2>4. Load' = Load
    BY <2>1, <2>3, LoadTyped DEF Load
  <2>5. QED
    BY <1>1, <2>4 DEF LoadBound
<1>4. ASSUME TakeRequest, NEW line \in Replies, replies' = Append(replies, line),
             line \in Given => Head(requests).op = "frame"
      PROVE  LoadBound'
  <2>1. requests # <<>> /\ requests' = Tail(requests) /\ Head(requests) \in Requests
    BY <1>2, <1>4 DEF TakeRequest
  <2>2. line \in Given => Head(requests) \in Asked
    BY <1>4, <2>1 DEF Asked
  <2>3. Count(requests, Asked)
          = Count(requests', Asked) + (IF Head(requests) \in Asked THEN 1 ELSE 0)
    BY <1>2, <2>1, CountTail
  <2>4. Count(replies', Given) = Count(replies, Given) + (IF line \in Given THEN 1 ELSE 0)
    BY <1>2, <1>4, CountAppend
  <2>5. Count(requests', Asked) \in Nat
    <3>1. requests' \in Seq(Requests)
      BY <1>2, <2>1, TailElements
    <3>2. QED
      BY <3>1, CountFinite
  <2>6. Load' <= Load
    BY <2>2, <2>3, <2>4, <2>5, LoadTyped DEF Load
  <2>7. Load' \in Nat /\ Load \in Nat
    BY <2>4, <2>5, LoadTyped DEF Load
  <2>8. QED
    BY <1>1, <2>6, <2>7, LoadTyped DEF LoadBound
<1>5. ASSUME TakeRequest
      PROVE  \A type \in {"reset", "action", "error", "invalid"}, dir \in {-1, 0, 1} :
                Line(type, dir, Head(requests)) \in Replies
  <2>1. Head(requests) \in Requests
    BY <1>2, <1>5 DEF TakeRequest
  <2>2. QED
    BY <2>1, LinesTyped
<1>6. CASE ServeReset
  <2>1. Line("reset", 0, Head(requests)) \notin Given
    BY DEF Given, Expected, Line
  <2>2. QED
    BY <1>4, <1>5, <1>6, <2>1 DEF ServeReset
<1>7. CASE ServeFrame
  BY <1>4, <1>5, <1>7 DEF ServeFrame
<1>8. CASE ServeError
  BY <1>4, <1>5, <1>8 DEF ServeError
<1>9. QED
  BY <1>3, <1>6, <1>7, <1>8 DEF Serve

\* An answer taken is one less under way.
LEMMA ReceiveKeepsLoad ==
    ASSUME TypeOK, LoadBound, Receive
    PROVE  LoadBound'
<1>1. TakeReply
  BY DEF Receive, ReceiveReady, ReceiveReset, ReceiveFailure, ReceiveAction
<1>2. /\ replies # <<>> /\ replies' = Tail(replies) /\ requests' = requests
      /\ epoch' = epoch
  BY <1>1 DEF TakeReply
<1>3. replies \in Seq(Replies) /\ Head(replies) \in Replies /\ replies' \in Seq(Replies)
  BY <1>2, TailElements DEF TypeOK
<1>4. /\ Count(replies, Given)
            = Count(replies', Given) + (IF Head(replies) \in Given THEN 1 ELSE 0)
      /\ Count(replies', Given) \in Nat
  BY <1>2, <1>3, CountTail, CountFinite
<1>5. CASE ReceiveReady \/ ReceiveReset
  <2>1. Held' = Held
    <3>1. inferencePending' = inferencePending
      BY <1>5, Zenon DEF ReceiveReady, ReceiveReset
    <3>2. QED
      BY <3>1, Zenon DEF Held
  <2>2. Load' <= Load /\ Load' \in Nat /\ Load \in Nat
    BY <1>2, <1>4, LoadTyped DEF Load
  <2>3. QED
    BY <1>2, <2>1, <2>2, LoadTyped DEF LoadBound
<1>6. CASE ReceiveFailure \/ ReceiveAction
  <2>1. Head(replies) \in Given
    BY <1>3, <1>6 DEF ReceiveFailure, ReceiveAction, Given, Expected
  <2>2. Load = Load' + 1 /\ Load' \in Nat
    BY <1>2, <1>4, <2>1, LoadTyped DEF Load
  <2>3. Held' = 0
    BY <1>6, Zenon DEF ReceiveFailure, ReceiveAction, Held
  <2>4. QED
    BY <1>2, <2>2, <2>3, LoadTyped DEF LoadBound
<1>7. QED
  BY <1>5, <1>6 DEF Receive

\* Every step keeps the bound.
LEMMA LoadStep ==
    ASSUME TypeOK, LoadBound, [Next]_vars
    PROVE  LoadBound'
<1>1. CASE Launch \/ Join \/ EndGame \/ UNCHANGED vars \/ \E t \in 0..2 : ChangeTeam(t)
  <2>1. requests' = requests /\ replies' = replies /\ epoch' = epoch
    BY <1>1 DEF Launch, Join, EndGame, ChangeTeam, vars, botVars, pipeVars
  <2>2. inferencePending' = inferencePending
    BY <1>1, Zenon DEF Launch, Join, EndGame, ChangeTeam, vars, botVars, pipeVars
  <2>3. Held' = Held
    BY <2>2, Zenon DEF Held
  <2>4. QED
    BY <2>1, <2>3 DEF LoadBound, Load
<1>2. CASE Exit
  <2>1. requests' = <<>> /\ replies' = <<>> /\ epoch' = 0
    BY <1>2 DEF Exit
  <2>2. \A P : Count(<<>>, P) = 0
    BY FS_EmptySet DEF Count
  <2>3. Held' \in {0, 1}
    BY Zenon DEF Held
  <2>4. QED
    BY <2>1, <2>2, <2>3 DEF LoadBound, Load
<1>3. CASE StartGame
  <2>1. replies' = replies
    BY <1>3 DEF StartGame
  <2>2. CASE up = "joined"
    <3>1. epoch' = epoch + 1 /\ requests' = Append(requests, Reset(epoch + 1))
      BY <1>3, <2>2, Zenon DEF StartGame
    <3>2. Load' = Load
      BY <2>1, <3>1, ResetIsNotCounted DEF Load
    <3>3. Held' \in {0, 1}
      BY Zenon DEF Held
    <3>4. QED
      BY <3>1, <3>2, <3>3, LoadTyped DEF LoadBound, Load
  <2>3. CASE up # "joined"
    <3>1. /\ epoch' = epoch /\ requests' = requests
          /\ inferencePending' = inferencePending
      BY <1>3, <2>3, Zenon DEF StartGame
    <3>2. Held' = Held
      BY <3>1, Zenon DEF Held
    <3>3. epoch' = epoch /\ requests' = requests
      BY <3>1, Zenon
    <3>4. QED
      BY <2>1, <3>2, <3>3 DEF LoadBound, Load
  <2>4. QED
    BY <2>2, <2>3
<1>4. CASE GameTick
  BY <1>4, TickKeepsLoad
<1>5. CASE Serve
  BY <1>5, ServeKeepsLoad
<1>6. CASE Receive
  BY <1>6, ReceiveKeepsLoad
<1>7. QED
  BY <1>1, <1>2, <1>3, <1>4, <1>5, <1>6 DEF Next

\* The frames and answers on the way are never more than the resets sent, and one:
\* each reset lets the bot send one frame ahead of the answers due, and only one.
THEOREM BoundedPipes == Spec => []OneMorePerReset
<1>1. Init => LoadBound
  <2>1. SUFFICES ASSUME Init PROVE LoadBound
    OBVIOUS
  <2>2. requests = <<>> /\ replies = <<>> /\ epoch = 0
    BY <2>1 DEF Init
  <2>3. \A P : Count(<<>>, P) = 0
    BY FS_EmptySet DEF Count
  <2>4. Held \in {0, 1}
    BY Zenon DEF Held
  <2>5. QED
    BY <2>2, <2>3, <2>4 DEF LoadBound, Load
<1>2. Spec => []LoadBound
  BY <1>1, TypeCorrect, LoadStep, PTL DEF Spec
<1>3. QED
  BY <1>2, TypeCorrect, LoadIsInFlight, PTL
==============================================================================
