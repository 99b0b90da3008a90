------------------------- MODULE GithubConnectProofs -------------------------
(***************************************************************************)
(* For any users, tabs, scripts, codes and requests in progress: a token   *)
(* lands with the user who started its flow, and what is shown of it is    *)
(* its own; a code that was given up stays given up, GitHub is not asked   *)
(* sooner than it wants to be, and a card is connected by its own code.    *)
(***************************************************************************)
EXTENDS GithubConnect, TLAPS

USE UsersAssumption, FlowsAssumption, TimesAssumption

\* Whose a code is, is the same to core's map, to the polls past their lookup
\* and to the store; nobody's is a code GitHub has not issued.
Owned ==
    /\ \A f \in Flows : gh[f] = "unissued" => starter[f] = Nothing
    /\ \A f \in Flows : flows[f] # Nothing => flows[f].user = starter[f]
    /\ \A c \in Calls : call[c].op = "poll" /\ call[c].at \in {"github", "viewer"}
                           => starter[call[c].flow] = call[c].user
    /\ TokenIsTheStarters

IInv == TypeOK /\ Owned /\ LoginIsTheTokens

CallsOK(all) == all \in [Calls -> Request] /\ \A c \in Calls : Sound(all[c])
CardsOK(all) == all \in [Tabs -> Card] /\ \A t \in Tabs : all[t].phase = "awaiting" <=> all[t].flow \in Flows
FlowsOK(map) == map \in [Flows -> PendingFlow \union {Nothing}]

-----------------------------------------------------------------------------
(* What the helpers return.                                                *)

LEMMA NoRequest == Idle \in Request /\ Sound(Idle)
  BY DEF Idle, Request, Sound

LEMMA SweptOK == FlowsOK(flows) => FlowsOK(Swept)
  BY DEF FlowsOK, Swept

LEMMA WithoutOK ==
  ASSUME NEW u, NEW map, FlowsOK(map)
  PROVE  FlowsOK(WithoutFlowsOf(u, map))
  BY DEF FlowsOK, WithoutFlowsOf

LEMMA DroppedOK ==
  ASSUME FlowsOK(flows), NEW f
  PROVE  FlowsOK([flows EXCEPT ![f] = Nothing])
  BY DEF FlowsOK

LEMMA SlowedOK ==
  ASSUME FlowsOK(flows), NEW f \in Flows
  PROVE  FlowsOK(Slowed(flows, f))
  BY DEF FlowsOK, Slowed, PendingFlow

LEMMA LowerOK == ASSUME NEW top \in Nat, NEW n \in 0..top PROVE Lower(n) \in 0..top
  BY DEF Lower

LEMMA HigherOK == ASSUME NEW n \in 0..SlowInterval PROVE Higher(n) \in 0..SlowInterval
  BY DEF Higher

\* Putting one sound request in the place of another keeps all sound.
LEMMA BecomesOK ==
  ASSUME CallsOK(call), NEW c \in Calls, NEW next \in Request, Sound(next), Becomes(c, next)
  PROVE  CallsOK(call')
  BY DEF CallsOK, Becomes

LEMMA AnswerOK ==
  ASSUME CallsOK(call), NEW c \in Calls, NEW result, Answer(c, result),
         \/ call[c].op = "connect" /\ result = "over"
         \/ call[c].op = "poll" /\ result \in {"pending", "slow", "over", "connected"}
  PROVE  CallsOK(call')
<1>1. CASE call[c].tab = Nothing
  BY <1>1, NoRequest, BecomesOK DEF Answer
<1>2. CASE call[c].tab # Nothing
  <2> DEFINE next == [call[c] EXCEPT !.at = "answer", !.result = result]
  <2>1. next \in Request /\ Sound(next)
    BY <1>2 DEF CallsOK, Request, Sound
  <2> QED BY <2>1, <1>2, BecomesOK DEF Answer
<1> QED BY <1>1, <1>2

LEMMA LosesMemoryOK ==
  ASSUME CallsOK(call), LosesMemory
  PROVE  CallsOK(call') /\ FlowsOK(flows')
<1>1. FlowsOK(flows')
  BY DEF LosesMemory, FlowsOK
<1>2. ASSUME NEW c \in Calls PROVE call'[c] \in Request /\ Sound(call'[c])
  <2>1. CASE call[c].tab = Nothing
    BY <2>1, <1>2, NoRequest DEF LosesMemory
  <2>2. CASE call[c].tab # Nothing
    <3>1. call'[c] = [call[c] EXCEPT !.at = "answer",
                        !.result = IF call[c].at = "answer" THEN call[c].result ELSE "over"]
      BY <2>2, <1>2 DEF LosesMemory
    <3>2. call[c] \in Request /\ Sound(call[c])
      BY <1>2 DEF CallsOK
    <3> QED BY <3>1, <3>2, <2>2 DEF Request, Sound
  <2> QED BY <2>1, <2>2
<1> QED BY <1>1, <1>2 DEF CallsOK, LosesMemory

LEMMA EndedOK ==
  ASSUME CardsOK(card), NEW t \in Tabs, NEW phase \in {"idle", "over", "connected"}, Ended(t, phase)
  PROVE  CardsOK(card')
<1> DEFINE next == [NoCard EXCEPT !.phase = phase]
<1>1. 0 \in 0..Life /\ 0 \in 0..SlowInterval
  OBVIOUS
<1>2. next \in Card /\ next.phase # "awaiting" /\ next.flow = Nothing
  BY <1>1 DEF NoCard, Card
<1> QED BY <1>2 DEF Ended, CardsOK

-----------------------------------------------------------------------------
(* Types.                                                                  *)

\* Starting a flow: an earlier one is dropped, a request is under way.
LEMMA ConnectTyped ==
  ASSUME TypeOK, NEW c \in Calls, NEW by \in Callers, Connect(c, by)
  PROVE  /\ FlowsOK(flows') /\ CallsOK(call') /\ gone' \subseteq Flows
<1> DEFINE next == [Idle EXCEPT !.op = "connect", !.user = by.user, !.tab = by.tab, !.at = "github"]
<1>1. by.user \in Users /\ by.tab \in Tabs \union {Nothing}
  BY DEF Callers
<1>2. next \in Request /\ Sound(next)
  BY <1>1 DEF Idle, Request, Sound
<1>3. CallsOK(call')
  BY <1>2, BecomesOK DEF Connect, CallsOK, TypeOK
<1>4. FlowsOK(flows')
  BY SweptOK, WithoutOK DEF Connect, FlowsOK, TypeOK
<1>5. gone' \subseteq Flows
  BY DEF Connect, GivesUp, TypeOK
<1> QED BY <1>3, <1>4, <1>5

\* Polling: core's answer, or GitHub's still to come.
LEMMA PollTyped ==
  ASSUME TypeOK, NEW c \in Calls, NEW by \in Callers, NEW f \in Flows, Poll(c, by, f)
  PROVE  /\ FlowsOK(flows') /\ CallsOK(call') /\ quiet' \in [Flows -> 0..SlowInterval]
<1> DEFINE asked == [op |-> "poll", user |-> by.user, tab |-> by.tab, flow |-> f,
                     at |-> "github", result |-> "none"]
           told(result) == [op |-> "poll", user |-> by.user, tab |-> by.tab, flow |-> f,
                            at |-> "answer", result |-> result]
<1>1. by.user \in Users /\ by.tab \in Tabs \union {Nothing}
  BY DEF Callers
<1>2. FlowsOK(Swept) /\ CallsOK(call)
  BY SweptOK DEF TypeOK, FlowsOK, CallsOK
<1>3. ASSUME NEW result \in {"over", "pending"}, Replies(c, by, f, result)
      PROVE  FlowsOK(flows') /\ CallsOK(call') /\ quiet' = quiet
  <2>1. CASE by.tab = Nothing
    BY <2>1, <1>2, <1>3, NoRequest, BecomesOK DEF Replies
  <2>2. CASE by.tab # Nothing
    <3>1. told(result) \in Request /\ Sound(told(result))
      BY <1>1, <2>2 DEF Request, Sound
    <3> QED BY <3>1, <2>2, <1>2, <1>3, BecomesOK DEF Replies
  <2> QED BY <2>1, <2>2
<1>4. ASSUME Asks(c, by, f), ~Refused(by.user, f)
      PROVE  FlowsOK(flows') /\ CallsOK(call') /\ quiet' \in [Flows -> 0..SlowInterval]
  <2>1. asked \in Request /\ Sound(asked)
    BY <1>1 DEF Request, Sound
  <2>2. CallsOK(call')
    BY <2>1, <1>2, <1>4, BecomesOK DEF Asks
  <2>3. 0 \in 0..SlowInterval
    OBVIOUS
  <2>4. [Swept[f] EXCEPT !.since = 0] \in PendingFlow
    BY <1>2, <1>4, <2>3 DEF Refused, FlowsOK, PendingFlow
  <2>5. FlowsOK(flows')
    BY <1>2, <1>4, <2>4 DEF Asks, FlowsOK
  <2> QED BY <2>2, <2>3, <2>5, <1>4 DEF Asks, TypeOK
<1> QED BY <1>3, <1>4 DEF Poll, TypeOK

\* GitHub issues a code.
LEMMA IssuedTyped ==
  ASSUME TypeOK, NEW c \in Calls, Issued(c)
  PROVE  TypeOK'
<1>1. PICK f \in Flows :
          /\ gh' = [gh EXCEPT ![f] = "pending"]
          /\ flows' = [flows EXCEPT ![f] =
                [user |-> call[c].user, left |-> Life, interval |-> Interval, since |-> 0]]
          /\ starter' = [starter EXCEPT ![f] = call[c].user]
          /\ call' = [call EXCEPT ![c] = IF call[c].tab = Nothing THEN Idle
                         ELSE [call[c] EXCEPT !.at = "answer", !.result = "issued", !.flow = f]]
  BY DEF Issued
<1>2. call[c] \in Request /\ Sound(call[c]) /\ call[c].user \in Users
      /\ call[c].at = "github" /\ call[c].op = "connect"
  BY DEF Issued, TypeOK, Sound
<1>3. [user |-> call[c].user, left |-> Life, interval |-> Interval, since |-> 0] \in PendingFlow
  BY <1>2 DEF PendingFlow
<1>4. flows' \in [Flows -> PendingFlow \union {Nothing}]
  BY <1>1, <1>3 DEF TypeOK
<1>5. CallsOK(call')
  <2> DEFINE next == [call[c] EXCEPT !.at = "answer", !.result = "issued", !.flow = f]
  <2>1. CASE call[c].tab = Nothing
    BY <2>1, <1>1, NoRequest DEF CallsOK, TypeOK
  <2>2. CASE call[c].tab # Nothing
    <3>1. next \in Request /\ Sound(next)
      BY <2>2, <1>2 DEF Request, Sound
    <3>2. call' = [call EXCEPT ![c] = next]
      BY <2>2, <1>1
    <3> QED BY <3>1, <3>2 DEF CallsOK, TypeOK
  <2> QED BY <2>1, <2>2
<1>6. gh' \in [Flows -> {"unissued", "pending", "approved", "redeemed", "over"}]
      /\ starter' \in [Flows -> Users \union {Nothing}]
  BY <1>1, <1>2 DEF TypeOK
<1> QED BY <1>4, <1>5, <1>6 DEF Issued, TypeOK, CallsOK

\* GitHub judges a code.
LEMMA JudgeTyped ==
  ASSUME TypeOK, NEW c \in Calls, Judge(c)
  PROVE  TypeOK'
<1>1. call[c] \in Request /\ Sound(call[c]) /\ call[c].op = "poll" /\ call[c].at = "github"
      /\ call[c].flow \in Flows
  BY DEF Judge, TypeOK, Sound
<1>2. PICK heard \in {"pending", "slow", "connected", "over"} :
          Becomes(c, [call[c] EXCEPT !.result = heard])
  BY DEF Judge
<1>3. [call[c] EXCEPT !.result = heard] \in Request /\ Sound([call[c] EXCEPT !.result = heard])
  BY <1>1 DEF Request, Sound
<1>4. CallsOK(call')
  BY <1>2, <1>3, BecomesOK DEF CallsOK, TypeOK
<1>5. gh' \in [Flows -> {"unissued", "pending", "approved", "redeemed", "over"}]
  BY <1>1 DEF Judge, TypeOK
<1> QED BY <1>4, <1>5 DEF Judge, TypeOK, CallsOK, core, history

\* Core hears GitHub's answer to a poll.
LEMMA HearsTyped ==
  ASSUME TypeOK, NEW c \in Calls, Hears(c)
  PROVE  TypeOK'
<1> DEFINE f == call[c].flow
<1>1. CallsOK(call) /\ FlowsOK(flows) /\ call[c] \in Request /\ Sound(call[c])
      /\ call[c].op = "poll" /\ call[c].at = "github" /\ f \in Flows
  BY DEF Hears, TypeOK, Sound, CallsOK, FlowsOK
<1>2. FlowsOK(flows')
  BY <1>1, DroppedOK, SlowedOK DEF Hears
<1>3. CallsOK(call')
  <2>1. CASE call[c].result = "connected" /\ Becomes(c, [call[c] EXCEPT !.at = "viewer"])
    <3>1. [call[c] EXCEPT !.at = "viewer"] \in Request /\ Sound([call[c] EXCEPT !.at = "viewer"])
      BY <1>1 DEF Request, Sound
    <3> QED BY <2>1, <3>1, <1>1, BecomesOK
  <2>2. CASE \E result \in {"pending", "slow", "over"} : Answer(c, result)
    BY <2>2, <1>1, AnswerOK
  <2> QED BY <2>1, <2>2 DEF Hears
<1> QED BY <1>2, <1>3 DEF Hears, TypeOK, FlowsOK, CallsOK, history

\* A token is stored.
LEMMA StoreTyped ==
  ASSUME TypeOK, NEW c \in Calls, Store(c)
  PROVE  TypeOK'
<1>1. CallsOK(call) /\ call[c] \in Request /\ Sound(call[c]) /\ call[c].at = "viewer"
      /\ call[c].op = "poll" /\ call[c].flow \in Flows /\ call[c].user \in Users
  BY DEF Store, TypeOK, Sound, CallsOK
<1>2. CallsOK(call')
  BY <1>1, AnswerOK DEF Store
<1>3. secret' \in [Users -> Flows \union {Nothing}]
  BY <1>1 DEF Store, TypeOK
<1>4. meta' \in [Users -> Metadata]
  <2>1. PICK login \in {call[c].flow, Nothing} :
            meta' = [meta EXCEPT ![call[c].user] = [login |-> login, stored |-> TRUE]]
    BY DEF Store
  <2>2. [login |-> login, stored |-> TRUE] \in Metadata
    BY <1>1 DEF Metadata
  <2> QED BY <2>1, <2>2 DEF TypeOK
<1>5. torn' \subseteq Users
  BY <1>1 DEF Store, TypeOK
<1> QED BY <1>2, <1>3, <1>4, <1>5 DEF Store, TypeOK, CallsOK

\* The card hears an answer.
LEMMA HearTyped ==
  ASSUME TypeOK, NEW c \in Calls, Hear(c)
  PROVE  TypeOK'
<1> DEFINE t == call[c].tab
<1>1. CardsOK(card) /\ call[c] \in Request /\ Sound(call[c]) /\ call[c].at = "answer" /\ t \in Tabs
  BY DEF Hear, TypeOK, Sound, CardsOK
<1>2. CallsOK(call')
  BY NoRequest, BecomesOK DEF Hear, TypeOK, CallsOK
<1>3. ASSUME Begun(t, c) PROVE CardsOK(card')
  <2>1. CASE call[c].result = "issued"
    <3> DEFINE next == [phase |-> "awaiting", flow |-> call[c].flow, left |-> Life,
                        timer |-> Interval, waits |-> FALSE]
    <3>1. call[c].flow \in Flows
      BY <1>1, <1>3, <2>1 DEF Begun, Sound
    <3>2. Interval \in 0..SlowInterval /\ Life \in 0..Life
      OBVIOUS
    <3>3. next \in Card /\ next.phase = "awaiting" /\ next.flow \in Flows
      BY <3>1, <3>2 DEF Card
    <3>4. card' = [card EXCEPT ![t] = next]
      BY <1>3, <2>1 DEF Begun
    <3> QED BY <3>3, <3>4, <1>1 DEF CardsOK
  <2>2. CASE call[c].result # "issued"
    BY <2>2, <1>1, <1>3, EndedOK DEF Begun
  <2> QED BY <2>1, <2>2
<1>4. ASSUME Polled(t, c) PROVE CardsOK(card')
  <2>1. CASE ~Current(t, c)
    BY <2>1, <1>1, <1>4 DEF Polled, CardsOK
  <2>2. CASE Current(t, c) /\ call[c].result \in {"pending", "slow"}
    <3> DEFINE wait == IF call[c].result = "slow" THEN SlowInterval ELSE Interval
    <3>1. wait \in 0..SlowInterval
      OBVIOUS
    <3>2. card' = [card EXCEPT ![t].waits = FALSE, ![t].timer = wait]
      BY <2>2, <1>4 DEF Polled
    <3> HIDE DEF wait
    <3>3. card' = [card EXCEPT ![t] = [card[t] EXCEPT !.waits = FALSE, !.timer = wait]]
      BY <3>2, <1>1 DEF CardsOK
    <3>4. [card[t] EXCEPT !.waits = FALSE, !.timer = wait] \in Card
      <4>1. card[t] \in Card
        BY <1>1 DEF CardsOK
      <4> QED BY <3>1, <4>1 DEF Card
    <3>5. /\ [card[t] EXCEPT !.waits = FALSE, !.timer = wait].phase = card[t].phase
          /\ [card[t] EXCEPT !.waits = FALSE, !.timer = wait].flow = card[t].flow
      BY <1>1 DEF CardsOK, Card
    <3> QED BY <3>3, <3>4, <3>5, <1>1 DEF CardsOK
  <2>3. CASE Current(t, c) /\ call[c].result \in {"over", "connected"}
    BY <2>3, <1>1, <1>4, EndedOK DEF Polled
  <2> QED BY <2>1, <2>2, <2>3, <1>4 DEF Polled
<1> QED BY <1>2, <1>3, <1>4 DEF Hear, TypeOK, CardsOK, CallsOK, core, history

\* What a card does by itself.
LEMMA CardTyped ==
  ASSUME TypeOK, NEW t \in Tabs, Begin(t) \/ TimerFires(t) \/ Cancel(t) \/ CountdownEnds(t)
  PROVE  TypeOK'
<1> DEFINE by == [tab |-> t, user |-> UserOf[t]]
<1>1. by \in Callers /\ CardsOK(card) /\ (card[t].phase = "awaiting" => card[t].flow \in Flows)
  BY DEF Callers, TypeOK, CardsOK
<1>2. ASSUME card' = [card EXCEPT ![t].waits = TRUE] PROVE CardsOK(card')
  <2>1. card' = [card EXCEPT ![t] = [card[t] EXCEPT !.waits = TRUE]]
    BY <1>1, <1>2 DEF CardsOK
  <2>2. /\ [card[t] EXCEPT !.waits = TRUE] \in Card
        /\ [card[t] EXCEPT !.waits = TRUE].phase = card[t].phase
        /\ [card[t] EXCEPT !.waits = TRUE].flow = card[t].flow
    BY <1>1 DEF CardsOK, Card
  <2> QED BY <2>1, <2>2, <1>1 DEF CardsOK
<1>3. CASE Begin(t)
  <2>1. PICK c \in Calls : Connect(c, by)
    BY <1>3 DEF Begin
  <2> HIDE DEF by
  <2>2. FlowsOK(flows') /\ CallsOK(call') /\ gone' \subseteq Flows
    BY <2>1, <1>1, ConnectTyped
  <2> QED BY <2>1, <2>2, <1>2, <1>3 DEF Begin, Connect, TypeOK, FlowsOK, CallsOK, CardsOK
<1>4. CASE TimerFires(t)
  <2>1. PICK c \in Calls : Poll(c, by, card[t].flow)
    BY <1>4 DEF TimerFires
  <2>2. card[t].flow \in Flows
    BY <1>1, <1>4 DEF TimerFires
  <2> HIDE DEF by
  <2>3. FlowsOK(flows') /\ CallsOK(call') /\ quiet' \in [Flows -> 0..SlowInterval]
    BY <2>1, <2>2, <1>1, PollTyped
  <2> QED BY <2>1, <2>3, <1>2, <1>4
          DEF TimerFires, Poll, Asks, Replies, TypeOK, FlowsOK, CallsOK, CardsOK
<1>5. CASE Cancel(t) \/ CountdownEnds(t)
  <2>1. CardsOK(card')
    BY <1>1, <1>5, EndedOK DEF Cancel, CountdownEnds
  <2> QED BY <2>1, <1>5 DEF Cancel, CountdownEnds, TypeOK, CardsOK, core, history
<1> QED BY <1>3, <1>4, <1>5

\* Scripts, users, GitHub, restarts and time.
LEMMA WorldTyped ==
  ASSUME TypeOK,
         \/ Script \/ (\E u \in Users : Disconnect(u)) \/ (\E f \in Flows : Decide(f))
         \/ Restart \/ RestartWhileStoring \/ (\E u \in Users : RestartWhileDisconnecting(u)) \/ Tick
  PROVE  TypeOK'
<1>1. FlowsOK(flows) /\ CallsOK(call) /\ CardsOK(card)
  BY DEF TypeOK, FlowsOK, CallsOK, CardsOK
<1>2. CASE Script
  <2>1. PICK c \in Calls, u \in Users :
            \/ Connect(c, [tab |-> Nothing, user |-> u])
            \/ \E f \in Flows : Poll(c, [tab |-> Nothing, user |-> u], f)
    BY <1>2 DEF Script
  <2>2. [tab |-> Nothing, user |-> u] \in Callers
    BY DEF Callers
  <2>3. CASE Connect(c, [tab |-> Nothing, user |-> u])
    <3>1. FlowsOK(flows') /\ CallsOK(call') /\ gone' \subseteq Flows
      BY <2>2, <2>3, ConnectTyped
    <3> QED BY <2>3, <3>1, <1>2 DEF Script, Connect, TypeOK, FlowsOK, CallsOK
  <2>4. CASE \E f \in Flows : Poll(c, [tab |-> Nothing, user |-> u], f)
    <3>1. FlowsOK(flows') /\ CallsOK(call') /\ quiet' \in [Flows -> 0..SlowInterval]
      BY <2>2, <2>4, PollTyped
    <3> QED BY <2>4, <3>1, <1>2 DEF Script, Poll, Asks, Replies, TypeOK, FlowsOK, CallsOK
  <2> QED BY <2>1, <2>3, <2>4
<1>3. ASSUME NEW u \in Users, Disconnect(u) PROVE TypeOK'
  <2>1. FlowsOK(flows')
    BY <1>1, <1>3, WithoutOK DEF Disconnect
  <2>2. NoMeta \in Metadata
    BY DEF NoMeta, Metadata
  <2>3. secret' \in [Users -> Flows \union {Nothing}] /\ meta' \in [Users -> Metadata]
    BY <2>2, <1>3 DEF Disconnect, TypeOK
  <2>4. gone' \subseteq Flows /\ torn' \subseteq Users
    BY <1>3 DEF Disconnect, GivesUp, TypeOK
  <2> QED BY <2>1, <2>3, <2>4, <1>3 DEF Disconnect, TypeOK, FlowsOK
<1>4. ASSUME NEW f \in Flows, Decide(f) PROVE TypeOK'
  <2>1. gh' \in [Flows -> {"unissued", "pending", "approved", "redeemed", "over"}]
    BY <1>4 DEF Decide, TypeOK
  <2> QED BY <2>1, <1>4 DEF Decide, TypeOK, core, history
<1>5. CASE Restart
  BY <1>1, <1>5, LosesMemoryOK DEF Restart, LosesMemory, TypeOK, FlowsOK, CallsOK
<1>6. CASE RestartWhileStoring
  <2>1. PICK c \in Calls : /\ call[c].at = "viewer"
                           /\ secret' = [secret EXCEPT ![call[c].user] = call[c].flow]
                           /\ torn' = torn \union {call[c].user}
    BY <1>6 DEF RestartWhileStoring
  <2>2. call[c].flow \in Flows /\ call[c].user \in Users
    BY <2>1, <1>1 DEF CallsOK, Sound
  <2>3. FlowsOK(flows') /\ CallsOK(call')
    BY <1>1, <1>6, LosesMemoryOK DEF RestartWhileStoring
  <2>4. secret' \in [Users -> Flows \union {Nothing}] /\ torn' \subseteq Users
    BY <2>1, <2>2 DEF TypeOK
  <2> QED BY <2>3, <2>4, <1>6 DEF RestartWhileStoring, LosesMemory, TypeOK, FlowsOK, CallsOK
<1>7. CASE Tick
  <2>1. FlowsOK(flows')
    <3>1. ASSUME NEW f \in Flows, Pending(f) PROVE flows'[f] \in PendingFlow
      <4>1. flows[f] \in PendingFlow
        BY <1>1, <3>1 DEF FlowsOK, Pending
      <4>2. Lower(flows[f].left) \in 0..Life /\ Higher(flows[f].since) \in 0..SlowInterval
        BY <4>1, LowerOK, HigherOK DEF PendingFlow
      <4>3. flows'[f] = [flows[f] EXCEPT !.left = Lower(flows[f].left), !.since = Higher(flows[f].since)]
        BY <1>7, <3>1 DEF Tick
      <4> QED BY <4>1, <4>2, <4>3 DEF PendingFlow
    <3> QED BY <3>1, <1>7 DEF Tick, FlowsOK
  <2>2. quiet' \in [Flows -> 0..SlowInterval]
    BY <1>7, HigherOK DEF Tick, TypeOK
  <2>3. CardsOK(card')
    <3>1. ASSUME NEW t \in Tabs PROVE /\ card'[t] \in Card /\ card'[t].phase = card[t].phase
                                      /\ card'[t].flow = card[t].flow
      <4>1. card[t] \in Card
        BY <1>1 DEF CardsOK
      <4>2. Lower(card[t].left) \in 0..Life /\ Lower(card[t].timer) \in 0..SlowInterval
        BY <4>1, LowerOK DEF Card
      <4>3. \/ card'[t] = card[t]
            \/ card'[t] = [card[t] EXCEPT !.left = Lower(card[t].left), !.timer = Lower(card[t].timer)]
        BY <1>7 DEF Tick
      <4> QED BY <4>1, <4>2, <4>3 DEF Card
    <3> QED BY <3>1, <1>1, <1>7 DEF Tick, CardsOK
  <2> QED BY <2>1, <2>2, <2>3, <1>7 DEF Tick, TypeOK, FlowsOK, CardsOK
<1>8. ASSUME NEW u \in Users, RestartWhileDisconnecting(u) PROVE TypeOK'
  <2>1. FlowsOK(flows') /\ CallsOK(call')
    BY <1>1, <1>8, LosesMemoryOK DEF RestartWhileDisconnecting
  <2>2. secret' \in [Users -> Flows \union {Nothing}] /\ torn' \subseteq Users
    BY <1>8 DEF RestartWhileDisconnecting, TypeOK
  <2> QED BY <2>1, <2>2, <1>8 DEF RestartWhileDisconnecting, LosesMemory, TypeOK, FlowsOK, CallsOK
<1> QED BY <1>2, <1>3, <1>4, <1>5, <1>6, <1>7, <1>8

\* A refused connect leaves an answer.
LEMMA NotIssuedTyped ==
  ASSUME TypeOK, NEW c \in Calls, NotIssued(c)
  PROVE  TypeOK'
<1>1. CallsOK(call) /\ call[c].op = "connect"
  BY DEF NotIssued, TypeOK, CallsOK
<1>2. CallsOK(call')
  BY <1>1, AnswerOK DEF NotIssued
<1> QED BY <1>2 DEF NotIssued, TypeOK, CallsOK, core, history

LEMMA TypesKept == TypeOK /\ [Next]_vars => TypeOK'
<1> SUFFICES ASSUME TypeOK, [Next]_vars PROVE TypeOK'
  OBVIOUS
<1>1. CASE UNCHANGED vars
  BY <1>1 DEF TypeOK, vars, core, history
<1>2. CASE Next
  BY <1>2, IssuedTyped, NotIssuedTyped, JudgeTyped, HearsTyped, StoreTyped, HearTyped,
     CardTyped, WorldTyped DEF Next
<1> QED BY <1>1, <1>2

-----------------------------------------------------------------------------
(* Whose a code is.                                                        *)

\* What a step that starts no flow may do to who a code belongs to.
FlowsShrink ==
    \A f \in Flows : flows'[f] # Nothing => flows[f] # Nothing /\ flows'[f].user = flows[f].user
PollsAreOwn(calls) ==
    \A c \in Calls : calls[c].op = "poll" /\ calls[c].at \in {"github", "viewer"}
                        => starter[calls[c].flow] = calls[c].user
StaysIssued == \A f \in Flows : gh'[f] = "unissued" => gh[f] = "unissued"
TokensAreOwn == \A u \in Users : secret'[u] # Nothing => starter[secret'[u]] = u

Tame == starter' = starter /\ FlowsShrink /\ PollsAreOwn(call') /\ StaysIssued /\ TokensAreOwn

LEMMA TameOwned == Owned /\ Tame => Owned'
  BY DEF Owned, Tame, FlowsShrink, PollsAreOwn, StaysIssued, TokensAreOwn, TokenIsTheStarters

LEMMA SweptShrinks ==
  ASSUME NEW u
  PROVE  \A f \in Flows :
            /\ Swept[f] # Nothing => flows[f] # Nothing /\ Swept[f] = flows[f]
            /\ WithoutFlowsOf(u, Swept)[f] # Nothing =>
                  flows[f] # Nothing /\ WithoutFlowsOf(u, Swept)[f] = flows[f]
  BY DEF Swept, WithoutFlowsOf, Pending

LEMMA AnswerTame ==
  ASSUME TypeOK, Owned, NEW c \in Calls, NEW result, Answer(c, result)
  PROVE  PollsAreOwn(call')
  BY DEF TypeOK, Owned, Answer, Becomes, Idle, Request, PollsAreOwn

LEMMA ConnectTame ==
  ASSUME TypeOK, Owned, NEW c \in Calls, NEW by \in Callers, Connect(c, by)
  PROVE  Tame
<1>1. FlowsShrink
  BY SweptShrinks DEF Connect, FlowsShrink
<1>2. PollsAreOwn(call')
  BY DEF Connect, Becomes, Idle, Owned, TypeOK, PollsAreOwn
<1> QED BY <1>1, <1>2 DEF Connect, Tame, StaysIssued, TokensAreOwn, Owned, TokenIsTheStarters

\* A poll gets past its lookup only for the user whose flow it is.
LEMMA PollTame ==
  ASSUME TypeOK, Owned, NEW c \in Calls, NEW by \in Callers, NEW f \in Flows, Poll(c, by, f)
  PROVE  Tame
<1>1. FlowsOK(Swept)
  BY SweptOK DEF TypeOK, FlowsOK
<1>2. ASSUME NEW result \in {"over", "pending"}, Replies(c, by, f, result)
      PROVE  FlowsShrink /\ PollsAreOwn(call')
  <2>1. FlowsShrink
    BY <1>2, SweptShrinks DEF Replies, FlowsShrink
  <2>2. PollsAreOwn(call')
    BY <1>2 DEF Replies, Becomes, Idle, Owned, TypeOK, PollsAreOwn
  <2> QED BY <2>1, <2>2
<1>3. ASSUME Asks(c, by, f), ~Refused(by.user, f)
      PROVE  FlowsShrink /\ PollsAreOwn(call')
  <2>1. Swept[f] # Nothing /\ Swept[f].user = by.user /\ Swept[f] \in PendingFlow
    BY <1>1, <1>3 DEF Refused, FlowsOK
  <2>2. flows[f] # Nothing /\ flows[f] = Swept[f]
    BY <2>1, SweptShrinks
  <2>3. starter[f] = by.user
    BY <2>1, <2>2 DEF Owned
  <2>4. [Swept[f] EXCEPT !.since = 0].user = Swept[f].user
    BY <2>1 DEF PendingFlow
  <2>5. FlowsShrink
    BY <1>1, <1>3, <2>2, <2>4, SweptShrinks DEF Asks, FlowsShrink, FlowsOK
  <2>6. PollsAreOwn(call')
    BY <1>3, <2>3 DEF Asks, Becomes, Owned, TypeOK, PollsAreOwn
  <2> QED BY <2>5, <2>6
<1>4. FlowsShrink /\ PollsAreOwn(call')
  BY <1>2, <1>3 DEF Poll
<1>5. UNCHANGED <<secret, gh, starter>>
  BY DEF Poll, Asks, Replies
<1> QED BY <1>4, <1>5 DEF Tame, StaysIssued, TokensAreOwn, Owned, TokenIsTheStarters

\* A code is issued to the user who asked, and was nobody's before.
LEMMA IssuedOwned ==
  ASSUME TypeOK, Owned, NEW c \in Calls, Issued(c)
  PROVE  Owned'
<1>1. PICK f \in Flows :
          /\ gh[f] = "unissued"
          /\ gh' = [gh EXCEPT ![f] = "pending"]
          /\ flows' = [flows EXCEPT ![f] =
                [user |-> call[c].user, left |-> Life, interval |-> Interval, since |-> 0]]
          /\ starter' = [starter EXCEPT ![f] = call[c].user]
          /\ call' = [call EXCEPT ![c] = IF call[c].tab = Nothing THEN Idle
                         ELSE [call[c] EXCEPT !.at = "answer", !.result = "issued", !.flow = f]]
  BY DEF Issued
<1>2. starter[f] = Nothing /\ call[c] \in Request /\ UNCHANGED secret
  BY <1>1 DEF Owned, TypeOK, Issued
<1>3. \A g \in Flows : gh'[g] = "unissued" => starter'[g] = Nothing
  BY <1>1 DEF Owned, TypeOK
<1>4. \A g \in Flows : flows'[g] # Nothing => flows'[g].user = starter'[g]
  BY <1>1 DEF Owned, TypeOK
<1>5. ASSUME NEW d \in Calls, call'[d].op = "poll", call'[d].at \in {"github", "viewer"}
      PROVE  starter'[call'[d].flow] = call'[d].user
  <2>1. d # c
    <3>1. call'[c].op \in {"none", "connect"}
      BY <1>1, <1>2 DEF Idle, Issued, TypeOK, Request
    <3> QED BY <3>1, <1>5
  <2>2. call'[d] = call[d] /\ call[d].user \in Users /\ starter[call[d].flow] = call[d].user
    BY <2>1, <1>1, <1>5 DEF Owned, TypeOK, Sound
  <2>3. call[d].flow # f
    BY <2>2, <1>2
  <2> QED BY <2>2, <2>3, <1>1 DEF TypeOK
<1>6. \A u \in Users : secret'[u] # Nothing => starter'[secret'[u]] = u
  BY <1>1, <1>2 DEF Owned, TokenIsTheStarters, TypeOK
<1> QED BY <1>3, <1>4, <1>5, <1>6 DEF Owned, TokenIsTheStarters

LEMMA AnswersTame ==
  ASSUME TypeOK, Owned, NEW c \in Calls, NotIssued(c) \/ Judge(c) \/ Hears(c) \/ Store(c) \/ Hear(c)
  PROVE  Tame
<1>1. CASE NotIssued(c)
  BY <1>1, AnswerTame DEF NotIssued, core, history, Tame, FlowsShrink, StaysIssued, TokensAreOwn,
                          Owned, TokenIsTheStarters
<1>2. CASE Judge(c)
  <2>1. PollsAreOwn(call')
    BY <1>2 DEF Judge, Becomes, TypeOK, Request, Owned, PollsAreOwn
  <2>2. StaysIssued
    BY <1>2 DEF Judge, TypeOK, StaysIssued
  <2> QED BY <2>1, <2>2, <1>2 DEF Judge, core, history, Tame, FlowsShrink, TokensAreOwn,
                                  Owned, TokenIsTheStarters
<1>3. CASE Hears(c)
  <2>1. PollsAreOwn(call')
    <3>1. CASE Becomes(c, [call[c] EXCEPT !.at = "viewer"])
      BY <3>1, <1>3 DEF Hears, Becomes, TypeOK, Request, Owned, PollsAreOwn
    <3>2. CASE \E result \in {"pending", "slow", "over"} : Answer(c, result)
      BY <3>2, AnswerTame
    <3> QED BY <3>1, <3>2, <1>3 DEF Hears
  <2>2. FlowsShrink
    <3>1. call[c].flow \in Flows
      BY <1>3 DEF Hears, TypeOK, Sound
    <3>2. CASE flows' = Slowed(flows, call[c].flow)
      BY <3>1, <3>2 DEF Slowed, FlowsShrink, TypeOK, PendingFlow
    <3>3. CASE UNCHANGED flows \/ flows' = [flows EXCEPT ![call[c].flow] = Nothing]
      BY <3>1, <3>3 DEF FlowsShrink, TypeOK
    <3> QED BY <3>2, <3>3, <1>3 DEF Hears
  <2> QED BY <2>1, <2>2, <1>3 DEF Hears, history, Tame, StaysIssued, TokensAreOwn,
                                  Owned, TokenIsTheStarters
<1>4. CASE Store(c)
  <2>1. PollsAreOwn(call')
    BY <1>4, AnswerTame DEF Store
  <2>2. starter[call[c].flow] = call[c].user /\ call[c].user \in Users
    BY <1>4 DEF Store, Owned, TypeOK, Sound
  <2>3. TokensAreOwn
    BY <1>4, <2>2 DEF Store, TokensAreOwn, Owned, TokenIsTheStarters, TypeOK
  <2> QED BY <2>1, <2>3, <1>4 DEF Store, Tame, FlowsShrink, StaysIssued
<1>5. CASE Hear(c)
  <2>1. PollsAreOwn(call')
    BY <1>5 DEF Hear, Becomes, Idle, TypeOK, Owned, PollsAreOwn
  <2> QED BY <2>1, <1>5 DEF Hear, core, history, Tame, FlowsShrink, StaysIssued, TokensAreOwn,
                            Owned, TokenIsTheStarters
<1> QED BY <1>1, <1>2, <1>3, <1>4, <1>5

LEMMA LosesMemoryTame ==
  ASSUME TypeOK, Owned, LosesMemory
  PROVE  FlowsShrink /\ PollsAreOwn(call') /\ UNCHANGED <<gh, starter>>
<1>1. ASSUME NEW c \in Calls PROVE call'[c].op = "poll" => call'[c].at = "answer"
  <2>1. call[c] \in Request /\ Sound(call[c])
    BY <1>1 DEF TypeOK
  <2> QED BY <2>1 DEF LosesMemory, Idle, Request
<1> QED BY <1>1 DEF LosesMemory, FlowsShrink, PollsAreOwn

LEMMA OthersTame ==
  ASSUME TypeOK, Owned,
         \/ \E t \in Tabs : Begin(t) \/ TimerFires(t) \/ Cancel(t) \/ CountdownEnds(t)
         \/ Script \/ (\E u \in Users : Disconnect(u)) \/ (\E f \in Flows : Decide(f))
         \/ Restart \/ RestartWhileStoring \/ (\E u \in Users : RestartWhileDisconnecting(u)) \/ Tick
  PROVE  Tame
<1> USE DEF Tame, TokensAreOwn, StaysIssued
<1>1. TokenIsTheStarters
  BY DEF Owned
<1>2. ASSUME NEW t \in Tabs, Begin(t) \/ TimerFires(t) PROVE Tame
  <2>1. [tab |-> t, user |-> UserOf[t]] \in Callers
    BY DEF Callers
  <2>2. card[t].phase = "awaiting" => card[t].flow \in Flows
    BY DEF TypeOK
  <2> QED BY <1>2, <2>1, <2>2, ConnectTame, PollTame DEF Begin, TimerFires
<1>3. ASSUME NEW t \in Tabs, Cancel(t) \/ CountdownEnds(t) PROVE Tame
  BY <1>1, <1>3 DEF Cancel, CountdownEnds, core, history, FlowsShrink, PollsAreOwn, Owned,
                    TokenIsTheStarters
<1>4. CASE Script
  <2>1. \A u \in Users : [tab |-> Nothing, user |-> u] \in Callers
    BY DEF Callers
  <2> QED BY <1>4, <2>1, ConnectTame, PollTame DEF Script
<1>5. ASSUME NEW u \in Users, Disconnect(u) PROVE Tame
  <2>1. FlowsShrink
    BY <1>5 DEF Disconnect, FlowsShrink, WithoutFlowsOf
  <2>2. TokensAreOwn
    BY <1>1, <1>5 DEF Disconnect, TokenIsTheStarters, TypeOK
  <2> QED BY <1>5, <2>1, <2>2 DEF Disconnect, PollsAreOwn, Owned
<1>6. ASSUME NEW f \in Flows, Decide(f) PROVE Tame
  <2>1. StaysIssued
    BY <1>6 DEF Decide, TypeOK
  <2> QED BY <1>1, <1>6, <2>1 DEF Decide, core, history, FlowsShrink, PollsAreOwn, Owned,
                                  TokenIsTheStarters
<1>7. CASE Restart
  BY <1>1, <1>7, LosesMemoryTame DEF Restart, TokenIsTheStarters
<1>8. CASE RestartWhileStoring
  <2>1. PICK c \in Calls : /\ call[c].at = "viewer"
                           /\ secret' = [secret EXCEPT ![call[c].user] = call[c].flow]
    BY <1>8 DEF RestartWhileStoring
  <2>2. starter[call[c].flow] = call[c].user /\ call[c].user \in Users
    BY <2>1 DEF Owned, TypeOK, Sound
  <2>3. TokensAreOwn
    BY <1>1, <2>1, <2>2 DEF TokenIsTheStarters, TypeOK
  <2> QED BY <2>3, <1>8, LosesMemoryTame DEF RestartWhileStoring
<1>9. CASE Tick
  <2>1. ASSUME NEW f \in Flows
        PROVE  \/ flows'[f] = Nothing
               \/ flows[f] # Nothing /\ flows'[f].user = flows[f].user
    <3>1. CASE Pending(f)
      <4>1. flows[f] \in PendingFlow
        BY <3>1 DEF Pending, TypeOK
      <4>2. flows'[f] = [flows[f] EXCEPT !.left = Lower(@), !.since = Higher(@)]
        BY <1>9, <3>1 DEF Tick
      <4>3. flows'[f].user = flows[f].user
        BY <4>1, <4>2 DEF PendingFlow
      <4> QED BY <3>1, <4>3 DEF Pending
    <3>2. CASE ~Pending(f)
      BY <1>9, <3>2 DEF Tick
    <3> QED BY <3>1, <3>2
  <2> QED BY <1>1, <1>9, <2>1 DEF Tick, FlowsShrink, PollsAreOwn, Owned, TokenIsTheStarters
<1>10. ASSUME NEW u \in Users, RestartWhileDisconnecting(u) PROVE Tame
  <2>1. TokensAreOwn
    BY <1>1, <1>10 DEF RestartWhileDisconnecting, TokenIsTheStarters, TypeOK
  <2> QED BY <2>1, <1>10, LosesMemoryTame DEF RestartWhileDisconnecting
<1> QED BY <1>2, <1>3, <1>4, <1>5, <1>6, <1>7, <1>8, <1>9, <1>10

LEMMA OwnedKept == TypeOK /\ Owned /\ [Next]_vars => Owned'
<1> SUFFICES ASSUME TypeOK, Owned, [Next]_vars PROVE Owned'
  OBVIOUS
<1>1. CASE UNCHANGED vars
  BY <1>1 DEF Owned, TokenIsTheStarters, vars, core, history
<1>2. CASE Next
  BY <1>2, IssuedOwned, AnswersTame, OthersTame, TameOwned DEF Next
<1> QED BY <1>1, <1>2

-----------------------------------------------------------------------------
(* What is shown of a token.                                               *)

LEMMA LoginKept == TypeOK /\ LoginIsTheTokens /\ [Next]_vars => LoginIsTheTokens'
<1> SUFFICES ASSUME TypeOK, LoginIsTheTokens, [Next]_vars PROVE LoginIsTheTokens'
  OBVIOUS
<1>1. CASE UNCHANGED <<secret, meta, torn>>
  BY <1>1 DEF LoginIsTheTokens
<1>2. ASSUME NEW c \in Calls, Store(c) PROVE LoginIsTheTokens'
  <2>1. PICK login \in {call[c].flow, Nothing} :
            meta' = [meta EXCEPT ![call[c].user] = [login |-> login, stored |-> TRUE]]
    BY <1>2 DEF Store
  <2>2. call[c].flow \in Flows /\ call[c].user \in Users
    BY <1>2 DEF Store, TypeOK, Sound
  <2>3. secret' = [secret EXCEPT ![call[c].user] = call[c].flow] /\ torn' = torn \ {call[c].user}
    BY <1>2 DEF Store
  <2> QED BY <2>1, <2>2, <2>3 DEF LoginIsTheTokens, TypeOK
<1>3. ASSUME NEW u \in Users, Disconnect(u) PROVE LoginIsTheTokens'
  BY <1>3 DEF Disconnect, NoMeta, LoginIsTheTokens, TypeOK
<1>4. CASE RestartWhileStoring
  <2>1. PICK c \in Calls : /\ call[c].at = "viewer"
                           /\ secret' = [secret EXCEPT ![call[c].user] = call[c].flow]
                           /\ torn' = torn \union {call[c].user}
    BY <1>4 DEF RestartWhileStoring
  <2>2. UNCHANGED meta
    BY <1>4 DEF RestartWhileStoring
  <2> QED BY <2>1, <2>2 DEF LoginIsTheTokens, TypeOK
<1>5. ASSUME NEW t \in Tabs, Begin(t) \/ TimerFires(t) \/ Cancel(t) \/ CountdownEnds(t)
      PROVE  UNCHANGED <<secret, meta, torn>>
  BY <1>5 DEF Begin, TimerFires, Cancel, CountdownEnds, Connect, Poll, Asks, Replies, core, history
<1>6. ASSUME NEW c \in Calls, Issued(c) \/ NotIssued(c) \/ Judge(c) \/ Hears(c) \/ Hear(c)
      PROVE  UNCHANGED <<secret, meta, torn>>
  BY <1>6 DEF Issued, NotIssued, Judge, Hears, Hear, core, history
<1>7. ASSUME Script \/ (\E f \in Flows : Decide(f)) \/ Restart \/ Tick
      PROVE  UNCHANGED <<secret, meta, torn>>
  BY <1>7 DEF Script, Connect, Poll, Asks, Replies, Decide, Restart, Tick, core, history
<1>8. ASSUME NEW u \in Users, RestartWhileDisconnecting(u) PROVE LoginIsTheTokens'
  <2>1. \A v \in Users \ {u} : secret'[v] = secret[v]
    BY <1>8 DEF RestartWhileDisconnecting, TypeOK
  <2> QED BY <1>8, <2>1 DEF RestartWhileDisconnecting, LoginIsTheTokens
<1> QED BY <1>1, <1>2, <1>3, <1>4, <1>5, <1>6, <1>7, <1>8 DEF Next, vars, core, history

-----------------------------------------------------------------------------

LEMMA Initially == Init => IInv
<1> SUFFICES ASSUME Init PROVE IInv
  OBVIOUS
<1>1. NoCard \in Card /\ NoMeta \in Metadata /\ 0 \in 0..SlowInterval
  BY DEF NoCard, Card, NoMeta, Metadata
<1>2. TypeOK
  BY <1>1, NoRequest DEF Init, TypeOK, NoCard
<1>3. Owned /\ LoginIsTheTokens
  BY DEF Init, Owned, TokenIsTheStarters, LoginIsTheTokens, Idle, NoMeta
<1> QED BY <1>2, <1>3 DEF IInv

LEMMA Always == Spec => []IInv
<1>1. IInv /\ [Next]_vars => IInv'
  BY TypesKept, OwnedKept, LoginKept DEF IInv
<1> QED BY <1>1, Initially, PTL DEF Spec

\* Every state core, the store, GitHub and the cards get to is well formed.
THEOREM TypeCorrect == Spec => []TypeOK
<1>1. IInv => TypeOK
  BY DEF IInv
<1> QED BY <1>1, Always, PTL

\* A token is the one of the user who started its flow, with any number of
\* users, tabs, scripts and requests in progress.
THEOREM TokensStayHome == Spec => []TokenIsTheStarters
<1>1. IInv => TokenIsTheStarters
  BY DEF IInv, Owned
<1> QED BY <1>1, Always, PTL

\* What is shown of a connection is said of its own token.
THEOREM LoginsAreTrue == Spec => []LoginIsTheTokens
<1>1. IInv => LoginIsTheTokens
  BY DEF IInv
<1> QED BY <1>1, Always, PTL

-----------------------------------------------------------------------------
(* What is given up, and what has been asked.                              *)

\* A code that was given up has no flow, nor a poll that could still bring
\* its token.
GoneIsOver ==
    \A f \in gone : flows[f] = Nothing /\ gh[f] # "unissued" /\ ~InProgress(f)

\* GitHub has been left alone about a code for as long as its flow says.
QuietIsKept == \A f \in Flows : flows[f] # Nothing => flows[f].since <= quiet[f]

\* GitHub has given the token of any code that is said to be connected.
ConnectedIsRedeemed ==
    \A c \in Calls :
        call[c].op = "poll" /\ (call[c].result = "connected" \/ call[c].at = "viewer")
            => gh[call[c].flow] = "redeemed"

\* A step may go on with a poll in progress, and begin one of a live flow only.
NoNewPolls ==
    \A c \in Calls : call'[c].at \in {"github", "viewer"} =>
        \/ call[c].at \in {"github", "viewer"} /\ call'[c].flow = call[c].flow
        \/ call'[c].flow \notin gone'

\* The requests but c are not touched.
LEMMA BecomesOthers ==
  ASSUME TypeOK, NEW c \in Calls, NEW next, Becomes(c, next)
  PROVE  call'[c] = next /\ \A d \in Calls \ {c} : call'[d] = call[d]
  BY DEF TypeOK, Becomes

\* A request that is answered is no longer in progress.
LEMMA AnswerEnds ==
  ASSUME TypeOK, NEW c \in Calls, NEW result, Answer(c, result)
  PROVE  /\ call'[c].at \in {"core", "answer"} /\ (call'[c] = Idle \/ call'[c].flow = call[c].flow)
         /\ call'[c] = Idle \/ (call'[c].op = call[c].op /\ call'[c].result = result)
         /\ \A d \in Calls \ {c} : call'[d] = call[d]
<1>1. call[c] \in Request
  BY DEF TypeOK
<1>2. CASE call[c].tab = Nothing
  BY <1>2, BecomesOthers DEF Answer, Idle
<1>3. CASE call[c].tab # Nothing
  <2> DEFINE next == [call[c] EXCEPT !.at = "answer", !.result = result]
  <2>1. Becomes(c, next)
    BY <1>3 DEF Answer
  <2>2. /\ next.at = "answer" /\ next.result = result
        /\ next.flow = call[c].flow /\ next.op = call[c].op
    BY <1>1 DEF Request
  <2> HIDE DEF next
  <2> QED BY <2>1, <2>2, BecomesOthers
<1> QED BY <1>2, <1>3

\* A poll reaches GitHub only for a live flow, and when its interval is over.
LEMMA AskedInTime ==
  ASSUME TypeOK, NEW u \in Users, NEW f \in Flows, ~Refused(u, f)
  PROVE  flows[f] # Nothing /\ flows[f] \in PendingFlow /\ Swept[f] = flows[f]
<1>1. Swept[f] # Nothing
  BY DEF Refused
<1> QED BY <1>1, SweptShrinks DEF TypeOK

\* Connecting puts a request without a flow in progress.
LEMMA ConnectCalls ==
  ASSUME TypeOK, NEW c \in Calls, NEW by, Connect(c, by)
  PROVE  /\ call'[c].op = "connect" /\ call'[c].flow = Nothing
         /\ \A d \in Calls \ {c} : call'[d] = call[d]
<1> DEFINE next == [Idle EXCEPT !.op = "connect", !.user = by.user, !.tab = by.tab, !.at = "github"]
<1>1. Becomes(c, next)
  BY DEF Connect
<1>2. next.op = "connect" /\ next.flow = Nothing
  BY DEF Idle
<1> HIDE DEF next
<1> QED BY <1>1, <1>2, BecomesOthers

\* Polling puts one in progress whose flow is live, and its interval over.
LEMMA PollCalls ==
  ASSUME TypeOK, NEW c \in Calls, NEW by \in Callers, NEW f \in Flows, Poll(c, by, f)
  PROVE  /\ call'[c].result # "connected" /\ call'[c].at # "viewer"
         /\ call'[c].at = "github" =>
               /\ call'[c].flow = f /\ flows[f] # Nothing
               /\ flows[f] \in PendingFlow /\ ~Early(f)
         /\ \A d \in Calls \ {c} : call'[d] = call[d]
<1>1. by.user \in Users /\ by.tab \in Tabs \union {Nothing}
  BY DEF Callers
<1>2. ASSUME NEW result \in {"over", "pending"}, Replies(c, by, f, result)
      PROVE  /\ call'[c].result # "connected" /\ call'[c].at \notin {"github", "viewer"}
             /\ \A d \in Calls \ {c} : call'[d] = call[d]
  BY <1>2, BecomesOthers DEF Replies, Idle
<1>3. ASSUME Asks(c, by, f), ~Refused(by.user, f), ~Early(f)
      PROVE  /\ call'[c].result = "none" /\ call'[c].at = "github" /\ call'[c].flow = f
             /\ flows[f] # Nothing /\ flows[f] \in PendingFlow
             /\ \A d \in Calls \ {c} : call'[d] = call[d]
  <2>1. call'[c] = [op |-> "poll", user |-> by.user, tab |-> by.tab, flow |-> f,
                    at |-> "github", result |-> "none"]
        /\ \A d \in Calls \ {c} : call'[d] = call[d]
    BY <1>3, BecomesOthers DEF Asks
  <2> QED BY <1>1, <1>3, <2>1, AskedInTime
<1> QED BY <1>2, <1>3 DEF Poll

\* A connect that is answered is no longer in progress.
LEMMA IssuedCalls ==
  ASSUME TypeOK, NEW c \in Calls, Issued(c)
  PROVE  /\ call'[c].op # "poll" /\ call'[c].at \notin {"github", "viewer"}
         /\ \A d \in Calls \ {c} : call'[d] = call[d]
<1>1. PICK f \in Flows :
          call' = [call EXCEPT ![c] = IF call[c].tab = Nothing THEN Idle
                         ELSE [call[c] EXCEPT !.at = "answer", !.result = "issued", !.flow = f]]
  BY DEF Issued
<1>2. call[c] \in Request /\ call[c].op = "connect"
  BY DEF Issued, TypeOK
<1> QED BY <1>1, <1>2 DEF TypeOK, Idle, Request

\* A restart answers every tab, and leaves no request in progress.
LEMMA RestartCalls ==
  ASSUME TypeOK, LosesMemory, NEW c \in Calls
  PROVE  \/ call'[c] = Idle
         \/ /\ call'[c].op = call[c].op /\ call'[c].flow = call[c].flow
            /\ call'[c].at = "answer" /\ call'[c].result \in {call[c].result, "over"}
<1>1. call[c] \in Request
  BY DEF TypeOK
<1>2. call'[c] = IF call[c].tab = Nothing THEN Idle
                 ELSE [call[c] EXCEPT !.at = "answer",
                         !.result = IF call[c].at = "answer" THEN call[c].result ELSE "over"]
  BY DEF LosesMemory
<1> QED BY <1>1, <1>2 DEF Request

\* Who begins a request: a card, or a script.
Begins == \E c \in Calls, by \in Callers : Connect(c, by) \/ \E f \in Flows : Poll(c, by, f)

\* What else a step may be.
Answers(c) == NotIssued(c) \/ Judge(c) \/ Hears(c) \/ Store(c) \/ Hear(c)
Rests == UNCHANGED <<flows, secret, call, gh, history>>

\* Every step is one of these.
LEMMA StepsAre ==
  ASSUME TypeOK, [Next]_vars
  PROVE  \/ Begins
         \/ \E c \in Calls : Issued(c)
         \/ \E c \in Calls : Answers(c)
         \/ \E u \in Users : Disconnect(u)
         \/ \E f \in Flows : Decide(f)
         \/ LosesMemory
         \/ Tick
         \/ Rests
<1>1. ASSUME NEW t \in Tabs, Begin(t) \/ TimerFires(t)
      PROVE  Begins
  <2>1. [tab |-> t, user |-> UserOf[t]] \in Callers
    BY DEF Callers
  <2>2. card[t].phase = "awaiting" => card[t].flow \in Flows
    BY DEF TypeOK
  <2> QED BY <1>1, <2>1, <2>2 DEF Begin, TimerFires, Begins
<1>2. CASE Script
  <2>1. \A u \in Users : [tab |-> Nothing, user |-> u] \in Callers
    BY DEF Callers
  <2> QED BY <1>2, <2>1 DEF Script, Begins
<1>3. ASSUME NEW t \in Tabs, Cancel(t) \/ CountdownEnds(t)
      PROVE  Rests
  BY <1>3 DEF Cancel, CountdownEnds, Rests, core
<1>4. CASE UNCHANGED vars
  BY <1>4 DEF vars, core, Rests
<1> QED BY <1>1, <1>2, <1>3, <1>4 DEF Next, Answers, Restart, RestartWhileStoring,
                                     RestartWhileDisconnecting

\* Where polls in progress come from.
LEMMA PollsGoOn ==
  ASSUME TypeOK, GoneIsOver, [Next]_vars
  PROVE  NoNewPolls
<1>1. CASE Begins
  <2>1. PICK c \in Calls, by \in Callers : Connect(c, by) \/ \E f \in Flows : Poll(c, by, f)
    BY <1>1 DEF Begins
  <2>2. CASE Connect(c, by)
    <3>1. gone' \subseteq Flows
      BY <2>2, ConnectTyped
    <3> QED BY <2>2, <3>1, ConnectCalls DEF NoNewPolls
  <2>3. ASSUME NEW f \in Flows, Poll(c, by, f)
        PROVE  NoNewPolls
    <3>1. gone' = gone
      BY <2>3 DEF Poll, Asks, Replies
    <3>2. flows[f] # Nothing => f \notin gone
      BY DEF GoneIsOver
    <3>3. \A d \in Calls \ {c} : call'[d] = call[d]
      BY <2>3, PollCalls
    <3>4. call'[c].at \in {"github", "viewer"} => call'[c].flow \notin gone
      BY <2>3, <3>2, PollCalls
    <3> QED BY <3>1, <3>3, <3>4 DEF NoNewPolls
  <2> QED BY <2>1, <2>2, <2>3
<1>2. ASSUME NEW c \in Calls, Issued(c)
      PROVE  NoNewPolls
  BY <1>2, IssuedCalls DEF NoNewPolls
<1>3. ASSUME NEW c \in Calls, Answers(c)
      PROVE  NoNewPolls
  <2>1. call[c] \in Request
    BY DEF TypeOK
  <2>2. CASE \E result : Answer(c, result)
    BY <2>2, AnswerEnds DEF NoNewPolls
  <2>3. ASSUME NEW next, Becomes(c, next),
               next = Idle \/ (next.at = call[c].at /\ next.flow = call[c].flow)
        PROVE  NoNewPolls
    BY <2>3, BecomesOthers DEF NoNewPolls, Idle
  <2>4. CASE call[c].at = "github" /\ Becomes(c, [call[c] EXCEPT !.at = "viewer"])
    BY <2>1, <2>4, BecomesOthers DEF NoNewPolls, Request
  <2>5. CASE \E heard : Becomes(c, [call[c] EXCEPT !.result = heard])
    BY <2>1, <2>3, <2>5 DEF Request
  <2>6. CASE Becomes(c, Idle)
    BY <2>3, <2>6
  <2> QED BY <1>3, <2>2, <2>4, <2>5, <2>6 DEF Answers, NotIssued, Judge, Hears, Store, Hear
<1>4. CASE LosesMemory
  BY <1>4, RestartCalls DEF NoNewPolls, Idle
<1>5. CASE UNCHANGED call
  BY <1>5 DEF NoNewPolls
<1> QED BY <1>1, <1>2, <1>3, <1>4, <1>5, StepsAre DEF Disconnect, Decide, Tick, Rests

-----------------------------------------------------------------------------
(* Codes that were given up.                                               *)

\* What was over stays over.
LEMMA OverStaysOver ==
  ASSUME TypeOK, Owned, GoneIsOver, [Next]_vars, NEW f \in gone
  PROVE  flows'[f] = Nothing /\ gh'[f] # "unissued"
<1>1. f \in Flows /\ flows[f] = Nothing /\ gh[f] # "unissued"
  BY DEF GoneIsOver, TypeOK
<1>2. CASE Tame
  BY <1>1, <1>2 DEF Tame, FlowsShrink, StaysIssued
<1>3. ASSUME NEW c \in Calls, Issued(c)
      PROVE  flows'[f] = Nothing /\ gh'[f] # "unissued"
  <2>1. PICK g \in Flows :
          /\ gh[g] = "unissued" /\ gh' = [gh EXCEPT ![g] = "pending"]
          /\ \A h \in Flows \ {g} : flows'[h] = flows[h]
    BY <1>3 DEF Issued, TypeOK
  <2> QED BY <1>1, <2>1 DEF TypeOK
<1>4. CASE UNCHANGED vars
  BY <1>1, <1>4 DEF vars, core
<1> QED BY <1>2, <1>3, <1>4, AnswersTame, OthersTame DEF Next

\* Giving up takes every flow of the user, and no poll in progress.
LEMMA GivenUpIsOver ==
  ASSUME TypeOK, Owned, GoneIsOver, NEW u \in Users, GivesUp(u),
         NEW map, FlowsOK(map), \A f \in Flows : map[f] # Nothing => map[f] = flows[f],
         flows' = WithoutFlowsOf(u, map), gh' = gh,
         NEW f \in gone', f \notin gone
  PROVE  flows'[f] = Nothing /\ gh'[f] # "unissued" /\ ~InProgress(f)
<1>1. f \in Flows /\ starter[f] = u /\ ~InProgress(f)
  BY DEF GivesUp
<1>2. gh[f] # "unissued"
  BY <1>1 DEF Owned
<1>3. map[f] # Nothing => map[f].user = u
  BY <1>1 DEF Owned
<1> QED BY <1>1, <1>2, <1>3 DEF WithoutFlowsOf

\* Every step keeps what was given up over.
LEMMA GoneKept ==
  ASSUME TypeOK, Owned, GoneIsOver, [Next]_vars
  PROVE  GoneIsOver'
<1>1. ASSUME NEW f \in gone', f \notin gone
      PROVE  flows'[f] = Nothing /\ gh'[f] # "unissued" /\ ~InProgress(f)
  <2>1. FlowsOK(flows) /\ FlowsOK(Swept)
    BY SweptOK DEF TypeOK, FlowsOK
  <2>2. ASSUME NEW u \in Users, Disconnect(u)
        PROVE  flows'[f] = Nothing /\ gh'[f] # "unissued" /\ ~InProgress(f)
    BY <1>1, <2>1, <2>2, GivenUpIsOver DEF Disconnect
  <2>3. ASSUME NEW c \in Calls, NEW by \in Callers, Connect(c, by)
        PROVE  flows'[f] = Nothing /\ gh'[f] # "unissued" /\ ~InProgress(f)
    <3>1. by.user \in Users /\ by.tab \in Tabs \union {Nothing}
      BY DEF Callers
    <3>2. \A g \in Flows : Swept[g] # Nothing => Swept[g] = flows[g]
      BY <3>1, SweptShrinks
    <3> QED BY <1>1, <2>1, <2>3, <3>1, <3>2, GivenUpIsOver DEF Connect
  <2>4. CASE gone' = gone
    BY <1>1, <2>4
  <2> QED BY <2>2, <2>3, <2>4, StepsAre
          DEF Begins, Poll, Asks, Replies, Issued, Answers, NotIssued, Judge, Hears, Store, Hear,
              Decide, LosesMemory, Tick, Rests, history
<1>2. ASSUME NEW f \in gone'
      PROVE  flows'[f] = Nothing /\ gh'[f] # "unissued" /\ ~InProgress(f)
  BY <1>1, <1>2, OverStaysOver DEF GoneIsOver
<1>3. ASSUME NEW f \in gone'
      PROVE  ~InProgress(f)'
  BY <1>2, <1>3, PollsGoOn DEF NoNewPolls, InProgress
<1> QED BY <1>2, <1>3 DEF GoneIsOver

-----------------------------------------------------------------------------
(* How often GitHub is asked.                                              *)

\* Two clocks that tick keep their order.
LEMMA HigherMonotone ==
  ASSUME NEW m \in 0..SlowInterval, NEW n \in 0..SlowInterval, m <= n
  PROVE  Higher(m) <= Higher(n)
  BY DEF Higher

\* A flow that neither ticks nor is asked about keeps its time.
LEMMA QuietStays ==
  ASSUME TypeOK, QuietIsKept, NEW f \in Flows, quiet'[f] = quiet[f],
         flows'[f] # Nothing => flows[f] # Nothing /\ flows'[f].since = flows[f].since
  PROVE  flows'[f] # Nothing => flows'[f].since <= quiet'[f]
  BY DEF QuietIsKept

\* Every step keeps the flows' clocks behind those of the questions.
LEMMA QuietKept ==
  ASSUME TypeOK, QuietIsKept, [Next]_vars
  PROVE  QuietIsKept'
<1>1. ASSUME UNCHANGED <<flows, quiet>> PROVE QuietIsKept'
  BY <1>1 DEF QuietIsKept
<1>2. ASSUME NEW f \in Flows
      PROVE  Swept[f] # Nothing => flows[f] # Nothing /\ Swept[f] = flows[f]
  BY <1>2, SweptShrinks
<1>3. ASSUME NEW c \in Calls, NEW by \in Callers, Connect(c, by)
      PROVE  QuietIsKept'
  <2>1. ASSUME NEW f \in Flows
        PROVE  flows'[f] # Nothing => flows[f] # Nothing /\ flows'[f] = flows[f]
    BY <1>3, <2>1, SweptShrinks DEF Connect
  <2> QED BY <1>3, <2>1, QuietStays DEF Connect, QuietIsKept
<1>4. ASSUME NEW c \in Calls, NEW by \in Callers, NEW f \in Flows, Poll(c, by, f)
      PROVE  QuietIsKept'
  <2>1. CASE flows' = Swept /\ quiet' = quiet
    BY <1>2, <2>1 DEF QuietIsKept
  <2>2. CASE Asks(c, by, f) /\ ~Refused(by.user, f)
    <3>1. by.user \in Users /\ by.tab \in Tabs \union {Nothing}
      BY DEF Callers
    <3>2. flows[f] \in PendingFlow /\ Swept[f] = flows[f]
      BY <2>2, <3>1, AskedInTime
    <3>3. Swept \in [Flows -> PendingFlow \union {Nothing}]
      BY SweptOK DEF TypeOK, FlowsOK
    <3>4. flows' = [Swept EXCEPT ![f] = [flows[f] EXCEPT !.since = 0]] /\ quiet' = [quiet EXCEPT ![f] = 0]
      BY <2>2, <3>2, <3>3 DEF Asks
    <3>5. [flows[f] EXCEPT !.since = 0].since = 0
      BY <3>2 DEF PendingFlow
    <3>6. flows'[f].since = 0 /\ quiet'[f] = 0
      BY <3>3, <3>4, <3>5 DEF TypeOK
    <3>7. \A g \in Flows \ {f} : flows'[g] = Swept[g] /\ quiet'[g] = quiet[g]
      BY <3>3, <3>4 DEF TypeOK
    <3> QED BY <1>2, <3>6, <3>7 DEF QuietIsKept
  <2> QED BY <1>4, <2>1, <2>2 DEF Poll, Replies
<1>5. ASSUME NEW c \in Calls, Issued(c)
      PROVE  QuietIsKept'
  <2>1. PICK f \in Flows : flows' = [flows EXCEPT ![f] =
                [user |-> call[c].user, left |-> Life, interval |-> Interval, since |-> 0]]
    BY <1>5 DEF Issued
  <2>2. quiet' = quiet /\ quiet[f] >= 0
    BY <1>5 DEF Issued, TypeOK
  <2> QED BY <2>1, <2>2 DEF QuietIsKept, TypeOK
<1>6. ASSUME NEW c \in Calls, Hears(c)
      PROVE  QuietIsKept'
  <2>1. call[c].flow \in Flows /\ quiet' = quiet
    BY <1>6 DEF Hears, TypeOK, Sound, history
  <2>2. CASE flows' = Slowed(flows, call[c].flow)
    <3>1. ASSUME NEW f \in Flows
          PROVE  flows'[f] # Nothing => flows[f] # Nothing /\ flows'[f].since = flows[f].since
      BY <2>1, <2>2, <3>1 DEF Slowed, TypeOK, PendingFlow
    <3> QED BY <2>1, <3>1, QuietStays DEF QuietIsKept
  <2>3. CASE UNCHANGED flows \/ flows' = [flows EXCEPT ![call[c].flow] = Nothing]
    BY <2>1, <2>3 DEF QuietIsKept, TypeOK
  <2> QED BY <1>6, <2>2, <2>3 DEF Hears
<1>7. ASSUME NEW u \in Users, Disconnect(u)
      PROVE  QuietIsKept'
  BY <1>7 DEF Disconnect, WithoutFlowsOf, QuietIsKept
<1>8. CASE LosesMemory
  BY <1>8 DEF LosesMemory, QuietIsKept
<1>9. CASE Tick
  <2>1. ASSUME NEW f \in Flows, flows'[f] # Nothing
        PROVE  flows'[f].since <= quiet'[f]
    <3>1. /\ flows[f] # Nothing /\ flows[f] \in PendingFlow
          /\ flows'[f] = [flows[f] EXCEPT !.left = Lower(flows[f].left),
                                         !.since = Higher(flows[f].since)]
      BY <1>9, <2>1 DEF Tick, Pending, TypeOK
    <3>2. flows'[f].since = Higher(flows[f].since) /\ flows[f].since \in 0..SlowInterval
      BY <3>1 DEF PendingFlow
    <3>3. quiet[f] \in 0..SlowInterval /\ quiet'[f] = Higher(quiet[f]) /\ flows[f].since <= quiet[f]
      BY <1>9, <3>1 DEF Tick, TypeOK, QuietIsKept, PendingFlow
    <3> QED BY <3>2, <3>3, HigherMonotone
  <2> QED BY <2>1 DEF QuietIsKept
<1> QED BY <1>1, <1>3, <1>4, <1>5, <1>6, <1>7, <1>8, <1>9, StepsAre
        DEF Begins, Answers, NotIssued, Judge, Store, Hear, Decide, Rests, core, history

-----------------------------------------------------------------------------
(* Which codes are connected.                                              *)

\* A token that GitHub has given stays given.
LEMMA RedeemedStays ==
  ASSUME TypeOK, [Next]_vars, NEW f \in Flows, gh[f] = "redeemed"
  PROVE  gh'[f] = "redeemed"
<1>1. ASSUME NEW c \in Calls, Issued(c)
      PROVE  gh'[f] = "redeemed"
  BY <1>1 DEF Issued, TypeOK
<1>2. ASSUME NEW c \in Calls, Judge(c)
      PROVE  gh'[f] = "redeemed"
  BY <1>2 DEF Judge, TypeOK
<1>3. ASSUME NEW g \in Flows, Decide(g)
      PROVE  gh'[f] = "redeemed"
  BY <1>3 DEF Decide, TypeOK
<1>4. CASE UNCHANGED gh
  BY <1>4
<1> QED BY <1>1, <1>2, <1>3, <1>4, StepsAre
        DEF Begins, Connect, Poll, Asks, Replies, Answers, NotIssued, Hears, Store, Hear,
            Disconnect, LosesMemory, Tick, Rests, core, history

\* A poll that says, or is about to say, that its code is connected.
Said(r) == r.op = "poll" /\ (r.result = "connected" \/ r.at = "viewer")

\* Every step keeps connections earned.
LEMMA ConnectedKept ==
  ASSUME TypeOK, ConnectedIsRedeemed, [Next]_vars
  PROVE  ConnectedIsRedeemed'
<1> SUFFICES ASSUME NEW d \in Calls, Said(call'[d])
             PROVE  gh'[call'[d].flow] = "redeemed"
  BY DEF ConnectedIsRedeemed, Said
<1>1. ASSUME Said(call[d]), call'[d].flow = call[d].flow
      PROVE  gh'[call'[d].flow] = "redeemed"
  <2>1. call[d].flow \in Flows
    BY <1>1 DEF Said, TypeOK, Sound
  <2> QED BY <1>1, <2>1, RedeemedStays DEF ConnectedIsRedeemed, Said
<1>2. CASE Begins
  <2>1. PICK c \in Calls, by \in Callers : Connect(c, by) \/ \E f \in Flows : Poll(c, by, f)
    BY <1>2 DEF Begins
  <2>2. ~Said(call'[c]) /\ \A e \in Calls \ {c} : call'[e] = call[e]
    BY <2>1, ConnectCalls, PollCalls DEF Said
  <2> QED BY <1>1, <2>2
<1>3. ASSUME NEW c \in Calls, Issued(c)
      PROVE  gh'[call'[d].flow] = "redeemed"
  BY <1>1, <1>3, IssuedCalls DEF Said
<1>4. ASSUME NEW c \in Calls, Answers(c)
      PROVE  gh'[call'[d].flow] = "redeemed"
  <2>1. call[c] \in Request /\ Sound(call[c])
    BY DEF TypeOK
  <2>2. ASSUME NEW result, Answer(c, result), result = "connected" => Said(call[c])
        PROVE  gh'[call'[d].flow] = "redeemed"
    BY <1>1, <2>2, AnswerEnds DEF Said, Idle
  <2>3. CASE Becomes(c, Idle)
    BY <1>1, <2>3, BecomesOthers DEF Said, Idle
  <2>4. CASE Judge(c)
    <3>1. PICK heard : /\ Becomes(c, [call[c] EXCEPT !.result = heard])
                       /\ heard = "connected" => gh[call[c].flow] = "approved"
      BY <2>4 DEF Judge
    <3>2. CASE d # c
      BY <1>1, <3>1, <3>2, BecomesOthers
    <3>3. CASE d = c
      <4>1. call'[c] = [call[c] EXCEPT !.result = heard]
        BY <3>1, BecomesOthers
      <4>2. call'[c].flow = call[c].flow /\ call'[c].at = "github" /\ call'[c].result = heard
        BY <2>1, <2>4, <4>1 DEF Judge, Request
      <4>3. heard = "connected" /\ gh[call[c].flow] = "approved"
        BY <3>1, <3>3, <4>2 DEF Said
      <4>4. call[c].flow \in Flows
        BY <2>1, <2>4 DEF Judge, Sound
      <4> QED BY <2>4, <3>3, <4>2, <4>3, <4>4 DEF Judge, TypeOK
    <3> QED BY <3>2, <3>3
  <2>5. CASE Hears(c)
    <3>1. ASSUME call[c].result = "connected", Becomes(c, [call[c] EXCEPT !.at = "viewer"])
          PROVE  gh'[call'[d].flow] = "redeemed"
      <4>1. /\ call'[c].flow = call[c].flow
            /\ \A e \in Calls \ {c} : call'[e] = call[e]
        BY <2>1, <3>1, BecomesOthers DEF Request
      <4> QED BY <1>1, <2>5, <3>1, <4>1 DEF Hears, Said
    <3> QED BY <2>2, <2>5, <3>1 DEF Hears
  <2>6. CASE Store(c)
    <3>1. Said(call[c])
      BY <2>1, <2>6 DEF Store, Sound, Said
    <3> QED BY <2>2, <2>6, <3>1 DEF Store
  <2> QED BY <1>4, <2>2, <2>3, <2>4, <2>5, <2>6 DEF Answers, NotIssued, Hear
<1>5. CASE LosesMemory
  BY <1>1, <1>5, RestartCalls DEF Said, Idle
<1>6. CASE UNCHANGED call
  BY <1>1, <1>6
<1> QED BY <1>2, <1>3, <1>4, <1>5, <1>6, StepsAre DEF Disconnect, Decide, Tick, Rests

-----------------------------------------------------------------------------
(* What follows of every step.                                             *)

\* The invariant the action properties follow from.
Watched == IInv /\ GoneIsOver /\ QuietIsKept /\ ConnectedIsRedeemed

\* All of it holds at every moment.
LEMMA AlwaysWatched == Spec => []Watched
<1>1. Init => Watched
  <2>1. ASSUME Init PROVE GoneIsOver /\ QuietIsKept /\ ConnectedIsRedeemed
    BY <2>1 DEF Init, GoneIsOver, QuietIsKept, ConnectedIsRedeemed, Idle
  <2> QED BY <2>1, Initially DEF Watched
<1>2. Watched /\ [Next]_vars => Watched'
  BY TypesKept, OwnedKept, LoginKept, GoneKept, QuietKept, ConnectedKept DEF Watched, IInv
<1> QED BY <1>1, <1>2, PTL DEF Spec

\* Only a poll in progress stores a token.
LEMMA StoredInProgress ==
  ASSUME TypeOK, [Next]_vars, NEW u \in Users, NEW f \in Flows,
         secret'[u] = f, secret[u] # f
  PROVE  InProgress(f)
<1>1. ASSUME NEW c \in Calls, call[c].at = "viewer",
             secret' = [secret EXCEPT ![call[c].user] = call[c].flow]
      PROVE  InProgress(f)
  BY <1>1 DEF TypeOK, InProgress
<1>2. ASSUME NEW c \in Calls, Store(c)
      PROVE  InProgress(f)
  BY <1>1, <1>2 DEF Store
<1>3. CASE RestartWhileStoring
  BY <1>1, <1>3 DEF RestartWhileStoring
<1>4. ASSUME NEW v \in Users, Disconnect(v) \/ RestartWhileDisconnecting(v)
      PROVE  FALSE
  BY <1>4 DEF Disconnect, RestartWhileDisconnecting, TypeOK
<1>5. ASSUME NEW t \in Tabs, Begin(t) \/ TimerFires(t) \/ Cancel(t) \/ CountdownEnds(t)
      PROVE  UNCHANGED secret
  BY <1>5 DEF Begin, TimerFires, Cancel, CountdownEnds, Connect, Poll, Asks, Replies, core
<1>6. ASSUME NEW c \in Calls, Issued(c) \/ NotIssued(c) \/ Judge(c) \/ Hears(c) \/ Hear(c)
      PROVE  UNCHANGED secret
  BY <1>6 DEF Issued, NotIssued, Judge, Hears, Hear, core
<1>7. ASSUME Script \/ (\E g \in Flows : Decide(g)) \/ Restart \/ Tick \/ UNCHANGED vars
      PROVE  UNCHANGED secret
  BY <1>7 DEF Script, Connect, Poll, Asks, Replies, Decide, Restart, Tick, core, vars
<1> QED BY <1>2, <1>3, <1>4, <1>5, <1>6, <1>7 DEF Next

\* A connection the user has ended stays ended: a code given up while none of
\* its polls was in progress never stores a token, whoever approves it later.
THEOREM EndedStaysEnded == Spec => GivenUpStaysGivenUp
<1>1. Watched /\ [Next]_vars =>
        [\A u \in Users, f \in Flows :
            secret'[u] = f /\ secret[u] # f => f \notin gone]_vars
  BY StoredInProgress DEF Watched, IInv, GoneIsOver
<1> QED BY <1>1, AlwaysWatched, PTL DEF Spec, GivenUpStaysGivenUp

\* Only a begun poll takes a free request to GitHub.
LEMMA AskedByPoll ==
  ASSUME TypeOK, [Next]_vars, NEW c \in Calls,
         call'[c].at = "github", call[c].at = "core", call'[c].op = "poll"
  PROVE  LET f == call'[c].flow IN f \in Flows /\ flows[f] \in PendingFlow /\ ~Early(f) /\ flows[f] # Nothing
<1>1. CASE Begins
  <2>1. PICK d \in Calls, by \in Callers : Connect(d, by) \/ \E f \in Flows : Poll(d, by, f)
    BY <1>1 DEF Begins
  <2>2. ~Connect(d, by)
    BY ConnectCalls
  <2>3. PICK f \in Flows : Poll(d, by, f)
    BY <2>1, <2>2
  <2>4. c = d
    BY <2>3, PollCalls
  <2> QED BY <2>3, <2>4, PollCalls
<1>2. ASSUME NEW d \in Calls, Issued(d)
      PROVE  FALSE
  BY <1>2, IssuedCalls
<1>3. ASSUME NEW d \in Calls, Answers(d)
      PROVE  FALSE
  <2>1. call[d] \in Request /\ Sound(call[d])
    BY DEF TypeOK
  <2>2. CASE \E result : Answer(d, result)
    BY <2>2, AnswerEnds
  <2>3. CASE Becomes(d, Idle)
    BY <2>3, BecomesOthers DEF Idle
  <2>4. CASE call[d].at = "github" /\ \E next : Becomes(d, next)
    BY <2>4, BecomesOthers
  <2> QED BY <1>3, <2>2, <2>3, <2>4 DEF Answers, NotIssued, Judge, Hears, Store, Hear
<1>4. CASE LosesMemory
  BY <1>4, RestartCalls DEF Idle
<1>5. CASE UNCHANGED call
  BY <1>5
<1> QED BY <1>1, <1>2, <1>3, <1>4, <1>5, StepsAre DEF Disconnect, Decide, Tick, Rests

\* GitHub is never asked about a code sooner than it wants to be, whoever polls.
THEOREM GithubIsNotRushed == Spec => PollsAreSpaced
<1>1. ASSUME Watched, [Next]_vars, NEW c \in Calls,
             call'[c].at = "github", call[c].at = "core", call'[c].op = "poll",
             NEW f, f = call'[c].flow
      PROVE  quiet[f] >= Interval /\ (flows[f].interval = SlowInterval => quiet[f] >= SlowInterval)
  <2>1. f \in Flows /\ flows[f] \in PendingFlow /\ ~Early(f) /\ flows[f] # Nothing
    BY <1>1, AskedByPoll DEF Watched, IInv
  <2>2. flows[f].since <= quiet[f] /\ quiet[f] \in 0..SlowInterval
    BY <1>1, <2>1 DEF Watched, IInv, TypeOK, QuietIsKept
  <2>3. ~(flows[f].since < flows[f].interval) /\ flows[f].interval \in {Interval, SlowInterval}
        /\ flows[f].since \in 0..SlowInterval
    BY <2>1 DEF Early, PendingFlow
  <2> QED BY <2>2, <2>3
<1>2. Watched /\ [Next]_vars =>
        [\A c \in Calls :
          LET f == call'[c].flow IN
          (call'[c].at = "github" /\ call[c].at = "core" /\ call'[c].op = "poll")
             => /\ quiet[f] >= Interval
                /\ (flows[f].interval = SlowInterval => quiet[f] >= SlowInterval)]_vars
  BY <1>1
<1> QED BY <1>2, AlwaysWatched, PTL DEF Spec, PollsAreSpaced

\* Only an answer that is heard connects a card.
LEMMA ConnectedByAnswer ==
  ASSUME TypeOK, [Next]_vars, NEW t \in Tabs,
         card'[t].phase = "connected", card[t].phase # "connected"
  PROVE  \E c \in Calls : /\ call[c].op = "poll" /\ call[c].result = "connected"
                          /\ call[c].flow = card[t].flow
<1>1. ASSUME NEW u \in Tabs, NEW phase, Ended(u, phase)
      PROVE  u = t /\ phase = "connected"
  BY <1>1 DEF Ended, NoCard, TypeOK
<1>2. ASSUME NEW u \in Tabs, card' = [card EXCEPT ![u].waits = TRUE]
      PROVE  FALSE
  BY <1>2 DEF TypeOK, Card
<1>3. ASSUME NEW u \in Tabs, Begin(u) \/ TimerFires(u) \/ Cancel(u) \/ CountdownEnds(u)
      PROVE  FALSE
  BY <1>1, <1>2, <1>3 DEF Begin, TimerFires, Cancel, CountdownEnds
<1>4. ASSUME NEW c \in Calls, Hear(c)
      PROVE  /\ call[c].op = "poll" /\ call[c].result = "connected"
             /\ call[c].flow = card[t].flow
  <2>1. call[c].tab \in Tabs
    BY <1>4 DEF Hear, TypeOK, Sound
  <2>2. ~Begun(call[c].tab, c)
    <3>1. CASE call[c].result = "issued"
      BY <2>1, <3>1 DEF Begun, TypeOK
    <3>2. CASE call[c].result # "issued"
      BY <1>1, <2>1, <3>2 DEF Begun
    <3> QED BY <3>1, <3>2
  <2>3. Polled(call[c].tab, c)
    BY <1>4, <2>2 DEF Hear
  <2>4. ASSUME NEW u \in Tabs, NEW wait, card' = [card EXCEPT ![u].waits = FALSE, ![u].timer = wait]
        PROVE  FALSE
    <3>1. card' = [card EXCEPT ![u] = [card[u] EXCEPT !.waits = FALSE, !.timer = wait]]
      BY <2>4 DEF TypeOK
    <3>2. [card[u] EXCEPT !.waits = FALSE, !.timer = wait].phase = card[u].phase
      BY DEF TypeOK, Card
    <3> QED BY <3>1, <3>2 DEF TypeOK
  <2>5. /\ Current(call[c].tab, c) /\ call[c].result \in {"over", "connected"}
        /\ Ended(call[c].tab, call[c].result)
    BY <2>1, <2>3, <2>4 DEF Polled
  <2> QED BY <1>1, <2>1, <2>3, <2>5 DEF Polled, Current
<1>5. ASSUME NEW c \in Calls, Issued(c) \/ NotIssued(c) \/ Judge(c) \/ Hears(c) \/ Store(c)
      PROVE  UNCHANGED card
  BY <1>5 DEF Issued, NotIssued, Judge, Hears, Store
<1>6. ASSUME \/ Script \/ (\E u \in Users : Disconnect(u)) \/ (\E f \in Flows : Decide(f))
             \/ Restart \/ RestartWhileStoring \/ (\E u \in Users : RestartWhileDisconnecting(u))
             \/ UNCHANGED vars
      PROVE  UNCHANGED card
  BY <1>6 DEF Script, Disconnect, Decide, Restart, RestartWhileStoring, RestartWhileDisconnecting,
              LosesMemory, vars
<1>7. CASE Tick
  <2>1. \/ card'[t] = card[t]
        \/ card'[t] = [card[t] EXCEPT !.left = Lower(card[t].left), !.timer = Lower(card[t].timer)]
    BY <1>7 DEF Tick
  <2>2. card[t] \in Card
    BY DEF TypeOK
  <2> QED BY <2>1, <2>2 DEF Card
<1> QED BY <1>3, <1>4, <1>5, <1>6, <1>7 DEF Next

\* A card says connected of the code it shows, and GitHub has given its token.
THEOREM CardsAreTrue == Spec => CardSpeaksOfItsCode
<1>1. Watched /\ [Next]_vars =>
        [\A t \in Tabs :
          card'[t].phase = "connected" /\ card[t].phase # "connected"
             => gh[card[t].flow] = "redeemed"]_vars
  BY ConnectedByAnswer DEF Watched, IInv, ConnectedIsRedeemed
<1> QED BY <1>1, AlwaysWatched, PTL DEF Spec, CardSpeaksOfItsCode

=============================================================================
