---------------------------- MODULE GithubConnect ----------------------------
(***************************************************************************)
(* Connect GitHub: the device flow between the card on the settings page,  *)
(* core's four routes, the encrypted store, and GitHub.  Each route awaits *)
(* GitHub in the middle, so connects, polls and disconnects of several     *)
(* tabs and scripts overlap; core forgets its flows when it restarts.      *)
(*                                                                         *)
(* A flow stands for its device code, for the account that approves it and *)
(* for the token GitHub gives for it.  Time passes in Ticks.  Denied,      *)
(* expired and failed are one ending, "over": they differ in wording.      *)
(*                                                                         *)
(* Translated from packages/core/src/github/{routes,device-flow}.ts and    *)
(* packages/web/src/components/ConnectGitHubCard.tsx.  GitHub is external. *)
(***************************************************************************)
EXTENDS Naturals, FiniteSets

CONSTANTS
    Users,       \* account holders
    Tabs,        \* settings pages open in browsers
    UserOf,      \* [Tabs -> Users]
    Flows,       \* device codes GitHub may issue
    Calls,       \* requests in progress at a time
    Nothing,     \* no flow, no token, no tab
    Life,        \* ticks until a code expires
    Interval,    \* ticks GitHub asks to wait between polls
    SlowInterval \* and once it has asked to slow down

ASSUME UsersAssumption == UserOf \in [Tabs -> Users]
ASSUME FlowsAssumption == Nothing \notin Flows \union Tabs \union Users
ASSUME TimesAssumption == /\ Life \in Nat \ {0} /\ Interval \in Nat \ {0}
                          /\ SlowInterval \in Nat /\ Interval < SlowInterval

VARIABLES
    flows,   \* core's map: per flow, Nothing or its PendingFlow
    secret,  \* per user, the flow whose token is in the store
    meta,    \* per user, the connection's metadata: whose login, and when known
    call,    \* requests being handled
    card,    \* the card of each tab
    gh,      \* what GitHub knows of each code
    \* history
    starter, \* per flow, the user who started it
    quiet,   \* per flow, ticks since GitHub was last asked about it
    gone,    \* flows their user gave up, none of whose polls was then in progress
    torn     \* users whose connect or disconnect core was killed in, between its two writes

core == <<flows, secret, meta>>
history == <<starter, quiet, gone, torn>>
vars == <<core, call, card, gh, history>>

-----------------------------------------------------------------------------
Idle == [op |-> "none", user |-> Nothing, tab |-> Nothing, flow |-> Nothing,
         at |-> "core", result |-> "none"]
NoCard == [phase |-> "idle", flow |-> Nothing, left |-> 0, timer |-> 0, waits |-> FALSE]
NoMeta == [login |-> Nothing, stored |-> FALSE]

Init ==
    /\ flows = [f \in Flows |-> Nothing]
    /\ secret = [u \in Users |-> Nothing] /\ meta = [u \in Users |-> NoMeta]
    /\ call = [c \in Calls |-> Idle] /\ card = [t \in Tabs |-> NoCard]
    /\ gh = [f \in Flows |-> "unissued"]
    /\ starter = [f \in Flows |-> Nothing] /\ quiet = [f \in Flows |-> 0]
    /\ gone = {} /\ torn = {}

Lower(n) == IF n = 0 THEN 0 ELSE n - 1
Higher(n) == IF n = SlowInterval THEN n ELSE n + 1

InProgress(f) == \E c \in Calls : call[c].flow = f /\ call[c].at \in {"github", "viewer"}
Pending(f) == flows[f] # Nothing
\* Flows past their expiry go whenever somebody starts or polls one.
Swept == [f \in Flows |-> IF Pending(f) /\ flows[f].left = 0 THEN Nothing ELSE flows[f]]
\* Mutant: the flows a user gives up stay in the map.
AllFlows(u, map) == map
WithoutFlowsOf(u, map) ==
    [f \in Flows |-> IF map[f] # Nothing /\ map[f].user = u THEN Nothing ELSE map[f]]
GivesUp(u) == gone' = gone \union {f \in Flows : starter[f] = u /\ ~InProgress(f)}

Free(c) == call[c] = Idle
Becomes(c, next) == call' = [call EXCEPT ![c] = next]
\* The handler answers; a script's answer needs no further step.
Answer(c, result) ==
    Becomes(c, IF call[c].tab = Nothing THEN Idle
               ELSE [call[c] EXCEPT !.at = "answer", !.result = result])

-----------------------------------------------------------------------------
(* The routes.                                                             *)

\* A tab's call comes from its own user; a script (no tab) from anyone.
Callers == [tab : {Nothing}, user : Users] \union {[tab |-> t, user |-> UserOf[t]] : t \in Tabs}

\* Starting again abandons the last flow, before GitHub is asked for another.
Connect(c, by) ==
    /\ flows' = WithoutFlowsOf(by.user, Swept) /\ GivesUp(by.user)
    /\ Becomes(c, [Idle EXCEPT !.op = "connect", !.user = by.user, !.tab = by.tab, !.at = "github"])
    /\ UNCHANGED <<secret, meta, gh, starter, quiet, torn>>

\* The clock of a new flow starts at once: a poll that comes directly is early.
Issued(c) ==
    /\ call[c].op = "connect" /\ call[c].at = "github"
    /\ \E f \in Flows :
          /\ gh[f] = "unissued"
          /\ gh' = [gh EXCEPT ![f] = "pending"]
          /\ flows' = [flows EXCEPT ![f] =
                [user |-> call[c].user, left |-> Life, interval |-> Interval, since |-> 0]]
          /\ starter' = [starter EXCEPT ![f] = call[c].user]
          /\ call' = [call EXCEPT ![c] = IF @.tab = Nothing THEN Idle
                         ELSE [@ EXCEPT !.at = "answer", !.result = "issued", !.flow = f]]
    /\ UNCHANGED <<secret, meta, card, quiet, gone, torn>>

\* GitHub refuses, or cannot be reached.
NotIssued(c) ==
    /\ call[c].op = "connect" /\ call[c].at = "github"
    /\ Answer(c, "over")
    /\ UNCHANGED <<core, card, gh, history>>

\* Mutant: any account may poll any flow.
RefusedToNobody(u, f) == Swept[f] = Nothing
\* What a poll of f by user u finds before it asks GitHub anything.
Refused(u, f) == IF Swept[f] = Nothing THEN TRUE ELSE Swept[f].user # u
Early(f) == flows[f].since < flows[f].interval

\* Mutant: the time of the poll is not noted before GitHub is asked.
AsksUnnoted(c, by, f) ==
    /\ flows' = Swept
    /\ quiet' = [quiet EXCEPT ![f] = 0]
    /\ Becomes(c, [op |-> "poll", user |-> by.user, tab |-> by.tab, flow |-> f,
                   at |-> "github", result |-> "none"])
    /\ UNCHANGED <<secret, meta, gh, starter, gone, torn>>

Asks(c, by, f) ==
    /\ flows' = [Swept EXCEPT ![f].since = 0]
    /\ quiet' = [quiet EXCEPT ![f] = 0]
    /\ Becomes(c, [op |-> "poll", user |-> by.user, tab |-> by.tab, flow |-> f,
                   at |-> "github", result |-> "none"])
    /\ UNCHANGED <<secret, meta, gh, starter, gone, torn>>

\* Not found, somebody else's, or early: an answer without a request.
Replies(c, by, f, result) ==
    /\ flows' = Swept
    /\ Becomes(c, IF by.tab = Nothing THEN Idle
                  ELSE [op |-> "poll", user |-> by.user, tab |-> by.tab, flow |-> f,
                        at |-> "answer", result |-> result])
    /\ UNCHANGED <<secret, meta, gh, starter, quiet, gone, torn>>

Poll(c, by, f) ==
    \/ Refused(by.user, f) /\ Replies(c, by, f, "over")
    \/ ~Refused(by.user, f) /\ Early(f) /\ Replies(c, by, f, "pending")
    \/ ~Refused(by.user, f) /\ ~Early(f) /\ Asks(c, by, f)

\* GitHub judges the code; "slow" asks for longer intervals.  An approved
\* code is good for one token, even when the answer is lost.
Judge(c) ==
    /\ call[c].op = "poll" /\ call[c].at = "github" /\ call[c].result = "none"
    /\ LET f == call[c].flow IN
       \E result \in CASE gh[f] = "pending" -> {"pending", "slow"}
                       [] gh[f] = "approved" -> {"connected"}
                       [] OTHER -> {"over"} :
          /\ \E heard \in {result, "over"} : Becomes(c, [call[c] EXCEPT !.result = heard])
          /\ gh' = [gh EXCEPT ![f] = IF @ = "approved" THEN "redeemed" ELSE @]
    /\ UNCHANGED <<core, card, history>>

Slowed(map, f) == IF map[f] = Nothing THEN map ELSE [map EXCEPT ![f].interval = SlowInterval]

Hears(c) ==
    /\ call[c].op = "poll" /\ call[c].at = "github"
    /\ LET f == call[c].flow IN
       \/ call[c].result = "pending" /\ Answer(c, "pending") /\ UNCHANGED flows
       \/ call[c].result = "slow" /\ Answer(c, "slow") /\ flows' = Slowed(flows, f)
       \/ call[c].result = "over" /\ Answer(c, "over") /\ flows' = [flows EXCEPT ![f] = Nothing]
       \/ /\ call[c].result = "connected" /\ Becomes(c, [call[c] EXCEPT !.at = "viewer"])
          /\ flows' = [flows EXCEPT ![f] = Nothing]
    /\ UNCHANGED <<secret, meta, card, gh, history>>

\* GitHub has said whose the token is, or would not: it is stored either way,
\* and what is said of it with it.
Store(c) ==
    /\ call[c].at = "viewer"
    /\ LET u == call[c].user f == call[c].flow IN
       /\ secret' = [secret EXCEPT ![u] = f]
       /\ \E login \in {f, Nothing} : meta' = [meta EXCEPT ![u] = [login |-> login, stored |-> TRUE]]
       /\ torn' = torn \ {u}
    /\ Answer(c, "connected")
    /\ UNCHANGED <<flows, card, gh, starter, quiet, gone>>

\* Mutant: the metadata outlives the token.
DisconnectTokenOnly(u) ==
    /\ secret' = [secret EXCEPT ![u] = Nothing]
    /\ flows' = WithoutFlowsOf(u, flows) /\ GivesUp(u)
    /\ torn' = torn \ {u}
    /\ UNCHANGED <<meta, call, card, gh, starter, quiet>>

\* Forgetting is local and idempotent: GitHub is not told.
Disconnect(u) ==
    /\ secret' = [secret EXCEPT ![u] = Nothing] /\ meta' = [meta EXCEPT ![u] = NoMeta]
    /\ flows' = WithoutFlowsOf(u, flows) /\ GivesUp(u)
    /\ torn' = torn \ {u}
    /\ UNCHANGED <<call, card, gh, starter, quiet>>

\* Core stops: pending flows were only ever in memory.  Stopped between the
\* two writes of a connection it has stored the token and not the metadata;
\* between those of a disconnect, forgotten the token and not the metadata.
LosesMemory ==
    /\ flows' = [f \in Flows |-> Nothing]
    /\ call' = [c \in Calls |-> IF call[c].tab = Nothing THEN Idle
                  ELSE [call[c] EXCEPT !.at = "answer", !.result =
                           IF call[c].at = "answer" THEN @ ELSE "over"]]
    /\ UNCHANGED <<card, gh, starter, quiet, gone>>
Restart == LosesMemory /\ UNCHANGED <<secret, meta, torn>>
RestartWhileStoring ==
    /\ LosesMemory
    /\ \E c \in Calls :
          /\ call[c].at = "viewer"
          /\ secret' = [secret EXCEPT ![call[c].user] = call[c].flow]
          /\ torn' = torn \union {call[c].user}
    /\ UNCHANGED meta
RestartWhileDisconnecting(u) ==
    /\ secret[u] # Nothing
    /\ LosesMemory
    /\ secret' = [secret EXCEPT ![u] = Nothing]
    /\ torn' = torn \union {u}
    /\ UNCHANGED meta

-----------------------------------------------------------------------------
(* The card.                                                               *)

Begin(t) ==
    /\ card[t].phase # "awaiting" /\ ~card[t].waits
    /\ \E c \in Calls : Free(c) /\ Connect(c, [tab |-> t, user |-> UserOf[t]])
    /\ card' = [card EXCEPT ![t].waits = TRUE]

\* One timer at a time: the next is set by the answer to the last.
TimerFires(t) ==
    /\ card[t].phase = "awaiting" /\ card[t].timer = 0 /\ ~card[t].waits
    /\ \E c \in Calls : Free(c) /\ Poll(c, [tab |-> t, user |-> UserOf[t]], card[t].flow)
    /\ card' = [card EXCEPT ![t].waits = TRUE]

Ended(t, phase) == card' = [card EXCEPT ![t] = [NoCard EXCEPT !.phase = phase]]

\* The answer to begin() is taken whenever it comes.
Begun(t, c) ==
    /\ call[c].op = "connect"
    /\ IF call[c].result = "issued"
       THEN card' = [card EXCEPT ![t] = [phase |-> "awaiting", flow |-> call[c].flow, left |-> Life,
                                         timer |-> Interval, waits |-> FALSE]]
       ELSE Ended(t, "over")

\* Mutant: an earlier flow's effect is not torn down.
AnyFlow(t, c) == card[t].phase = "awaiting"
\* The effect of an earlier flow, or of a cancelled card, was torn down.
Current(t, c) == card[t].phase = "awaiting" /\ card[t].flow = call[c].flow
Polled(t, c) ==
    /\ call[c].op = "poll"
    /\ \/ ~Current(t, c) /\ UNCHANGED card
       \/ /\ Current(t, c) /\ call[c].result \in {"pending", "slow"}
          /\ card' = [card EXCEPT ![t].waits = FALSE,
                        ![t].timer = IF call[c].result = "slow" THEN SlowInterval ELSE Interval]
       \/ /\ Current(t, c) /\ call[c].result \in {"over", "connected"}
          /\ Ended(t, call[c].result)

Hear(c) ==
    /\ call[c].at = "answer"
    /\ Begun(call[c].tab, c) \/ Polled(call[c].tab, c)
    /\ Becomes(c, Idle)
    /\ UNCHANGED <<core, gh, history>>

Cancel(t) ==
    /\ card[t].phase = "awaiting"
    /\ Ended(t, "idle")
    /\ UNCHANGED <<core, call, gh, history>>

CountdownEnds(t) ==
    /\ card[t].phase = "awaiting" /\ card[t].left = 0
    /\ Ended(t, "over")
    /\ UNCHANGED <<core, call, gh, history>>

-----------------------------------------------------------------------------
(* Scripts, GitHub, and time.                                              *)

Script ==
    /\ \E c \in Calls, u \in Users :
          /\ Free(c)
          /\ LET by == [tab |-> Nothing, user |-> u] IN
             Connect(c, by) \/ \E f \in Flows : starter[f] # Nothing /\ Poll(c, by, f)
    /\ UNCHANGED card

\* The user enters the code, or declines it; GitHub lets an old one expire.
Decide(f) ==
    /\ \/ gh[f] = "pending" /\ \E verdict \in {"approved", "over"} : gh' = [gh EXCEPT ![f] = verdict]
       \/ gh[f] = "approved" /\ gh' = [gh EXCEPT ![f] = "over"]
    /\ UNCHANGED <<core, call, card, history>>

Tick ==
    /\ flows' = [f \in Flows |-> IF Pending(f)
                    THEN [flows[f] EXCEPT !.left = Lower(@), !.since = Higher(@)] ELSE Nothing]
    /\ quiet' = [f \in Flows |-> Higher(quiet[f])]
    /\ card' = [t \in Tabs |-> IF card[t].phase = "awaiting"
                    THEN [card[t] EXCEPT !.left = Lower(@), !.timer = Lower(@)] ELSE card[t]]
    /\ UNCHANGED <<secret, meta, call, gh, starter, gone, torn>>

Next ==
    \/ \E t \in Tabs : Begin(t) \/ TimerFires(t) \/ Cancel(t) \/ CountdownEnds(t)
    \/ \E c \in Calls : Issued(c) \/ NotIssued(c) \/ Judge(c) \/ Hears(c) \/ Store(c) \/ Hear(c)
    \/ Script \/ (\E u \in Users : Disconnect(u)) \/ (\E f \in Flows : Decide(f))
    \/ Restart \/ RestartWhileStoring \/ (\E u \in Users : RestartWhileDisconnecting(u)) \/ Tick

Spec == Init /\ [][Next]_vars

-----------------------------------------------------------------------------
(* What the connection promises.                                           *)

PendingFlow == [user : Users, left : 0..Life, interval : {Interval, SlowInterval},
                since : 0..SlowInterval]
Metadata == [login : Flows \union {Nothing}, stored : BOOLEAN]
Request == [op : {"none", "connect", "poll"}, user : Users \union {Nothing},
            tab : Tabs \union {Nothing}, flow : Flows \union {Nothing},
            at : {"core", "github", "viewer", "answer"},
            result : {"none", "issued", "pending", "slow", "over", "connected"}]
Card == [phase : {"idle", "awaiting", "over", "connected"}, flow : Flows \union {Nothing},
         left : 0..Life, timer : 0..SlowInterval, waits : BOOLEAN]

\* A request past its lookup has a user, and a flow unless it starts one; an
\* answer on its way is one its tab can understand.
Sound(r) ==
    /\ r.at \in {"github", "viewer"} => r.user \in Users
    /\ r.at = "viewer" => r.op = "poll"
    /\ r.op = "poll" => r.flow \in Flows
    /\ r.op = "none" => r.tab = Nothing
    /\ r.at = "answer" => r.tab \in Tabs
    /\ r.at = "answer" /\ r.op = "connect" =>
          \/ r.result = "over"
          \/ r.result = "issued" /\ r.flow \in Flows
    /\ r.at = "answer" /\ r.op = "poll" => r.result \in {"pending", "slow", "over", "connected"}

\* The state is what the code can hold; a card has a code exactly while it
\* shows one.
TypeOK ==
    /\ flows \in [Flows -> PendingFlow \union {Nothing}]
    /\ secret \in [Users -> Flows \union {Nothing}]
    /\ meta \in [Users -> Metadata]
    /\ call \in [Calls -> Request] /\ \A c \in Calls : Sound(call[c])
    /\ card \in [Tabs -> Card] /\ \A t \in Tabs : card[t].phase = "awaiting" <=> card[t].flow \in Flows
    /\ gh \in [Flows -> {"unissued", "pending", "approved", "redeemed", "over"}]
    /\ starter \in [Flows -> Users \union {Nothing}]
    /\ quiet \in [Flows -> 0..SlowInterval]
    /\ gone \subseteq Flows /\ torn \subseteq Users

\* A token is kept for the user whose connect it answers: whoever else polls
\* the flow, and whoever connects, disconnects or restarts meanwhile, the
\* grant one account holder approved never lands on another's boxes.
TokenIsTheStarters ==
    \A u \in Users : secret[u] # Nothing => starter[secret[u]] = u

\* The login and scopes shown are those of the token that boxes will get, or
\* are shown as unknown, though the poll awaits GitHub between the two and
\* two polls may be storing at once; only a core killed between its two
\* writes may leave the last connection's name on this one's token, or on
\* none, and then only until that user's next connect or disconnect.
LoginIsTheTokens ==
    \A u \in Users \ torn :
        /\ meta[u].stored <=> secret[u] # Nothing
        /\ meta[u].login \in {secret[u], Nothing}

\* Disconnecting, or connecting anew, gives the earlier codes up: unless a
\* poll of it was in progress at that moment, one approved later never
\* brings a connection back that the user has ended.
GivenUpStaysGivenUp ==
    [][\A u \in Users, f \in Flows :
          secret'[u] = f /\ secret[u] # f => f \notin gone]_vars

\* GitHub is asked about a code at most once per interval, however many tabs
\* and scripts poll it and however slowly it answers; once it has asked to
\* slow down, at most once per longer interval, until the flow ends.
PollsAreSpaced ==
    [][\A c \in Calls :
          LET f == call'[c].flow IN
          (call'[c].at = "github" /\ call[c].at = "core" /\ call'[c].op = "poll")
             => /\ quiet[f] >= Interval
                /\ (flows[f].interval = SlowInterval => quiet[f] >= SlowInterval)]_vars

\* A card that says connected speaks of the code it shows: an answer about an
\* earlier code, cancelled or replaced while it was on its way, moves nothing.
CardSpeaksOfItsCode ==
    [][\A t \in Tabs :
          card'[t].phase = "connected" /\ card[t].phase # "connected"
             => gh[card[t].flow] = "redeemed"]_vars

=============================================================================
