------------------------------ MODULE Admission ------------------------------
(***************************************************************************)
(* The door of POST /servers: whether a create is a replay of an earlier   *)
(* one, whether the configured limits let it in, and the await between     *)
(* both answers and the row they are about.  Several creates of one user   *)
(* are at the door at once, while limits are saved, the month's spend is   *)
(* counted, rows end, and core restarts.                                   *)
(*                                                                         *)
(* What becomes of a row once it is there is ServerLifecycle's subject:    *)
(* here it is requested, up, failed or terminated.  A request is the name  *)
(* of the row it would insert.                                             *)
(*                                                                         *)
(* Translated from packages/core/src/servers/lifecycle.ts (create),        *)
(* jobs/limits.ts, jobs/uptime-ticker.ts and db/repositories/servers.ts.   *)
(***************************************************************************)
EXTENDS Naturals, FiniteSets

CONSTANTS
    Requests,   \* creates that are posted
    Keys,       \* their idempotency keys
    NoRow,
    Servers,    \* values limits.maxServers may be given
    Rates,      \* values limits.createRatePerHour may be given
    Caps,       \* values limits.spendCap may be given
    MaxSpent,   \* bound: spend is counted up to here
    MaxSaves    \* bound on saves of the limits

\* No cap at all is one that no spend reaches.
Uncapped == MaxSpent + 1

ASSUME RequestsAssumption == IsFiniteSet(Requests) /\ NoRow \notin Requests
ASSUME LimitsAssumption == Servers \subseteq Nat /\ Rates \subseteq Nat
ASSUME SpendAssumption == /\ MaxSpent \in Nat /\ MaxSaves \in Nat
                          /\ Caps \subseteq 1..(MaxSpent + 1)

VARIABLES
    key,     \* per request, the key it carries
    pc,      \* where create is
    answer,  \* what it answered
    got,     \* and the row it answered with
    row,     \* per row, its status
    recent,  \* rows created within the last hour
    limits,  \* the configuration now
    spent,   \* estimated spend of the month, in the cap's currency
    due,     \* the month has changed and its baseline is not taken
    over,    \* the snapshot: spend was at or over the cap when last counted
    saves,
    \* history
    launches, \* per key, machines asked for
    allowed,  \* per request, the limits it was let in under
    raced,    \* per request, the rows inserted since it was let in
    counted   \* nothing the snapshot rests on has changed since it was taken

door == <<key, pc, answer, got>>
spend == <<spent, due, over, counted>>
vars == <<door, row, recent, limits, spend, saves, launches, allowed, raced>>

-----------------------------------------------------------------------------
Limits == [servers : Servers, rate : Rates, cap : Caps]

\* A request without the header carries a key of its own.
Init ==
    /\ key \in [Requests -> Keys]
    /\ pc = [r \in Requests |-> "new"] /\ answer = [r \in Requests |-> "none"]
    /\ got = [r \in Requests |-> NoRow]
    /\ row = [r \in Requests |-> "none"] /\ recent = {}
    /\ limits \in Limits
    /\ spent = 0 /\ due = FALSE /\ over = FALSE /\ saves = 0
    /\ launches = [k \in Keys |-> 0]
    /\ allowed = [r \in Requests |-> [servers |-> 0, rate |-> 0]]
    /\ raced = [r \in Requests |-> {}] /\ counted = TRUE

\* Mutant: a row counts only once its machine is there.
ActiveOnceUp == {r \in Requests : row[r] = "up"}

\* countActiveServersForUser: a failed row does not count, its machine or not.
Active == {r \in Requests : row[r] \in {"requested", "up"}}

RowsOf(k) == {r \in Requests : row[r] # "none" /\ key[r] = k}

Answers(r, what, which) ==
    /\ pc' = [pc EXCEPT ![r] = "done"]
    /\ answer' = [answer EXCEPT ![r] = what] /\ got' = [got EXCEPT ![r] = which]
    /\ UNCHANGED key

Replay(r) ==
    /\ pc[r] = "new"
    /\ \E original \in RowsOf(key[r]) : Answers(r, "row", original)
    /\ UNCHANGED <<row, recent, limits, spend, saves, launches, allowed, raced>>

\* checkLimits, in its order: the first limit that is met is the one named.
Refusal ==
    CASE Cardinality(Active) >= limits.servers -> "max_servers"
      [] Cardinality(Active) < limits.servers /\ Cardinality(recent) >= limits.rate -> "create_rate"
      [] Cardinality(Active) < limits.servers /\ Cardinality(recent) < limits.rate /\ over -> "spend_cap"
      [] OTHER -> "none"

Refuse(r) ==
    /\ pc[r] = "new" /\ RowsOf(key[r]) = {} /\ Refusal # "none"
    /\ Answers(r, Refusal, NoRow)
    /\ UNCHANGED <<row, recent, limits, spend, saves, launches, allowed, raced>>

\* Let in, it awaits the provider's catalogue for the price.
Admit(r) ==
    /\ pc[r] = "new" /\ RowsOf(key[r]) = {} /\ Refusal = "none"
    /\ pc' = [pc EXCEPT ![r] = "pricing"]
    /\ allowed' = [allowed EXCEPT ![r] = [servers |-> limits.servers, rate |-> limits.rate]]
    /\ UNCHANGED <<key, answer, got, row, recent, limits, spend, saves, launches, raced>>

\* Mutant: the index on the key is not unique.
NeverTaken(k) == FALSE

\* servers_idempotency_key_idx.
Taken(k) == RowsOf(k) # {}

Insert(r) ==
    /\ pc[r] = "pricing" /\ ~Taken(key[r])
    /\ pc' = [pc EXCEPT ![r] = "launching"]
    /\ row' = [row EXCEPT ![r] = "requested"] /\ recent' = recent \union {r}
    /\ raced' = [q \in Requests |-> IF pc[q] = "pricing" /\ q # r THEN raced[q] \union {r} ELSE {}]
    /\ launches' = [launches EXCEPT ![key[r]] = @ + 1]
    /\ UNCHANGED <<key, answer, got, limits, spend, saves, allowed>>

\* The loser of a race for the key is not given the winner's row.
Clash(r) ==
    /\ pc[r] = "pricing" /\ Taken(key[r])
    /\ Answers(r, "error", NoRow)
    /\ UNCHANGED <<row, recent, limits, spend, saves, launches, allowed, raced>>

\* A row that ended while its machine was asked for stays ended, and the
\* create answers with an error.
Launched(r) ==
    /\ pc[r] = "launching"
    /\ IF row[r] = "requested"
       THEN row' = [row EXCEPT ![r] = "up"] /\ Answers(r, "row", r)
       ELSE UNCHANGED row /\ Answers(r, "error", NoRow)
    /\ UNCHANGED <<recent, limits, spend, saves, launches, allowed, raced>>

LaunchFails(r) ==
    /\ pc[r] = "launching"
    /\ row' = [row EXCEPT ![r] = IF @ = "requested" THEN "failed" ELSE @]
    /\ Answers(r, "error", NoRow)
    /\ UNCHANGED <<recent, limits, spend, saves, launches, allowed, raced>>

-----------------------------------------------------------------------------
(* Around the door.                                                        *)

RowEnds(r) ==
    /\ \/ /\ row[r] \in {"requested", "up"}
          /\ \E to \in {"failed", "terminated"} : row' = [row EXCEPT ![r] = to]
       \/ row[r] = "failed" /\ row' = [row EXCEPT ![r] = "terminated"]
    /\ UNCHANGED <<door, recent, limits, spend, saves, launches, allowed, raced>>

HourPasses(r) ==
    /\ r \in recent /\ recent' = recent \ {r}
    /\ UNCHANGED <<door, row, limits, spend, saves, launches, allowed, raced>>

\* Limits are read live; the snapshot is not taken again.
Save ==
    /\ saves < MaxSaves /\ saves' = saves + 1
    /\ limits' \in Limits \ {limits}
    /\ counted' = (counted /\ limits'.cap = limits.cap)
    /\ UNCHANGED <<door, row, recent, spent, due, over, launches, allowed, raced>>

MonthTurns ==
    /\ due' = TRUE /\ counted' = FALSE
    /\ UNCHANGED <<door, row, recent, limits, spent, over, saves, launches, allowed, raced>>

\* Mutant: the cap is compared before the tick's own accrual is added.
CountsLate(total) ==
    /\ spent' = (IF due THEN 0 ELSE total)
    /\ over' = ((IF due THEN 0 ELSE spent) >= limits.cap)
    /\ due' = FALSE /\ counted' = TRUE

\* refresh: the first of a month takes what has accrued as its baseline.
Counts(total) ==
    /\ spent' = (IF due THEN 0 ELSE total)
    /\ over' = ((IF due THEN 0 ELSE total) >= limits.cap)
    /\ due' = FALSE /\ counted' = TRUE

Billing == {r \in Requests : row[r] \in {"up", "failed"}}

\* The uptime tick accrues, then counts.
Accrued == IF Billing # {} /\ spent < MaxSpent THEN {spent, spent + 1} ELSE {spent}
Tick ==
    /\ \E total \in Accrued : Counts(total)
    /\ UNCHANGED <<door, row, recent, limits, saves, launches, allowed, raced>>

CostsPage ==
    /\ Counts(spent)
    /\ UNCHANGED <<door, row, recent, limits, saves, launches, allowed, raced>>

\* What was at the door is lost; rows stay; the tracker primes itself.
Restart ==
    /\ Counts(spent)
    /\ pc' = [r \in Requests |-> IF pc[r] = "new" THEN "new" ELSE "done"]
    /\ UNCHANGED <<key, answer, got, row, recent, limits, saves, launches, allowed, raced>>

Next ==
    \/ \E r \in Requests :
          \/ Replay(r) \/ Refuse(r) \/ Admit(r) \/ Insert(r) \/ Clash(r)
          \/ Launched(r) \/ LaunchFails(r) \/ RowEnds(r) \/ HourPasses(r)
    \/ Save \/ MonthTurns \/ Tick \/ CostsPage \/ Restart

Spec == Init /\ [][Next]_vars

-----------------------------------------------------------------------------
(* What the door promises.                                                 *)

Answered == {"none", "row", "error", "max_servers", "create_rate", "spend_cap"}

\* The state is what the code can hold; a row is recent only if it exists,
\* and only a request answered with a row names one.
TypeOK ==
    /\ key \in [Requests -> Keys]
    /\ pc \in [Requests -> {"new", "pricing", "launching", "done"}]
    /\ answer \in [Requests -> Answered]
    /\ got \in [Requests -> Requests \union {NoRow}]
    /\ \A r \in Requests : got[r] \in Requests <=> answer[r] = "row"
    /\ row \in [Requests -> {"none", "requested", "up", "failed", "terminated"}]
    /\ recent \subseteq {r \in Requests : row[r] # "none"}
    /\ limits \in Limits /\ spent \in 0..MaxSpent /\ saves \in 0..MaxSaves
    /\ due \in BOOLEAN /\ over \in BOOLEAN /\ counted \in BOOLEAN
    /\ launches \in [Keys -> Nat] /\ allowed \in [Requests -> [servers : Nat, rate : Nat]]
    /\ raced \in [Requests -> SUBSET Requests]

\* A key is good for one server: however its requests overlap, fail, repeat
\* or lose core, one machine is asked for, and whoever is answered with a row
\* is answered with the same one.
KeyMeansOneServer ==
    /\ \A k \in Keys : launches[k] <= 1
    /\ \A q, r \in Requests :
          key[q] = key[r] /\ got[q] # NoRow /\ got[r] # NoRow => got[q] = got[r]

\* The limits on servers and on creates per hour give way to a race and to
\* nothing else: a row that goes in finds no more than it was let in under,
\* beyond the rows that went in while it awaited the catalogue.
LimitsBendOnlyToRaces ==
    [][\A r \in Requests :
          row[r] = "none" /\ row'[r] # "none" =>
             LET room == Cardinality(raced[r]) IN
             /\ Cardinality(Active \union {r}) <= allowed[r].servers + room
             /\ Cardinality(recent \union {r}) <= allowed[r].rate + room]_vars

\* Once the spend is counted against the cap as it stands, and until either
\* changes, no create is let in at or over the cap and none is refused under
\* it.  (A cap just saved binds from the next count on, not the next create.)
CapBindsOnceCounted ==
    [][\A r \in Requests : counted =>
          /\ pc[r] = "new" /\ pc'[r] = "pricing" => spent < limits.cap
          /\ answer[r] = "none" /\ answer'[r] = "spend_cap" => spent >= limits.cap]_vars

=============================================================================
