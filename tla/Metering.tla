------------------------------ MODULE Metering ------------------------------
(***************************************************************************)
(* What core makes of the meters: the uptime ticker credits each billing   *)
(* row with the time since the last tick, and the spend tracker derives    *)
(* the month's spend from a baseline taken at the month's first refresh.   *)
(*                                                                         *)
(* A tick runs between two turns of the event loop, but each of its writes *)
(* is a transaction of its own: core may be killed between any two.        *)
(*                                                                         *)
(* Translated from packages/core/src: jobs/uptime-ticker.ts and            *)
(* jobs/limits.ts.  The clock counts seconds: two timestamps that many     *)
(* seconds apart differ by that many whole seconds or by one less.  Every  *)
(* server costs one unit a second, in one currency.                        *)
(***************************************************************************)
EXTENDS Integers, FiniteSets, Functions

CONSTANTS
    Server,
    MonthLength,   \* seconds in a month
    Horizon,       \* bound on the clock
    MaxCrashes,    \* bound on crashes of core
    MaxSetbacks    \* bound on the times the system clock is set back

ASSUME ServerAssumption == IsFiniteSet(Server)
ASSUME ClockAssumption == MonthLength \in Nat \ {0} /\ Horizon \in Nat
ASSUME MishapAssumption == MaxCrashes \in Nat /\ MaxSetbacks \in Nat

VARIABLES
    now,        \* the system clock
    meter,      \* isBillingRow of each row: what core last heard
    anchor,     \* the earlier of billingSince and startedAt
    uptime,     \* totalUptimeSeconds, and with it estimatedTotalCost
    watermark,  \* the setting jobs.uptime.accruedThrough
    baseline,   \* the settings jobs.spend.baseline.<month>
    up,         \* core runs
    tick,       \* the tick core is in the middle of
    spend,      \* the spend snapshot last computed
    steady,     \* history: the meter has not stopped since it first started
    credited,   \* history: what the ticks of each month have credited
    ticks,      \* history: ticks that moved the watermark on
    torn,       \* history: a crash cut a tick short, or the clock was set back
    crashes, setbacks

vars == <<now, meter, anchor, uptime, watermark, baseline, up, tick, spend,
          steady, credited, ticks, torn, crashes, setbacks>>

Never == -1
Time == 0..Horizon
Month == 0..(Horizon \div MonthLength)
MonthOf(t) == t \div MonthLength

NoTick == [phase |-> "none", todo |-> {}]

\* Times stay within the horizon and uptime never shrinks below nothing, also when
\* the clock is set back between two ticks.
TypeOK ==
    /\ now \in Time
    /\ meter \in [Server -> BOOLEAN]
    /\ anchor \in [Server -> Time \union {Never}]
    /\ uptime \in [Server -> Nat]
    /\ watermark \in Time \union {Never}
    /\ baseline \in [Month -> Nat \union {Never}]
    /\ up \in BOOLEAN
    /\ tick \in [phase : {"none", "rows", "cap"}, todo : SUBSET Server]
    /\ spend \in [month : Month, spent : Nat]
    /\ steady \in [Server -> BOOLEAN]
    /\ credited \in [Month -> Nat]
    /\ ticks \in Nat
    /\ torn \in BOOLEAN
    /\ crashes \in 0..MaxCrashes
    /\ setbacks \in 0..MaxSetbacks

Init ==
    /\ now = 0
    /\ meter = [s \in Server |-> FALSE]
    /\ anchor = [s \in Server |-> Never]
    /\ uptime = [s \in Server |-> 0]
    /\ watermark = Never
    /\ baseline = [m \in Month |-> IF m = 0 THEN 0 ELSE Never]
    /\ up = TRUE
    /\ tick = NoTick
    /\ spend = [month |-> 0, spent |-> 0]
    /\ steady = [s \in Server |-> TRUE]
    /\ credited = [m \in Month |-> 0]
    /\ ticks = 0
    /\ torn = FALSE
    /\ crashes = 0
    /\ setbacks = 0

Between == tick.phase = "none"
Idles == up /\ Between

Greater(a, b) == IF a >= b THEN a ELSE b

rowVars == <<meter, anchor, uptime>>
settingVars == <<watermark, baseline>>
history == <<steady, credited, ticks, torn>>
boundVars == <<crashes, setbacks>>

-----------------------------------------------------------------------------
(***************************************************************************)
(* The clock, and what core hears of the machines.                         *)
(***************************************************************************)

\* A second passes, with core up between two ticks, or down.
Passes ==
    /\ Between /\ now < Horizon
    /\ now' = now + 1
    /\ UNCHANGED <<rowVars, settingVars, up, tick, spend, steady, credited,
                   ticks, torn, boundVars>>

\* The system clock is corrected backwards.
SetBack ==
    /\ Between /\ now > 0 /\ setbacks < MaxSetbacks
    /\ now' = now - 1
    /\ torn' = TRUE
    /\ setbacks' = setbacks + 1
    /\ UNCHANGED <<rowVars, settingVars, up, tick, spend, steady,
                   credited, ticks, crashes>>

\* Core hears from the provider that the machine bills, or no longer does.  The
\* anchor is written once, when it is first found billing.
MeterSwitches(s) ==
    /\ Idles
    /\ meter' = [meter EXCEPT ![s] = ~@]
    /\ anchor' = [anchor EXCEPT ![s] = IF @ = Never THEN now ELSE @]
    /\ steady' = [steady EXCEPT ![s] = @ /\ ~meter[s]]
    /\ UNCHANGED <<now, uptime, settingVars, up, tick, spend, credited,
                   ticks, torn, boundVars>>

-----------------------------------------------------------------------------
(***************************************************************************)
(* The spend tracker.                                                      *)
(***************************************************************************)

Lifetime == FoldFunction(LAMBDA a, b : a + b, 0, uptime)

\* Mutant: the month's spend is the lifetime's.
RefreshWithoutBaseline ==
    /\ spend' = [month |-> MonthOf(now), spent |-> Lifetime]
    /\ UNCHANGED baseline

\* The month's spend is what has accrued since its first refresh.
Refresh ==
    LET month == MonthOf(now)
        base  == IF baseline[month] = Never THEN Lifetime ELSE baseline[month]
    IN  /\ baseline' = [baseline EXCEPT ![month] = base]
        /\ spend' = [month |-> month, spent |-> Greater(0, Lifetime - base)]

\* The costs page refreshes the snapshot.
CostsRead ==
    /\ Idles
    /\ Refresh
    /\ UNCHANGED <<now, rowVars, watermark, up, tick, history, boundVars>>

-----------------------------------------------------------------------------
(***************************************************************************)
(* The uptime ticker.                                                      *)
(***************************************************************************)

\* A tick lists the billing rows.
TickBegin ==
    /\ Idles
    /\ tick' = [phase |-> "rows", todo |-> {s \in Server : meter[s]}]
    /\ UNCHANGED <<now, rowVars, settingVars, up, spend, history, boundVars>>

\* Mutant: the whole lifetime is credited again with every tick.
SliceSinceAnchor(s) == now - anchor[s]

\* Mutant: with no watermark yet, what ran before the first tick is lost.
SliceSinceNow(s) == now - Greater(IF watermark = Never THEN now ELSE watermark, anchor[s])

\* The time since the last tick, or since the row's own start if that is later.
Slice(s) == now - Greater(watermark, anchor[s])

\* Mutant: `if (seconds <= 0) continue` is gone.
CreditEvenLess(s, fraction) == Slice(s) - fraction

\* Whole seconds, and none when the clock went back.
Credit(s, fraction) == Greater(0, Slice(s) - fraction)

\* One row's write: uptime and cost together.
Accrue(s) ==
    /\ s \in tick.todo
    /\ tick' = [tick EXCEPT !.todo = @ \ {s}]
    /\ \E fraction \in {0, 1} :
        LET seconds == Credit(s, fraction) IN
        /\ uptime' = [uptime EXCEPT ![s] = @ + seconds]
        /\ credited' = [credited EXCEPT ![MonthOf(now)] = @ + seconds]
    /\ UNCHANGED <<now, meter, anchor, settingVars, up, spend, steady,
                   ticks, torn, boundVars>>

\* All rows are written: the watermark moves.
TickMarks ==
    /\ tick.phase = "rows" /\ tick.todo = {}
    /\ tick' = [tick EXCEPT !.phase = "cap"]
    /\ watermark' = now
    /\ ticks' = IF now > watermark THEN ticks + 1 ELSE ticks
    /\ UNCHANGED <<now, rowVars, baseline, up, spend, steady, credited,
                   torn, boundVars>>

\* The tick ends with a fresh snapshot, against which the cap is evaluated.
TickEnds ==
    /\ tick.phase = "cap"
    /\ tick' = NoTick
    /\ Refresh
    /\ UNCHANGED <<now, rowVars, watermark, up, history, boundVars>>

-----------------------------------------------------------------------------

\* Killed, perhaps in the middle of a tick: what was written stays written.
Crash ==
    /\ up /\ crashes < MaxCrashes
    /\ up' = FALSE
    /\ tick' = NoTick
    /\ torn' = (torn \/ tick.phase = "rows")
    /\ crashes' = crashes + 1
    /\ UNCHANGED <<now, rowVars, settingVars, spend, steady, credited,
                   ticks, setbacks>>

\* A new tracker primes itself before anything accrues.
Boot ==
    /\ ~up
    /\ up' = TRUE
    /\ Refresh
    /\ UNCHANGED <<now, rowVars, watermark, tick, history, boundVars>>

Next ==
    \/ Passes \/ SetBack
    \/ CostsRead
    \/ TickBegin \/ TickMarks \/ TickEnds
    \/ Crash \/ Boot
    \/ \E s \in Server : MeterSwitches(s) \/ Accrue(s)

Spec == Init /\ [][Next]_vars

(***************************************************************************)
(* Properties.                                                             *)
(***************************************************************************)

\* No second is credited twice and none from before the machine: however ticks,
\* restarts and switches fall, a row's uptime is at most the time since its
\* anchor, as long as no crash cut a tick short and the clock went forward.
NoSecondTwice ==
    ~torn => \A s \in Server : anchor[s] # Never => uptime[s] <= now - anchor[s]

\* A row whose meter has never stopped loses nothing to restarts and downtime:
\* its uptime covers all of the time from its anchor to the
\* watermark, but for the fraction of a second each tick may drop.
NothingLost ==
    \A s \in Server :
        /\ watermark # Never /\ meter[s] /\ steady[s] /\ setbacks = 0
        => uptime[s] + ticks >= watermark - anchor[s]

\* The month is never charged with what earlier months' ticks credited.
MonthIsNotOvercharged ==
    setbacks = 0 => spend.spent <= credited[spend.month]

=============================================================================
