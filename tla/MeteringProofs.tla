--------------------------- MODULE MeteringProofs ---------------------------
(***************************************************************************)
(* No second is credited twice and none is lost, and no month is charged   *)
(* more than was credited in it, for any number of servers, any horizon    *)
(* and any number of crashes.  The inductive invariant follows a tick: a   *)
(* row it has written is covered up to now, the others up to the           *)
(* watermark; the month follows the sum of the rows, of which a write      *)
(* moves one.                                                              *)
(***************************************************************************)
EXTENDS Metering, TLAPS, FiniteSetTheorems, WellFoundedInduction

\* The part of the type invariant the argument needs.
Typed ==
    /\ now \in Int
    /\ meter \in [Server -> BOOLEAN]
    /\ anchor \in [Server -> Int]
    /\ uptime \in [Server -> Int]
    /\ watermark \in Int
    /\ tick \in [phase : {"none", "rows", "cap"}, todo : SUBSET Server]
    /\ torn \in BOOLEAN

\* A billing row has an anchor, and a tick visits billing rows only.
Anchored ==
    /\ \A s \in Server : anchor[s] >= Never
    /\ \A s \in Server : meter[s] => anchor[s] # Never
    /\ \A s \in tick.todo : meter[s]
    /\ tick.phase # "rows" => tick.todo = {}

\* Up to where a row's uptime is accounted for.
CoveredTo(s) ==
    IF tick.phase = "rows" /\ s \notin tick.todo
    THEN now
    ELSE Greater(watermark, anchor[s])

\* While no mishap has happened, nothing lies in the future and every row's
\* uptime fits between its anchor and where it is covered to.
Covered ==
    ~torn =>
        /\ watermark <= now
        /\ \A s \in Server :
            /\ anchor[s] <= now
            /\ anchor[s] = Never => uptime[s] = 0
            /\ anchor[s] # Never => uptime[s] <= CoveredTo(s) - anchor[s]

CreditInv == now >= 0 /\ Typed /\ Anchored /\ Covered

\* The larger of two integers.
LEMMA GreaterBounds ==
    ASSUME NEW a \in Int, NEW b \in Int
    PROVE  /\ Greater(a, b) \in Int
           /\ Greater(a, b) >= a
           /\ Greater(a, b) >= b
           /\ Greater(a, b) = a \/ Greater(a, b) = b
BY DEF Greater

\* Nothing has happened yet.
LEMMA CreditInit == Init => CreditInv
<1> SUFFICES ASSUME Init PROVE CreditInv
    OBVIOUS
<1>1. /\ now = 0 /\ watermark = -1 /\ torn = FALSE
      /\ meter = [s \in Server |-> FALSE]
      /\ anchor = [s \in Server |-> -1]
      /\ uptime = [s \in Server |-> 0]
      /\ tick = [phase |-> "none", todo |-> {}]
    BY DEF Init, Never, NoTick
<1>2. Typed
  <2>1. meter \in [Server -> BOOLEAN]
    BY <1>1
  <2>2. anchor \in [Server -> Int] /\ uptime \in [Server -> Int]
    BY <1>1
  <2>3. tick \in [phase : {"none", "rows", "cap"}, todo : SUBSET Server]
    BY <1>1
  <2>4. now \in Int /\ watermark \in Int
    BY <1>1
  <2>5. torn \in BOOLEAN
    BY <1>1, Zenon
  <2> QED BY <2>1, <2>2, <2>3, <2>4, <2>5, Zenon DEF Typed
<1>3. tick.phase = "none" /\ tick.todo = {}
    BY <1>1
<1>4. \A s \in Server : ~meter[s] /\ anchor[s] = -1 /\ uptime[s] = 0
    BY <1>1
<1>5. Anchored
    BY <1>3, <1>4 DEF Anchored, Never
<1>6. now >= 0 /\ Covered
    BY <1>1, <1>4 DEF Covered, Never
<1> QED BY <1>2, <1>5, <1>6 DEF CreditInv

\* Nothing the argument speaks of changes.
LEMMA CreditStutter ==
    ASSUME CreditInv,
           UNCHANGED <<now, meter, anchor, uptime, watermark, tick, torn>>
    PROVE  CreditInv'
BY DEF CreditInv, Typed, Anchored, Covered, CoveredTo, Greater

\* Time passes between ticks.
LEMMA CreditPasses == CreditInv /\ Passes => CreditInv'
<1> SUFFICES ASSUME CreditInv, Passes PROVE CreditInv'
    OBVIOUS
<1> USE DEF CreditInv, Typed, Anchored, Covered, CoveredTo, Passes, Between, rowVars, settingVars, Greater, Never
<1>1. (now >= 0 /\ Typed /\ Anchored)'
    OBVIOUS
<1>2. Covered'
    OBVIOUS
<1> QED BY <1>1, <1>2

\* The clock going back voids the claim.
LEMMA CreditSetBack == CreditInv /\ SetBack => CreditInv'
BY DEF CreditInv, Typed, Anchored, Covered, SetBack, rowVars, settingVars

\* A meter is switched between ticks; a first anchor is now.
LEMMA CreditSwitches ==
    ASSUME CreditInv, NEW s \in Server, MeterSwitches(s)
    PROVE  CreditInv'
<1> USE DEF CreditInv, Typed, Anchored, Covered, MeterSwitches, Idles, Between, settingVars, Never
<1>1. (now >= 0 /\ Typed /\ Anchored)'
    OBVIOUS
<1>2. Covered'
    BY GreaterBounds DEF CoveredTo, Greater
<1> QED BY <1>1, <1>2

\* A tick starts with every row covered to the watermark, and the rows it will
\* not visit a fortiori to now.
LEMMA CreditTickBegin == CreditInv /\ TickBegin => CreditInv'
<1> SUFFICES ASSUME CreditInv, TickBegin PROVE CreditInv'
    OBVIOUS
<1> USE DEF CreditInv, Typed, Anchored, TickBegin, Idles, Between, rowVars, settingVars, history
<1>1. (now >= 0 /\ Typed /\ Anchored)'
    OBVIOUS
<1>2. Covered'
    BY GreaterBounds DEF Covered, CoveredTo, Greater, Never
<1> QED BY <1>1, <1>2

\* A visited row is credited with no more than what it lacked.
LEMMA CreditAccrue ==
    ASSUME CreditInv, NEW s \in Server, Accrue(s)
    PROVE  CreditInv'
<1>1. PICK fraction \in {0, 1} :
        uptime' = [uptime EXCEPT ![s] = @ + Credit(s, fraction)]
    BY DEF Accrue
<1>2. /\ tick' = [tick EXCEPT !.todo = @ \ {s}]
      /\ s \in tick.todo
      /\ UNCHANGED <<now, meter, anchor, watermark, torn>>
    BY DEF Accrue, settingVars
<1> USE DEF CreditInv, Typed, Anchored
<1>3. /\ Credit(s, fraction) \in Int
      /\ \/ Credit(s, fraction) <= 0
         \/ Credit(s, fraction) <= now - Greater(watermark, anchor[s])
    BY GreaterBounds DEF Credit, Slice, Greater
<1>4. tick.phase = "rows" /\ tick'.phase = "rows" /\ tick'.todo = tick.todo \ {s}
    BY <1>2
<1>5. Typed'
    BY <1>1, <1>2, <1>3
<1>6. (now >= 0 /\ Anchored)'
    BY <1>2, <1>4
<1>7. Covered'
    BY <1>1, <1>2, <1>3, <1>4, GreaterBounds DEF Covered, CoveredTo, Greater, Never
<1> QED BY <1>5, <1>6, <1>7

\* When all rows are covered to now, so is the watermark.
LEMMA CreditTickMarks == CreditInv /\ TickMarks => CreditInv'
<1> SUFFICES ASSUME CreditInv, TickMarks PROVE CreditInv'
    OBVIOUS
<1> USE DEF CreditInv, Typed, Anchored, TickMarks, rowVars
<1>1. (now >= 0 /\ Typed /\ Anchored)'
    OBVIOUS
<1>2. Covered'
    BY GreaterBounds DEF Covered, CoveredTo, Greater, Never
<1> QED BY <1>1, <1>2

\* The end of a tick, after the watermark.
LEMMA CreditTickEnds == CreditInv /\ TickEnds => CreditInv'
<1> SUFFICES ASSUME CreditInv, TickEnds PROVE CreditInv'
    OBVIOUS
<1> USE DEF CreditInv, Typed, Anchored, TickEnds, NoTick, rowVars, history
<1>1. (now >= 0 /\ Typed /\ Anchored)'
    OBVIOUS
<1>2. Covered'
    BY GreaterBounds DEF Covered, CoveredTo, Greater, Never
<1> QED BY <1>1, <1>2

\* A crash in the middle of the rows voids the claim; any other loses nothing.
LEMMA CreditCrash == CreditInv /\ Crash => CreditInv'
<1> SUFFICES ASSUME CreditInv, Crash PROVE CreditInv'
    OBVIOUS
<1> USE DEF CreditInv, Typed, Anchored, Crash, NoTick, rowVars, settingVars
<1>1. (now >= 0 /\ Typed /\ Anchored)'
    OBVIOUS
<1>2. Covered'
    BY GreaterBounds DEF Covered, CoveredTo, Greater, Never
<1> QED BY <1>1, <1>2

\* Every step keeps the invariant.
LEMMA CreditStep == CreditInv /\ [Next]_vars => CreditInv'
<1> SUFFICES ASSUME CreditInv, [Next]_vars PROVE CreditInv'
    OBVIOUS
<1>1. CASE Passes BY <1>1, CreditPasses
<1>2. CASE SetBack BY <1>2, CreditSetBack
<1>3. CASE CostsRead BY <1>3, CreditStutter DEF CostsRead, rowVars, history
<1>4. CASE TickBegin BY <1>4, CreditTickBegin
<1>5. CASE TickMarks BY <1>5, CreditTickMarks
<1>6. CASE TickEnds BY <1>6, CreditTickEnds
<1>7. CASE Crash BY <1>7, CreditCrash
<1>8. CASE Boot BY <1>8, CreditStutter DEF Boot, rowVars, history
<1>9. ASSUME NEW s \in Server, MeterSwitches(s) PROVE CreditInv'
    BY <1>9, CreditSwitches
<1>10. ASSUME NEW s \in Server, Accrue(s) PROVE CreditInv'
    BY <1>10, CreditAccrue
<1>11. CASE UNCHANGED vars BY <1>11, CreditStutter DEF vars
<1> QED BY <1>1, <1>2, <1>3, <1>4, <1>5, <1>6, <1>7, <1>8, <1>9, <1>10, <1>11 DEF Next

\* Covered to now at the latest, no row has more than the time since its anchor.
LEMMA CreditBound == CreditInv => NoSecondTwice
BY GreaterBounds DEF CreditInv, Typed, Covered, CoveredTo, NoSecondTwice, Greater

\* The invariant of jobs/uptime-ticker.ts: at every point of a tick, each row's
\* uptime is covered by the time up to now or to the watermark.
THEOREM CreditInvariant == Spec => []CreditInv
<1>1. Init => CreditInv BY CreditInit
<1>2. CreditInv /\ [Next]_vars => CreditInv' BY CreditStep
<1> QED BY <1>1, <1>2, PTL DEF Spec

\* However ticks, switches and restarts fall, the uptime ticker credits no
\* second twice unless a crash cut a tick short or the clock was set back.
THEOREM NeverTwice == Spec => []NoSecondTwice
<1>1. CreditInv => NoSecondTwice BY CreditBound
<1> QED BY CreditInvariant, <1>1, PTL

-----------------------------------------------------------------------------
(***************************************************************************)
(* The sum of the uptimes.                                                 *)
(***************************************************************************)

\* Later times are of no earlier month.
LEMMA MonthsInOrder ==
    ASSUME NEW a \in Nat, NEW b \in Nat, a <= b
    PROVE  MonthOf(a) \in Nat /\ MonthOf(a) <= MonthOf(b)
<1> DEFINE M == MonthLength
           p == a \div M
           q == b \div M
<1>1. M \in Nat /\ M > 0
    BY ClockAssumption
<1>2. p \in Int /\ q \in Int
    BY <1>1
<1>3. M * p <= a /\ a < M * p + M /\ M * q <= b /\ b < M * q + M
    BY <1>1
<1> HIDE DEF p, q, M
<1>4. p >= 0
  <2>1. p < 0 => M * p + M <= 0
    BY <1>1, <1>2
  <2> QED BY <1>1, <1>2, <1>3, <2>1
<1>5. p <= q
  <2>1. SUFFICES ASSUME p >= q + 1 PROVE FALSE
    BY <1>2
  <2>2. M * p >= M * (q + 1)
    BY <1>1, <1>2, <2>1
  <2>3. M * (q + 1) = M * q + M
    BY <1>1, <1>2
  <2> QED BY <1>1, <1>2, <1>3, <2>2, <2>3
<1> QED BY <1>2, <1>4, <1>5 DEF MonthOf, p, q, M

\* A set of natural numbers has a least one.
LEMMA LeastNatural ==
    ASSUME NEW B \in SUBSET Nat, B # {}
    PROVE  \E n \in B : \A m \in B : n <= m
<1>1. PICK n \in B : \A m \in B : ~(<<m, n>> \in OpToRel(<, Nat))
    BY NatLessThanWellFounded, WFMin DEF OpToRel
<1>2. \A m \in B : ~(m < n)
    BY <1>1 DEF OpToRel
<1> QED BY <1>2

\* The tally of u over a set: of an element picked, and of the rest.
Pick(r) == CHOOSE x \in r : TRUE

Tally(u, g, r) == IF r = {} THEN 0 ELSE u[Pick(r)] + g[r \ {Pick(r)}]

Total(u, S) == CHOOSE g : g = [r \in SUBSET S |-> Tally(u, g, r)]

\* What FoldFunction makes of the uptimes.
LEMMA LifetimeIs == Lifetime = Total(uptime, DOMAIN uptime)[DOMAIN uptime]
BY DEF Lifetime, FoldFunction, FoldFunctionOnSet, MapThenFoldSet, Total, Tally, Pick

\* And in the next state.
LEMMA LifetimeNextIs == Lifetime' = Total(uptime', DOMAIN uptime')[DOMAIN uptime']
BY DEF Lifetime, FoldFunction, FoldFunctionOnSet, MapThenFoldSet, Total, Tally, Pick

\* A set without the element picked has one element less.
LEMMA WithoutOne ==
    ASSUME NEW S, IsFiniteSet(S), NEW r \in SUBSET S, r # {}
    PROVE  /\ Pick(r) \in r
           /\ r \ {Pick(r)} \in SUBSET S
           /\ Cardinality(r) \in Nat
           /\ Cardinality(r \ {Pick(r)}) = Cardinality(r) - 1
<1>1. Pick(r) \in r
    BY DEF Pick
<1>2. IsFiniteSet(r)
    BY FS_Subset
<1> QED BY <1>1, <1>2, FS_RemoveElement, FS_CardinalityType

\* There is such a tally: on sets of at most n elements, for every n.
LEMMA TotalIs ==
    ASSUME NEW S, IsFiniteSet(S), NEW u
    PROVE  Total(u, S) = [r \in SUBSET S |-> Tally(u, Total(u, S), r)]
<1> DEFINE Upto(n) == {r \in SUBSET S : Cardinality(r) <= n}
           Reaches(n) == \E g : g = [r \in Upto(n) |-> Tally(u, g, r)]
           Missed == {n \in Nat : ~Reaches(n)}
<1>1. \A r \in SUBSET S : Cardinality(r) \in Nat /\ (Cardinality(r) = 0 <=> r = {})
    BY FS_Subset, FS_CardinalityType, FS_EmptySet
<1>2. Reaches(0)
  <2>1. Upto(0) = {{}}
    BY <1>1, FS_EmptySet
  <2>2. [r \in Upto(0) |-> 0] = [r \in Upto(0) |-> Tally(u, [x \in Upto(0) |-> 0], r)]
    BY <2>1 DEF Tally
  <2> QED BY <2>2
<1>3. ASSUME NEW n \in Nat, Reaches(n) PROVE Reaches(n + 1)
  <2>1. PICK g : g = [r \in Upto(n) |-> Tally(u, g, r)]
    BY <1>3
  <2> DEFINE h == [r \in Upto(n + 1) |-> Tally(u, g, r)]
  <2>2. \A r \in Upto(n) : r \in Upto(n + 1) /\ h[r] = g[r]
    BY <1>1, <2>1
  <2>3. \A r \in Upto(n + 1) : r # {} => r \ {Pick(r)} \in Upto(n)
    BY WithoutOne
  <2> HIDE DEF Upto
  <2>4. \A r \in Upto(n + 1) : Tally(u, g, r) = Tally(u, h, r)
    BY <2>2, <2>3 DEF Tally
  <2>5. h = [r \in Upto(n + 1) |-> Tally(u, h, r)]
    BY <2>4
  <2> QED BY <2>5
<1>4. Missed = {}
  <2>1. SUFFICES ASSUME Missed # {} PROVE FALSE
    OBVIOUS
  <2> HIDE DEF Reaches
  <2>2. PICK n \in Missed : \A m \in Missed : n <= m
    BY <2>1, LeastNatural
  <2>3. n # 0 /\ n - 1 \in Nat
    BY <1>2
  <2>4. Reaches(n - 1)
    BY <2>2, <2>3
  <2>5. Reaches((n - 1) + 1)
    BY <1>3, <2>3, <2>4
  <2> QED BY <2>2, <2>3, <2>5
<1>5. Cardinality(S) \in Nat /\ Upto(Cardinality(S)) = SUBSET S
    BY FS_CardinalityType, FS_Subset
<1>6. Reaches(Cardinality(S))
    BY <1>4, <1>5
<1>7. \E g : g = [r \in SUBSET S |-> Tally(u, g, r)]
    BY <1>5, <1>6
<1> QED BY <1>7 DEF Total

\* What holds of the empty set, and of a set when it holds of the set without the
\* element picked, holds of every subset.
LEMMA SubsetsInTurn ==
    ASSUME NEW S, IsFiniteSet(S), NEW G,
           {} \in G,
           \A r \in SUBSET S : r # {} /\ r \ {Pick(r)} \in G => r \in G
    PROVE  SUBSET S \subseteq G
<1> DEFINE B == {Cardinality(r) : r \in (SUBSET S) \ G}
<1>1. SUFFICES ASSUME B # {} PROVE FALSE
    OBVIOUS
<1>2. B \subseteq Nat
    BY FS_Subset, FS_CardinalityType
<1>3. PICK n \in B : \A m \in B : n <= m
    BY <1>1, <1>2, LeastNatural
<1>4. PICK r \in (SUBSET S) \ G : n = Cardinality(r)
    BY <1>3
<1>5. /\ r # {} /\ r \ {Pick(r)} \in SUBSET S
      /\ Cardinality(r) \in Nat /\ Cardinality(r \ {Pick(r)}) = Cardinality(r) - 1
    BY <1>4, WithoutOne
<1>6. r \ {Pick(r)} \notin G
    BY <1>4, <1>5
<1> QED BY <1>3, <1>4, <1>5, <1>6

\* A tally of natural numbers is one.
LEMMA TotalNatural ==
    ASSUME NEW S, IsFiniteSet(S), NEW u \in [S -> Nat]
    PROVE  \A r \in SUBSET S : Total(u, S)[r] \in Nat
<1> DEFINE G == {r \in SUBSET S : Total(u, S)[r] \in Nat}
<1>1. \A r \in SUBSET S : Total(u, S)[r] = Tally(u, Total(u, S), r)
  <2> DEFINE T == Total(u, S)
  <2>1. T = [r \in SUBSET S |-> Tally(u, T, r)]
    BY TotalIs
  <2> HIDE DEF T
  <2>2. \A r \in SUBSET S : T[r] = Tally(u, T, r)
    BY <2>1
  <2> QED BY <2>2 DEF T
<1>2. {} \in G
    BY <1>1 DEF Tally
<1>3. ASSUME NEW r \in SUBSET S, r # {}, r \ {Pick(r)} \in G PROVE r \in G
    BY <1>1, <1>3, WithoutOne DEF Tally
<1> HIDE DEF G
<1>4. SUBSET S \subseteq G
    BY <1>2, <1>3, SubsetsInTurn
<1> USE DEF G
<1> QED BY <1>4

\* Adding to one number adds as much to the tally.
LEMMA TotalAdds ==
    ASSUME NEW S, IsFiniteSet(S), NEW u \in [S -> Nat], NEW s \in S, NEW d \in Nat
    PROVE  Total([u EXCEPT ![s] = @ + d], S)[S] = Total(u, S)[S] + d
<1> DEFINE v == [u EXCEPT ![s] = @ + d]
           T == Total(u, S)
           V == Total(v, S)
           G == {r \in SUBSET S : V[r] = T[r] + (IF s \in r THEN d ELSE 0)}
<1>1. v \in [S -> Nat] /\ v[s] = u[s] + d /\ \A x \in S \ {s} : v[x] = u[x]
    OBVIOUS
<1> HIDE DEF v
<1>2. \A r \in SUBSET S : T[r] \in Nat /\ V[r] \in Nat
    BY <1>1, TotalNatural
<1>8. T = [r \in SUBSET S |-> Tally(u, T, r)] /\ V = [r \in SUBSET S |-> Tally(v, V, r)]
    BY TotalIs
<1> HIDE DEF T, V
<1>3. \A r \in SUBSET S : T[r] = Tally(u, T, r) /\ V[r] = Tally(v, V, r)
    BY <1>8
<1>4. {} \in G
    BY <1>3 DEF Tally
<1>5. ASSUME NEW r \in SUBSET S, r # {}, r \ {Pick(r)} \in G PROVE r \in G
  <2>1. Pick(r) \in r /\ r \ {Pick(r)} \in SUBSET S
    BY <1>5, WithoutOne
  <2>2. T[r] = u[Pick(r)] + T[r \ {Pick(r)}] /\ V[r] = v[Pick(r)] + V[r \ {Pick(r)}]
    BY <1>3, <1>5 DEF Tally
  <2>3. V[r \ {Pick(r)}] = T[r \ {Pick(r)}] + (IF s \in r \ {Pick(r)} THEN d ELSE 0)
    BY <1>5
  <2>4. CASE s = Pick(r)
    BY <1>1, <1>2, <2>1, <2>2, <2>3, <2>4
  <2>5. CASE s # Pick(r)
    BY <1>1, <1>2, <2>1, <2>2, <2>3, <2>5
  <2> QED BY <2>4, <2>5
<1> HIDE DEF G
<1>6. SUBSET S \subseteq G
    BY <1>4, <1>5, SubsetsInTurn
<1> USE DEF G
<1>7. V[S] = T[S] + d
    BY <1>6
<1> QED BY <1>7 DEF T, V, v

\* The sum is a natural number, stays when the uptimes do, and grows with one.
LEMMA LifetimeKnown ==
    ASSUME uptime \in [Server -> Nat]
    PROVE  /\ Lifetime \in Nat
           /\ UNCHANGED uptime => Lifetime' = Lifetime
           /\ \A s \in Server, d \in Nat :
                 uptime' = [uptime EXCEPT ![s] = @ + d] => Lifetime' = Lifetime + d
<1>1. DOMAIN uptime = Server /\ IsFiniteSet(Server)
    BY ServerAssumption
<1>2. Lifetime \in Nat
    BY <1>1, LifetimeIs, TotalNatural
<1>3. UNCHANGED uptime => Lifetime' = Lifetime
    BY LifetimeIs, LifetimeNextIs
<1>4. ASSUME NEW s \in Server, NEW d \in Nat, uptime' = [uptime EXCEPT ![s] = @ + d]
      PROVE  Lifetime' = Lifetime + d
  <2>1. DOMAIN uptime' = Server
    BY <1>1, <1>4
  <2>2. Lifetime = Total(uptime, Server)[Server] /\ Lifetime' = Total(uptime', Server)[Server]
    BY <1>1, <2>1, LifetimeIs, LifetimeNextIs
  <2>3. Total([uptime EXCEPT ![s] = @ + d], Server)[Server] = Total(uptime, Server)[Server] + d
    BY <1>1, TotalAdds
  <2> QED BY <1>4, <2>2, <2>3
<1> QED BY <1>2, <1>3, <1>4

-----------------------------------------------------------------------------
(***************************************************************************)
(* Types.                                                                  *)
(***************************************************************************)

\* Times within the horizon are of its months.
LEMMA MonthKnown ==
    ASSUME NEW t \in Time
    PROVE  MonthOf(t) \in Month
<1>1. t \in Nat /\ Horizon \in Nat /\ t <= Horizon
    BY ClockAssumption DEF Time
<1>2. MonthOf(t) \in Nat /\ MonthOf(t) <= MonthOf(Horizon) /\ MonthOf(Horizon) \in Nat
    BY <1>1, MonthsInOrder
<1> QED BY <1>2 DEF Month, MonthOf

\* A credit is a natural number.
LEMMA CreditKnown ==
    ASSUME TypeOK, NEW s \in Server, NEW fraction \in {0, 1}
    PROVE  /\ Credit(s, fraction) \in Nat
           /\ Credit(s, fraction) >= now - watermark - fraction \/ Credit(s, fraction) >= now - anchor[s] - fraction
<1>1. now \in Int /\ watermark \in Int /\ anchor[s] \in Int
    BY ClockAssumption DEF TypeOK, Time, Never
<1> QED BY <1>1 DEF Credit, Slice, Greater

LEMMA InitTyped == Init => TypeOK
<1> SUFFICES ASSUME Init PROVE TypeOK
    OBVIOUS
<1> USE DEF Init, Never
<1>1. now \in Time /\ 0 \in Month
    BY ClockAssumption, MonthKnown, MonthsInOrder DEF Time, Month
<1>2. baseline \in [Month -> Nat \union {Never}] /\ credited \in [Month -> Nat]
    OBVIOUS
<1>3. spend \in [month : Month, spent : Nat]
    BY <1>1
<1>4. tick \in [phase : {"none", "rows", "cap"}, todo : SUBSET Server]
    BY DEF NoTick
<1>5. anchor \in [Server -> Time \union {Never}] /\ uptime \in [Server -> Nat]
    OBVIOUS
<1>6. meter \in [Server -> BOOLEAN] /\ steady \in [Server -> BOOLEAN]
    OBVIOUS
<1>7. crashes \in 0..MaxCrashes /\ setbacks \in 0..MaxSetbacks
    BY MishapAssumption
<1>8. up \in BOOLEAN /\ torn \in BOOLEAN
    BY Zenon
<1> QED BY <1>1, <1>2, <1>3, <1>4, <1>5, <1>6, <1>7, <1>8 DEF TypeOK

\* A refresh leaves a baseline and a snapshot of the month.
LEMMA RefreshTyped ==
    ASSUME TypeOK, Refresh
    PROVE  /\ baseline' \in [Month -> Nat \union {Never}]
           /\ spend' \in [month : Month, spent : Nat]
<1> DEFINE month == MonthOf(now)
           base  == IF baseline[month] = Never THEN Lifetime ELSE baseline[month]
<1>1. month \in Month /\ Lifetime \in Nat
    BY MonthKnown, LifetimeKnown DEF TypeOK
<1>2. base \in Nat
    BY <1>1 DEF TypeOK
<1>3. baseline' = [baseline EXCEPT ![month] = base] /\ spend' = [month |-> month, spent |-> Greater(0, Lifetime - base)]
    BY DEF Refresh
<1>4. Greater(0, Lifetime - base) \in Nat
    BY <1>1, <1>2 DEF Greater
<1> HIDE DEF base, month
<1> QED BY <1>1, <1>2, <1>3, <1>4 DEF TypeOK

LEMMA StepTyped == TypeOK /\ [Next]_vars => TypeOK'
<1> SUFFICES ASSUME TypeOK, [Next]_vars PROVE TypeOK'
    OBVIOUS
<1> USE DEF rowVars, settingVars, history, boundVars
<1>1. CASE Passes
    BY <1>1, ClockAssumption DEF TypeOK, Passes, Time
<1>2. CASE SetBack
    BY <1>2, ClockAssumption, MishapAssumption DEF TypeOK, SetBack, Time
<1>3. CASE CostsRead
    BY <1>3, RefreshTyped DEF TypeOK, CostsRead
<1>4. CASE TickBegin
    BY <1>4 DEF TypeOK, TickBegin
<1>5. CASE TickMarks
    BY <1>5, ClockAssumption DEF TypeOK, TickMarks, Time, Never
<1>6. CASE TickEnds
    BY <1>6, RefreshTyped DEF TypeOK, TickEnds, NoTick
<1>7. CASE Crash
  <2>1. crashes' \in 0..MaxCrashes
    BY <1>7, MishapAssumption DEF TypeOK, Crash
  <2>2. tick' \in [phase : {"none", "rows", "cap"}, todo : SUBSET Server]
    BY <1>7 DEF Crash, NoTick
  <2>3. up' \in BOOLEAN /\ torn' \in BOOLEAN
    BY <1>7, Zenon DEF TypeOK, Crash
  <2> QED BY <1>7, <2>1, <2>2, <2>3 DEF TypeOK, Crash
<1>8. CASE Boot
    BY <1>8, RefreshTyped DEF TypeOK, Boot
<1>9. ASSUME NEW s \in Server, MeterSwitches(s) PROVE TypeOK'
  <2>1. meter' \in [Server -> BOOLEAN] /\ steady' \in [Server -> BOOLEAN]
    BY <1>9 DEF TypeOK, MeterSwitches
  <2>2. anchor' \in [Server -> Time \union {Never}]
    BY <1>9 DEF TypeOK, MeterSwitches
  <2> QED BY <1>9, <2>1, <2>2 DEF TypeOK, MeterSwitches
<1>10. ASSUME NEW s \in Server, Accrue(s) PROVE TypeOK'
  <2>1. PICK fraction \in {0, 1} :
          /\ uptime' = [uptime EXCEPT ![s] = @ + Credit(s, fraction)]
          /\ credited' = [credited EXCEPT ![MonthOf(now)] = @ + Credit(s, fraction)]
    BY <1>10 DEF Accrue
  <2>4. Credit(s, fraction) \in Nat
    BY CreditKnown
  <2>5. uptime \in [Server -> Nat] /\ credited \in [Month -> Nat]
    BY DEF TypeOK
  <2> DEFINE d == Credit(s, fraction)
             month == MonthOf(now)
  <2> HIDE DEF d, month
  <2>6. uptime' = [uptime EXCEPT ![s] = @ + d] /\ credited' = [credited EXCEPT ![month] = @ + d] /\ d \in Nat
    BY <2>1, <2>4 DEF d, month
  <2>7. uptime' \in [Server -> Nat]
    BY <2>5, <2>6
  <2>8. month \in Month
    BY MonthKnown DEF TypeOK, month
  <2>2. credited' \in [Month -> Nat]
    <3>1. \A m \in Month : credited[m] + d \in Nat
      BY <2>5, <2>6
    <3> QED BY <2>5, <2>6, <2>8, <3>1
  <2>3. tick' \in [phase : {"none", "rows", "cap"}, todo : SUBSET Server]
    BY <1>10 DEF TypeOK, Accrue
  <2> QED BY <1>10, <2>2, <2>3, <2>7 DEF TypeOK, Accrue
<1>11. CASE UNCHANGED vars
    BY <1>11 DEF TypeOK, vars
<1> QED BY <1>1, <1>2, <1>3, <1>4, <1>5, <1>6, <1>7, <1>8, <1>9, <1>10, <1>11 DEF Next

\* Times stay within the horizon, and uptimes, credits and what was spent are
\* natural numbers, also when the clock is set back between two ticks.
THEOREM TypeCorrect == Spec => []TypeOK
<1>1. Init => TypeOK BY InitTyped
<1>2. TypeOK /\ [Next]_vars => TypeOK' BY StepTyped
<1> QED BY <1>1, <1>2, PTL DEF Spec

-----------------------------------------------------------------------------
(***************************************************************************)
(* Nothing lost, and the month.                                            *)
(***************************************************************************)

\* A tick has written the row, and the watermark has yet to move.
Written(s) == tick.phase = "rows" /\ s \notin tick.todo

\* While the clock has gone forward only, a row whose meter never stopped has
\* everything up to the watermark, or up to now once the tick has written it, but
\* for a second per tick that moved the watermark or will.
Whole(s) ==
    /\ anchor[s] <= now
    /\ steady[s] /\ ~meter[s] => anchor[s] = Never
    /\ steady[s] /\ meter[s] =>
          /\ uptime[s] + ticks >= watermark - anchor[s]
          /\ Written(s) => uptime[s] + ticks + (IF now > watermark THEN 1 ELSE 0) >= now - anchor[s]

\* Months to come have no baseline yet, and what has accrued since the baseline of
\* this one was credited in it.
FairMonth ==
    /\ spend.spent <= credited[spend.month]
    /\ \A m \in Month : m > MonthOf(now) => baseline[m] = Never
    /\ baseline[MonthOf(now)] # Never => Lifetime - baseline[MonthOf(now)] <= credited[MonthOf(now)]

Forward == setbacks = 0 => watermark <= now /\ (\A s \in Server : Whole(s)) /\ FairMonth

IInv == TypeOK /\ CreditInv /\ Forward

\* What the types say, in numbers.
LEMMA Numbers ==
    ASSUME TypeOK
    PROVE  /\ now \in Nat /\ watermark \in Int /\ watermark >= -1 /\ ticks \in Nat
           /\ \A s \in Server : anchor[s] \in Int /\ anchor[s] >= -1 /\ uptime[s] \in Nat
           /\ MonthOf(now) \in Month /\ Lifetime \in Nat /\ setbacks \in Nat
           /\ \A m \in Month : credited[m] \in Nat /\ (baseline[m] # Never => baseline[m] \in Nat)
<1>1. Horizon \in Nat /\ MaxSetbacks \in Nat
    BY ClockAssumption, MishapAssumption
<1> QED BY <1>1, MonthKnown, LifetimeKnown DEF TypeOK, Time, Never

LEMMA InitWhole == Init => IInv
<1> SUFFICES ASSUME Init PROVE IInv
    OBVIOUS
<1>1. TypeOK
    BY InitTyped
<1>2. CreditInv
    BY CreditInit
<1>3. \A s \in Server : Whole(s)
    BY DEF Init, Whole, Written, NoTick, Never
<1>4. MonthOf(now) = 0 /\ 0 \in Month
  <2>1. MonthOf(0) = 0
    BY ClockAssumption DEF MonthOf
  <2> QED BY <1>1, <2>1, Numbers DEF Init
<1>5. Lifetime = 0
  <2>1. \A r \in SUBSET Server : Total(uptime, Server)[r] = 0
    <3> DEFINE T == Total(uptime, Server)
               G == {r \in SUBSET Server : T[r] = 0}
    <3>1. T = [r \in SUBSET Server |-> Tally(uptime, T, r)]
      BY TotalIs, ServerAssumption
    <3> HIDE DEF T
    <3>2. \A r \in SUBSET Server : T[r] = Tally(uptime, T, r)
      BY <3>1
    <3>3. {} \in G
      BY <3>2 DEF Tally
    <3>4. ASSUME NEW r \in SUBSET Server, r # {}, r \ {Pick(r)} \in G PROVE r \in G
      <4>1. Pick(r) \in r /\ r \ {Pick(r)} \in SUBSET Server
        BY <3>4, WithoutOne, ServerAssumption
      <4>2. uptime[Pick(r)] = 0
        BY <4>1 DEF Init
      <4> QED BY <3>2, <3>4, <4>2 DEF Tally
    <3> HIDE DEF G
    <3>5. SUBSET Server \subseteq G
      BY <3>3, <3>4, SubsetsInTurn, ServerAssumption
    <3> QED BY <3>5 DEF G, T
  <2>2. DOMAIN uptime = Server
    BY DEF Init
  <2> QED BY <2>1, <2>2, LifetimeIs
<1>6. FairMonth
  <2>1. credited[0] = 0 /\ baseline[0] = 0 /\ \A m \in Month : m > 0 => baseline[m] = Never
    BY <1>4 DEF Init, Never
  <2> QED BY <1>4, <1>5, <2>1 DEF FairMonth, Init
<1>7. watermark <= now
    BY DEF Init, Never
<1> QED BY <1>1, <1>2, <1>3, <1>6, <1>7 DEF IInv, Forward

\* A refresh charges the month with no more than was credited in it.
LEMMA RefreshFair ==
    ASSUME TypeOK, FairMonth, Refresh, UNCHANGED <<now, uptime, credited>>
    PROVE  FairMonth'
<1> DEFINE month == MonthOf(now)
           base  == IF baseline[month] = Never THEN Lifetime ELSE baseline[month]
<1>1. month \in Month /\ Lifetime \in Nat /\ credited[month] \in Nat /\ Lifetime' = Lifetime /\ month \in Int
  <2>1. Month \subseteq Int
    BY DEF Month
  <2> QED BY <2>1, Numbers, LifetimeKnown DEF TypeOK
<1>2. base \in Nat /\ Lifetime - base <= credited[month]
    BY <1>1, Numbers DEF FairMonth
<1>3. baseline' = [baseline EXCEPT ![month] = base] /\ spend' = [month |-> month, spent |-> Greater(0, Lifetime - base)]
    BY DEF Refresh
<1>4. MonthOf(now)' = month
    BY DEF MonthOf
<1>5. Greater(0, Lifetime - base) <= credited[month]
    BY <1>1, <1>2 DEF Greater
<1> HIDE DEF month, base
<1>6. baseline'[month] = base
    BY <1>1, <1>3 DEF TypeOK
<1>7. \A m \in Month : m > month => baseline'[m] = baseline[m]
    BY <1>1, <1>3 DEF TypeOK, Month
<1>8. \A m \in Month : m > month => baseline[m] = Never
    BY DEF FairMonth, month
<1> QED BY <1>1, <1>2, <1>3, <1>4, <1>5, <1>6, <1>7, <1>8 DEF FairMonth

\* Nothing the month's account speaks of changes.
LEMMA FairStutter ==
    ASSUME TypeOK, FairMonth, UNCHANGED <<now, uptime, credited, baseline, spend>>
    PROVE  FairMonth'
<1>1. Lifetime' = Lifetime
    BY LifetimeKnown DEF TypeOK
<1> QED BY <1>1 DEF FairMonth, MonthOf

\* Nor what a row's account does.
LEMMA WholeStutter ==
    ASSUME NEW s \in Server, Whole(s), UNCHANGED <<now, meter, anchor, uptime, watermark, steady, ticks>>,
           Written(s)' => Written(s)
    PROVE  Whole(s)'
BY DEF Whole

\* A second passes: a month may begin, which has no baseline.
LEMMA PassesForward == IInv /\ Passes => Forward'
<1> SUFFICES ASSUME IInv, Passes, setbacks = 0
             PROVE  watermark' <= now' /\ (\A s \in Server : Whole(s)') /\ FairMonth'
    BY DEF Forward, Passes, boundVars
<1> USE DEF IInv, Forward
<1>1. /\ now' = now + 1 /\ tick.phase = "none"
      /\ UNCHANGED <<meter, anchor, uptime, watermark, baseline, tick, spend, steady, credited, ticks>>
    BY DEF Passes, Between, rowVars, settingVars
<1>2. watermark' <= now' /\ \A s \in Server : Whole(s)'
    BY <1>1, Numbers DEF Whole, Written
<1>3. Lifetime' = Lifetime
    BY <1>1, LifetimeKnown DEF TypeOK
<1>4. MonthOf(now)' \in Month /\ MonthOf(now)' >= MonthOf(now) /\ Month \subseteq Int
  <2>1. now' \in Time
    BY StepTyped DEF TypeOK, Next
  <2>2. MonthOf(now') \in Month
    BY <2>1, MonthKnown
  <2>3. MonthOf(now') >= MonthOf(now)
    BY <1>1, Numbers, MonthsInOrder
  <2> QED BY <2>2, <2>3 DEF Month, MonthOf
<1>5. FairMonth'
  <2>1. MonthOf(now) \in Month
    BY Numbers
  <2> DEFINE old == MonthOf(now)
             new == MonthOf(now)'
  <2>2. \A m \in Month : m > old => baseline[m] = Never
    BY DEF FairMonth
  <2> HIDE DEF old, new
  <2>7. old \in Int /\ new \in Int /\ new >= old
    BY <1>4, <2>1 DEF old, new
  <2>3. new = old \/ new > old
    BY <2>7
  <2>8. \A m \in Month : m \in Int
    BY <1>4
  <2>4. \A m \in Month : m > new => baseline[m] = Never
    BY <2>2, <2>7, <2>8
  <2>5. CASE new = old
    BY <1>1, <1>3, <2>4, <2>5 DEF FairMonth, old, new
  <2>6. CASE new > old
    <3>1. baseline[new] = Never
      BY <1>4, <2>2, <2>6 DEF new
    <3> QED BY <1>1, <2>4, <3>1 DEF FairMonth, old, new
  <2> QED BY <2>3, <2>5, <2>6
<1> QED BY <1>2, <1>5

\* A meter is switched: the first time, nothing is owed yet.
LEMMA SwitchesForward ==
    ASSUME IInv, NEW t \in Server, MeterSwitches(t)
    PROVE  Forward'
<1> SUFFICES ASSUME setbacks = 0
             PROVE  watermark' <= now' /\ (\A s \in Server : Whole(s)') /\ FairMonth'
    BY DEF Forward, MeterSwitches, boundVars
<1> USE DEF IInv, Forward
<1>1. /\ tick.phase = "none"
      /\ meter' = [meter EXCEPT ![t] = ~@]
      /\ anchor' = [anchor EXCEPT ![t] = IF @ = Never THEN now ELSE @]
      /\ steady' = [steady EXCEPT ![t] = @ /\ ~meter[t]]
      /\ UNCHANGED <<now, uptime, watermark, baseline, tick, spend, credited, ticks>>
    BY DEF MeterSwitches, Idles, Between, settingVars
<1>2. FairMonth'
    BY <1>1, FairStutter
<1>3. ASSUME NEW s \in Server PROVE Whole(s)'
  <2>1. ~Written(s)'
    BY <1>1 DEF Written
  <2>2. CASE s = t
    <3>1. meter'[s] = ~meter[s] /\ anchor'[s] = IF anchor[s] = Never THEN now ELSE anchor[s]
      BY <1>1, <2>2 DEF TypeOK
    <3>2. steady'[s] => steady[s] /\ ~meter[s]
      BY <1>1, <2>2 DEF TypeOK
    <3>3. meter[s] \in BOOLEAN /\ uptime'[s] + ticks' \in Nat
      BY <1>1, Numbers DEF TypeOK
    <3>4. CASE steady[s] /\ ~meter[s]
      <4>1. anchor'[s] = now /\ meter'[s]
        BY <3>1, <3>4 DEF Whole
      <4> QED BY <1>1, <2>1, <3>3, <4>1, Numbers DEF Whole
    <3>5. CASE ~(steady[s] /\ ~meter[s])
      <4>1. anchor'[s] <= now
        BY <3>1, Numbers DEF Whole
      <4> QED BY <1>1, <2>1, <3>2, <3>5, <4>1 DEF Whole
    <3> QED BY <3>4, <3>5
  <2>3. CASE s # t
    BY <1>1, <2>1, <2>3 DEF Whole, TypeOK
  <2> QED BY <2>2, <2>3
<1> QED BY <1>1, <1>2, <1>3

\* A row is written: it is credited with what it lacked but for a second, and
\* the month with as much.
LEMMA AccrueForward ==
    ASSUME IInv, NEW t \in Server, Accrue(t)
    PROVE  Forward'
<1> SUFFICES ASSUME setbacks = 0
             PROVE  watermark' <= now' /\ (\A s \in Server : Whole(s)') /\ FairMonth'
    BY DEF Forward, Accrue, boundVars
<1> USE DEF IInv, Forward
<1>1. PICK fraction \in {0, 1} :
        /\ uptime' = [uptime EXCEPT ![t] = @ + Credit(t, fraction)]
        /\ credited' = [credited EXCEPT ![MonthOf(now)] = @ + Credit(t, fraction)]
    BY DEF Accrue
<1> DEFINE d == Credit(t, fraction)
           month == MonthOf(now)
<1>2. /\ tick' = [tick EXCEPT !.todo = @ \ {t}] /\ t \in tick.todo
      /\ UNCHANGED <<now, meter, anchor, watermark, baseline, spend, steady, ticks>>
    BY DEF Accrue, settingVars
<1>3. /\ d \in Nat
      /\ d >= now - watermark - 1 \/ d >= now - anchor[t] - 1
    BY CreditKnown, Numbers
<1>4. month \in Month /\ uptime \in [Server -> Nat] /\ credited \in [Month -> Nat]
    BY Numbers DEF TypeOK
<1>5. tick.phase = "rows" /\ tick'.todo = tick.todo \ {t} /\ meter[t] /\ anchor[t] # Never
    BY <1>2 DEF CreditInv, Anchored, TypeOK
<1> HIDE DEF d
<1>6. /\ uptime'[t] = uptime[t] + d
      /\ \A s \in Server \ {t} : uptime'[s] = uptime[s] /\ (Written(s)' => Written(s))
    BY <1>1, <1>2, <1>4, <1>5 DEF d, Written
<1>7. ASSUME NEW s \in Server PROVE Whole(s)'
  <2>1. CASE s = t
    <3>1. steady[t] => uptime[t] + ticks >= watermark - anchor[t]
      BY <1>5 DEF Whole
    <3>2. anchor[t] <= now /\ watermark <= now
      BY DEF Whole
    <3>3. steady[t] => uptime[t] + d + ticks + (IF now > watermark THEN 1 ELSE 0) >= now - anchor[t]
      BY <1>3, <3>1, <3>2, Numbers
    <3> QED BY <1>2, <1>3, <1>5, <1>6, <2>1, <3>1, <3>2, <3>3, Numbers DEF Whole
  <2>2. CASE s # t
    BY <1>2, <1>6, <2>2 DEF Whole
  <2> QED BY <2>1, <2>2
<1>8. FairMonth'
  <2>1. Lifetime \in Nat /\ Lifetime' = Lifetime + d /\ MonthOf(now)' = month
    BY <1>1, <1>2, <1>3, <1>4, LifetimeKnown DEF d, MonthOf
  <2> HIDE DEF month
  <2>2. /\ credited'[month] = credited[month] + d
        /\ \A m \in Month : credited[m] \in Nat /\ credited'[m] >= credited[m]
    BY <1>1, <1>3, <1>4 DEF d, month
  <2>3. spend'.spent <= credited'[spend'.month]
    <3>1. spend.month \in Month /\ spend.spent \in Nat /\ spend.spent <= credited[spend.month]
      BY DEF TypeOK, FairMonth
    <3>2. credited'[spend.month] \in Nat
      BY StepTyped DEF TypeOK, Next
    <3> QED BY <1>2, <2>2, <3>1, <3>2
  <2>4. baseline[month] # Never => baseline[month] \in Nat /\ Lifetime - baseline[month] <= credited[month]
    BY Numbers DEF FairMonth, month
  <2>5. \A m \in Month : m > month => baseline[m] = Never
    BY DEF FairMonth, month
  <2> QED BY <1>2, <1>3, <1>4, <2>1, <2>2, <2>3, <2>4, <2>5 DEF FairMonth
<1> QED BY <1>2, <1>7, <1>8

\* The watermark moves to now, and a tick is counted if it moves on.
LEMMA MarksForward == IInv /\ TickMarks => Forward'
<1> SUFFICES ASSUME IInv, TickMarks, setbacks = 0
             PROVE  watermark' <= now' /\ (\A s \in Server : Whole(s)') /\ FairMonth'
    BY DEF Forward, TickMarks, boundVars
<1> USE DEF IInv, Forward
<1>1. /\ tick.phase = "rows" /\ tick.todo = {} /\ tick'.phase = "cap"
      /\ watermark' = now /\ ticks' = IF now > watermark THEN ticks + 1 ELSE ticks
      /\ UNCHANGED <<now, meter, anchor, uptime, baseline, spend, steady, credited>>
    BY DEF TickMarks, rowVars, TypeOK
<1>2. FairMonth'
    BY <1>1, FairStutter
<1>3. ASSUME NEW s \in Server PROVE Whole(s)'
    BY <1>1, Numbers DEF Whole, Written
<1> QED BY <1>1, <1>2, <1>3, Numbers

\* Every step keeps what is said while the clock goes forward.
LEMMA StepWhole == IInv /\ [Next]_vars => IInv'
<1> SUFFICES ASSUME IInv, [Next]_vars PROVE IInv'
    OBVIOUS
<1>1. TypeOK'
    BY StepTyped DEF IInv
<1>2. CreditInv'
    BY CreditStep DEF IInv
<1> SUFFICES Forward'
    BY <1>1, <1>2 DEF IInv
<1> USE DEF history, settingVars, rowVars, boundVars
<1>3. ASSUME UNCHANGED <<now, meter, anchor, uptime, watermark, steady, ticks, setbacks>>,
             \A s \in Server : Written(s)' => Written(s),
             FairMonth => FairMonth'
      PROVE  Forward'
    BY <1>3, WholeStutter DEF IInv, Forward
<1>4. CASE Passes BY <1>4, PassesForward
<1>5. CASE SetBack
    BY <1>5, Numbers DEF Forward, SetBack, IInv
<1>6. CASE CostsRead
  <2>1. FairMonth => FairMonth'
    BY <1>6, RefreshFair DEF CostsRead, IInv
  <2> QED BY <1>3, <1>6, <2>1 DEF CostsRead, Written
<1>7. CASE TickBegin
  <2>1. FairMonth => FairMonth'
    BY <1>7, FairStutter DEF TickBegin, IInv
  <2>2. ASSUME NEW s \in Server, setbacks = 0, Whole(s) PROVE Whole(s)'
    BY <1>7, <2>2 DEF TickBegin, Whole, Written
  <2> QED BY <1>7, <2>1, <2>2 DEF TickBegin, IInv, Forward
<1>8. CASE TickMarks BY <1>8, MarksForward
<1>9. CASE TickEnds
  <2>1. FairMonth => FairMonth'
    BY <1>9, RefreshFair DEF TickEnds, IInv
  <2> QED BY <1>3, <1>9, <2>1 DEF TickEnds, Written, NoTick
<1>10. CASE Crash
  <2>1. FairMonth => FairMonth'
    BY <1>10, FairStutter DEF Crash, IInv
  <2> QED BY <1>3, <1>10, <2>1 DEF Crash, Written, NoTick
<1>11. CASE Boot
  <2>1. FairMonth => FairMonth'
    BY <1>11, RefreshFair DEF Boot, IInv
  <2> QED BY <1>3, <1>11, <2>1 DEF Boot, Written
<1>12. ASSUME NEW s \in Server, MeterSwitches(s) PROVE Forward'
    BY <1>12, SwitchesForward
<1>13. ASSUME NEW s \in Server, Accrue(s) PROVE Forward'
    BY <1>13, AccrueForward
<1>14. CASE UNCHANGED vars
  <2>1. FairMonth => FairMonth'
    BY <1>14, FairStutter DEF vars, IInv
  <2> QED BY <1>3, <1>14, <2>1 DEF vars, Written
<1> QED BY <1>4, <1>5, <1>6, <1>7, <1>8, <1>9, <1>10, <1>11, <1>12, <1>13, <1>14 DEF Next

\* The invariant of both accounts, of each row and of the month.
THEOREM AccountsAgree == Spec => []IInv
<1>1. Init => IInv BY InitWhole
<1>2. IInv /\ [Next]_vars => IInv' BY StepWhole
<1> QED BY <1>1, <1>2, PTL DEF Spec

\* Restarts and downtime lose nothing: the uptime of a row whose meter never
\* stopped covers the time from its anchor to the watermark, but for a second a tick.
THEOREM NoSecondIsLost == Spec => []NothingLost
<1>1. IInv => NothingLost
    BY DEF IInv, Forward, Whole, NothingLost
<1> QED BY <1>1, AccountsAgree, PTL

\* The spend snapshot never charges a month with more than that month's ticks
\* have credited, for any number of rows.
THEOREM MonthIsFair == Spec => []MonthIsNotOvercharged
<1>1. IInv => MonthIsNotOvercharged
    BY DEF IInv, Forward, FairMonth, MonthIsNotOvercharged
<1> QED BY <1>1, AccountsAgree, PTL

=============================================================================
