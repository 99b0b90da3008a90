--------------------------- MODULE BootstrapProofs ---------------------------
(***************************************************************************)
(* What an install promises, for every plan, any number of drives and      *)
(* mishaps: ready is earned, the key is destroyed only when the box has    *)
(* stopped accepting it, verdicts are this drive's own, and the install    *)
(* keeps its contract.                                                     *)
(*                                                                         *)
(* The invariant has a part for each of those who hold state: the books    *)
(* (the row, the journal, the reports on their way and the key), the agent, *)
(* the token and the drive.  A step disturbs one or two of them; the first *)
(* lemmas say what leaves a part alone.                                    *)
(*                                                                         *)
(* The last part is about the plan itself: what the resolver renders, of   *)
(* whatever a create request may ask for, is sound, and so it is a plan the *)
(* install may rely on.                                                    *)
(***************************************************************************)
EXTENDS MCBootstrap, TLAPS, FiniteSetTheorems

-----------------------------------------------------------------------------
(***************************************************************************)
(* The invariant.                                                          *)
(***************************************************************************)

RequiredBefore(i) == {k \in Required : k < i}

LiveStatuses == {"provisioning", "running", "failed", "terminated"}
Report == [run : RunIds \union {None}, step : Steps, status : {"running", "done", "failed"}]
Token == [uses : 0..Budget, expired : BOOLEAN, retired : BOOLEAN]

BooksTyped ==
    /\ topology \in Topologies /\ plan \in Plans
    /\ row \in Row /\ row.status \in LiveStatuses
    /\ retired \in BOOLEAN /\ authorized \in BOOLEAN
    /\ journal \in JournalType /\ late \subseteq Report
    /\ installed \subseteq DOMAIN plan /\ misread \in BOOLEAN

\* What a journal says of the plan is so when these steps have been done.
TrueOf(j, S) ==
    /\ Complete(j) \subseteq S
    /\ j.status = "done" => Required \subseteq S
    /\ j.step # 0 => RequiredBefore(j.step) \subseteq S

\* Until a step is passed over for want of a whole plan.json, what the journal
\* says of the box is so, and so is what a report on its way says, however late.
JournalTrue ==
    ~misread =>
        /\ TrueOf(journal, installed)
        /\ \A r \in late : r.step = "ready" => Promised \subseteq installed

\* The step that takes core's key off the box, once done, has done it.
KeyFollowsStep == \A i \in installed : plan[i].retires => ~authorized

Books ==
    /\ BooksTyped /\ JournalTrue /\ KeyFollowsStep
    /\ topology = "push" => late = {}
    /\ ReadyIsEarned /\ KeyRetiredOnlyWhenRevoked

Agents == [pc : AgentPlaces, run : RunIds \union {None}, at : 1..(N + 1),
           lost : SUBSET FieldNames]

\* The agent has every required step it has passed behind it, works on a journal
\* that has not ended, and waits for a restart systemd still owes it.  In push
\* mode no stub asks for a plan.
AgentInPlace ==
    /\ box \in {"booting", "up", "gone"} /\ planFile \in RunIds \union {None, Torn}
    /\ agent \in Agents
    /\ unit \in 0..Restarts
    /\ agent.pc = "executing" => agent.at \in DOMAIN plan
    /\ agent.pc # "executing" => agent.lost = {}
    /\ agent.pc \in {"looking", "executing"} /\ ~misread =>
          RequiredBefore(agent.at) \subseteq installed
    /\ agent.pc \in {"looking", "executing", "failing"} => journal.status \in {"none", "running"}
    /\ agent.pc = "waiting" => unit > 0
    /\ topology = "push" => agent.pc \notin {"unborn", "fetching", "refused", "stuck"}

\* Until the box has its plan the token has been used as often as answers were
\* lost, and nothing has retired it.
TokenAccounted ==
    /\ token \in Token /\ fetch \in [tries : 0..FetchTries, lost : 0..FetchTries]
    /\ fetch.lost <= fetch.tries
    /\ agent.pc \in {"unborn", "fetching"} =>
          late = {} /\ ~token.retired /\ token.uses = fetch.lost /\ fetch.tries < FetchTries
    /\ PlanIsNotWithheld

Looked == {"probing", "writing", "written", "launching", "polling", "checking"}

\* The end of the run a drive follows came after its look at the journal, and a
\* strike is against an agent that stays gone, its plan unfinished.
DriveInformed ==
    /\ drive \in [pc : DrivePlaces, run : RunIds \union {None}, alive : BOOLEAN, strikes : 0..1]
    /\ attempts \in 0..(MaxAttempts - 1) /\ settled \in {"none", "step", "gone", "fatal"}
    /\ ended \in BOOLEAN
    /\ topology = "callback" => drive.pc = "off"
    /\ drive.pc \in Looked /\ drive.pc # "probing" => drive.run # None
    /\ drive.pc \in Looked /\ drive.run # None /\ Ended(journal) /\ isCurrentRun(journal, drive.run)
          => ended
    /\ drive.pc \notin {"polling", "checking"} => drive.strikes = 0
    /\ drive.strikes = 1 => ~UnitActive
    /\ drive.pc = "checking" /\ drive.strikes = 1 =>
          ~(isCurrentRun(journal, drive.run) /\ Ended(journal))

Bounded == mishaps \in 0..MaxMishaps

IInv == Books /\ AgentInPlace /\ TokenAccounted /\ DriveInformed /\ Bounded

\* The type invariant is the types of the parts.
LEMMA PartsTyped == IInv => TypeOK
BY DEF IInv, Books, BooksTyped, AgentInPlace, TokenAccounted, DriveInformed, Bounded,
       TypeOK, LiveStatuses, Report, Token, Agents

-----------------------------------------------------------------------------
(***************************************************************************)
(* Plans, runs and rows.                                                   *)
(***************************************************************************)

LEMMA ModeKnown == topology \in Topologies => topology \in {"push", "callback"}
BY TopologiesAssumption

LEMMA PlanTyped ==
    ASSUME plan \in Plans
    PROVE  /\ N \in Nat /\ DOMAIN plan = 1..N
           /\ \A i \in DOMAIN plan : /\ plan[i].reports \in Steps
                                     /\ plan[i].optional \in BOOLEAN
                                     /\ plan[i].retires \in BOOLEAN
           /\ Required \subseteq 1..N /\ Promised \subseteq Required
<1> DEFINE S == [id : {plan[i].id : i \in DOMAIN plan}, reports : Steps,
                 optional : BOOLEAN, retires : BOOLEAN]
<1>1. plan \in Seq(S)
  BY PlansAssumption
<1> HIDE DEF S
<1>2. N \in Nat /\ DOMAIN plan = 1..N /\ \A i \in DOMAIN plan : plan[i] \in S
  BY <1>1 DEF N
<1>3. QED
  BY <1>2 DEF S, Required, Promised

\* A required step that reports anything but `ready` is ahead of every step
\* that reports `ready`.
LEMMA ReadyStandsForPromised ==
    ASSUME plan \in Plans, topology = "callback", NEW i \in DOMAIN plan,
           plan[i].reports = "ready"
    PROVE  Promised \subseteq RequiredBefore(i)
<1>1. N \in Nat /\ DOMAIN plan = 1..N
  BY PlanTyped
<1>2. ASSUME NEW k \in Promised
      PROVE  k \in RequiredBefore(i)
  <2>1. k \in Required /\ k \in DOMAIN plan /\ plan[k].reports # "ready"
    BY <1>2 DEF Promised, Required
  <2>2. ~(i < k) /\ k # i
    BY <2>1, PhasesAssumption
  <2>3. QED
    BY <1>1, <2>1, <2>2 DEF RequiredBefore
<1>3. QED
  BY <1>2

LEMMA KeyStepIsRequired ==
    ASSUME plan \in Plans, NEW i \in DOMAIN plan, plan[i].retires
    PROVE  i \in Required
BY PhasesAssumption DEF Required

\* One of four run ids is on none of three places, and so is the least such.
LEMMA FreshRunIsFresh ==
    FreshRun \in RunIds /\ FreshRun \notin {planFile, journal.run, agent.run}
<1> DEFINE S == {planFile, journal.run, agent.run}
           Free(r) == r \notin S /\ \A lower \in 1..(r - 1) : lower \in S
<1>1. \E r \in {1, 2, 3, 4} : r \notin S
  OBVIOUS
<1>2. CASE 1 \notin S
  <2>1. Free(1) /\ 1 \in RunIds
    BY <1>2 DEF RunIds
  <2>2. QED
    BY <2>1 DEF FreshRun
<1>3. CASE 1 \in S /\ 2 \notin S
  <2>1. Free(2) /\ 2 \in RunIds
    BY <1>3 DEF RunIds
  <2>2. QED
    BY <2>1 DEF FreshRun
<1>4. CASE 1 \in S /\ 2 \in S /\ 3 \notin S
  <2>1. Free(3) /\ 3 \in RunIds
    BY <1>4 DEF RunIds
  <2>2. QED
    BY <2>1 DEF FreshRun
<1>5. CASE 1 \in S /\ 2 \in S /\ 3 \in S
  <2>1. 4 \notin S
    BY <1>1, <1>5
  <2>2. Free(4) /\ 4 \in RunIds
    BY <1>5, <2>1 DEF RunIds
  <2>3. QED
    BY <2>2 DEF FreshRun
<1>6. QED
  BY <1>2, <1>3, <1>4, <1>5

LEMMA StepsNamed ==
    Steps = {"requested", "instance_launching", "instance_running", "installing_tools",
             "tools_installed", "cloning_repos", "running_user_script", "ready"}
BY DEF Steps, ProvisioningSteps

\* A row that is told to end ends, and no row but a provisioning one is moved.
LEMMA EndedRow ==
    ASSUME NEW r \in Row, r.status \in LiveStatuses, NEW to \in {"failed", "terminated"}
    PROVE  LET q == TryStatus(r, to) IN
           /\ q \in Row /\ q.status \in LiveStatuses
           /\ q.status = r.status \/ q.status = to
           /\ r.status = "provisioning" => q.status = to
BY DEF TryStatus, WithStatus, CanTransition, Transitions, Row, Statuses, LiveStatuses

LEMMA ProgressedRow ==
    ASSUME NEW r \in Row, r.status \in LiveStatuses, NEW step \in Steps
    PROVE  LET q == RecordProgress(r, step) IN
           /\ q \in Row /\ q.status \in LiveStatuses
           /\ r.status # "provisioning" => q = r
           /\ r.status = "provisioning" =>
                 q.status = IF step = "ready" THEN "running" ELSE "provisioning"
BY DEF RecordProgress, AcceptsProgressReports, WithStatus, StatusForStep, Row, Statuses, LiveStatuses

-----------------------------------------------------------------------------
(***************************************************************************)
(* What leaves a part of the invariant alone.                              *)
(***************************************************************************)

\* What is required and promised does not change with what the agent does next.
LEMMA SamePlan ==
    ASSUME UNCHANGED <<topology, plan>>
    PROVE  /\ Required' = Required /\ Promised' = Promised /\ N' = N /\ Supplied' = Supplied
           /\ JournalType' = JournalType /\ Agents' = Agents
           /\ \A i : RequiredBefore(i)' = RequiredBefore(i)
BY DEF Required, Promised, N, Supplied, RequiredBefore, JournalType, Agents

LEMMA BooksStay ==
    ASSUME Books, UNCHANGED <<topology, plan, row, retired, authorized, journal, late, installed, misread>>
    PROVE  Books'
BY DEF Books, BooksTyped, JournalTrue, TrueOf, KeyFollowsStep, ReadyIsEarned,
       KeyRetiredOnlyWhenRevoked, Required, Promised, RequiredBefore, Complete, JournalType, N

\* The key may go at any time.
LEMMA BooksWithoutKey ==
    ASSUME Books, UNCHANGED <<topology, plan, row, retired, journal, late, installed, misread>>,
           authorized' \in {authorized, FALSE}
    PROVE  Books'
<1>1. CASE authorized' = authorized
  BY <1>1, BooksStay
<1>2. CASE authorized' = FALSE
  <2>1. BooksTyped' /\ JournalTrue'
    BY <1>2 DEF Books, BooksTyped, JournalTrue, TrueOf, Required, Promised, RequiredBefore,
                Complete, JournalType, N
  <2>2. KeyFollowsStep' /\ ReadyIsEarned' /\ KeyRetiredOnlyWhenRevoked'
    BY <1>2 DEF Books, KeyFollowsStep, ReadyIsEarned, KeyRetiredOnlyWhenRevoked, Required, Promised
  <2>3. QED
    BY <2>1, <2>2 DEF Books
<1>3. QED
  BY <1>1, <1>2

LEMMA AgentStays ==
    ASSUME AgentInPlace,
           UNCHANGED <<topology, plan, box, journal, agent, unit, installed, misread>>,
           planFile' \in RunIds \union {None, Torn}
    PROVE  AgentInPlace'
BY DEF AgentInPlace, Agents, Required, RequiredBefore, N

LEMMA TokenStays ==
    ASSUME TokenAccounted, UNCHANGED <<token, fetch, late>>,
           agent'.pc = agent.pc \/ agent'.pc \notin {"unborn", "fetching", "refused"}
    PROVE  TokenAccounted'
BY DEF TokenAccounted, PlanIsNotWithheld

\* A drive that is off, or an agent that does not come back, leaves what a
\* drive believes as true as it was.
LEMMA DriveStays ==
    ASSUME DriveInformed, UNCHANGED <<topology, drive, attempts, settled, ended, journal>>,
           UnitActive' => UnitActive \/ topology = "callback",
           topology \in {"push", "callback"}
    PROVE  DriveInformed'
BY DEF DriveInformed, Ended, isCurrentRun

LEMMA CostsLittle ==
    ASSUME Bounded, NEW n \in Nat, Costs(n)
    PROVE  Bounded'
BY BoundsAssumption DEF Bounded, Costs

LEMMA FlushCosts ==
    ASSUME Bounded, NEW j, NEW cost \in Nat, Flush(j, cost)
    PROVE  Bounded'
<1>1. Costs(cost) \/ Costs(cost + 1)
  BY DEF Flush
<1>2. QED
  BY <1>1, CostsLittle

-----------------------------------------------------------------------------
(***************************************************************************)
(* Reports.                                                                *)
(***************************************************************************)

\* A report that is handled shows nothing its sender has not earned.
LEMMA ReportHandled ==
    ASSUME row \in Row, row.status \in LiveStatuses, retired \in BOOLEAN, token \in Token,
           NEW r \in Report, HandleReport(r)
    PROVE  /\ row' \in Row /\ row'.status \in LiveStatuses
           /\ retired' \in BOOLEAN
           /\ token' \in Token /\ token'.expired = token.expired /\ token'.uses = token.uses
           /\ row'.status = row.status \/ row.status = "provisioning"
           /\ row'.status = "running" => row.status = "running" \/ r.step = "ready"
<1>1. CASE r.run # SnapshotRun \/ ~AcceptsProgressReports(row.status)
  BY <1>1 DEF HandleReport, rowVars
<1>2. CASE ~(r.run # SnapshotRun \/ ~AcceptsProgressReports(row.status))
  <2> DEFINE shown == RecordProgress(row, r.step)
  <2>0. row.status = "provisioning" /\ r.step \in Steps
    BY <1>2 DEF AcceptsProgressReports, Report
  <2>1. /\ shown \in Row /\ shown.status \in LiveStatuses
        /\ shown.status = IF r.step = "ready" THEN "running" ELSE "provisioning"
    BY <2>0, ProgressedRow
  <2>2. Finished => /\ token' \in Token /\ token'.expired = token.expired
                    /\ token'.uses = token.uses
    BY DEF Finished, Token
  <2>3. Finished => retired' \in BOOLEAN
    BY DEF Finished, Supplied
  <2>4. \/ row' = TryStatus(shown, "failed") /\ UNCHANGED <<retired, token>>
        \/ row' = shown /\ (Finished \/ UNCHANGED <<retired, token>>)
    BY <1>2 DEF HandleReport
  <2> HIDE DEF shown
  <2>5. row' = TryStatus(shown, "failed") =>
            /\ row' \in Row /\ row'.status \in LiveStatuses
            /\ row'.status = "running" => shown.status = "running"
    BY <2>1, EndedRow
  <2>6. QED
    BY <2>0, <2>1, <2>2, <2>3, <2>4, <2>5
<1>3. QED
  BY <1>1, <1>2

\* The books after a step whose journal and reports say what is so, and that lets
\* the key go with the step that removes it.
LEMMA BooksGrow ==
    ASSUME Books, UNCHANGED <<topology, plan>>,
           journal' \in JournalType,
           installed \subseteq installed', installed' \subseteq DOMAIN plan,
           misread' \in BOOLEAN, misread => misread',
           ~misread' => TrueOf(journal', installed'),
           authorized' \in {authorized, FALSE},
           \A i \in installed' : plan[i].retires => ~authorized',
           row' \in Row, row'.status \in LiveStatuses, retired' \in BOOLEAN,
           row'.status = "running" /\ ~misread' =>
               row.status = "running" \/ Promised \subseteq installed',
           topology = "push" => late' = {} /\ retired' = retired,
           late' \subseteq Report,
           \A r \in late' : \/ r \in late
                            \/ r.step = "ready" /\ ~misread' => Promised \subseteq installed'
    PROVE  Books'
<1>1. /\ Complete(journal)' = Complete(journal') /\ Promised' = Promised
      /\ Required' = Required /\ JournalType' = JournalType
      /\ \A i : RequiredBefore(i)' = RequiredBefore(i)
  BY SamePlan DEF Complete
<1>2. /\ topology' \in Topologies /\ plan' \in Plans /\ row' \in Row /\ row'.status \in LiveStatuses
      /\ retired' \in BOOLEAN /\ journal' \in JournalType' /\ late' \subseteq Report
      /\ installed' \subseteq DOMAIN plan'
  BY <1>1 DEF Books, BooksTyped
<1>3. authorized' \in BOOLEAN
  BY DEF Books, BooksTyped
<1>4. BooksTyped'
  BY <1>2, <1>3 DEF BooksTyped, Report, RunIds, None
<1>5. JournalTrue'
  <2>1. ASSUME ~misread'
        PROVE  \A r \in late' : r.step = "ready" => Promised' \subseteq installed'
    BY <1>1, <2>1 DEF Books, JournalTrue
  <2>2. ASSUME ~misread'
        PROVE  TrueOf(journal, installed)'
    <3>1. /\ Complete(journal)' \subseteq installed'
          /\ journal'.status = "done" => Required' \subseteq installed'
      BY <1>1, <2>2 DEF TrueOf
    <3>2. journal'.step # 0 => RequiredBefore(journal'.step) \subseteq installed'
      BY <2>2 DEF TrueOf
    <3>3. RequiredBefore(journal.step)' = RequiredBefore(journal'.step)
      BY <1>1 DEF RequiredBefore
    <3>4. QED
      BY <3>1, <3>2, <3>3 DEF TrueOf
  <2>3. QED
    BY <2>1, <2>2 DEF JournalTrue
<1>6. KeyFollowsStep'
  BY <1>1 DEF KeyFollowsStep
<1>7. ReadyIsEarned'
  BY <1>1 DEF Books, ReadyIsEarned
<1>8. KeyRetiredOnlyWhenRevoked'
  BY DEF Books, BooksTyped, KeyRetiredOnlyWhenRevoked
<1>9. QED
  BY <1>4, <1>5, <1>6, <1>7, <1>8 DEF Books

\* The report of a flush is one, and it has earned what it says.
LEMMA FlushReports ==
    ASSUME plan \in Plans, NEW j \in JournalType, j.step # 0, j.status # "none"
    PROVE  /\ ReportOf(j) \in Report
           /\ topology = "callback" /\ ReportOf(j).step = "ready" =>
                  Promised \subseteq RequiredBefore(j.step)
<1>1. N \in Nat /\ DOMAIN plan = 1..N /\ \A i \in DOMAIN plan : plan[i].reports \in Steps
  BY PlanTyped
<1>2. j.step \in DOMAIN plan /\ j.run \in RunIds \union {None} /\ j.status \in {"running", "done", "failed"}
  BY <1>1 DEF JournalType
<1>3. ReportOf(j) \in Report /\ ReportOf(j).step = plan[j.step].reports
  BY <1>1, <1>2 DEF ReportOf, Report
<1>4. QED
  BY <1>2, <1>3, ReadyStandsForPromised

LEMMA FlushKeepsBooks ==
    ASSUME Books, token \in Token, UNCHANGED <<topology, plan>>,
           NEW j \in JournalType, NEW cost \in Nat, Flush(j, cost),
           j.step # 0 => j.status # "none",
           installed \subseteq installed', installed' \subseteq DOMAIN plan,
           misread' \in BOOLEAN, misread => misread',
           ~misread' => TrueOf(j, installed'),
           authorized' \in {authorized, FALSE},
           \A i \in installed' : plan[i].retires => ~authorized'
    PROVE  Books' /\ token' \in Token /\ journal' = j
<1>1. journal' = j
  BY DEF Flush
<1>2. /\ row \in Row /\ row.status \in LiveStatuses /\ retired \in BOOLEAN /\ plan \in Plans
      /\ late \subseteq Report /\ topology \in {"push", "callback"}
      /\ topology = "push" => late = {}
  BY ModeKnown DEF Books, BooksTyped
<1> DEFINE Told == ReportOf(j)
<1>3. CASE UNCHANGED <<rowVars, late>>
  <2>1. UNCHANGED <<row, retired, token, late>>
    BY <1>3 DEF rowVars
  <2>2. QED
    BY <1>1, <1>2, <2>1, BooksGrow
<1>4. CASE ~UNCHANGED <<rowVars, late>>
  <2>1. topology = "callback" /\ j.step # 0
    BY <1>2, <1>4 DEF Flush
  <2>2. Told \in Report /\ (Told.step = "ready" /\ ~misread' => Promised \subseteq installed')
    BY <1>2, <2>1, FlushReports DEF TrueOf
  <2>3. /\ UNCHANGED <<row, retired, token>> \/ HandleReport(Told)
        /\ late' = late \/ late' = {Told}
    BY <1>4, <2>1 DEF Flush, rowVars
  <2> HIDE DEF Told
  <2>4. /\ row' \in Row /\ row'.status \in LiveStatuses /\ retired' \in BOOLEAN /\ token' \in Token
        /\ row'.status = "running" => row.status = "running" \/ Told.step = "ready"
    BY <1>2, <2>2, <2>3, ReportHandled
  <2>5. late' \subseteq Report
    BY <1>2, <2>2, <2>3
  <2>6. \A r \in late' : r \in late \/ (r.step = "ready" /\ ~misread' => Promised \subseteq installed')
    BY <2>2, <2>3
  <2>7. topology # "push"
    BY <2>1
  <2>8. QED
    BY <1>1, <2>2, <2>4, <2>5, <2>6, <2>7, BooksGrow
<1>5. QED
  BY <1>3, <1>4

-----------------------------------------------------------------------------
(***************************************************************************)
(* What the agent does to the parts.                                       *)
(***************************************************************************)

LEMMA TokenFlushed ==
    ASSUME TokenAccounted, token' \in Token, UNCHANGED fetch,
           agent'.pc \notin {"unborn", "fetching", "refused"}
    PROVE  TokenAccounted'
BY DEF TokenAccounted, PlanIsNotWithheld, Token

\* An agent that has read nothing yet, or is not there.
LEMMA AgentBegins ==
    ASSUME plan \in Plans, AgentInPlace, UNCHANGED <<topology, plan, planFile>>,
           box' \in {"booting", "up", "gone"},
           NEW pc \in {"off", "waiting", "starting"}, agent' = AgentAt(pc),
           unit' \in 0..Restarts, pc = "waiting" => unit' > 0
    PROVE  AgentInPlace'
<1>1. N \in Nat /\ N' = N
  BY PlanTyped DEF N
<1>2. /\ agent' \in [pc : AgentPlaces, run : RunIds \union {None}, at : 1..(N + 1),
                 lost : SUBSET FieldNames]
      /\ agent'.pc = pc /\ agent'.lost = {}
  BY <1>1 DEF AgentAt, AgentPlaces
<1>3. QED
  BY <1>1, <1>2 DEF AgentInPlace, Agents

LEMMA AgentExits ==
    ASSUME plan \in Plans, AgentInPlace, UNCHANGED <<topology, plan, planFile, box>>,
           NEW failed \in BOOLEAN, Exits(failed)
    PROVE  /\ AgentInPlace'
           /\ agent'.pc \in {"off", "waiting"}
<1>1. unit \in 0..Restarts /\ Restarts \in Nat /\ box' \in {"booting", "up", "gone"}
  BY LimitsAssumption DEF AgentInPlace
<1>2. CASE failed /\ unit > 0
  <2>1. agent' = AgentAt("waiting") /\ unit' = unit
    BY <1>2 DEF Exits
  <2>2. QED
    BY <1>1, <1>2, <2>1, AgentBegins DEF AgentAt
<1>3. CASE ~(failed /\ unit > 0)
  <2>1. agent' = AgentAt("off") /\ unit' \in 0..Restarts
    BY <1>1, <1>3 DEF Exits
  <2>2. QED
    BY <1>1, <2>1, AgentBegins DEF AgentAt
<1>4. QED
  BY <1>2, <1>3

\* While there is an agent no strike stands, so what the agent does to the
\* journal is the drive's to find, if it is not the end of the plan.
LEMMA DriveFindsAgent ==
    ASSUME DriveInformed, UnitActive, UNCHANGED <<topology, drive, attempts, settled>>,
           ended' \in BOOLEAN,
           Ended(journal') => (drive.pc \in Looked => ended')
    PROVE  DriveInformed'
<1>1. drive.strikes = 0
  BY DEF DriveInformed
<1>2. QED
  BY <1>1 DEF DriveInformed, Ended, isCurrentRun

\* A journal that says nothing more than another of the steps.
SaysNoMore(k, j) ==
    /\ k \in JournalType
    /\ Complete(k) \subseteq Complete(j)
    /\ k.step \in {0, j.step}
    /\ k.step # 0 => k.status # "none"

LEMMA NothingSays == plan \in Plans => SaysNoMore(NoJournal, journal) /\ NoJournal.status = "none"
<1> SUFFICES ASSUME plan \in Plans PROVE SaysNoMore(NoJournal, journal) /\ NoJournal.status = "none"
  OBVIOUS
<1>1. N \in Nat
  BY PlanTyped
<1>2. NoJournal \in JournalType
  BY <1>1 DEF NoJournal, JournalType, StepStates
<1>3. Complete(NoJournal) = {}
  BY DEF Complete, NoJournal
<1>4. QED
  BY <1>2, <1>3 DEF NoJournal, SaysNoMore

LEMMA JournalRewritten ==
    ASSUME plan \in Plans, NEW j \in JournalType, journal.status # "none" => j.status # "none"
    PROVE  /\ SaysNoMore(Rewritten(j), j)
           /\ Rewritten(j).status \in {"none", j.status}
<1>1. CASE journal.status = "none"
  <2>1. Rewritten(j) = NoJournal
    BY <1>1 DEF Rewritten
  <2>2. NoJournal \in JournalType /\ Complete(NoJournal) = {} /\ NoJournal.step = 0
        /\ NoJournal.status = "none"
    BY NothingSays DEF SaysNoMore, Complete, NoJournal
  <2>3. QED
    BY <2>1, <2>2 DEF SaysNoMore
<1>2. CASE journal.status # "none"
  BY <1>2 DEF Rewritten, SaysNoMore
<1>3. QED
  BY <1>1, <1>2

LEMMA StampSays ==
    ASSUME plan \in Plans, journal \in JournalType, agent.run \in RunIds \union {None}, NEW lost
    PROVE  SaysNoMore(Stamped(lost), journal) /\ Stamped(lost).status \in {"none", "running"}
<1>1. /\ NoJournal \in JournalType /\ Complete(NoJournal) = {} /\ NoJournal.step = 0
      /\ NoJournal.status = "none"
  BY NothingSays DEF SaysNoMore, Complete, NoJournal
<1>2. ASSUME NEW run \in RunIds \union {None}
      PROVE  SaysNoMore(Fresh(run), journal) /\ Fresh(run).status = "running"
  <2>1. Fresh(run) \in JournalType /\ Fresh(run).status = "running" /\ Fresh(run).step = 0
        /\ Fresh(run).steps = NoJournal.steps
    BY <1>1 DEF Fresh, JournalType
  <2>2. QED
    BY <1>1, <2>1 DEF SaysNoMore, Complete
<1>3. ASSUME NEW run \in RunIds \union {None}
      PROVE  SaysNoMore(Stamp(run), journal) /\ Stamp(run).status = "running"
  <2>1. Stamp(run) \in JournalType /\ Stamp(run).status = "running" /\ Stamp(run).step = journal.step
        /\ Stamp(run).steps = journal.steps
    BY DEF Stamp, JournalType
  <2>2. QED
    BY <2>1 DEF SaysNoMore, Complete
<1>4. \/ Stamped(lost) = NoJournal
      \/ \E run \in RunIds \union {None} : Stamped(lost) \in {Fresh(run), Stamp(run)}
  BY DEF Stamped
<1>5. QED
  BY <1>1, <1>2, <1>3, <1>4, NothingSays

LEMMA StepWritten ==
    ASSUME plan \in Plans, journal \in JournalType, NEW i \in DOMAIN plan, NEW state \in StepStates,
           NEW lost
    PROVE  LET j == WithStep(i, state, lost) IN
           /\ j \in JournalType
           /\ Complete(j) \subseteq Complete(journal) \union {i}
           /\ state # "done" \/ "id" \in lost => Complete(j) \subseteq Complete(journal)
           /\ j.step \in {0, i} /\ (j.step # 0 => j.status # "none")
           /\ j.status \in {"none", journal.status}
<1>1. N \in Nat /\ DOMAIN plan = 1..N
  BY PlanTyped
<1> DEFINE k == IF "id" \in lost THEN [journal EXCEPT !.step = 0]
                ELSE [journal EXCEPT !.step = i, !.steps[i] = state]
<1>2. /\ journal.run \in RunIds \union {None} /\ journal.steps \in [DOMAIN plan -> StepStates]
      /\ journal.status \in {"none", "running", "done", "failed"}
      /\ journal = [run |-> journal.run, status |-> journal.status, step |-> journal.step,
                    steps |-> journal.steps]
  BY DEF JournalType
<1>3. CASE "id" \in lost
  <2>1. k = [run |-> journal.run, status |-> journal.status, step |-> 0, steps |-> journal.steps]
    BY <1>2, <1>3
  <2>2. k.step = 0 /\ k.status = journal.status /\ k.steps = journal.steps
    BY <2>1
  <2>3. k \in JournalType
    BY <1>1, <1>2, <2>1 DEF JournalType
  <2>4. WithStep(i, state, lost) = Rewritten(k)
    BY DEF WithStep
  <2> HIDE DEF k
  <2>5. Complete(k) = Complete(journal)
    BY <2>2 DEF Complete
  <2>6. SaysNoMore(Rewritten(k), k) /\ Rewritten(k).status \in {"none", k.status}
    BY <2>2, <2>3, JournalRewritten
  <2>7. QED
    BY <2>2, <2>4, <2>5, <2>6 DEF SaysNoMore
<1>4. CASE "id" \notin lost
  <2>1. k = [run |-> journal.run, status |-> journal.status, step |-> i,
             steps |-> [journal.steps EXCEPT ![i] = state]]
    BY <1>2, <1>4
  <2>2. i \in 0..N /\ [journal.steps EXCEPT ![i] = state] \in [DOMAIN plan -> StepStates]
    BY <1>1, <1>2
  <2>3. k \in JournalType /\ k.step = i /\ k.status = journal.status
    BY <1>2, <2>1, <2>2 DEF JournalType
  <2>4. /\ Complete(k) \subseteq Complete(journal) \union {i}
        /\ state # "done" => Complete(k) \subseteq Complete(journal)
    BY <1>2, <2>1 DEF Complete
  <2>5. WithStep(i, state, lost) = Rewritten(k)
    BY DEF WithStep
  <2> HIDE DEF k
  <2>6. SaysNoMore(Rewritten(k), k) /\ Rewritten(k).status \in {"none", k.status}
    BY <2>3, JournalRewritten
  <2>7. QED
    BY <1>4, <2>3, <2>4, <2>5, <2>6 DEF SaysNoMore
<1>5. QED
  BY <1>3, <1>4

LEMMA StatusWritten ==
    ASSUME plan \in Plans, journal \in JournalType, NEW status \in {"done", "failed"}
    PROVE  /\ SaysNoMore(PlanStatus(status), journal)
           /\ PlanStatus(status).status \in {"none", status}
<1> DEFINE k == [journal EXCEPT !.status = status]
<1>1. k \in JournalType /\ k.status = status /\ k.step = journal.step /\ k.steps = journal.steps
  BY DEF JournalType
<1>2. Complete(k) = Complete(journal)
  BY <1>1 DEF Complete
<1>3. PlanStatus(status) = Rewritten(k)
  BY DEF PlanStatus
<1> HIDE DEF k
<1>4. SaysNoMore(Rewritten(k), k) /\ Rewritten(k).status \in {"none", k.status}
  BY <1>1, JournalRewritten
<1>5. QED
  BY <1>1, <1>2, <1>3, <1>4 DEF SaysNoMore

-----------------------------------------------------------------------------
(***************************************************************************)
(* The agent.                                                              *)
(***************************************************************************)

LEMMA Parts ==
    ASSUME IInv
    PROVE  /\ plan \in Plans /\ topology \in {"push", "callback"} /\ token \in Token
           /\ journal \in JournalType /\ authorized \in BOOLEAN
           /\ installed \subseteq DOMAIN plan /\ misread \in BOOLEAN
           /\ N \in Nat /\ DOMAIN plan = 1..N
BY ModeKnown, PlanTyped DEF IInv, Books, BooksTyped, TokenAccounted

\* What the agent is told of the plan and of the box while it walks it.
LEMMA AgentParts ==
    ASSUME IInv
    PROVE  /\ agent \in Agents
           /\ agent.run \in RunIds \union {None} /\ agent.at \in 1..(N + 1)
           /\ agent.lost \in SUBSET FieldNames
           /\ unit \in 0..Restarts /\ box \in {"booting", "up", "gone"}
           /\ planFile \in RunIds \union {None, Torn}
           /\ agent.pc \in {"looking", "executing"} /\ ~misread =>
                 RequiredBefore(agent.at) \subseteq installed
           /\ agent.pc = "executing" => agent.at \in DOMAIN plan
           /\ agent.pc # "executing" => agent.lost = {}
           /\ agent.pc \in {"looking", "executing", "failing"} => journal.status \in {"none", "running"}
           /\ ~misread => TrueOf(journal, installed)
           /\ \A i \in installed : plan[i].retires => ~authorized
           /\ ended \in BOOLEAN
BY DEF IInv, AgentInPlace, Agents, Books, JournalTrue, KeyFollowsStep, DriveInformed

\* A journal that says no more is as true.
LEMMA SaysNoLess ==
    ASSUME NEW j, NEW S, TrueOf(j, S), NEW k, SaysNoMore(k, j), k.status # "done"
    PROVE  TrueOf(k, S)
BY DEF TrueOf, SaysNoMore

\* An agent that finds nothing to do before a step has what that step waits for.
LEMMA PassedBy ==
    ASSUME IInv, ~misread, agent.pc = "looking",
           NEW i \in 1..(N + 1), \A k \in ToDo : i <= k
    PROVE  RequiredBefore(i) \subseteq installed
<1>1. /\ DOMAIN plan = 1..N /\ N \in Nat /\ agent.at \in 1..(N + 1)
      /\ RequiredBefore(agent.at) \subseteq installed /\ Complete(journal) \subseteq installed
  BY Parts, AgentParts DEF TrueOf
<1>2. ASSUME NEW k \in RequiredBefore(i)
      PROVE  k \in installed
  <2>1. k \in Required /\ k \in 1..N /\ k < i
    BY <1>1 DEF RequiredBefore, Required
  <2>2. CASE k < agent.at
    BY <1>1, <2>1, <2>2 DEF RequiredBefore
  <2>3. CASE k >= agent.at
    <3>1. k \in agent.at..N /\ k \notin ToDo
      BY <1>1, <2>1, <2>3 DEF ToDo
    <3>2. journal.steps[k] = "done"
      BY <3>1 DEF ToDo
    <3>3. QED
      BY <1>1, <2>1, <3>2 DEF Complete
  <2>4. QED
    BY <1>1, <2>1, <2>2, <2>3
<1>3. QED
  BY <1>2

\* The next place of an agent that goes on.
LEMMA AgentTyped ==
    ASSUME IInv, UNCHANGED <<topology, plan>>,
           NEW pc \in {"stamping", "looking", "executing", "failing"},
           NEW run \in RunIds \union {None}, NEW at \in 1..(N + 1), NEW lost \in SUBSET FieldNames,
           agent' = [pc |-> pc, run |-> run, at |-> at, lost |-> lost],
           UNCHANGED <<box, planFile, unit>>,
           IF pc = "executing" THEN at \in DOMAIN plan ELSE lost = {},
           pc \in {"looking", "executing"} /\ ~misread' => RequiredBefore(at) \subseteq installed',
           pc # "stamping" => journal'.status \in {"none", "running"}
    PROVE  AgentInPlace'
<1>1. /\ Agents' = Agents /\ agent'.pc = pc /\ agent'.at = at /\ agent'.lost = lost
      /\ RequiredBefore(agent.at)' = RequiredBefore(at)
  BY SamePlan DEF RequiredBefore, Required
<1>2. agent' \in Agents
  BY DEF Agents, AgentPlaces
<1>3. QED
  BY <1>1, <1>2, AgentParts DEF AgentInPlace

LEMMA AgentStartsKeeps == IInv /\ AgentStarts => IInv'
<1> SUFFICES ASSUME IInv, AgentStarts PROVE IInv'
  OBVIOUS
<1>1. /\ plan \in Plans /\ topology \in {"push", "callback"} /\ N \in Nat /\ N' = N
      /\ UNCHANGED <<topology, plan, box, planFile, drive, attempts, settled, fetch, ended,
                     row, retired, token, authorized, journal, late, installed, misread>>
  BY Parts DEF AgentStarts, agentFrame, rowVars, driveVars, histVars, N
<1>2. /\ agent'.pc \in {"stamping", "off", "waiting"}
      /\ AgentInPlace'
  <2>1. CASE Exits(TRUE)
    BY <1>1, <2>1, AgentExits DEF IInv
  <2>2. CASE /\ planFile \notin {None, Torn} /\ UNCHANGED unit
             /\ agent' = [agent EXCEPT !.pc = "stamping", !.run = planFile]
    <3>1. agent' = [pc |-> "stamping", run |-> planFile, at |-> agent.at, lost |-> agent.lost]
      BY <2>2, AgentParts DEF Agents
    <3>2. /\ agent' = [pc |-> "stamping", run |-> planFile, at |-> agent.at, lost |-> {}]
          /\ planFile \in RunIds \union {None} /\ agent.at \in 1..(N + 1)
      BY <2>2, <3>1, AgentParts DEF AgentStarts
    <3>3. AgentInPlace'
      <4> DEFINE pc == "stamping"
      <4>1. /\ pc \in {"stamping", "looking", "executing", "failing"} /\ {} \in SUBSET FieldNames
            /\ agent' = [pc |-> pc, run |-> planFile, at |-> agent.at, lost |-> {}]
            /\ IF pc = "executing" THEN agent.at \in DOMAIN plan ELSE {} = {}
            /\ pc \notin {"looking", "executing"} /\ pc = "stamping"
        BY <3>2
      <4> HIDE DEF pc
      <4>2. QED
        BY <1>1, <2>2, <3>2, <4>1, AgentTyped
    <3>4. QED
      BY <3>2, <3>3
  <2>3. QED
    BY <2>1, <2>2 DEF AgentStarts
<1>3. Books'
  BY <1>1, BooksStay DEF IInv
<1>4. TokenAccounted'
  BY <1>1, <1>2, TokenStays DEF IInv
<1>5. DriveInformed'
  BY <1>1, DriveStays DEF IInv, AgentStarts, UnitActive, Running
<1>6. Bounded'
  <2>1. UNCHANGED mishaps \/ GoesWrong
    BY DEF AgentStarts
  <2>2. QED
    BY <2>1, CostsLittle DEF IInv, Bounded, GoesWrong
<1>7. QED
  BY <1>2, <1>3, <1>4, <1>5, <1>6 DEF IInv

\* What a step of the agent that flushes a true journal keeps.
LEMMA AgentFlushes ==
    ASSUME IInv, UNCHANGED <<topology, plan, box, planFile, drive, attempts, settled, fetch>>,
           NEW j \in JournalType, NEW cost \in {0, 1}, Flush(j, cost),
           j.step # 0 => j.status # "none",
           installed \subseteq installed', installed' \subseteq DOMAIN plan,
           misread' \in BOOLEAN, misread => misread',
           ~misread' => TrueOf(j, installed'),
           authorized' \in {authorized, FALSE},
           \A i \in installed' : plan[i].retires => ~authorized',
           UnitActive, ended' \in BOOLEAN,
           j.status \in {"done", "failed"} => ended' = (drive.pc # "off"),
           agent'.pc \notin {"unborn", "fetching", "refused"}
    PROVE  /\ Books' /\ TokenAccounted' /\ DriveInformed' /\ Bounded'
           /\ journal' = j
<1>1. Books' /\ token' \in Token /\ journal' = j
  BY Parts, FlushKeepsBooks DEF IInv
<1>2. TokenAccounted'
  BY <1>1, TokenFlushed DEF IInv
<1>3. DriveInformed'
  BY <1>1, DriveFindsAgent DEF IInv, Looked, Ended
<1>4. Bounded'
  BY FlushCosts DEF IInv
<1>5. QED
  BY <1>1, <1>2, <1>3, <1>4

LEMMA AgentStampsKeeps == IInv /\ AgentStamps => IInv'
<1> SUFFICES ASSUME IInv, AgentStamps PROVE IInv'
  OBVIOUS
<1>0. PICK lost \in SUBSET {"serverId", "runId", "steps"} : Flush(Stamped(lost), 0)
  BY DEF AgentStamps
<1> DEFINE j == Stamped(lost)
<1>1. /\ plan \in Plans /\ N \in Nat /\ DOMAIN plan = 1..N /\ journal \in JournalType
      /\ authorized' = authorized /\ installed \subseteq DOMAIN plan /\ misread \in BOOLEAN
      /\ UNCHANGED <<topology, plan, box, planFile, drive, attempts, settled, fetch, ended, unit,
                     installed, misread>>
      /\ agent.pc = "stamping" /\ agent' = AgentAt("looking")
  BY Parts DEF AgentStamps, agentFrame, driveVars, histVars
<1>2. SaysNoMore(j, journal) /\ j.status \in {"none", "running"}
  BY <1>1, AgentParts, StampSays
<1>3. j \in JournalType /\ (j.step # 0 => j.status # "none") /\ Flush(j, 0)
  BY <1>0, <1>2 DEF SaysNoMore
<1> HIDE DEF j
<1>4. ~misread => TrueOf(j, installed)
  BY <1>2, AgentParts, SaysNoLess
<1>5. UnitActive /\ agent'.pc = "looking"
  BY <1>1 DEF UnitActive, Running, AgentAt
<1>6. Books' /\ TokenAccounted' /\ DriveInformed' /\ Bounded' /\ journal' = j
  BY <1>1, <1>2, <1>3, <1>4, <1>5, AgentParts, AgentFlushes
<1>7. AgentInPlace'
  <2>1. agent' = [pc |-> "looking", run |-> None, at |-> 1, lost |-> {}]
    BY <1>1 DEF AgentAt
  <2>2. RequiredBefore(1) = {}
    BY <1>1 DEF RequiredBefore, Required
  <2>3. QED
    BY <1>1, <1>2, <1>6, <2>1, <2>2, AgentTyped
<1>8. QED
  BY <1>6, <1>7 DEF IInv

\* The agent takes a step up, whatever it reads of it.
LEMMA StepTakenUp ==
    ASSUME IInv, agent.pc = "looking", NEW i \in DOMAIN plan, \A k \in ToDo : i <= k,
           NEW lost \in SUBSET FieldNames, NEW cost \in {0, 1},
           Flush(WithStep(i, "running", lost), cost),
           agent' = [agent EXCEPT !.pc = "executing", !.at = i, !.lost = lost],
           UNCHANGED <<agentFrame, ended, histVars, authorized, unit>>
    PROVE  IInv'
<1> DEFINE j == WithStep(i, "running", lost)
<1>1. /\ plan \in Plans /\ N \in Nat /\ DOMAIN plan = 1..N /\ journal \in JournalType
      /\ installed \subseteq DOMAIN plan /\ misread \in BOOLEAN
      /\ UNCHANGED <<topology, plan, box, planFile, drive, attempts, settled, fetch, ended, unit,
                     installed, misread, authorized>>
  BY Parts DEF agentFrame, driveVars, histVars
<1>2. /\ j \in JournalType /\ Complete(j) \subseteq Complete(journal)
      /\ j.step \in {0, i} /\ (j.step # 0 => j.status # "none")
      /\ j.status \in {"none", journal.status} /\ Flush(j, cost)
  BY <1>1, StepWritten DEF StepStates
<1> HIDE DEF j
<1>3. ~misread => RequiredBefore(i) \subseteq installed
  BY <1>1, PassedBy
<1>4. j.status \in {"none", "running"}
  BY <1>2, AgentParts
<1>5. ~misread => TrueOf(j, installed)
  BY <1>2, <1>3, <1>4, AgentParts DEF TrueOf
<1>6. /\ agent' = [pc |-> "executing", run |-> agent.run, at |-> i, lost |-> lost]
      /\ agent.run \in RunIds \union {None} /\ i \in 1..(N + 1)
      /\ UnitActive /\ agent'.pc = "executing"
  <2>1. agent' = [pc |-> "executing", run |-> agent.run, at |-> i, lost |-> lost]
    BY AgentParts DEF Agents
  <2>2. UnitActive
    BY DEF UnitActive, Running
  <2>3. agent.run \in RunIds \union {None} /\ i \in 1..(N + 1)
    BY <1>1, AgentParts
  <2>4. agent'.pc = "executing"
    BY <2>1
  <2>5. QED
    BY <2>1, <2>2, <2>3, <2>4
<1>7. Books' /\ TokenAccounted' /\ DriveInformed' /\ Bounded' /\ journal' = j
  BY <1>1, <1>2, <1>4, <1>5, <1>6, AgentParts, AgentFlushes
<1>8. AgentInPlace'
  BY <1>1, <1>3, <1>4, <1>6, <1>7, AgentTyped
<1>9. QED
  BY <1>7, <1>8 DEF IInv

LEMMA AgentTakesStepKeeps == IInv /\ AgentTakesStep => IInv'
<1> SUFFICES ASSUME IInv, AgentTakesStep PROVE IInv'
  OBVIOUS
<1>0. PICK i \in ToDo : /\ \A k \in ToDo : i <= k
                        /\ Flush(WithStep(i, "running", {}), 0)
                        /\ agent' = [agent EXCEPT !.pc = "executing", !.at = i, !.lost = {}]
  <2>1. agent.lost = {}
    BY AgentParts DEF AgentTakesStep
  <2>2. PICK i \in ToDo : /\ \A k \in ToDo : i <= k
                          /\ Flush(WithStep(i, "running", {}), 0)
                          /\ agent' = [agent EXCEPT !.pc = "executing", !.at = i]
    BY DEF AgentTakesStep
  <2>3. agent' = [agent EXCEPT !.pc = "executing", !.at = i, !.lost = {}]
    BY <2>1, <2>2, AgentParts DEF Agents
  <2>4. QED
    BY <2>2, <2>3
<1>1. i \in DOMAIN plan
  BY Parts, AgentParts DEF ToDo
<1>2. QED
  BY <1>0, <1>1, StepTakenUp DEF AgentTakesStep

LEMMA AgentMisreadsStepKeeps == IInv /\ AgentMisreadsStep => IInv'
<1> SUFFICES ASSUME IInv, AgentMisreadsStep PROVE IInv'
  OBVIOUS
<1>0. PICK i \in agent.at..N, lost \in Stretches :
            /\ \A k \in agent.at..(i - 1) : k \notin ToDo
            /\ Flush(WithStep(i, "running", lost), 1)
            /\ agent' = [agent EXCEPT !.pc = "executing", !.at = i, !.lost = lost]
  BY DEF AgentMisreadsStep
<1>1. i \in DOMAIN plan /\ \A k \in ToDo : i <= k
  BY <1>0, Parts, AgentParts DEF ToDo
<1>2. lost \in SUBSET FieldNames
  <2>1. PICK first, last \in DOMAIN Fields : lost = {Fields[k] : k \in first..last}
    BY DEF Stretches
  <2>2. DOMAIN Fields = 1..6
    BY DEF Fields
  <2>3. first..last \subseteq DOMAIN Fields
    BY <2>2
  <2>4. QED
    BY <2>1, <2>3 DEF FieldNames
<1>3. QED
  BY <1>0, <1>1, <1>2, StepTakenUp DEF AgentMisreadsStep

LEMMA AgentCompletesPlanKeeps == IInv /\ AgentCompletesPlan => IInv'
<1> SUFFICES ASSUME IInv, AgentCompletesPlan PROVE IInv'
  OBVIOUS
<1> DEFINE j == PlanStatus("done")
<1>1. /\ plan \in Plans /\ N \in Nat /\ DOMAIN plan = 1..N /\ journal \in JournalType
      /\ installed \subseteq DOMAIN plan /\ misread \in BOOLEAN
      /\ UNCHANGED <<topology, plan, box, planFile, drive, attempts, settled, fetch, installed,
                     authorized>>
      /\ agent.pc = "looking" /\ Flush(j, 0) /\ Exits(FALSE)
      /\ ended' = (drive.pc # "off") /\ misread' = (misread \/ ToDo # {})
  BY Parts DEF AgentCompletesPlan, agentFrame, driveVars
<1>2. SaysNoMore(j, journal) /\ j.status \in {"none", "done"}
  BY <1>1, StatusWritten
<1> HIDE DEF j
<1>3. ~misread' => Required \subseteq installed
  <2>1. ASSUME ~misread'
        PROVE  RequiredBefore(N + 1) \subseteq installed
    <3>1. ToDo = {} /\ ~misread
      BY <1>1, <2>1, Zenon
    <3>2. N + 1 \in 1..(N + 1)
      BY <1>1
    <3>3. QED
      BY <1>1, <3>1, <3>2, PassedBy
  <2>2. RequiredBefore(N + 1) = Required
    BY <1>1 DEF RequiredBefore, Required
  <2>3. QED
    BY <2>1, <2>2
<1>4. ~misread' => TrueOf(j, installed)
  BY <1>1, <1>2, <1>3, AgentParts DEF TrueOf, SaysNoMore
<1>5. AgentInPlace' /\ agent'.pc \in {"off", "waiting"}
  BY <1>1, AgentExits DEF IInv
<1>6. misread' \in BOOLEAN /\ ended' \in BOOLEAN /\ (misread => misread') /\ UnitActive
      /\ j \in JournalType /\ (j.step # 0 => j.status # "none")
  BY <1>1, <1>2 DEF UnitActive, Running, SaysNoMore
<1>7. Books' /\ TokenAccounted' /\ DriveInformed' /\ Bounded' /\ journal' = j
  BY <1>1, <1>4, <1>5, <1>6, AgentParts, AgentFlushes
<1>8. QED
  BY <1>5, <1>7 DEF IInv

LEMMA StepSucceedsKeeps == IInv /\ StepSucceeds => IInv'
<1> SUFFICES ASSUME IInv, StepSucceeds PROVE IInv'
  OBVIOUS
<1>0. PICK at \in DOMAIN plan : at = agent.at
  BY AgentParts DEF StepSucceeds
<1> DEFINE j == WithStep(at, "done", agent.lost)
<1>1. /\ plan \in Plans /\ N \in Nat /\ DOMAIN plan = 1..N /\ journal \in JournalType
      /\ installed \subseteq DOMAIN plan /\ misread \in BOOLEAN /\ authorized \in BOOLEAN
      /\ UNCHANGED <<topology, plan, box, planFile, drive, attempts, settled, fetch, ended, unit>>
      /\ agent.pc = "executing" /\ Flush(j, 0) /\ Proceeds
  BY <1>0, Parts DEF StepSucceeds, agentFrame, driveVars
<1>2. /\ j \in JournalType /\ Complete(j) \subseteq Complete(journal) \union {at}
      /\ j.step \in {0, at} /\ (j.step # 0 => j.status # "none")
      /\ j.status \in {"none", journal.status}
  BY <1>1, StepWritten DEF StepStates
<1> HIDE DEF j
<1>3. plan[at].retires \in BOOLEAN /\ Revoked \in {authorized, FALSE}
  BY <1>0, <1>1, PlanTyped DEF Revoked
<1>4. \/ /\ installed' = installed \union {at} /\ misread' = misread
         /\ authorized' = Revoked /\ "run" \notin agent.lost
      \/ misread' /\ misread' \in BOOLEAN /\ installed' = installed /\ authorized' \in {authorized, Revoked}
  BY <1>0 DEF StepSucceeds
<1>5. /\ installed \subseteq installed' /\ installed' \subseteq DOMAIN plan
      /\ misread' \in BOOLEAN /\ (misread => misread') /\ authorized' \in {authorized, FALSE}
  BY <1>1, <1>3, <1>4
<1>6. \A i \in installed' : plan[i].retires => ~authorized'
  BY <1>0, <1>1, <1>3, <1>4, AgentParts DEF Revoked
<1>7. ~misread' => RequiredBefore(at + 1) \subseteq installed' /\ RequiredBefore(at) \subseteq installed'
  BY <1>0, <1>1, <1>4, AgentParts DEF RequiredBefore, Required
<1>8. j.status \in {"none", "running"}
  BY <1>1, <1>2, AgentParts
<1>9. ~misread' => TrueOf(j, installed')
  BY <1>2, <1>4, <1>7, <1>8, AgentParts DEF TrueOf
<1>10. /\ agent' = [pc |-> "looking", run |-> agent.run, at |-> at + 1, lost |-> {}]
       /\ agent.run \in RunIds \union {None} /\ at + 1 \in 1..(N + 1)
       /\ UnitActive /\ agent'.pc = "looking"
  <2>1. agent' = [pc |-> "looking", run |-> agent.run, at |-> at + 1, lost |-> {}]
    BY <1>0, <1>1, AgentParts DEF Agents, Proceeds
  <2>2. QED
    BY <1>0, <1>1, <2>1, AgentParts DEF UnitActive, Running
<1>11. Books' /\ TokenAccounted' /\ DriveInformed' /\ Bounded' /\ journal' = j
  BY <1>1, <1>2, <1>5, <1>6, <1>8, <1>9, <1>10, AgentParts, AgentFlushes
<1>12. AgentInPlace'
  BY <1>1, <1>7, <1>8, <1>10, <1>11, AgentTyped
<1>13. QED
  BY <1>11, <1>12 DEF IInv

\* A step that fails, or could not be run, is left behind or ends the plan.
LEMMA StepLeft ==
    ASSUME IInv, agent.pc = "executing", NEW cost \in {0, 1},
           Flush(WithStep(agent.at, "failed", agent.lost), cost), LeavesStep,
           authorized' \in {authorized, FALSE},
           UNCHANGED <<agentFrame, ended, histVars, unit>>
    PROVE  IInv'
<1>0. PICK at \in DOMAIN plan : at = agent.at
  BY AgentParts
<1> DEFINE j == WithStep(at, "failed", agent.lost)
<1>1. /\ plan \in Plans /\ N \in Nat /\ DOMAIN plan = 1..N /\ journal \in JournalType
      /\ installed \subseteq DOMAIN plan /\ misread \in BOOLEAN
      /\ UNCHANGED <<topology, plan, box, planFile, drive, attempts, settled, fetch, ended, unit,
                     installed, misread>>
      /\ Flush(j, cost)
  BY <1>0, Parts DEF agentFrame, driveVars, histVars
<1>2. /\ j \in JournalType /\ Complete(j) \subseteq Complete(journal)
      /\ j.step \in {0, at} /\ (j.step # 0 => j.status # "none")
      /\ j.status \in {"none", journal.status}
  BY <1>1, StepWritten DEF StepStates
<1> HIDE DEF j
<1>3. ~misread => RequiredBefore(at) \subseteq installed
  BY <1>0, AgentParts
<1>4. j.status \in {"none", "running"}
  BY <1>1, <1>2, AgentParts
<1>5. ~misread => TrueOf(j, installed)
  BY <1>2, <1>3, <1>4, AgentParts DEF TrueOf
<1>6. UnitActive /\ \A i \in installed : plan[i].retires => ~authorized'
  <2>1. UnitActive
    BY DEF UnitActive, Running
  <2>2. ~authorized => ~authorized'
    OBVIOUS
  <2>3. QED
    BY <2>1, <2>2, AgentParts
<1>7. \/ /\ agent' = [pc |-> "failing", run |-> None, at |-> 1, lost |-> {}]
         /\ agent'.pc = "failing"
      \/ /\ plan[at].optional /\ agent'.pc = "looking"
         /\ agent' = [pc |-> "looking", run |-> agent.run, at |-> at + 1, lost |-> {}]
  <2>1. CASE StopsPlan(at)
    BY <1>0, <2>1 DEF LeavesStep, AgentAt
  <2>2. CASE ~StopsPlan(at)
    BY <1>0, <2>2, AgentParts DEF LeavesStep, StopsPlan, Proceeds, Agents
  <2>3. QED
    BY <2>1, <2>2
<1>8. Books' /\ TokenAccounted' /\ DriveInformed' /\ Bounded' /\ journal' = j
  BY <1>1, <1>2, <1>4, <1>5, <1>6, <1>7, AgentParts, AgentFlushes
<1>9. AgentInPlace'
  <2>1. CASE agent' = [pc |-> "failing", run |-> None, at |-> 1, lost |-> {}]
    BY <1>1, <1>4, <1>8, <2>1, AgentTyped
  <2>2. CASE /\ plan[at].optional
             /\ agent' = [pc |-> "looking", run |-> agent.run, at |-> at + 1, lost |-> {}]
    <3>1. RequiredBefore(at + 1) = RequiredBefore(at)
      BY <1>1, <2>2 DEF RequiredBefore, Required
    <3>2. at + 1 \in 1..(N + 1) /\ agent.run \in RunIds \union {None}
      BY <1>1, AgentParts
    <3>3. QED
      BY <1>1, <1>3, <1>4, <1>8, <2>2, <3>1, <3>2, AgentTyped
  <2>3. QED
    BY <1>7, <2>1, <2>2
<1>10. QED
  BY <1>8, <1>9 DEF IInv

LEMMA StepFailsKeeps == IInv /\ StepFails => IInv'
<1> SUFFICES ASSUME IInv, StepFails PROVE IInv'
  OBVIOUS
<1>1. authorized' \in {authorized, FALSE}
  BY Parts DEF StepFails, Revoked
<1>2. QED
  BY <1>1, StepLeft DEF StepFails

LEMMA StepCannotRunKeeps == IInv /\ StepCannotRun => IInv'
BY StepLeft DEF StepCannotRun

LEMMA AgentMarksFailedKeeps == IInv /\ AgentMarksFailed => IInv'
<1> SUFFICES ASSUME IInv, AgentMarksFailed PROVE IInv'
  OBVIOUS
<1> DEFINE j == PlanStatus("failed")
<1>1. /\ plan \in Plans /\ journal \in JournalType
      /\ installed \subseteq DOMAIN plan /\ misread \in BOOLEAN
      /\ UNCHANGED <<topology, plan, box, planFile, drive, attempts, settled, fetch, installed,
                     misread, authorized>>
      /\ agent.pc = "failing" /\ Flush(j, 0) /\ Exits(TRUE)
      /\ ended' = (drive.pc # "off")
  BY Parts DEF AgentMarksFailed, agentFrame, driveVars, histVars
<1>2. SaysNoMore(j, journal) /\ j.status \in {"none", "failed"}
  BY <1>1, StatusWritten
<1> HIDE DEF j
<1>3. ~misread => TrueOf(j, installed)
  BY <1>2, AgentParts, SaysNoLess
<1>4. AgentInPlace' /\ agent'.pc \in {"off", "waiting"}
  BY <1>1, AgentExits DEF IInv
<1>5. ended' \in BOOLEAN /\ UnitActive /\ j \in JournalType /\ (j.step # 0 => j.status # "none")
  BY <1>1, <1>2 DEF UnitActive, Running, SaysNoMore
<1>6. Books' /\ TokenAccounted' /\ DriveInformed' /\ Bounded' /\ journal' = j
  BY <1>1, <1>3, <1>4, <1>5, AgentParts, AgentFlushes
<1>7. QED
  BY <1>4, <1>6 DEF IInv

-----------------------------------------------------------------------------
(***************************************************************************)
(* The box under it.                                                       *)
(***************************************************************************)

LEMMA KilledKeyGoes == KilledKey => authorized' \in {authorized, FALSE}
BY DEF KilledKey

LEMMA SystemdRestartsKeeps == IInv /\ SystemdRestarts => IInv'
<1> SUFFICES ASSUME IInv, SystemdRestarts PROVE IInv'
  OBVIOUS
<1>1. /\ plan \in Plans /\ topology \in {"push", "callback"}
      /\ UNCHANGED <<topology, plan, installed, misread, box, planFile, drive, attempts, settled, fetch, ended,
                     row, retired, token, authorized, journal, late, mishaps>>
      /\ agent.pc = "waiting" /\ agent' = AgentAt("starting") /\ unit' = unit - 1
  BY Parts DEF SystemdRestarts, agentFrame, histVars, rowVars, driveVars
<1>2. AgentInPlace'
  <2>1. unit' \in 0..Restarts /\ box' \in {"booting", "up", "gone"}
    BY <1>1, LimitsAssumption DEF IInv, AgentInPlace
  <2>2. QED
    BY <1>1, <2>1, AgentBegins DEF IInv
<1>3. Books'
  BY <1>1, BooksStay DEF IInv
<1>4. TokenAccounted'
  BY <1>1, TokenStays DEF IInv, AgentAt
<1>5. DriveInformed'
  BY <1>1, DriveStays DEF IInv, UnitActive
<1>6. QED
  BY <1>1, <1>2, <1>3, <1>4, <1>5 DEF IInv, Bounded

LEMMA AgentIsKilledKeeps == IInv /\ AgentIsKilled => IInv'
<1> SUFFICES ASSUME IInv, AgentIsKilled PROVE IInv'
  OBVIOUS
<1>1. /\ plan \in Plans /\ topology \in {"push", "callback"}
      /\ UNCHANGED <<topology, plan, installed, misread, box, planFile, drive, attempts, settled, fetch, ended,
                     row, retired, token, journal, late>>
      /\ Running /\ authorized' \in {authorized, FALSE} /\ Exits(TRUE) /\ GoesWrong
  BY Parts, KilledKeyGoes DEF AgentIsKilled, netVars, histVars, rowVars, driveVars
<1>2. AgentInPlace' /\ agent'.pc \in {"off", "waiting"}
  BY <1>1, AgentExits DEF IInv
<1>3. Books'
  BY <1>1, BooksWithoutKey DEF IInv
<1>4. TokenAccounted'
  BY <1>1, <1>2, TokenStays DEF IInv
<1>5. DriveInformed'
  BY <1>1, DriveStays DEF IInv, UnitActive
<1>6. QED
  BY <1>1, <1>2, <1>3, <1>4, <1>5, CostsLittle DEF IInv, GoesWrong

LEMMA BoxRebootsKeeps == IInv /\ BoxReboots => IInv'
<1> SUFFICES ASSUME IInv, BoxReboots PROVE IInv'
  OBVIOUS
<1>1. /\ plan \in Plans /\ topology \in {"push", "callback"}
      /\ UNCHANGED <<topology, plan, installed, misread, planFile, drive, attempts, settled, fetch, ended,
                     row, retired, token, journal, late>>
      /\ box' = "booting" /\ agent' = AgentAt("off") /\ unit' = 0
      /\ authorized' \in {authorized, FALSE} /\ GoesWrong
  BY Parts, KilledKeyGoes DEF BoxReboots, netVars, histVars, rowVars, driveVars
<1>2. AgentInPlace'
  BY <1>1, LimitsAssumption, AgentBegins DEF IInv
<1>3. Books'
  BY <1>1, BooksWithoutKey DEF IInv
<1>4. TokenAccounted'
  BY <1>1, TokenStays DEF IInv, AgentAt
<1>5. DriveInformed'
  BY <1>1, DriveStays DEF IInv, UnitActive, Running, AgentAt
<1>6. QED
  BY <1>1, <1>2, <1>3, <1>4, <1>5, CostsLittle DEF IInv, GoesWrong

\* In callback mode, before and besides the agent's own walk.
LEMMA StubInPlace ==
    ASSUME IInv, topology = "callback",
           UNCHANGED <<topology, plan, journal, installed, misread, unit>>,
           box' \in {"booting", "up", "gone"}, planFile' \in RunIds \union {None, Torn},
           agent' \in [pc : {"fetching", "stuck", "refused", "starting"},
                       run : RunIds \union {None}, at : 1..(N + 1), lost : {{}}]
    PROVE  AgentInPlace'
<1>1. Agents' = Agents /\ unit' \in 0..Restarts /\ topology' = "callback"
  BY SamePlan, AgentParts
<1>2. /\ agent'.pc \in {"fetching", "stuck", "refused", "starting"} /\ agent'.lost = {}
      /\ agent' \in Agents
  BY DEF Agents, AgentPlaces
<1>3. QED
  BY <1>1, <1>2 DEF AgentInPlace

LEMMA BoxBootsKeeps == IInv /\ BoxBoots => IInv'
<1> SUFFICES ASSUME IInv, BoxBoots PROVE IInv'
  OBVIOUS
<1>1. /\ plan \in Plans /\ topology \in {"push", "callback"} /\ N' = N
      /\ UNCHANGED <<topology, plan, installed, misread, planFile, drive, attempts, settled, fetch, ended, unit,
                     row, retired, token, authorized, journal, late, mishaps>>
      /\ box' = "up"
      /\ agent' = IF agent.pc = "unborn" THEN [agent EXCEPT !.pc = "fetching"] ELSE agent
  BY Parts DEF BoxBoots, netVars, histVars, rowVars, driveVars, N
<1>2. Books'
  BY <1>1, BooksStay DEF IInv
<1>3. CASE agent.pc = "unborn"
  <2>0. topology = "callback" /\ agent.lost = {}
    BY <1>1, <1>3 DEF IInv, AgentInPlace
  <2>1. agent' = [pc |-> "fetching", run |-> agent.run, at |-> agent.at, lost |-> agent.lost]
    BY <1>1, <1>3, AgentParts DEF Agents
  <2>2. AgentInPlace'
    BY <1>1, <2>0, <2>1, AgentParts, StubInPlace
  <2>3. TokenAccounted'
    BY <1>1, <1>3, <2>1 DEF IInv, TokenAccounted, PlanIsNotWithheld
  <2>4. DriveInformed'
    BY <1>1, <2>0, DriveStays DEF IInv
  <2>5. QED
    BY <1>1, <1>2, <2>2, <2>3, <2>4 DEF IInv, Bounded
<1>4. CASE agent.pc # "unborn"
  <2>1. AgentInPlace'
    <3>1. Agents' = Agents /\ agent' = agent /\ RequiredBefore(agent.at)' = RequiredBefore(agent.at)
      BY <1>1, <1>4, SamePlan DEF RequiredBefore, Required
    <3>2. QED
      BY <1>1, <3>1 DEF IInv, AgentInPlace
  <2>2. TokenAccounted'
    BY <1>1, <1>4, TokenStays DEF IInv
  <2>3. DriveInformed'
    BY <1>1, <1>4, DriveStays DEF IInv, UnitActive, Running
  <2>4. QED
    BY <1>1, <1>2, <2>1, <2>2, <2>3 DEF IInv, Bounded
<1>5. QED
  BY <1>3, <1>4

LEMMA ReportArrivesKeeps == IInv /\ ReportArrives => IInv'
<1> SUFFICES ASSUME IInv, ReportArrives PROVE IInv'
  OBVIOUS
<1>0. PICK r \in late : late' = late \ {r} /\ HandleReport(r)
  BY DEF ReportArrives
<1>1. /\ plan \in Plans /\ topology \in {"push", "callback"} /\ token \in Token
      /\ UNCHANGED <<topology, plan, installed, misread, box, planFile, agent, unit, journal, authorized,
                     drive, attempts, settled, fetch, ended, mishaps>>
      /\ row \in Row /\ row.status \in LiveStatuses /\ retired \in BOOLEAN
      /\ late \subseteq Report /\ journal \in JournalType
      /\ topology = "push" => late = {}
  BY Parts DEF ReportArrives, boxVars, histVars, driveVars, IInv, Books, BooksTyped
<1>2. /\ row' \in Row /\ row'.status \in LiveStatuses /\ retired' \in BOOLEAN
      /\ token' \in Token /\ token'.expired = token.expired /\ token'.uses = token.uses
      /\ row'.status = "running" => row.status = "running" \/ r.step = "ready"
  BY <1>0, <1>1, ReportHandled
<1>3. Books'
  <2>1. topology # "push"
    BY <1>0, <1>1
  <2>2. /\ ~misread => TrueOf(journal, installed)
        /\ r.step = "ready" /\ ~misread => Promised \subseteq installed
        /\ \A i \in installed : plan[i].retires => ~authorized
        /\ installed \subseteq DOMAIN plan /\ misread \in BOOLEAN /\ authorized \in BOOLEAN
    BY <1>0 DEF IInv, Books, BooksTyped, JournalTrue, KeyFollowsStep
  <2>3. late' \subseteq Report /\ \A q \in late' : q \in late
    BY <1>0, <1>1
  <2>4. QED
    BY <1>1, <1>2, <2>1, <2>2, <2>3, BooksGrow DEF IInv
<1>4. AgentInPlace'
  BY <1>1, AgentStays DEF IInv, AgentInPlace
<1>5. TokenAccounted'
  BY <1>0, <1>1, <1>2 DEF IInv, TokenAccounted, PlanIsNotWithheld
<1>6. DriveInformed'
  BY <1>1, DriveStays DEF IInv, UnitActive, Running
<1>7. QED
  BY <1>1, <1>3, <1>4, <1>5, <1>6 DEF IInv, Bounded

-----------------------------------------------------------------------------
(***************************************************************************)
(* The stub and its token.                                                 *)
(***************************************************************************)

\* What the stub does while it has no plan leaves the others what they had.
LEMMA FetchFrame ==
    ASSUME IInv, UNCHANGED fetchFrame, agent.pc = "fetching",
           planFile' \in RunIds \union {None, Torn},
           agent' \in [pc : {"fetching", "stuck", "refused", "starting"},
                       run : RunIds \union {None}, at : 1..(N + 1), lost : {{}}],
           TokenAccounted'
    PROVE  IInv'
<1>1. /\ topology = "callback" /\ topology \in {"push", "callback"} /\ N' = N
      /\ UNCHANGED <<topology, plan, installed, misread, row, retired, box, authorized, journal, unit,
                     drive, attempts, settled, late, ended, mishaps>>
  BY Parts DEF fetchFrame, histVars, driveVars, N, IInv, AgentInPlace
<1>2. Books'
  BY <1>1, BooksStay DEF IInv
<1>3. AgentInPlace'
  BY <1>1, AgentParts, StubInPlace
<1>4. DriveInformed'
  BY <1>1, DriveStays DEF IInv
<1>5. QED
  BY <1>1, <1>2, <1>3, <1>4 DEF IInv, Bounded

\* One more try, of which the answer may have been lost.
LEMMA TriedAgain ==
    ASSUME IInv, agent.pc = "fetching", NEW lost \in {0, 1}, TryAgain(lost), UNCHANGED late,
           token' = [token EXCEPT !.uses = @ + lost], token'.uses \in 0..Budget
    PROVE  /\ TokenAccounted' /\ planFile' \in RunIds \union {None, Torn}
           /\ agent' \in [pc : {"fetching", "stuck", "refused", "starting"},
                          run : RunIds \union {None}, at : 1..(N + 1), lost : {{}}]
<1>1. /\ late = {} /\ ~token.retired /\ token.uses = fetch.lost /\ fetch.tries < FetchTries
      /\ token \in Token /\ fetch \in [tries : 0..FetchTries, lost : 0..FetchTries]
      /\ fetch.lost <= fetch.tries /\ FetchTries \in Nat
      /\ planFile \in RunIds \union {None, Torn}
      /\ agent \in [pc : AgentPlaces, run : RunIds \union {None}, at : 1..(N + 1), lost : {{}}]
  <2>1. agent.lost = {} /\ agent \in Agents /\ planFile \in RunIds \union {None, Torn}
    BY AgentParts
  <2>2. agent \in [pc : AgentPlaces, run : RunIds \union {None}, at : 1..(N + 1), lost : {{}}]
    BY <2>1 DEF Agents
  <2>3. QED
    BY <2>1, <2>2, LimitsAssumption DEF IInv, TokenAccounted
<1>2. /\ fetch' = [tries |-> fetch.tries + 1, lost |-> fetch.lost + lost]
      /\ agent' = [pc |-> IF fetch.tries + 1 = FetchTries THEN "stuck" ELSE "fetching",
                   run |-> agent.run, at |-> agent.at, lost |-> agent.lost]
      /\ planFile' = planFile
  BY <1>1 DEF TryAgain
<1>3. /\ token' \in Token /\ token'.uses = token.uses + lost
      /\ token'.retired = token.retired
  BY <1>1 DEF Token
<1>4. TokenAccounted'
  BY <1>1, <1>2, <1>3 DEF TokenAccounted, PlanIsNotWithheld
<1>5. QED
  BY <1>1, <1>2, <1>4

LEMMA FetchIsLostKeeps == IInv /\ FetchIsLost => IInv'
<1> SUFFICES ASSUME IInv, FetchIsLost PROVE IInv'
  OBVIOUS
<1>1. /\ agent.pc = "fetching" /\ TryAgain(0) /\ UNCHANGED <<token, late>> /\ UNCHANGED fetchFrame
      /\ token \in Token
  BY Parts DEF FetchIsLost, fetchFrame, histVars
<1>2. token' = [token EXCEPT !.uses = @ + 0] /\ token'.uses \in 0..Budget
  BY <1>1 DEF Token
<1>3. QED
  BY <1>1, <1>2, TriedAgain, FetchFrame

LEMMA FetchIsRefusedKeeps == IInv /\ FetchIsRefused => IInv'
<1> SUFFICES ASSUME IInv, FetchIsRefused PROVE IInv'
  OBVIOUS
<1>1. /\ agent.pc = "fetching" /\ ~TokenIsGood /\ agent' = [agent EXCEPT !.pc = "refused"]
      /\ UNCHANGED <<token, planFile, fetch, late>> /\ UNCHANGED fetchFrame
  BY DEF FetchIsRefused, fetchFrame, histVars
<1>2. /\ planFile \in RunIds \union {None, Torn}
      /\ agent' = [pc |-> "refused", run |-> agent.run, at |-> agent.at, lost |-> agent.lost]
      /\ agent \in [pc : AgentPlaces, run : RunIds \union {None}, at : 1..(N + 1), lost : {{}}]
  <2>1. agent.lost = {} /\ agent \in Agents /\ planFile \in RunIds \union {None, Torn}
    BY <1>1, AgentParts
  <2>2. agent \in [pc : AgentPlaces, run : RunIds \union {None}, at : 1..(N + 1), lost : {{}}]
    BY <2>1 DEF Agents
  <2>3. QED
    BY <1>1, <2>1, <2>2
<1>3. token.expired \/ fetch.lost >= Budget
  BY <1>1, LimitsAssumption DEF TokenIsGood, IInv, TokenAccounted, Token
<1>4. TokenAccounted'
  BY <1>1, <1>2, <1>3 DEF IInv, TokenAccounted, PlanIsNotWithheld
<1>5. QED
  BY <1>1, <1>2, <1>4, FetchFrame

LEMMA PlanIsSentKeeps == IInv /\ PlanIsSent => IInv'
<1> SUFFICES ASSUME IInv, PlanIsSent PROVE IInv'
  OBVIOUS
<1>1. /\ agent.pc = "fetching" /\ TokenIsGood /\ token' = [token EXCEPT !.uses = @ + 1]
      /\ UNCHANGED late /\ UNCHANGED fetchFrame /\ token \in Token /\ plan \in Plans
  BY Parts DEF PlanIsSent, Spend, fetchFrame, histVars
<1>2. token' \in Token /\ token'.uses \in 0..Budget
  BY <1>1, LimitsAssumption DEF Token, TokenIsGood
<1>3. CASE TryAgain(1)
  BY <1>1, <1>2, <1>3, TriedAgain, FetchFrame
<1>4. CASE ~TryAgain(1)
  <2>1. /\ planFile' = SnapshotRun /\ agent' = AgentAt("starting")
        /\ fetch' = [tries |-> 0, lost |-> 0]
    BY <1>4 DEF PlanIsSent
  <2>2. planFile' \in RunIds \union {None, Torn}
    BY <2>1 DEF SnapshotRun, RunIds
  <2>3. agent' = [pc |-> "starting", run |-> None, at |-> 1, lost |-> {}]
    BY <2>1 DEF AgentAt
  <2>4. TokenAccounted'
    BY <1>2, <2>1, <2>3, LimitsAssumption DEF TokenAccounted, PlanIsNotWithheld
  <2>5. N \in Nat
    BY <1>1, PlanTyped
  <2>6. QED
    BY <1>1, <2>2, <2>3, <2>4, <2>5, FetchFrame
<1>5. QED
  BY <1>3, <1>4

LEMMA TokenExpiresKeeps == IInv /\ TokenExpires => IInv'
<1> SUFFICES ASSUME IInv, TokenExpires PROVE IInv'
  OBVIOUS
<1>1. /\ plan \in Plans /\ topology \in {"push", "callback"} /\ token \in Token
      /\ UNCHANGED <<topology, plan, installed, misread, row, retired, box, planFile, agent, unit, journal, authorized,
                     drive, attempts, settled, fetch, late, ended, mishaps>>
      /\ token' = [token EXCEPT !.expired = TRUE]
  BY Parts DEF TokenExpires, boxVars, histVars, driveVars, netVars
<1>2. token' \in Token /\ token'.uses = token.uses /\ token'.retired = token.retired /\ token'.expired
  BY <1>1 DEF Token
<1>3. TokenAccounted'
  BY <1>1, <1>2 DEF IInv, TokenAccounted, PlanIsNotWithheld
<1>4. Books' /\ AgentInPlace' /\ DriveInformed'
  BY <1>1, BooksStay, AgentStays, DriveStays DEF IInv, AgentInPlace, UnitActive, Running
<1>5. QED
  BY <1>1, <1>3, <1>4 DEF IInv, Bounded

-----------------------------------------------------------------------------
(***************************************************************************)
(* The drive.                                                              *)
(***************************************************************************)

\* What a drive does, but for its verdicts, leaves the others what they had.
LEMMA DriveFrame ==
    ASSUME IInv, UNCHANGED driveFrame, UNCHANGED <<row, retired, agent, unit>>,
           planFile' \in RunIds \union {None, Torn}, DriveInformed',
           UNCHANGED mishaps \/ GoesWrong
    PROVE  IInv'
<1>1. UNCHANGED <<topology, plan, installed, misread, row, retired, token, authorized, journal, late, fetch, box,
                  agent, unit>>
  BY DEF driveFrame, histVars
<1>2. Books' /\ AgentInPlace' /\ TokenAccounted'
  BY <1>1, BooksStay, AgentStays, TokenStays DEF IInv
<1>3. Bounded'
  BY CostsLittle DEF IInv, Bounded, GoesWrong
<1>4. QED
  BY <1>2, <1>3 DEF IInv

LEMMA DriveOff ==
    ASSUME DriveInformed, UNCHANGED <<topology, journal>>, drive' = Off,
           ended' = ended, attempts' \in 0..(MaxAttempts - 1),
           settled' \in {"none", "step", "gone", "fatal"}
    PROVE  DriveInformed'
BY DEF DriveInformed, Off, Ended, DrivePlaces, Looked

LEMMA AttemptCounted ==
    ASSUME DriveInformed, CountAttempt
    PROVE  /\ attempts' \in 0..(MaxAttempts - 1)
           /\ settled' \in {"none", "step", "gone", "fatal"}
BY LimitsAssumption DEF DriveInformed, CountAttempt

LEMMA DriveFailsInformed ==
    ASSUME DriveInformed, UNCHANGED <<topology, journal, ended>>, DriveFails
    PROVE  DriveInformed'
BY AttemptCounted, DriveOff DEF DriveFails

LEMMA DriveIsFatalInformed ==
    ASSUME DriveInformed, UNCHANGED <<topology, journal, ended>>, DriveIsFatal
    PROVE  DriveInformed'
BY LimitsAssumption, DriveOff DEF DriveIsFatal

LEMMA DriveTyped ==
    ASSUME IInv
    PROVE  /\ drive = [pc |-> drive.pc, run |-> drive.run, alive |-> drive.alive,
                       strikes |-> drive.strikes]
           /\ drive.pc \in DrivePlaces /\ drive.run \in RunIds \union {None}
           /\ drive.alive \in BOOLEAN /\ drive.strikes \in 0..1
           /\ planFile \in RunIds \union {None, Torn}
           /\ drive.pc \notin {"polling", "checking"} => drive.strikes = 0
           /\ drive.pc # "off" => topology = "push"
BY Parts DEF IInv, DriveInformed, AgentInPlace

LEMMA SupervisorPollsKeeps == IInv /\ SupervisorPolls => IInv'
<1> SUFFICES ASSUME IInv, SupervisorPolls PROVE IInv'
  OBVIOUS
<1>1. /\ plan \in Plans /\ topology = "push" /\ topology' = topology
      /\ UNCHANGED <<topology, plan, installed, misread, retired, token, authorized, journal, late, fetch, box,
                     planFile, agent, unit, ended, mishaps>>
      /\ UNCHANGED driveFrame
  BY Parts DEF SupervisorPolls, driveFrame, histVars
<1>2. CASE /\ settled # "none" /\ settled' = "none" /\ row' = TryStatus(row, "failed")
           /\ UNCHANGED <<drive, attempts>>
  <2>1. row \in Row /\ row.status \in LiveStatuses /\ row.status = "provisioning"
    BY DEF IInv, Books, BooksTyped, SupervisorPolls
  <2>2. row' \in Row /\ row'.status \in LiveStatuses /\ row'.status = "failed"
    BY <1>2, <2>1, EndedRow
  <2>3. Books'
    BY <1>1, <2>2, BooksGrow DEF IInv, Books, BooksTyped, JournalTrue, KeyFollowsStep
  <2>4. AgentInPlace' /\ TokenAccounted'
    BY <1>1, AgentStays, TokenStays DEF IInv, AgentInPlace
  <2>5. DriveInformed'
    BY <1>1, <1>2 DEF IInv, DriveInformed, UnitActive, Running, Ended, isCurrentRun
  <2>6. QED
    BY <1>1, <2>3, <2>4, <2>5 DEF IInv, Bounded
<1>3. CASE /\ settled = "none" /\ drive.pc = "off" /\ UNCHANGED row
           /\ \/ DriveIsFatal \/ DriveFails
              \/ drive' = At("connecting") /\ UNCHANGED <<attempts, settled>>
  <2>1. DriveInformed'
    <3>1. CASE DriveIsFatal
      BY <1>1, <3>1, DriveIsFatalInformed DEF IInv
    <3>2. CASE DriveFails
      BY <1>1, <3>2, DriveFailsInformed DEF IInv
    <3>3. CASE drive' = At("connecting") /\ UNCHANGED <<attempts, settled>>
      <4>1. drive' = [pc |-> "connecting", run |-> drive.run, alive |-> drive.alive, strikes |-> 0]
        BY <1>3, <3>3, DriveTyped DEF At
      <4>2. QED
        BY <1>1, <3>3, <4>1, DriveTyped DEF IInv, DriveInformed, Ended, DrivePlaces, Looked
    <3>4. QED
      BY <1>3, <3>1, <3>2, <3>3
  <2>2. QED
    BY <1>1, <1>3, <2>1, DriveTyped, DriveFrame
<1>4. QED
  BY <1>2, <1>3 DEF SupervisorPolls

LEMMA DriveConnectsKeeps == IInv /\ DriveConnects => IInv'
<1> SUFFICES ASSUME IInv, DriveConnects PROVE IInv'
  OBVIOUS
<1>1. /\ UNCHANGED driveFrame /\ UNCHANGED <<row, retired, agent, unit, planFile>>
      /\ UNCHANGED <<topology, journal, ended>> /\ drive.pc = "connecting"
  BY DEF DriveConnects, driveFrame, histVars
<1>2. DriveInformed'
  <2>1. CASE drive' = At("looking") /\ UNCHANGED <<attempts, settled, mishaps>>
    <3>1. drive' = [pc |-> "looking", run |-> drive.run, alive |-> drive.alive, strikes |-> 0]
      BY <1>1, <2>1, DriveTyped DEF At
    <3>2. QED
      BY <1>1, <2>1, <3>1, DriveTyped DEF IInv, DriveInformed, Ended, DrivePlaces, Looked
  <2>2. CASE DriveFails
    BY <1>1, <2>2, DriveFailsInformed DEF IInv
  <2>3. CASE DriveIsFatal
    BY <1>1, <2>3, DriveIsFatalInformed DEF IInv
  <2>4. QED
    BY <2>1, <2>2, <2>3 DEF DriveConnects
<1>3. UNCHANGED mishaps \/ GoesWrong
  BY DEF DriveConnects
<1>4. QED
  BY <1>1, <1>2, <1>3, DriveTyped, DriveFrame

LEMMA DriveIsCutOffKeeps == IInv /\ DriveIsCutOff => IInv'
<1> SUFFICES ASSUME IInv, DriveIsCutOff PROVE IInv'
  OBVIOUS
<1>1. /\ UNCHANGED driveFrame /\ UNCHANGED <<row, retired, agent, unit, planFile>>
      /\ UNCHANGED <<topology, journal, ended>> /\ DriveFails
      /\ UNCHANGED mishaps \/ GoesWrong
  BY DEF DriveIsCutOff, driveFrame, histVars
<1>2. QED
  BY <1>1, DriveFailsInformed, DriveTyped, DriveFrame DEF IInv

LEMMA DriveStallsKeeps == IInv /\ DriveStalls => IInv'
<1> SUFFICES ASSUME IInv, DriveStalls PROVE IInv'
  OBVIOUS
<1>1. /\ UNCHANGED driveFrame /\ UNCHANGED <<row, retired, agent, unit, planFile>>
      /\ UNCHANGED <<topology, journal, ended>> /\ DriveFails
      /\ UNCHANGED mishaps \/ GoesWrong
  BY DEF DriveStalls, driveFrame, histVars
<1>2. QED
  BY <1>1, DriveFailsInformed, DriveTyped, DriveFrame DEF IInv

\* The run that might be adopted is one that has not ended.
LEMMA DriveLooksKeeps == IInv /\ DriveLooks => IInv'
<1> SUFFICES ASSUME IInv, DriveLooks PROVE IInv'
  OBVIOUS
<1> DEFINE run == IF journal.status = "running" THEN journal.run ELSE None
<1>1. /\ UNCHANGED driveFrame /\ UNCHANGED <<row, retired, agent, unit, planFile, mishaps>>
      /\ UNCHANGED <<topology, journal, attempts, settled>> /\ ended' = FALSE
      /\ drive.pc = "looking"
  BY DEF DriveLooks, driveFrame, histVars
<1>2. drive' = [pc |-> "probing", run |-> run, alive |-> drive.alive, strikes |-> 0]
  BY <1>1, DriveTyped DEF DriveLooks, At
<1>3. run \in RunIds \union {None} /\ (Ended(journal) => run = None)
  BY DEF IInv, Books, BooksTyped, JournalType, DriveInformed, Ended
<1> HIDE DEF run
<1>4. DriveInformed'
  <2>1. ended' \in BOOLEAN
    BY <1>1
  <2>2. /\ drive'.pc = "probing" /\ drive'.run = run /\ drive'.strikes = 0
        /\ drive' \in [pc : DrivePlaces, run : RunIds \union {None}, alive : BOOLEAN, strikes : 0..1]
    BY <1>2, <1>3, DriveTyped DEF DrivePlaces
  <2>3. Ended(journal)' => drive'.run = None
    BY <1>1, <1>3, <2>2 DEF Ended
  <2>4. topology' # "callback"
    BY <1>1, DriveTyped
  <2>5. attempts' \in 0..(MaxAttempts - 1) /\ settled' \in {"none", "step", "gone", "fatal"}
    BY <1>1 DEF IInv, DriveInformed
  <2>6. QED
    BY <2>1, <2>2, <2>3, <2>4, <2>5 DEF DriveInformed
<1>5. QED
  BY <1>1, <1>4, DriveTyped, DriveFrame

\* A minted run is nobody's yet.
LEMMA DriveProbesKeeps == IInv /\ DriveProbes => IInv'
<1> SUFFICES ASSUME IInv, DriveProbes PROVE IInv'
  OBVIOUS
<1> DEFINE run == IF Adopts(Running) THEN drive.run ELSE FreshRun
<1>1. /\ UNCHANGED driveFrame /\ UNCHANGED <<row, retired, agent, unit, planFile, mishaps>>
      /\ UNCHANGED <<topology, journal, attempts, settled, ended>>
      /\ drive.pc = "probing"
  BY DEF DriveProbes, driveFrame, histVars
<1>2. drive' = [pc |-> "writing", run |-> run, alive |-> Running, strikes |-> 0]
  BY <1>1, DriveTyped DEF DriveProbes, At
<1>3. run \in RunIds /\ (run = drive.run \/ run # journal.run)
  BY DriveTyped, FreshRunIsFresh DEF Adopts
<1>4. Running \in BOOLEAN /\ run # None
  BY <1>3 DEF Running, RunIds, None
<1> HIDE DEF run
<1>5. DriveInformed'
  BY <1>1, <1>2, <1>3, <1>4, DriveTyped
     DEF IInv, DriveInformed, Ended, isCurrentRun, DrivePlaces, Looked
<1>6. QED
  BY <1>1, <1>5, DriveTyped, DriveFrame

LEMMA DriveOpensPlanKeeps == IInv /\ DriveOpensPlan => IInv'
<1> SUFFICES ASSUME IInv, DriveOpensPlan PROVE IInv'
  OBVIOUS
<1>1. /\ UNCHANGED driveFrame /\ UNCHANGED <<row, retired, agent, unit, mishaps>>
      /\ UNCHANGED <<topology, journal, attempts, settled, ended>>
      /\ drive.pc = "writing" /\ planFile' = Torn
  BY DEF DriveOpensPlan, driveFrame, histVars
<1>2. drive' = [pc |-> "written", run |-> drive.run, alive |-> drive.alive, strikes |-> 0]
  BY <1>1, DriveTyped DEF DriveOpensPlan, At
<1>3. DriveInformed'
  BY <1>1, <1>2, DriveTyped DEF IInv, DriveInformed, Ended, isCurrentRun, DrivePlaces, Looked
<1>4. QED
  BY <1>1, <1>3, DriveFrame

LEMMA DriveWritesPlanKeeps == IInv /\ DriveWritesPlan => IInv'
<1> SUFFICES ASSUME IInv, DriveWritesPlan PROVE IInv'
  OBVIOUS
<1>1. /\ UNCHANGED driveFrame /\ UNCHANGED <<row, retired, agent, unit, mishaps>>
      /\ UNCHANGED <<topology, journal, attempts, settled, ended>>
      /\ drive.pc = "written" /\ planFile' = drive.run
  BY DEF DriveWritesPlan, driveFrame, histVars
<1>2. drive' = [pc |-> "launching", run |-> drive.run, alive |-> drive.alive, strikes |-> 0]
  BY <1>1, DriveTyped DEF DriveWritesPlan, At
<1>3. DriveInformed'
  BY <1>1, <1>2, DriveTyped DEF IInv, DriveInformed, Ended, isCurrentRun, DrivePlaces, Looked
<1>4. QED
  BY <1>1, <1>3, DriveTyped, DriveFrame

\* A unit is started where there is none, so none waits or works unseen.
LEMMA DriveLaunchesKeeps == IInv /\ DriveLaunches => IInv'
<1> SUFFICES ASSUME IInv, DriveLaunches PROVE IInv'
  OBVIOUS
<1>1. /\ UNCHANGED driveFrame /\ UNCHANGED <<row, retired, planFile, mishaps>>
      /\ UNCHANGED <<topology, plan, installed, misread, token, box, authorized, journal, late, fetch, ended>>
      /\ drive.pc = "launching" /\ plan \in Plans
  BY Parts DEF DriveLaunches, driveFrame, histVars
<1>2. CASE DriveFails /\ UNCHANGED <<agent, unit>>
  BY <1>1, <1>2, DriveFailsInformed, DriveTyped, DriveFrame DEF IInv
<1>3. CASE drive' = Follow /\ UNCHANGED <<attempts, settled>>
  <2>1. drive' = [pc |-> "polling", run |-> drive.run, alive |-> FALSE, strikes |-> 0]
    BY <1>1, <1>3, DriveTyped DEF Follow, At
  <2>2. DriveInformed'
    BY <1>1, <1>3, <2>1, DriveTyped
       DEF IInv, DriveInformed, Ended, isCurrentRun, DrivePlaces, Looked
  <2>3. CASE UNCHANGED <<agent, unit>>
    BY <1>1, <2>2, <2>3, DriveTyped, DriveFrame
  <2>4. CASE agent' = AgentAt("starting") /\ unit' = Restarts
    <3>1. AgentInPlace'
      BY <1>1, <2>4, AgentBegins, LimitsAssumption DEF IInv, AgentInPlace
    <3>2. Books' /\ TokenAccounted'
      BY <1>1, <2>4, BooksStay, TokenStays DEF IInv, AgentAt
    <3>3. QED
      BY <1>1, <2>2, <3>1, <3>2 DEF IInv, Bounded
  <2>5. QED
    BY <1>3, <2>3, <2>4 DEF DriveLaunches
<1>4. QED
  BY <1>2, <1>3 DEF DriveLaunches

\* What the row shows of the current step never promotes it.
LEMMA StepShown ==
    ASSUME IInv
    PROVE  /\ Shown(journal) \in Row /\ Shown(journal).status = row.status
           /\ row.status # "provisioning" => Shown(journal) = row
<1>1. /\ row \in Row /\ row.status \in LiveStatuses /\ plan \in Plans /\ journal \in JournalType
      /\ N \in Nat /\ DOMAIN plan = 1..N
  BY Parts DEF IInv, Books, BooksTyped
<1>2. CASE journal.step = 0 \/ plan[journal.step].reports = "ready"
  BY <1>1, <1>2 DEF Shown
<1>3. CASE ~(journal.step = 0 \/ plan[journal.step].reports = "ready")
  <2>1. Shown(journal) = RecordProgress(row, plan[journal.step].reports)
    BY <1>3 DEF Shown
  <2>2. journal.step \in DOMAIN plan
    BY <1>1, <1>3 DEF JournalType
  <2>3. plan[journal.step].reports \in Steps
    BY <1>1, <2>2, PlanTyped
  <2>4. QED
    BY <1>1, <1>3, <2>1, <2>3, ProgressedRow
<1>4. QED
  BY <1>2, <1>3

\* The row a drive promotes, when it promotes it.
LEMMA RowPromoted ==
    ASSUME IInv
    PROVE  LET q == RecordProgress(Shown(journal), "ready") IN
           /\ q \in Row /\ q.status \in LiveStatuses
           /\ row.status # "provisioning" => q = row
<1>1. "ready" \in Steps /\ row.status \in LiveStatuses
  BY StepsNamed DEF IInv, Books, BooksTyped
<1>2. QED
  BY <1>1, StepShown, ProgressedRow

LEMMA DrivePollsKeeps == IInv /\ DrivePolls => IInv'
<1> SUFFICES ASSUME IInv, DrivePolls PROVE IInv'
  OBVIOUS
<1>1. /\ UNCHANGED <<topology, plan, installed, misread, token, box, authorized, journal, late, fetch, ended,
                     planFile, agent, unit, mishaps>>
      /\ drive.pc = "polling" /\ plan \in Plans /\ topology = "push"
      /\ journal \in JournalType /\ authorized \in BOOLEAN
      /\ row \in Row /\ row.status \in LiveStatuses /\ retired \in BOOLEAN
      /\ attempts \in 0..(MaxAttempts - 1) /\ settled \in {"none", "step", "gone", "fatal"}
      /\ late = {}
  BY Parts, DriveTyped DEF DrivePolls, driveFrame, histVars, IInv, Books, BooksTyped, DriveInformed
<1>2. AgentInPlace' /\ TokenAccounted' /\ Bounded'
  BY <1>1, AgentStays, TokenStays DEF IInv, AgentInPlace, Bounded
<1>3. /\ ~misread => TrueOf(journal, installed)
      /\ \A i \in installed : plan[i].retires => ~authorized
  BY DEF IInv, Books, JournalTrue, KeyFollowsStep
<1>4. CASE /\ isCurrentRun(journal, drive.run) /\ journal.status = "done"
           /\ row' = RecordProgress(Shown(journal), "ready")
           /\ retired' = (retired \/ Supplied)
           /\ drive' = Off /\ attempts' = 0 /\ UNCHANGED settled
  <2>1. row' \in Row /\ row'.status \in LiveStatuses
    BY <1>4, RowPromoted
  <2>2. Supplied /\ ~misread => ~authorized
    BY <1>1, <1>3, <1>4, KeyStepIsRequired DEF Supplied, TrueOf
  <2>3. Books'
    <3>1. ~misread => Promised \subseteq installed
      BY <1>1, <1>3, <1>4 DEF Promised, TrueOf
    <3>2. ReadyIsEarned' /\ KeyFollowsStep' /\ JournalTrue'
      BY <1>1, <3>1 DEF IInv, Books, ReadyIsEarned, KeyFollowsStep, JournalTrue, TrueOf, Promised,
                        Required, Complete, RequiredBefore
    <3>3. KeyRetiredOnlyWhenRevoked'
      BY <1>1, <1>4, <2>2 DEF IInv, Books, KeyRetiredOnlyWhenRevoked
    <3>4. retired' \in BOOLEAN
      BY <1>4 DEF Supplied
    <3>5. BooksTyped'
      BY <1>1, <2>1, <3>4 DEF IInv, Books, BooksTyped, JournalType, N
    <3>6. QED
      BY <1>1, <3>2, <3>3, <3>5 DEF Books
  <2>4. DriveInformed'
    BY <1>1, <1>4, LimitsAssumption, DriveOff DEF IInv
  <2>5. QED
    BY <1>2, <2>3, <2>4 DEF IInv
<1>5. CASE row' \in {row, Shown(journal)} /\ UNCHANGED retired
  <2>1. row' \in Row /\ row'.status = row.status
    BY <1>1, <1>5, StepShown
  <2>2. Books'
    BY <1>1, <1>3, <1>5, <2>1, BooksGrow DEF IInv, Books, BooksTyped
  <2>3. CASE drive' = Off /\ settled' = "step" /\ UNCHANGED attempts
    <3>1. DriveInformed'
      BY <1>1, <2>3, DriveOff DEF IInv
    <3>2. QED
      BY <1>2, <2>2, <3>1 DEF IInv
  <2>4. CASE /\ ~(isCurrentRun(journal, drive.run) /\ Ended(journal))
             /\ drive' = At("checking") /\ UNCHANGED <<attempts, settled>>
    <3>1. drive' = [pc |-> "checking", run |-> drive.run, alive |-> drive.alive,
                    strikes |-> drive.strikes]
      BY <1>1, <2>4, DriveTyped DEF At
    <3>2. DriveInformed'
      BY <1>1, <2>4, <3>1, DriveTyped DEF IInv, DriveInformed, Ended, isCurrentRun, DrivePlaces,
                                          Looked, UnitActive, Running
    <3>3. QED
      BY <1>2, <2>2, <3>2 DEF IInv
  <2>5. CASE /\ isCurrentRun(journal, drive.run) /\ journal.status = "done"
             /\ row' = RecordProgress(Shown(journal), "ready")
             /\ retired' = (retired \/ Supplied)
             /\ drive' = Off /\ attempts' = 0 /\ UNCHANGED settled
    BY <1>4, <2>5
  <2>6. QED
    BY <2>3, <2>4, <2>5 DEF DrivePolls
<1>6. QED
  BY <1>4, <1>5 DEF DrivePolls

LEMMA DriveChecksKeeps == IInv /\ DriveChecks => IInv'
<1> SUFFICES ASSUME IInv, DriveChecks PROVE IInv'
  OBVIOUS
<1>1. /\ UNCHANGED driveFrame /\ UNCHANGED <<row, retired, agent, unit, planFile, mishaps>>
      /\ UNCHANGED <<topology, journal, ended>> /\ drive.pc = "checking"
  BY DEF DriveChecks, driveFrame, histVars
<1>2. DriveInformed'
  <2>1. CASE DriveFails
    BY <1>1, <2>1, DriveFailsInformed DEF IInv
  <2>2. CASE UnitActive /\ drive' = [At("polling") EXCEPT !.strikes = 0] /\ UNCHANGED <<attempts, settled>>
    <3>1. drive' = [pc |-> "polling", run |-> drive.run, alive |-> drive.alive, strikes |-> 0]
      BY <2>2, DriveTyped DEF At
    <3>2. QED
      BY <1>1, <2>2, <3>1, DriveTyped
         DEF IInv, DriveInformed, Ended, isCurrentRun, DrivePlaces, Looked
  <2>3. CASE /\ ~UnitActive /\ drive.strikes + 1 < DeadStrikes
             /\ drive' = [At("polling") EXCEPT !.strikes = @ + 1] /\ UNCHANGED <<attempts, settled>>
    <3>1. drive' = [pc |-> "polling", run |-> drive.run, alive |-> drive.alive, strikes |-> 1]
      <4>1. drive.strikes = 0
        BY <2>3, DriveTyped DEF DeadStrikes
      <4>2. At("polling") = [pc |-> "polling", run |-> drive.run, alive |-> drive.alive, strikes |-> 0]
        BY <4>1, DriveTyped DEF At
      <4>3. QED
        BY <2>3, <4>2
    <3>2. UNCHANGED UnitActive
      BY <1>1 DEF UnitActive, Running
    <3>3. QED
      BY <1>1, <2>3, <3>1, <3>2, DriveTyped
         DEF IInv, DriveInformed, Ended, isCurrentRun, DrivePlaces, Looked
  <2>4. QED
    BY <2>1, <2>2, <2>3 DEF DriveChecks
<1>3. QED
  BY <1>1, <1>2, DriveTyped, DriveFrame

-----------------------------------------------------------------------------
(***************************************************************************)
(* What else happens to the server.                                        *)
(***************************************************************************)

LEMMA CoreRestartsKeeps == IInv /\ CoreRestarts => IInv'
<1> SUFFICES ASSUME IInv, CoreRestarts PROVE IInv'
  OBVIOUS
<1>1. /\ UNCHANGED <<topology, plan, installed, misread, row, retired, token, authorized, journal, late, fetch,
                     box, agent, unit, planFile, ended>>
      /\ drive' = Off /\ attempts' = 0 /\ settled' = "none" /\ GoesWrong
  BY DEF CoreRestarts, rowVars, histVars, boxVars, netVars
<1>2. DriveInformed'
  BY <1>1, LimitsAssumption, DriveOff DEF IInv
<1>3. UNCHANGED driveFrame
  BY <1>1 DEF driveFrame, histVars
<1>4. QED
  BY <1>1, <1>2, <1>3, DriveTyped, DriveFrame

LEMMA BoxIsReleasedKeeps == IInv /\ BoxIsReleased => IInv'
<1> SUFFICES ASSUME IInv, BoxIsReleased PROVE IInv'
  OBVIOUS
<1>1. /\ plan \in Plans /\ topology \in {"push", "callback"}
      /\ UNCHANGED <<topology, plan, installed, misread, row, retired, token, authorized, journal, late, fetch,
                     planFile, drive, attempts, settled, ended, mishaps>>
      /\ box' = "gone" /\ agent' = AgentAt("off") /\ unit' = 0
  BY Parts DEF BoxIsReleased, rowVars, histVars, driveVars, netVars
<1>2. AgentInPlace'
  BY <1>1, LimitsAssumption, AgentBegins DEF IInv
<1>3. Books' /\ TokenAccounted'
  BY <1>1, BooksStay, TokenStays DEF IInv, AgentAt
<1>4. DriveInformed'
  BY <1>1, DriveStays DEF IInv, UnitActive, Running, AgentAt
<1>5. QED
  BY <1>1, <1>2, <1>3, <1>4 DEF IInv, Bounded

LEMMA RowEndsKeeps == IInv /\ RowEnds => IInv'
<1> SUFFICES ASSUME IInv, RowEnds PROVE IInv'
  OBVIOUS
<1>1. PICK to \in {"failed", "terminated"} : row' = TryStatus(row, to)
  BY DEF RowEnds
<1>2. /\ plan \in Plans /\ topology \in {"push", "callback"}
      /\ UNCHANGED <<topology, plan, installed, misread, retired, token, authorized, journal, late, fetch,
                     planFile, drive, attempts, settled, ended, mishaps>>
      /\ box' = "gone" /\ agent' = AgentAt("off") /\ unit' = 0
      /\ row \in Row /\ row.status \in LiveStatuses /\ row.status = "provisioning"
  BY Parts DEF RowEnds, driveVars, histVars, netVars, IInv, Books, BooksTyped
<1>3. AgentInPlace'
  BY <1>2, LimitsAssumption, AgentBegins DEF IInv
<1>4. TokenAccounted'
  BY <1>2, TokenStays DEF IInv, AgentAt
<1>5. DriveInformed'
  BY <1>2, DriveStays DEF IInv, UnitActive, Running, AgentAt
<1>6. row' \in Row /\ row'.status \in LiveStatuses /\ row'.status = to
  BY <1>1, <1>2, EndedRow
<1>7. Books'
  BY <1>2, <1>6, BooksGrow DEF IInv, Books, BooksTyped, JournalTrue, KeyFollowsStep
<1>8. QED
  BY <1>2, <1>3, <1>4, <1>5, <1>7 DEF IInv, Bounded

-----------------------------------------------------------------------------
(***************************************************************************)
(* The invariant holds.                                                    *)
(***************************************************************************)

LEMMA Initially == Init => IInv
<1> SUFFICES ASSUME Init PROVE IInv
  OBVIOUS
<1>1. /\ topology \in {"push", "callback"} /\ plan \in Plans /\ N \in Nat /\ DOMAIN plan = 1..N
  BY ModeKnown, PlanTyped DEF Init
<1>2. /\ journal \in JournalType /\ Complete(journal) = {} /\ ~Ended(journal)
      /\ journal.status = "none" /\ journal.step = 0
  BY <1>1 DEF Init, NoJournal, JournalType, Complete, Ended, StepStates
<1>3. row \in Row /\ row.status \in {"provisioning", "failed"}
  BY StepsNamed DEF Init, CreatedRow, InsertedRow, Row, Statuses, InstanceStates
<1>4. Books
  <2>1. BooksTyped
    BY <1>1, <1>2, <1>3 DEF Init, BooksTyped, LiveStatuses
  <2>2. JournalTrue /\ KeyFollowsStep /\ ReadyIsEarned
    BY <1>2, <1>3 DEF Init, JournalTrue, TrueOf, KeyFollowsStep, ReadyIsEarned
  <2>3. KeyRetiredOnlyWhenRevoked /\ late = {}
    BY DEF Init, KeyRetiredOnlyWhenRevoked
  <2>4. QED
    BY <2>1, <2>2, <2>3 DEF Books
<1>5. AgentInPlace
  <2>1. agent = [pc |-> IF topology = "callback" THEN "unborn" ELSE "off", run |-> None, at |-> 1, lost |-> {}]
    BY DEF Init
  <2>2. unit \in 0..Restarts /\ box \in {"booting", "up", "gone"} /\ planFile = None
    BY LimitsAssumption DEF Init
  <2>3. agent \in Agents
    BY <1>1, <2>1 DEF Agents, AgentPlaces
  <2>4. QED
    BY <1>1, <2>1, <2>2, <2>3 DEF AgentInPlace
<1>6. TokenAccounted
  BY LimitsAssumption DEF Init, TokenAccounted, PlanIsNotWithheld, Token
<1>7. DriveInformed
  <2>1. drive = [pc |-> "off", run |-> None, alive |-> FALSE, strikes |-> 0]
    BY DEF Init
  <2>2. ended \in BOOLEAN
    BY Zenon DEF Init
  <2>3. attempts \in 0..(MaxAttempts - 1) /\ settled = "none"
    BY LimitsAssumption DEF Init
  <2>4. QED
    BY <1>2, <2>1, <2>2, <2>3 DEF DriveInformed, DrivePlaces, Looked, None
<1>8. Bounded
  BY BoundsAssumption DEF Init, Bounded
<1>9. QED
  BY <1>4, <1>5, <1>6, <1>7, <1>8 DEF IInv

LEMMA Inductive == IInv /\ [Next]_vars => IInv'
<1> SUFFICES ASSUME IInv, [Next]_vars PROVE IInv'
  OBVIOUS
<1>1. CASE AgentStep
  BY <1>1, AgentStartsKeeps, AgentStampsKeeps, AgentTakesStepKeeps, AgentCompletesPlanKeeps,
     AgentMisreadsStepKeeps, StepCannotRunKeeps, StepSucceedsKeeps, AgentMarksFailedKeeps, SystemdRestartsKeeps,
     BoxBootsKeeps DEF AgentStep
<1>2. CASE DriveStep
  BY <1>2, SupervisorPollsKeeps, DriveConnectsKeeps, DriveLooksKeeps, DriveProbesKeeps,
     DriveOpensPlanKeeps, DriveWritesPlanKeeps, DriveLaunchesKeeps, DrivePollsKeeps,
     DriveChecksKeeps DEF DriveStep
<1>3. CASE Fetching
  BY <1>3, FetchIsLostKeeps, FetchIsRefusedKeeps, PlanIsSentKeeps, TokenExpiresKeeps DEF Fetching
<1>4. CASE Mishap
  BY <1>4, StepFailsKeeps, AgentIsKilledKeeps, BoxRebootsKeeps, ReportArrivesKeeps,
     DriveIsCutOffKeeps, DriveStallsKeeps, CoreRestartsKeeps, RowEndsKeeps, BoxIsReleasedKeeps
     DEF Mishap
<1>5. CASE UNCHANGED vars
  <2>1. UNCHANGED <<topology, plan, installed, misread, row, retired, token, box, authorized, planFile, journal,
                    agent, unit, drive, attempts, settled, late, fetch, ended, mishaps>>
    BY <1>5 DEF vars, rowVars, histVars, boxVars, driveVars, netVars
  <2>2. topology \in {"push", "callback"} /\ planFile \in RunIds \union {None, Torn}
    BY Parts, DriveTyped
  <2>3. QED
    BY <2>1, <2>2, BooksStay, AgentStays, TokenStays, DriveStays DEF IInv, Bounded, UnitActive, Running
<1>6. QED
  BY <1>1, <1>2, <1>3, <1>4, <1>5 DEF Next

LEMMA Invariance == Spec => []IInv
BY Initially, Inductive, PTL DEF Spec

\* Every variable of the bootstrap holds what its declaration says: no run of
\* drives, restarts and reports leaves an agent outside its plan, a fifth run id
\* in use or a token used beyond its budget.
THEOREM TypeCorrect == Spec => []TypeOK
BY Invariance, PartsTyped, PTL

\* A server that is shown running has what that stands for on its box, for every
\* plan the resolver may render and however long drives, kills, reboots, late
\* reports and lost journals go on, until a live agent passes over a step for
\* want of a whole plan.json.
THEOREM ReadyEarned == Spec => []ReadyIsEarned
<1>1. IInv => ReadyIsEarned
  BY DEF IInv, Books
<1>2. QED
  BY Invariance, <1>1, PTL

\* In push mode core never destroys the key it may still need: the journal's
\* word that the plan is done covers the step that took the key off the box,
\* as long as the agent has read its plan whole.
THEOREM KeyRetiredWhenRevoked == Spec => []KeyRetiredOnlyWhenRevoked
<1>1. IInv => KeyRetiredOnlyWhenRevoked
  BY DEF IInv, Books
<1>2. QED
  BY Invariance, <1>1, PTL

\* A box is refused its plan only when its token has expired or its whole budget
\* went into answers that were lost, whatever the budget and the tries.
THEOREM PlanNotWithheld == Spec => []PlanIsNotWithheld
<1>1. IInv => PlanIsNotWithheld
  BY DEF IInv, TokenAccounted
<1>2. QED
  BY Invariance, <1>1, PTL

-----------------------------------------------------------------------------
(***************************************************************************)
(* What a step may do to the journal, the row and the drive.               *)
(***************************************************************************)

\* The plan is a snapshot.
LEMMA PlanStays == Next => UNCHANGED <<topology, plan>>
<1>1. AgentStep => UNCHANGED <<topology, plan>>
  BY DEF AgentStep, AgentStarts, AgentStamps, AgentTakesStep, AgentCompletesPlan,
         AgentMisreadsStep, StepCannotRun, StepSucceeds, AgentMarksFailed, SystemdRestarts, BoxBoots, agentFrame
<1>2. DriveStep => UNCHANGED <<topology, plan>>
  BY DEF DriveStep, SupervisorPolls, DriveConnects, DriveLooks, DriveProbes, DriveOpensPlan,
         DriveWritesPlan, DriveLaunches, DrivePolls, DriveChecks, driveFrame
<1>3. Fetching => UNCHANGED <<topology, plan>>
  BY DEF Fetching, FetchIsLost, FetchIsRefused, PlanIsSent, TokenExpires, fetchFrame
<1>4. Mishap => UNCHANGED <<topology, plan>>
  BY DEF Mishap, StepFails, AgentIsKilled, BoxReboots, ReportArrives, DriveIsCutOff,
         DriveStalls, CoreRestarts, RowEnds, BoxIsReleased, agentFrame, driveFrame
<1>5. QED
  BY <1>1, <1>2, <1>3, <1>4 DEF Next

\* A flush in push mode tells core nothing; in callback mode it moves a
\* provisioning row only.
LEMMA FlushMovesRow ==
    ASSUME IInv, NEW j \in JournalType, NEW cost, Flush(j, cost),
           j.step # 0 => j.status # "none"
    PROVE  /\ topology = "push" => row' = row
           /\ row'.status = row.status \/ row.status = "provisioning"
<1>1. CASE topology = "push" \/ j.step = 0
  BY <1>1 DEF Flush, rowVars
<1>2. CASE ~(topology = "push" \/ j.step = 0)
  <2>1. topology = "callback" /\ plan \in Plans /\ token \in Token
        /\ row \in Row /\ row.status \in LiveStatuses /\ retired \in BOOLEAN
    BY <1>2, Parts DEF IInv, Books, BooksTyped
  <2>2. ReportOf(j) \in Report
    BY <1>2, <2>1, FlushReports
  <2>3. HandleReport(ReportOf(j)) \/ row' = row
    BY <1>2 DEF Flush, rowVars
  <2>4. QED
    BY <1>2, <2>1, <2>2, <2>3, ReportHandled
<1>3. QED
  BY <1>1, <1>2

\* The agent's steps move no row but a provisioning one, and in push mode none.
LEMMA AgentMoves ==
    ASSUME IInv, AgentStep \/ StepFails
    PROVE  /\ topology = "push" => row' = row
           /\ row'.status = row.status \/ row.status = "provisioning"
<1>0. /\ journal \in JournalType /\ plan \in Plans /\ DOMAIN plan = 1..N /\ N \in Nat
      /\ agent.run \in RunIds \union {None} /\ agent.at \in 1..(N + 1)
      /\ agent.pc = "executing" => agent.at \in DOMAIN plan
  BY Parts, AgentParts
<1>1. CASE UNCHANGED row
  BY <1>1
<1>2. CASE AgentStamps
  <2>1. PICK lost : Flush(Stamped(lost), 0)
    BY <1>2 DEF AgentStamps
  <2>2. SaysNoMore(Stamped(lost), journal)
    BY <1>0, StampSays
  <2>3. QED
    BY <2>1, <2>2, FlushMovesRow DEF SaysNoMore
<1>3. CASE \/ AgentTakesStep \/ AgentMisreadsStep
           \/ StepSucceeds \/ StepFails \/ StepCannotRun
  <2>1. PICK i, state, lost, cost : /\ i \in DOMAIN plan /\ state \in StepStates
                                     /\ Flush(WithStep(i, state, lost), cost)
    <3>1. AgentTakesStep => \E i \in DOMAIN plan : Flush(WithStep(i, "running", {}), 0)
      BY <1>0 DEF AgentTakesStep, ToDo
    <3>2. AgentMisreadsStep => \E i \in DOMAIN plan : \E lost : Flush(WithStep(i, "running", lost), 1)
      BY <1>0 DEF AgentMisreadsStep
    <3>3. StepSucceeds =>
              agent.at \in DOMAIN plan /\ Flush(WithStep(agent.at, "done", agent.lost), 0)
      BY <1>0 DEF StepSucceeds
    <3>4. StepFails =>
              agent.at \in DOMAIN plan /\ Flush(WithStep(agent.at, "failed", agent.lost), 1)
      BY <1>0 DEF StepFails
    <3>5. StepCannotRun =>
              agent.at \in DOMAIN plan /\ Flush(WithStep(agent.at, "failed", agent.lost), 0)
      BY <1>0 DEF StepCannotRun
    <3>6. {"running", "done", "failed"} \subseteq StepStates
      BY DEF StepStates
    <3>7. QED
      BY <1>3, <3>1, <3>2, <3>3, <3>4, <3>5, <3>6
  <2> DEFINE j == WithStep(i, state, lost)
  <2>2. j \in JournalType /\ (j.step # 0 => j.status # "none") /\ Flush(j, cost)
    BY <1>0, <2>1, StepWritten
  <2> HIDE DEF j
  <2>3. QED
    BY <2>2, FlushMovesRow
<1>4. CASE AgentCompletesPlan \/ AgentMarksFailed
  <2>1. PICK status \in {"done", "failed"} : Flush(PlanStatus(status), 0)
    BY <1>4 DEF AgentCompletesPlan, AgentMarksFailed
  <2>2. SaysNoMore(PlanStatus(status), journal)
    BY <1>0, StatusWritten
  <2>3. QED
    BY <2>1, <2>2, FlushMovesRow DEF SaysNoMore
<1>5. AgentStarts \/ SystemdRestarts \/ BoxBoots => UNCHANGED row
  BY DEF AgentStarts, SystemdRestarts, BoxBoots, rowVars
<1>6. QED
  BY <1>1, <1>2, <1>3, <1>4, <1>5 DEF AgentStep

\* What is not the agent's leaves the journal alone.
LEMMA OthersMoves ==
    ASSUME IInv, DriveStep \/ Fetching \/ Mishap, ~StepFails
    PROVE  /\ journal' = journal
           /\ row'.status = row.status \/ row.status = "provisioning"
           /\ topology = "push" /\ row'.status = "running" =>
                  row.status = "running" \/ DrivePolls
<1>0. /\ row \in Row /\ row.status \in LiveStatuses /\ retired \in BOOLEAN /\ token \in Token
      /\ late \subseteq Report /\ (topology = "push" => late = {})
  BY Parts DEF IInv, Books, BooksTyped
<1>1. CASE SupervisorPolls \/ RowEnds
  <2>1. row.status = "provisioning" /\ journal' = journal
    BY <1>1 DEF SupervisorPolls, RowEnds, driveFrame
  <2>2. row' = row \/ \E to \in {"failed", "terminated"} : row' = TryStatus(row, to)
    BY <1>1 DEF SupervisorPolls, RowEnds
  <2>3. QED
    BY <1>0, <2>1, <2>2, EndedRow
<1>2. CASE DrivePolls
  <2>1. \/ row' \in {row, Shown(journal)}
        \/ row' = RecordProgress(Shown(journal), "ready")
    BY <1>2 DEF DrivePolls
  <2>2. journal' = journal
    BY <1>2 DEF DrivePolls, driveFrame
  <2>3. QED
    BY <1>2, <2>1, <2>2, StepShown, RowPromoted
<1>3. CASE ReportArrives
  <2>1. PICK r \in late : HandleReport(r)
    BY <1>3 DEF ReportArrives
  <2>2. journal' = journal
    BY <1>3 DEF ReportArrives, boxVars
  <2>3. QED
    BY <1>0, <2>1, <2>2, ReportHandled
<1>4. \/ SupervisorPolls \/ RowEnds \/ DrivePolls \/ ReportArrives
      \/ UNCHANGED <<row, journal>>
  <2>1. DriveStep => SupervisorPolls \/ DrivePolls \/ UNCHANGED <<row, journal>>
    BY DEF DriveStep, DriveConnects, DriveLooks, DriveProbes, DriveOpensPlan, DriveWritesPlan,
           DriveLaunches, DriveChecks, driveFrame
  <2>2. Fetching => UNCHANGED <<row, journal>>
    BY DEF Fetching, FetchIsLost, FetchIsRefused, PlanIsSent, TokenExpires, fetchFrame, boxVars
  <2>3. Mishap => RowEnds \/ ReportArrives \/ UNCHANGED <<row, journal>>
    BY DEF Mishap, AgentIsKilled, BoxReboots, DriveIsCutOff, DriveStalls, CoreRestarts,
           BoxIsReleased, driveFrame, rowVars, boxVars
  <2>4. QED
    BY <2>1, <2>2, <2>3
<1>5. QED
  BY <1>1, <1>2, <1>3, <1>4

-----------------------------------------------------------------------------
(***************************************************************************)
(* Verdicts.                                                               *)
(***************************************************************************)

\* Only reading the journal gives a step the blame.
LEMMA OnlyPollsBlame ==
    ASSUME Next, settled' = "step", settled # "step"
    PROVE  DrivePolls
<1>1. DriveFails \/ DriveIsFatal \/ settled' = "none" \/ UNCHANGED settled => FALSE
  BY DEF DriveFails, DriveIsFatal, CountAttempt
<1>2. AgentStep => UNCHANGED settled
  BY DEF AgentStep, AgentStarts, AgentStamps, AgentTakesStep, AgentCompletesPlan,
         AgentMisreadsStep, StepCannotRun, StepSucceeds, AgentMarksFailed, SystemdRestarts, BoxBoots,
         agentFrame, driveVars
<1>3. DriveStep => DrivePolls \/ DriveFails \/ DriveIsFatal \/ settled' = "none" \/ UNCHANGED settled
  BY DEF DriveStep, SupervisorPolls, DriveConnects, DriveLooks, DriveProbes, DriveOpensPlan,
         DriveWritesPlan, DriveLaunches, DriveChecks
<1>4. Fetching => UNCHANGED settled
  BY DEF Fetching, FetchIsLost, FetchIsRefused, PlanIsSent, TokenExpires, fetchFrame, driveVars
<1>5. Mishap => DriveFails \/ settled' = "none" \/ UNCHANGED settled
  BY DEF Mishap, StepFails, AgentIsKilled, BoxReboots, ReportArrives, DriveIsCutOff,
         DriveStalls, CoreRestarts, RowEnds, BoxIsReleased, agentFrame, driveVars
<1>6. QED
  BY <1>1, <1>2, <1>3, <1>4, <1>5 DEF Next

\* A drive promotes a server, or blames one of its steps, only on the word of a
\* plan that has ended since the drive looked at the journal: adopted runs, run
\* ids minted anew and what earlier attempts left on the disk never mislead it.
THEOREM NoVerdictIsOld == Spec => NoOldVerdict
<1>1. IInv /\ [Next]_vars =>
          [/\ topology = "push"
           /\ \/ row'.status = "running" /\ row.status # "running"
              \/ settled' = "step" /\ settled # "step"
           => ended]_vars
  <2> SUFFICES ASSUME IInv, Next, topology = "push",
                      \/ row'.status = "running" /\ row.status # "running"
                      \/ settled' = "step" /\ settled # "step"
               PROVE  ended
    OBVIOUS
  <2>1. DrivePolls
    <3>1. CASE row'.status = "running" /\ row.status # "running"
      BY <3>1, AgentMoves, OthersMoves DEF Next
    <3>2. CASE settled' = "step" /\ settled # "step"
      BY <3>2, OnlyPollsBlame
    <3>3. QED
      BY <3>1, <3>2
  <2>2. /\ drive.pc = "polling"
        /\ \/ isCurrentRun(journal, drive.run) /\ Ended(journal)
           \/ row' \in {row, Shown(journal)} /\ UNCHANGED settled
    BY <2>1 DEF DrivePolls, Ended
  <2>3. isCurrentRun(journal, drive.run) /\ Ended(journal)
    BY <2>2, StepShown
  <2>4. drive.run # None
    BY <2>2 DEF IInv, DriveInformed, Looked
  <2>5. QED
    BY <2>2, <2>3, <2>4 DEF IInv, DriveInformed, Looked
<1>2. QED
  BY Invariance, <1>1, PTL DEF Spec, NoOldVerdict

\* A drive gives its agent up as gone only when the agent has left its plan
\* unfinished: between the look at the journal and the second look at the
\* process nothing can start, finish and vanish unseen.
THEOREM GoneIsUnfinished == Spec => GoneMeansUnfinished
<1>1. IInv /\ [Next]_vars =>
          [drive.pc = "checking" /\ drive'.pc = "off" /\ mishaps' = mishaps
           => ~(isCurrentRun(journal, drive.run) /\ Ended(journal))]_vars
  <2> SUFFICES ASSUME IInv, Next, drive.pc = "checking", drive'.pc = "off", mishaps' = mishaps
               PROVE  ~(isCurrentRun(journal, drive.run) /\ Ended(journal))
    OBVIOUS
  <2>1. ~GoesWrong
    BY BoundsAssumption DEF GoesWrong, Costs, IInv, Bounded
  <2>2. ~UNCHANGED drive
    OBVIOUS
  <2>3. ~AgentStep /\ ~Fetching
    BY <2>2 DEF AgentStep, AgentStarts, AgentStamps, AgentTakesStep, AgentCompletesPlan,
                AgentMisreadsStep, StepCannotRun, StepSucceeds, AgentMarksFailed, SystemdRestarts, BoxBoots,
                agentFrame, driveVars, Fetching, FetchIsLost, FetchIsRefused, PlanIsSent,
                TokenExpires, fetchFrame
  <2>4. ~Mishap
    BY <2>1, <2>2 DEF Mishap, StepFails, AgentIsKilled, BoxReboots, ReportArrives, DriveIsCutOff,
                      DriveStalls, CoreRestarts, RowEnds, BoxIsReleased, agentFrame, driveVars
  <2>5. DriveChecks
    BY <2>2, <2>3, <2>4 DEF Next, DriveStep, SupervisorPolls, DriveConnects, DriveLooks,
                            DriveProbes, DriveOpensPlan, DriveWritesPlan, DriveLaunches, DrivePolls
  <2>6. drive.strikes = 1
    <3>1. drive.strikes + 1 >= DeadStrikes
      BY <2>5, DriveTyped DEF DriveChecks, At
    <3>2. QED
      BY <3>1, DriveTyped DEF DeadStrikes
  <2>7. QED
    BY <2>6 DEF IInv, DriveInformed
<1>2. QED
  BY Invariance, <1>1, PTL DEF Spec, GoneMeansUnfinished

-----------------------------------------------------------------------------
(***************************************************************************)
(* The contract.                                                           *)
(***************************************************************************)

ShownAs == CASE row.status = "provisioning" -> "pending"
             [] row.status = "running" -> "ready"
             [] OTHER -> "over"

LEMMA ContractBegins == Init => Contract!Init
<1> SUFFICES ASSUME Init PROVE Contract!Init
  OBVIOUS
<1>1. plan \in Plans /\ Promised \subseteq DOMAIN plan
  BY DEF Init, Promised, Required
<1>2. installed = {} /\ misread = FALSE
  BY Zenon DEF Init
<1>3. row.status \in {"provisioning", "failed"}
  BY DEF Init, CreatedRow, InsertedRow
<1>4. QED
  BY <1>1, <1>2, <1>3 DEF Contract!Init

\* What has been passed over stays passed over, and only a step that succeeds is
\* installed.
LEMMA HistoryMoves ==
    ASSUME Next
    PROVE  /\ misread => misread'
           /\ installed' = installed \/ StepSucceeds
<1>1. CASE AgentCompletesPlan
  BY <1>1 DEF AgentCompletesPlan
<1>2. CASE StepSucceeds
  BY <1>2 DEF StepSucceeds
<1>3. CASE UNCHANGED histVars
  BY <1>3 DEF histVars
<1>4. AgentStep => AgentCompletesPlan \/ StepSucceeds \/ UNCHANGED histVars
  BY DEF AgentStep, AgentStarts, AgentStamps, AgentTakesStep, AgentMisreadsStep, StepCannotRun,
         AgentMarksFailed, SystemdRestarts, BoxBoots
<1>5. DriveStep => UNCHANGED histVars
  BY DEF DriveStep, SupervisorPolls, DriveConnects, DriveLooks, DriveProbes, DriveOpensPlan,
         DriveWritesPlan, DriveLaunches, DrivePolls, DriveChecks, driveFrame
<1>6. Fetching => UNCHANGED histVars
  BY DEF Fetching, FetchIsLost, FetchIsRefused, PlanIsSent, TokenExpires, fetchFrame
<1>7. Mishap => UNCHANGED histVars
  BY DEF Mishap, StepFails, AgentIsKilled, BoxReboots, ReportArrives, DriveIsCutOff,
         DriveStalls, CoreRestarts, RowEnds, BoxIsReleased, driveFrame
<1>8. QED
  BY <1>1, <1>2, <1>3, <1>4, <1>5, <1>6, <1>7 DEF Next

\* A step of the bootstrap is a step of the contract, or none.
LEMMA ContractSteps ==
    IInv /\ IInv' /\ [Next]_vars => [Contract!Next]_(Contract!vars)
<1> SUFFICES ASSUME IInv, IInv', [Next]_vars
             PROVE  Contract!Next \/ UNCHANGED <<plan, Promised, installed, ShownAs, misread>>
  BY DEF Contract!vars, ShownAs
<1>1. CASE Next
  <2>1. UNCHANGED <<topology, plan>>
    BY <1>1, PlanStays
  <2>2. UNCHANGED <<plan, Promised>>
    BY <2>1 DEF Promised, Required
  <2>3. /\ installed' = installed \/ StepSucceeds
        /\ misread => misread'
        /\ row'.status = row.status \/ row.status = "provisioning"
    BY <1>1, HistoryMoves, AgentMoves, OthersMoves DEF Next
  <2>4. ASSUME ~misread'
        PROVE  UNCHANGED installed \/ \E i \in DOMAIN plan : Contract!Completes(i)
    <3>1. ASSUME StepSucceeds, installed' # installed
          PROVE  \E i \in DOMAIN plan : Contract!Completes(i)
      <4>0. PICK i \in DOMAIN plan : i = agent.at
        BY <3>1, AgentParts DEF StepSucceeds
      <4>1. /\ DOMAIN plan = 1..N /\ N \in Nat /\ RequiredBefore(i) \subseteq installed
            /\ installed' = installed \union {i}
        BY <2>3, <2>4, <3>1, <4>0, Parts, AgentParts DEF StepSucceeds
      <4>2. i \notin installed
        BY <3>1, <4>1
      <4>3. Contract!Ahead(i) \subseteq installed
        BY <4>1 DEF Contract!Ahead, RequiredBefore, Required
      <4>4. Contract!Completes(i)
        BY <4>1, <4>2, <4>3 DEF Contract!Completes
      <4>5. QED
        BY <4>4
    <3>2. QED
      BY <2>3, <3>1
  <2>5. ASSUME ~misread'
        PROVE  UNCHANGED ShownAs \/ Contract!Shows
    <3>1. CASE row'.status = row.status
      BY <3>1 DEF ShownAs
    <3>2. CASE row.status = "provisioning" /\ row'.status = "running"
      <4>1. Promised \subseteq installed'
        BY <2>2, <2>5, <3>2 DEF IInv, Books, ReadyIsEarned
      <4>2. QED
        BY <3>2, <4>1 DEF Contract!Shows
    <3>3. CASE row.status = "provisioning" /\ row'.status \in {"failed", "terminated"}
      BY <3>3 DEF Contract!Shows
    <3>4. row'.status \in LiveStatuses
      BY DEF IInv, Books, BooksTyped
    <3>5. QED
      BY <2>3, <3>1, <3>2, <3>3, <3>4 DEF LiveStatuses
  <2>6. ~misread' => Contract!Keeps
    BY <2>4, <2>5 DEF Contract!Keeps, ShownAs
  <2>7. QED
    BY <2>2, <2>3, <2>6 DEF Contract!Next
<1>2. CASE UNCHANGED vars
  <2>1. UNCHANGED <<topology, plan, row, installed, misread>>
    BY <1>2 DEF vars, rowVars, histVars
  <2>2. QED
    BY <2>1 DEF Promised, Required, ShownAs
<1>3. QED
  BY <1>1, <1>2

\* The install keeps its contract in both modes: steps complete one at a time,
\* once each and in the order the required ones impose, and the row says ready
\* only of what is complete, until the plan has been misread.
THEOREM ContractKept == Spec => KeepsInstallContract
BY Invariance, ContractBegins, ContractSteps, PTL DEF Spec, KeepsInstallContract, Contract!Spec

-----------------------------------------------------------------------------
(***************************************************************************)
(* What the resolver renders: sort() and filter() first.                   *)
(***************************************************************************)

StrictOrder(R, S) ==
    /\ \A x \in S : <<x, x>> \notin R
    /\ \A x, y, z \in S : <<x, y>> \in R /\ <<y, z>> \in R => <<x, z>> \in R
    /\ \A x, y \in S : x = y \/ <<x, y>> \in R \/ <<y, x>> \in R

\* A list that has each member of a set, and has them in order.
Lists(f, S, R) ==
    /\ Cardinality(S) \in Nat
    /\ f \in [1..Cardinality(S) -> S]
    /\ \A x \in S : \E i \in 1..Cardinality(S) : f[i] = x
    /\ \A i, j \in 1..Cardinality(S) : i < j => <<f[i], f[j]>> \in R

Ahead(x, S, R) == {y \in S : <<y, x>> \in R}

\* Fewer are ahead of who is ahead.
LEMMA PlacesAscend ==
    ASSUME NEW S, IsFiniteSet(S), NEW R, StrictOrder(R, S)
    PROVE  /\ Cardinality(S) \in Nat
           /\ \A x \in S : Cardinality(Ahead(x, S, R)) \in 0..(Cardinality(S) - 1)
           /\ \A x, y \in S : <<x, y>> \in R =>
                  Cardinality(Ahead(x, S, R)) < Cardinality(Ahead(y, S, R))
<1>1. Cardinality(S) \in Nat
  BY FS_CardinalityType
<1>2. ASSUME NEW x \in S
      PROVE  /\ IsFiniteSet(Ahead(x, S, R)) /\ Cardinality(Ahead(x, S, R)) \in Nat
             /\ Cardinality(Ahead(x, S, R)) < Cardinality(S)
  <2>1. Ahead(x, S, R) \in SUBSET (S \ {x})
    BY DEF Ahead, StrictOrder
  <2>2. IsFiniteSet(S \ {x}) /\ Cardinality(S \ {x}) = Cardinality(S) - 1
    BY FS_RemoveElement
  <2>3. /\ IsFiniteSet(Ahead(x, S, R))
        /\ Cardinality(Ahead(x, S, R)) <= Cardinality(S \ {x})
    BY <2>1, <2>2, FS_Subset
  <2>4. Cardinality(Ahead(x, S, R)) \in Nat
    BY <2>3, FS_CardinalityType
  <2>5. QED
    BY <1>1, <2>2, <2>3, <2>4
<1>3. ASSUME NEW x \in S, NEW y \in S, <<x, y>> \in R
      PROVE  Cardinality(Ahead(x, S, R)) < Cardinality(Ahead(y, S, R))
  <2>1. Ahead(x, S, R) \cup {x} \in SUBSET Ahead(y, S, R)
    BY <1>3 DEF Ahead, StrictOrder
  <2>2. x \notin Ahead(x, S, R)
    BY DEF Ahead, StrictOrder
  <2>3. Cardinality(Ahead(x, S, R) \cup {x}) = Cardinality(Ahead(x, S, R)) + 1
    BY <1>2, <2>2, FS_AddElement
  <2>4. Cardinality(Ahead(x, S, R) \cup {x}) <= Cardinality(Ahead(y, S, R))
    BY <1>2, <2>1, FS_Subset
  <2>5. QED
    BY <1>2, <2>3, <2>4
<1>4. QED
  BY <1>1, <1>2, <1>3

\* As many places as members, and no two in one place: every place is taken.
LEMMA InOrderLists ==
    ASSUME NEW S, IsFiniteSet(S), NEW R, StrictOrder(R, S)
    PROVE  Lists(InOrder(S, R), S, R)
<1> DEFINE n == Cardinality(S)
           place == [x \in S |-> Cardinality(Ahead(x, S, R))]
           f == InOrder(S, R)
<1>1. /\ n \in Nat
      /\ \A x \in S : place[x] \in 0..(n - 1)
      /\ \A x, y \in S : <<x, y>> \in R => place[x] < place[y]
  BY PlacesAscend
<1>2. f = [i \in 1..n |-> CHOOSE x \in S : Cardinality(Ahead(x, S, R)) = i - 1]
  BY DEF InOrder, Ahead
<1>3. /\ \A x \in S : place[x] = Cardinality(Ahead(x, S, R))
      /\ DOMAIN place = S /\ place \in [S -> 0..(n - 1)]
  BY <1>1
<1> HIDE DEF place, f, n
<1>10. place \in Injection(S, 0..(n - 1))
  <2>1. ASSUME NEW x \in S, NEW y \in S, place[x] = place[y]
        PROVE  x = y
    <3>1. place[x] \in Int /\ <<x, y>> \notin R /\ <<y, x>> \notin R
      BY <1>1, <2>1
    <3>2. QED
      BY <3>1 DEF StrictOrder
  <2>2. QED
    BY <1>3, <2>1 DEF Injection, IsInjective
<1>4. IsFiniteSet(0..(n - 1)) /\ Cardinality(0..(n - 1)) = n
  <2>1. /\ IsFiniteSet(0..(n - 1))
        /\ Cardinality(0..(n - 1)) = IF 0 > n - 1 THEN 0 ELSE (n - 1) - 0 + 1
    BY <1>1, FS_Interval
  <2>2. QED
    BY <1>1, <2>1
<1>5. place \in Surjection(S, 0..(n - 1))
  BY <1>4, <1>10, FS_Injection DEF n
<1>6. ASSUME NEW i \in 1..n
      PROVE  f[i] \in S /\ place[f[i]] = i - 1
  <2>1. i - 1 \in 0..(n - 1)
    BY <1>1
  <2>2. \E x \in S : place[x] = i - 1
    BY <1>5, <2>1 DEF Surjection
  <2>3. \E x \in S : Cardinality(Ahead(x, S, R)) = i - 1
    BY <1>3, <2>2
  <2>4. QED
    BY <1>2, <1>3, <2>3
<1>7. ASSUME NEW x \in S
      PROVE  \E i \in 1..n : f[i] = x
  <2>1. place[x] + 1 \in 1..n
    BY <1>1
  <2>2. place[f[place[x] + 1]] = place[x] /\ f[place[x] + 1] \in S
    BY <1>1, <1>6, <2>1
  <2>3. f[place[x] + 1] = x
    BY <1>3, <1>10, <2>2 DEF Injection, IsInjective
  <2>4. QED
    BY <2>1, <2>3
<1>8. ASSUME NEW i \in 1..n, NEW j \in 1..n, i < j
      PROVE  <<f[i], f[j]>> \in R
  <2>1. /\ f[i] \in S /\ f[j] \in S
        /\ place[f[i]] = i - 1 /\ place[f[j]] = j - 1
    BY <1>6
  <2>2. f[i] # f[j] /\ <<f[j], f[i]>> \notin R
    BY <1>1, <1>8, <2>1
  <2>3. QED
    BY <2>1, <2>2 DEF StrictOrder
<1>9. QED
  BY <1>1, <1>2, <1>6, <1>7, <1>8 DEF Lists, n, f

LEMMA AscendingIsStrict ==
    ASSUME NEW S \in SUBSET Nat
    PROVE  StrictOrder(Ascending, S)
BY DEF StrictOrder, Ascending

\* q is what list has at the places, each once, in the order R.
Picks(q, list, places, R) ==
    \E at \in [DOMAIN q -> places] :
        /\ \A k \in DOMAIN q : q[k] = list[at[k]]
        /\ \A i \in places : \E k \in DOMAIN q : at[k] = i
        /\ \A j, k \in DOMAIN q : j < k => <<at[j], at[k]>> \in R

LEMMA TakenIs ==
    ASSUME NEW A, NEW list \in Seq(A), NEW places \in SUBSET DOMAIN list,
           NEW R, StrictOrder(R, places)
    PROVE  /\ Taken(list, places, R) \in Seq(A)
           /\ Picks(Taken(list, places, R), list, places, R)
<1> DEFINE at == InOrder(places, R)
           q == Taken(list, places, R)
<1>1. IsFiniteSet(places)
  <2>1. DOMAIN list = 1..Len(list) /\ Len(list) \in Nat
    OBVIOUS
  <2>2. IsFiniteSet(1..Len(list))
    BY <2>1, FS_Interval
  <2>3. QED
    BY <2>1, <2>2, FS_Subset
<1>2. Lists(at, places, R)
  BY <1>1, InOrderLists
<1>3. q = [k \in DOMAIN at |-> list[at[k]]]
  BY DEF Taken
<1> HIDE DEF at, q
<1>4. /\ Cardinality(places) \in Nat /\ at \in [1..Cardinality(places) -> places]
      /\ DOMAIN q = DOMAIN at
  BY <1>2, <1>3 DEF Lists
<1>5. q \in Seq(A)
  <2>1. \A i \in DOMAIN list : list[i] \in A
    OBVIOUS
  <2>2. q \in [1..Cardinality(places) -> A]
    BY <1>3, <1>4, <2>1
  <2>3. QED
    BY <1>4, <2>2
<1>6. QED
  <2>1. /\ at \in [DOMAIN q -> places]
        /\ \A k \in DOMAIN q : q[k] = list[at[k]]
    BY <1>3, <1>4
  <2>2. /\ \A i \in places : \E k \in DOMAIN q : at[k] = i
        /\ \A j, k \in DOMAIN q : j < k => <<at[j], at[k]>> \in R
    BY <1>2, <1>4 DEF Lists
  <2>3. Picks(q, list, places, R)
    BY <2>1, <2>2 DEF Picks
  <2>4. QED
    BY <1>5, <2>3 DEF q

\* filter() keeps what it should and makes no twins.
LEMMA ThoseAre ==
    ASSUME NEW A, NEW list \in Seq(A), NEW S
    PROVE  /\ Those(list, S) \in Seq(A \cap S)
           /\ ToSet(Those(list, S)) = ToSet(list) \cap S
           /\ ~HasTwins(list) => ~HasTwins(Those(list, S))
<1> DEFINE places == {i \in DOMAIN list : list[i] \in S}
           q == Those(list, S)
<1>1. q = Taken(list, places, Ascending)
  BY DEF Those
<1>2. DOMAIN list = 1..Len(list) /\ Len(list) \in Nat /\ \A i \in DOMAIN list : list[i] \in A
  OBVIOUS
<1>3. places \in SUBSET DOMAIN list /\ places \in SUBSET Nat
  BY <1>2
<1>4. StrictOrder(Ascending, places)
  BY <1>3, AscendingIsStrict
<1>5. ToSet(list) \cap S = {list[i] : i \in places}
  BY DEF ToSet
<1>6. \A i \in places : i \in DOMAIN list /\ list[i] \in S
  OBVIOUS
<1> HIDE DEF places, q
<1>7. q \in Seq(A) /\ Picks(q, list, places, Ascending)
  BY <1>1, <1>3, <1>4, TakenIs
<1>8. PICK at \in [DOMAIN q -> places] :
            /\ \A k \in DOMAIN q : q[k] = list[at[k]]
            /\ \A i \in places : \E k \in DOMAIN q : at[k] = i
            /\ \A j, k \in DOMAIN q : j < k => <<at[j], at[k]>> \in Ascending
  BY <1>7 DEF Picks
<1>9. DOMAIN q = 1..Len(q) /\ Len(q) \in Nat /\ \A k \in DOMAIN q : q[k] \in A
  BY <1>7
<1>10. q \in Seq(A \cap S)
  <2>1. \A k \in DOMAIN q : q[k] \in A \cap S
    BY <1>6, <1>8, <1>9
  <2>2. QED
    BY <1>7, <1>9, <2>1
<1>11. ToSet(q) = ToSet(list) \cap S
  <2>1. \A x \in ToSet(q) : \E i \in places : x = list[i]
    BY <1>8 DEF ToSet
  <2>2. \A i \in places : list[i] \in ToSet(q)
    BY <1>8 DEF ToSet
  <2>3. QED
    BY <1>5, <2>1, <2>2
<1>12. ASSUME NEW j \in DOMAIN q, NEW k \in DOMAIN q, j # k, q[j] = q[k]
       PROVE  HasTwins(list)
  <2>1. at[j] \in places /\ at[k] \in places /\ list[at[j]] = list[at[k]]
    BY <1>8, <1>12
  <2>2. at[j] # at[k]
    <3>1. j < k \/ k < j
      BY <1>9, <1>12
    <3>2. <<at[j], at[k]>> \in Ascending \/ <<at[k], at[j]>> \in Ascending
      BY <1>8, <3>1
    <3>3. at[j] \in Nat /\ at[k] \in Nat
      BY <1>3, <2>1
    <3>4. QED
      BY <3>2, <3>3 DEF Ascending
  <2>3. QED
    BY <1>6, <2>1, <2>2 DEF HasTwins
<1>13. QED
  BY <1>10, <1>11, <1>12 DEF HasTwins, q

ToolRow == [id : Nat, order : Int, bootstrap : BOOLEAN, enabled : BOOLEAN,
            always : BOOLEAN, setup : BOOLEAN]

\* Who runs no later.
NotAfter(a, b) == a.order < b.order \/ (a.order = b.order /\ a.id <= b.id)

LEMMA SoonerIsStrict ==
    ASSUME NEW tools \in Seq(ToolRow)
    PROVE  StrictOrder(Sooner(tools), DOMAIN tools)
<1> DEFINE D == DOMAIN tools
<1>1. D = 1..Len(tools) /\ Len(tools) \in Nat /\ \A i \in D : tools[i] \in ToolRow
  OBVIOUS
<1>2. \A i, j \in D : <<i, j>> \in Sooner(tools) <=>
          \/ tools[i].order < tools[j].order
          \/ tools[i].order = tools[j].order /\ tools[i].id < tools[j].id
          \/ tools[i].order = tools[j].order /\ tools[i].id = tools[j].id /\ i < j
  BY DEF Sooner
<1> HIDE DEF D
<1>3. \A i \in D : i \in Int /\ tools[i].order \in Int /\ tools[i].id \in Int
  BY <1>1 DEF ToolRow
<1>4. \A i \in D : <<i, i>> \notin Sooner(tools)
  BY <1>2, <1>3
<1>5. ASSUME NEW i \in D, NEW j \in D, NEW k \in D,
             <<i, j>> \in Sooner(tools), <<j, k>> \in Sooner(tools)
      PROVE  <<i, k>> \in Sooner(tools)
  <2>1. /\ i \in Int /\ tools[i].order \in Int /\ tools[i].id \in Int
        /\ j \in Int /\ tools[j].order \in Int /\ tools[j].id \in Int
        /\ k \in Int /\ tools[k].order \in Int /\ tools[k].id \in Int
    BY <1>3
  <2>2. \/ tools[i].order < tools[j].order
        \/ tools[i].order = tools[j].order /\ tools[i].id < tools[j].id
        \/ tools[i].order = tools[j].order /\ tools[i].id = tools[j].id /\ i < j
    BY <1>2, <1>5
  <2>3. \/ tools[j].order < tools[k].order
        \/ tools[j].order = tools[k].order /\ tools[j].id < tools[k].id
        \/ tools[j].order = tools[k].order /\ tools[j].id = tools[k].id /\ j < k
    BY <1>2, <1>5
  <2>4. \/ tools[i].order < tools[k].order
        \/ tools[i].order = tools[k].order /\ tools[i].id < tools[k].id
        \/ tools[i].order = tools[k].order /\ tools[i].id = tools[k].id /\ i < k
    BY <2>1, <2>2, <2>3
  <2>5. QED
    BY <1>2, <2>4
<1>6. ASSUME NEW i \in D, NEW j \in D, i # j
      PROVE  <<i, j>> \in Sooner(tools) \/ <<j, i>> \in Sooner(tools)
  <2>1. /\ i \in Int /\ tools[i].order \in Int /\ tools[i].id \in Int
        /\ j \in Int /\ tools[j].order \in Int /\ tools[j].id \in Int
    BY <1>3
  <2>2. QED
    BY <1>2, <1>6, <2>1
<1>7. QED
  BY <1>4, <1>5, <1>6 DEF StrictOrder, D

\* sort() keeps every tool as often as it is there, and puts them in order.
LEMMA ExecutionOrder ==
    ASSUME NEW T \in SUBSET ToolRow, NEW tools \in Seq(T)
    PROVE  /\ InExecutionOrder(tools) \in Seq(T)
           /\ ToSet(InExecutionOrder(tools)) = ToSet(tools)
           /\ ~HasTwins(tools) => ~HasTwins(InExecutionOrder(tools))
           /\ \A j, k \in DOMAIN InExecutionOrder(tools) :
                 j < k => NotAfter(InExecutionOrder(tools)[j], InExecutionOrder(tools)[k])
<1> DEFINE q == InExecutionOrder(tools)
           D == DOMAIN tools
<1>1. q = Taken(tools, D, Sooner(tools)) /\ D \in SUBSET DOMAIN tools
  BY DEF InExecutionOrder
<1>2. D = 1..Len(tools) /\ Len(tools) \in Nat /\ \A i \in D : tools[i] \in T
  OBVIOUS
<1>3. tools \in Seq(ToolRow)
  BY <1>2
<1>4. StrictOrder(Sooner(tools), D)
  BY <1>3, SoonerIsStrict
<1>5. ASSUME NEW i \in D, NEW j \in D, <<i, j>> \in Sooner(tools)
      PROVE  i # j /\ NotAfter(tools[i], tools[j])
  <2>1. /\ tools[i].id \in Int /\ tools[j].id \in Int /\ tools[i].order \in Int
        /\ i \in Int /\ j \in Int
    BY <1>2 DEF ToolRow
  <2>2. \/ tools[i].order < tools[j].order
        \/ tools[i].order = tools[j].order /\ tools[i].id < tools[j].id
        \/ tools[i].order = tools[j].order /\ tools[i].id = tools[j].id /\ i < j
    BY <1>5 DEF Sooner
  <2>3. QED
    BY <2>1, <2>2 DEF NotAfter
<1> HIDE DEF q
<1>6. q \in Seq(T) /\ Picks(q, tools, D, Sooner(tools))
  BY <1>1, <1>4, TakenIs
<1>7. PICK at \in [DOMAIN q -> D] :
            /\ \A k \in DOMAIN q : q[k] = tools[at[k]]
            /\ \A i \in D : \E k \in DOMAIN q : at[k] = i
            /\ \A j, k \in DOMAIN q : j < k => <<at[j], at[k]>> \in Sooner(tools)
  BY <1>6 DEF Picks
<1>8. ToSet(tools) = {tools[i] : i \in D} /\ ToSet(q) = {q[k] : k \in DOMAIN q}
  BY DEF ToSet
<1> HIDE DEF D
<1>9. DOMAIN q = 1..Len(q) /\ Len(q) \in Nat
  BY <1>6
<1>10. ToSet(q) = ToSet(tools)
  BY <1>7, <1>8
<1>11. ASSUME NEW j \in DOMAIN q, NEW k \in DOMAIN q, j < k
       PROVE  at[j] # at[k] /\ NotAfter(q[j], q[k])
  <2>1. at[j] \in D /\ at[k] \in D /\ <<at[j], at[k]>> \in Sooner(tools)
    BY <1>7, <1>11
  <2>2. at[j] # at[k] /\ NotAfter(tools[at[j]], tools[at[k]])
    BY <1>5, <2>1
  <2>3. QED
    BY <1>7, <2>2
<1>12. ASSUME NEW j \in DOMAIN q, NEW k \in DOMAIN q, j # k, q[j] = q[k]
       PROVE  HasTwins(tools)
  <2>1. j < k \/ k < j
    BY <1>9, <1>12
  <2>2. at[j] # at[k] /\ at[j] \in D /\ at[k] \in D /\ tools[at[j]] = tools[at[k]]
    BY <1>7, <1>11, <1>12, <2>1
  <2>3. QED
    BY <2>2 DEF HasTwins, D
<1>13. QED
  BY <1>6, <1>10, <1>11, <1>12 DEF HasTwins, q

-----------------------------------------------------------------------------
(***************************************************************************)
(* The tools of a plan.                                                    *)
(***************************************************************************)

\* What a create request may ask for, and what the tables may hold: finitely
\* many tools, each id once.
WellFormed(in) ==
    /\ in.tools \in SUBSET ToolRow /\ IsFiniteSet(in.tools)
    /\ \A a, b \in in.tools : a.id = b.id => a = b
    /\ in.pack.tools \in Seq(Nat) /\ in.selected \in Seq(Nat)
    /\ in.repositories \in Seq(ToSet(in.repositories))
    /\ {in.pack.known, in.pack.requiresRdp, in.userScript, in.branding, in.suppliedKey}
          \subseteq BOOLEAN

\* The tools a server should have, but for the runtime's.
Wanted(in) ==
    {t \in in.tools : t.enabled /\ ~t.bootstrap /\ (t.always \/ t.id \in ToSet(ChosenIds(in)))}

Guaranteed(in) == {t \in in.tools : t.bootstrap /\ t.enabled}

LEMMA SetOfList ==
    ASSUME NEW A, NEW list \in Seq(A)
    PROVE  /\ \A i \in DOMAIN list : list[i] \in ToSet(list)
           /\ \A x \in ToSet(list) : x \in A /\ \E i \in DOMAIN list : list[i] = x
           /\ list \in Seq(ToSet(list))
           /\ \A B : ToSet(list) \subseteq B => list \in Seq(B)
<1>1. DOMAIN list = 1..Len(list) /\ Len(list) \in Nat /\ \A i \in DOMAIN list : list[i] \in A
  OBVIOUS
<1>2. \A i \in DOMAIN list : list[i] \in ToSet(list)
  BY DEF ToSet
<1>3. \A x \in ToSet(list) : x \in A /\ \E i \in DOMAIN list : list[i] = x
  BY <1>1 DEF ToSet
<1>4. ASSUME NEW B, ToSet(list) \subseteq B PROVE list \in Seq(B)
  <2>1. \A i \in DOMAIN list : list[i] \in B
    BY <1>2, <1>4
  <2>2. QED
    BY <1>1, <2>1
<1>5. QED
  BY <1>2, <1>3, <1>4

LEMMA ListsJoin ==
    ASSUME NEW A, NEW s \in Seq(A), NEW t \in Seq(A)
    PROVE  /\ s \o t \in Seq(A)
           /\ Len(s) \in Nat /\ Len(t) \in Nat /\ Len(s \o t) = Len(s) + Len(t)
           /\ DOMAIN s = 1..Len(s) /\ DOMAIN t = 1..Len(t)
           /\ DOMAIN (s \o t) = 1..(Len(s) + Len(t))
           /\ \A i \in DOMAIN s : (s \o t)[i] = s[i]
           /\ \A i \in DOMAIN t : (s \o t)[Len(s) + i] = t[i]
           /\ \A i \in DOMAIN (s \o t) :
                 \/ i \in DOMAIN s /\ (s \o t)[i] = s[i]
                 \/ i > Len(s) /\ i - Len(s) \in DOMAIN t /\ (s \o t)[i] = t[i - Len(s)]
OBVIOUS

\* Joined lists have the elements of both, and twins only if they share one.
LEMMA JoinedSet ==
    ASSUME NEW A, NEW s \in Seq(A), NEW t \in Seq(A)
    PROVE  /\ ToSet(s \o t) = ToSet(s) \cup ToSet(t)
           /\ ~HasTwins(s) /\ ~HasTwins(t) /\ ToSet(s) \cap ToSet(t) = {} => ~HasTwins(s \o t)
<1> DEFINE q == s \o t
<1>1. /\ Len(s) \in Nat /\ Len(t) \in Nat
      /\ DOMAIN s = 1..Len(s) /\ DOMAIN t = 1..Len(t) /\ DOMAIN q = 1..(Len(s) + Len(t))
      /\ \A i \in DOMAIN s : q[i] = s[i]
      /\ \A i \in DOMAIN t : q[Len(s) + i] = t[i]
      /\ \A i \in DOMAIN q :
            \/ i \in DOMAIN s /\ q[i] = s[i]
            \/ i > Len(s) /\ i - Len(s) \in DOMAIN t /\ q[i] = t[i - Len(s)]
  BY ListsJoin
<1>2. /\ ToSet(s) = {s[i] : i \in DOMAIN s} /\ ToSet(t) = {t[i] : i \in DOMAIN t}
      /\ ToSet(q) = {q[i] : i \in DOMAIN q}
  BY DEF ToSet
<1> HIDE DEF q
<1>3. ToSet(q) = ToSet(s) \cup ToSet(t)
  <2>1. \A i \in DOMAIN q : q[i] \in ToSet(s) \cup ToSet(t)
    BY <1>1, <1>2
  <2>2. \A i \in DOMAIN s : i \in DOMAIN q /\ s[i] \in ToSet(q)
    BY <1>1, <1>2
  <2>3. \A i \in DOMAIN t : Len(s) + i \in DOMAIN q /\ t[i] \in ToSet(q)
    BY <1>1, <1>2
  <2>4. QED
    BY <1>2, <2>1, <2>2, <2>3
<1>4. ASSUME NEW i \in DOMAIN q, NEW j \in DOMAIN q, i # j, q[i] = q[j],
             ToSet(s) \cap ToSet(t) = {}
      PROVE  HasTwins(s) \/ HasTwins(t)
  <2>1. CASE i \in DOMAIN s /\ q[i] = s[i] /\ j \in DOMAIN s /\ q[j] = s[j]
    BY <1>4, <2>1 DEF HasTwins
  <2>2. CASE /\ i > Len(s) /\ i - Len(s) \in DOMAIN t /\ q[i] = t[i - Len(s)]
             /\ j > Len(s) /\ j - Len(s) \in DOMAIN t /\ q[j] = t[j - Len(s)]
    <3>1. i - Len(s) # j - Len(s)
      BY <1>1, <1>4
    <3>2. QED
      BY <1>4, <2>2, <3>1 DEF HasTwins
  <2>3. CASE \/ i \in DOMAIN s /\ q[i] = s[i] /\ j - Len(s) \in DOMAIN t /\ q[j] = t[j - Len(s)]
             \/ j \in DOMAIN s /\ q[j] = s[j] /\ i - Len(s) \in DOMAIN t /\ q[i] = t[i - Len(s)]
    BY <1>2, <1>4, <2>3
  <2>4. QED
    BY <1>1, <2>1, <2>2, <2>3
<1>5. QED
  BY <1>3, <1>4 DEF HasTwins, q

\* The ids of a set of tools, each once.
LEMMA IdsAre ==
    ASSUME NEW T \in SUBSET ToolRow, IsFiniteSet(T)
    PROVE  /\ Ids(T) \in Seq(Nat)
           /\ ToSet(Ids(T)) = {t.id : t \in T}
           /\ ~HasTwins(Ids(T))
<1> DEFINE S == {t.id : t \in T}
           f == Ids(T)
<1>1. S \in SUBSET Nat
  BY DEF ToolRow
<1>2. IsFiniteSet(S)
  <2>1. [t \in T |-> t.id] \in Surjection(T, S)
    BY DEF Surjection
  <2>2. QED
    BY <2>1, FS_Surjection
<1>3. f = InOrder(S, Ascending)
  BY DEF Ids
<1> HIDE DEF S, f
<1>4. Lists(f, S, Ascending)
  BY <1>1, <1>2, <1>3, AscendingIsStrict, InOrderLists
<1>5. /\ Cardinality(S) \in Nat /\ DOMAIN f = 1..Cardinality(S)
      /\ \A i \in DOMAIN f : f[i] \in S
      /\ \A x \in S : \E i \in DOMAIN f : f[i] = x
      /\ \A i, j \in DOMAIN f : i < j => <<f[i], f[j]>> \in Ascending
  BY <1>4 DEF Lists
<1>6. f \in Seq(Nat)
  <2>1. f \in [1..Cardinality(S) -> Nat]
    BY <1>1, <1>4 DEF Lists
  <2>2. QED
    BY <1>5, <2>1
<1>7. ToSet(f) = S
  BY <1>5 DEF ToSet
<1>8. ASSUME NEW i \in DOMAIN f, NEW j \in DOMAIN f, i # j
      PROVE  f[i] # f[j]
  <2>1. i < j \/ j < i
    BY <1>5, <1>8
  <2>2. f[i] \in Nat /\ f[j] \in Nat
    BY <1>1, <1>5
  <2>3. <<f[i], f[j]>> \in Ascending \/ <<f[j], f[i]>> \in Ascending
    BY <1>5, <2>1
  <2>4. QED
    BY <2>2, <2>3 DEF Ascending
<1>9. QED
  BY <1>6, <1>7, <1>8 DEF HasTwins, S, f

\* The rows that go by a list of known ids.
LEMMA RowsAre ==
    ASSUME NEW in, WellFormed(in), NEW ids \in Seq({t.id : t \in in.tools})
    PROVE  /\ Rows(in, ids) \in Seq(in.tools)
           /\ ToSet(Rows(in, ids)) = {t \in in.tools : t.id \in ToSet(ids)}
           /\ ~HasTwins(ids) => ~HasTwins(Rows(in, ids))
<1> DEFINE rows == Rows(in, ids)
<1>1. DOMAIN ids = 1..Len(ids) /\ Len(ids) \in Nat
  OBVIOUS
<1>2. \A i \in DOMAIN ids : \E t \in in.tools : t.id = ids[i]
  <2>1. \A i \in DOMAIN ids : ids[i] \in {t.id : t \in in.tools}
    OBVIOUS
  <2>2. QED
    BY <2>1
<1>3. rows = [i \in DOMAIN ids |-> CHOOSE t \in in.tools : t.id = ids[i]]
  BY DEF Rows
<1> HIDE DEF rows
<1>4. DOMAIN rows = DOMAIN ids /\ \A i \in DOMAIN ids : rows[i] \in in.tools /\ rows[i].id = ids[i]
  BY <1>2, <1>3
<1>5. rows \in Seq(in.tools)
  <2>1. rows \in [1..Len(ids) -> in.tools]
    BY <1>1, <1>3, <1>4
  <2>2. QED
    BY <1>1, <2>1
<1>6. ToSet(rows) = {t \in in.tools : t.id \in ToSet(ids)}
  <2>1. \A i \in DOMAIN ids : rows[i].id \in ToSet(ids)
    BY <1>4 DEF ToSet
  <2>2. ASSUME NEW t \in in.tools, t.id \in ToSet(ids)
        PROVE  t \in ToSet(rows)
    <3>1. PICK i \in DOMAIN ids : ids[i] = t.id
      BY <2>2 DEF ToSet
    <3>2. rows[i] = t
      BY <1>4, <3>1 DEF WellFormed
    <3>3. QED
      BY <1>4, <3>2 DEF ToSet
  <2>3. \A t \in ToSet(rows) : t \in in.tools /\ t.id \in ToSet(ids)
    BY <1>4, <2>1 DEF ToSet
  <2>4. QED
    BY <2>2, <2>3
<1>7. HasTwins(rows) => HasTwins(ids)
  <2>1. ASSUME NEW i \in DOMAIN ids, NEW j \in DOMAIN ids, i # j, rows[i] = rows[j]
        PROVE  ids[i] = ids[j]
    BY <1>4, <2>1
  <2>2. QED
    BY <1>4, <2>1 DEF HasTwins
<1>8. QED
  BY <1>5, <1>6, <1>7 DEF rows

\* The chosen tools, and with them the always-installed ones.
LEMMA ServerToolIds ==
    ASSUME NEW in, WellFormed(in)
    PROVE  /\ ChosenIds(in) \in Seq(Nat)
           /\ resolveServerToolIds(in) \in Seq(Nat)
           /\ ToSet(resolveServerToolIds(in)) =
                 ToSet(ChosenIds(in)) \cup {t.id : t \in {u \in in.tools : u.always}}
           /\ ~HasTwins(ChosenIds(in)) => ~HasTwins(resolveServerToolIds(in))
<1> DEFINE base == ChosenIds(in)
           T == {t \in in.tools : t.always}
           always == Ids(T)
           new == ToSet(always) \ ToSet(base)
           added == Those(always, new)
<1>1. base \in Seq(Nat)
  BY DEF ChosenIds, WellFormed
<1>2. T \in SUBSET ToolRow /\ IsFiniteSet(T)
  <2>1. T \in SUBSET in.tools
    OBVIOUS
  <2>2. QED
    BY <2>1, FS_Subset DEF WellFormed
<1>3. always \in Seq(Nat) /\ ToSet(always) = {t.id : t \in T} /\ ~HasTwins(always)
  <2> HIDE DEF T
  <2>1. QED
    BY <1>2, IdsAre
<1>4. resolveServerToolIds(in) = base \o added
  BY DEF resolveServerToolIds, unionAlwaysInstalled
<1> HIDE DEF base, T, always, added, new
<1>5. /\ added \in Seq(Nat \cap new)
      /\ ToSet(added) = ToSet(always) \cap new
      /\ ~HasTwins(added)
  BY <1>3, ThoseAre DEF added
<1>6. added \in Seq(Nat)
  <2>1. ToSet(added) \subseteq Nat
    BY <1>3, <1>5, SetOfList
  <2>2. QED
    BY <1>5, <2>1, SetOfList
<1>7. ToSet(added) \cap ToSet(base) = {} /\ ToSet(base) \cup ToSet(added) = ToSet(base) \cup ToSet(always)
  BY <1>5 DEF new
<1>8. /\ base \o added \in Seq(Nat)
      /\ ToSet(base \o added) = ToSet(base) \cup ToSet(added)
      /\ ~HasTwins(base) => ~HasTwins(base \o added)
  BY <1>1, <1>5, <1>6, <1>7, JoinedSet
<1>9. QED
  BY <1>1, <1>3, <1>4, <1>7, <1>8 DEF base, T

\* The runtime's tools, each once, in order.
LEMMA BootstrapToolsAre ==
    ASSUME NEW in, WellFormed(in)
    PROVE  /\ BootstrapTools(in) \in Seq(in.tools)
           /\ ToSet(BootstrapTools(in)) = Guaranteed(in)
           /\ ~HasTwins(BootstrapTools(in))
           /\ \A j, k \in DOMAIN BootstrapTools(in) :
                 j < k => NotAfter(BootstrapTools(in)[j], BootstrapTools(in)[k])
<1> DEFINE T == Guaranteed(in)
           ids == Ids(T)
           rows == Rows(in, ids)
<1>1. T \in SUBSET in.tools /\ in.tools \in SUBSET ToolRow /\ T \in SUBSET ToolRow /\ IsFiniteSet(T)
  BY FS_Subset DEF WellFormed, Guaranteed
<1>2. BootstrapTools(in) = InExecutionOrder(rows)
  BY DEF BootstrapTools, Guaranteed
<1> HIDE DEF T, ids, rows
<1>3. ids \in Seq(Nat) /\ ToSet(ids) = {t.id : t \in T} /\ ~HasTwins(ids)
  BY <1>1, IdsAre DEF ids
<1>4. ids \in Seq({t.id : t \in in.tools})
  <2>1. ToSet(ids) \subseteq {t.id : t \in in.tools}
    BY <1>1, <1>3
  <2>2. QED
    BY <1>3, <2>1, SetOfList
<1>5. /\ rows \in Seq(in.tools)
      /\ ToSet(rows) = {t \in in.tools : t.id \in ToSet(ids)}
      /\ ~HasTwins(rows)
  BY <1>3, <1>4, RowsAre DEF rows
<1>6. ToSet(rows) = T
  <2>1. \A t \in in.tools : t.id \in ToSet(ids) <=> t \in T
    BY <1>1, <1>3 DEF WellFormed
  <2>2. QED
    BY <1>1, <1>5, <2>1
<1>7. QED
  BY <1>1, <1>2, <1>5, <1>6, ExecutionOrder DEF T

\* The tools of the choice, in order, and each once unless one was chosen twice.
LEMMA PackToolsAre ==
    ASSUME NEW in, WellFormed(in)
    PROVE  /\ PackTools(in) \in Seq(in.tools)
           /\ ToSet(PackTools(in)) = Wanted(in)
           /\ ~HasTwins(ChosenIds(in)) => ~HasTwins(PackTools(in))
           /\ \A j, k \in DOMAIN PackTools(in) :
                 j < k => NotAfter(PackTools(in)[j], PackTools(in)[k])
<1> DEFINE ids == resolveServerToolIds(in)
           names == {t.id : t \in in.tools}
           known == Those(ids, names)
           rows == Rows(in, known)
           kept == {t \in in.tools : t.enabled /\ ~t.bootstrap}
           tools == Those(rows, kept)
<1>1. PackTools(in) = InExecutionOrder(tools) /\ in.tools \in SUBSET ToolRow /\ names \in SUBSET Nat
  BY DEF PackTools, WellFormed, ToolRow
<1>2. kept \in SUBSET in.tools
  OBVIOUS
<1> HIDE DEF ids, known, rows, tools
<1>3. /\ ids \in Seq(Nat)
      /\ ToSet(ids) = ToSet(ChosenIds(in)) \cup {t.id : t \in {u \in in.tools : u.always}}
      /\ ~HasTwins(ChosenIds(in)) => ~HasTwins(ids)
  BY ServerToolIds DEF ids
<1>4. /\ known \in Seq(Nat \cap names)
      /\ ToSet(known) = ToSet(ids) \cap names
      /\ ~HasTwins(ids) => ~HasTwins(known)
  <2> HIDE DEF names
  <2>1. QED
    BY <1>3, ThoseAre DEF known
<1>5. known \in Seq(names)
  BY <1>4, SetOfList
<1>6. /\ rows \in Seq(in.tools)
      /\ ToSet(rows) = {t \in in.tools : t.id \in ToSet(known)}
      /\ ~HasTwins(known) => ~HasTwins(rows)
  BY <1>5, RowsAre DEF rows
<1>7. /\ tools \in Seq(in.tools \cap kept)
      /\ ToSet(tools) = ToSet(rows) \cap kept
      /\ ~HasTwins(rows) => ~HasTwins(tools)
  <2> HIDE DEF kept
  <2>1. QED
    BY <1>6, ThoseAre DEF tools
<1>8. tools \in Seq(in.tools)
  BY <1>7, SetOfList
<1>9. ToSet(tools) = Wanted(in)
  <2>1. \A t \in in.tools : t.id \in ToSet(ids) <=> t.always \/ t.id \in ToSet(ChosenIds(in))
    BY <1>3 DEF WellFormed
  <2>2. QED
    BY <1>4, <1>6, <1>7, <2>1 DEF Wanted
<1>10. /\ InExecutionOrder(tools) \in Seq(in.tools)
       /\ ToSet(InExecutionOrder(tools)) = ToSet(tools)
       /\ ~HasTwins(tools) => ~HasTwins(InExecutionOrder(tools))
       /\ \A j, k \in DOMAIN InExecutionOrder(tools) :
             j < k => NotAfter(InExecutionOrder(tools)[j], InExecutionOrder(tools)[k])
  BY <1>1, <1>8, ExecutionOrder
<1>11. QED
  BY <1>1, <1>3, <1>4, <1>6, <1>7, <1>9, <1>10

-----------------------------------------------------------------------------
(***************************************************************************)
(* The phases of a plan.                                                   *)
(***************************************************************************)

PlanKinds == {"tool", "repo", "tool-setup", "user-script",
              "shell-environment", "branding", "rdp", "supplied-key-only"}

Phase(kind) ==
    CASE kind = "tool" -> 1
      [] kind = "repo" -> 2
      [] kind = "tool-setup" -> 3
      [] kind = "user-script" -> 4
      [] kind = "shell-environment" -> 5
      [] kind = "branding" -> 6
      [] kind = "rdp" -> 7
      [] kind = "supplied-key-only" -> 8

Label(kind) ==
    CASE kind = "tool" -> "installing_tools"
      [] kind = "repo" -> "cloning_repos"
      [] kind = "tool-setup" -> "tools_installed"
      [] kind = "user-script" -> "running_user_script"
      [] OTHER -> "ready"

MayFail(kind) == kind \in {"repo", "user-script", "branding"}

PlanStep(kind, name) == Step(kind, name, Label(kind), MayFail(kind))

PlanSteps(names) == {PlanStep(kind, name) : kind \in PlanKinds, name \in names}

\* What the phase of a step says of it.
LEMMA PhasesTell ==
    ASSUME NEW names, NEW s \in PlanSteps(names)
    PROVE  /\ Kind(s) \in PlanKinds /\ Phase(Kind(s)) \in 1..8
           /\ Kind(s) = "tool" <=> Phase(Kind(s)) = 1
           /\ Kind(s) = "repo" <=> Phase(Kind(s)) = 2
           /\ Kind(s) = "tool-setup" <=> Phase(Kind(s)) = 3
           /\ Kind(s) = "user-script" <=> Phase(Kind(s)) = 4
           /\ s.reports = "ready" <=> Phase(Kind(s)) >= 5
           /\ s.retires <=> Phase(Kind(s)) = 8
           /\ s.retires => ~s.optional
           /\ s.optional \in BOOLEAN /\ s.retires \in BOOLEAN /\ s.reports \in Steps
           /\ s = [id |-> s.id, reports |-> s.reports, optional |-> s.optional, retires |-> s.retires]
<1>1. PICK kind \in PlanKinds, name \in names : s = PlanStep(kind, name)
  BY DEF PlanSteps
<1>2. /\ s = [id |-> <<kind, name>>, reports |-> Label(kind), optional |-> MayFail(kind),
              retires |-> kind = "supplied-key-only"]
      /\ Kind(s) = kind
  BY <1>1 DEF PlanStep, Step, Kind
<1>3. /\ kind = "tool" => Phase(kind) = 1 /\ Label(kind) = "installing_tools"
      /\ kind = "repo" => Phase(kind) = 2 /\ Label(kind) = "cloning_repos"
      /\ kind = "tool-setup" => Phase(kind) = 3 /\ Label(kind) = "tools_installed"
      /\ kind = "user-script" => Phase(kind) = 4 /\ Label(kind) = "running_user_script"
      /\ kind = "shell-environment" => Phase(kind) = 5 /\ Label(kind) = "ready"
      /\ kind = "branding" => Phase(kind) = 6 /\ Label(kind) = "ready"
      /\ kind = "rdp" => Phase(kind) = 7 /\ Label(kind) = "ready"
      /\ kind = "supplied-key-only" => Phase(kind) = 8 /\ Label(kind) = "ready"
  BY DEF Phase, Label
<1>4. {"installing_tools", "cloning_repos", "tools_installed", "running_user_script", "ready"}
         \subseteq Steps
  BY DEF Steps, ProvisioningSteps
<1>5. /\ Phase(kind) \in 1..8
      /\ kind = "tool" <=> Phase(kind) = 1
      /\ kind = "repo" <=> Phase(kind) = 2
      /\ kind = "tool-setup" <=> Phase(kind) = 3
      /\ kind = "user-script" <=> Phase(kind) = 4
      /\ kind = "supplied-key-only" <=> Phase(kind) = 8
      /\ Label(kind) = "ready" <=> Phase(kind) >= 5
  BY <1>3 DEF PlanKinds
<1>6. Label(kind) \in Steps /\ (kind = "supplied-key-only" => ~MayFail(kind))
  BY <1>3, <1>4 DEF PlanKinds, MayFail
<1>7. MayFail(kind) \in BOOLEAN
  BY DEF MayFail
<1>8. /\ s.reports = Label(kind) /\ s.retires = (kind = "supplied-key-only")
      /\ s.optional = MayFail(kind)
      /\ s = [id |-> s.id, reports |-> s.reports, optional |-> s.optional, retires |-> s.retires]
  BY <1>2
<1>9. QED
  BY <1>2, <1>5, <1>6, <1>7, <1>8

\* A part of a plan, from one phase to another: its phases never go back, and
\* from the user's script on there is one step to a phase.
Rising(p, lo, hi, names) ==
    /\ p \in Seq(PlanSteps(names))
    /\ \A i \in DOMAIN p : Phase(Kind(p[i])) \in lo..hi
    /\ \A i, j \in DOMAIN p : i < j => Phase(Kind(p[i])) <= Phase(Kind(p[j]))
    /\ \A i, j \in DOMAIN p :
          Phase(Kind(p[i])) >= 4 /\ Phase(Kind(p[i])) = Phase(Kind(p[j])) => i = j

\* q begins with p and has nothing of p's phases after it.
Continues(q, p, hi) ==
    /\ DOMAIN p \subseteq DOMAIN q
    /\ \A i \in DOMAIN p : q[i] = p[i]
    /\ \A i \in DOMAIN q : Phase(Kind(q[i])) <= hi => i \in DOMAIN p

LEMMA PartsJoin ==
    ASSUME NEW names, NEW p, NEW q, NEW lo \in 1..8, NEW mid \in 1..8, NEW hi \in 1..8,
           lo <= mid, mid < hi,
           Rising(p, lo, mid, names), Rising(q, hi, hi, names)
    PROVE  /\ Rising(p \o q, lo, hi, names)
           /\ Continues(p \o q, p, mid)
           /\ UniqueIds(p) /\ UniqueIds(q) => UniqueIds(p \o q)
<1> DEFINE r == p \o q
           Rank(i) == Phase(Kind(r[i]))
<1>1. p \in Seq(PlanSteps(names)) /\ q \in Seq(PlanSteps(names))
  BY DEF Rising
<1>2. /\ r \in Seq(PlanSteps(names))
      /\ Len(p) \in Nat /\ Len(q) \in Nat
      /\ DOMAIN p = 1..Len(p) /\ DOMAIN q = 1..Len(q) /\ DOMAIN r = 1..(Len(p) + Len(q))
      /\ \A i \in DOMAIN p : r[i] = p[i]
      /\ \A i \in DOMAIN r :
            \/ i \in DOMAIN p /\ r[i] = p[i]
            \/ i > Len(p) /\ i - Len(p) \in DOMAIN q /\ r[i] = q[i - Len(p)]
  BY <1>1, ListsJoin
<1>3. /\ \A i \in DOMAIN p : Phase(Kind(p[i])) \in lo..mid
      /\ \A i \in DOMAIN q : Phase(Kind(q[i])) = hi
      /\ \A i, j \in DOMAIN p : i < j => Phase(Kind(p[i])) <= Phase(Kind(p[j]))
      /\ \A i, j \in DOMAIN p :
            Phase(Kind(p[i])) >= 4 /\ Phase(Kind(p[i])) = Phase(Kind(p[j])) => i = j
      /\ \A i, j \in DOMAIN q : hi >= 4 => i = j
  BY DEF Rising
<1> HIDE DEF r
<1>4. \A i \in DOMAIN r :
          \/ i \in DOMAIN p /\ r[i] = p[i] /\ Rank(i) = Phase(Kind(p[i])) /\ Rank(i) \in lo..mid
          \/ i > Len(p) /\ i - Len(p) \in DOMAIN q /\ r[i] = q[i - Len(p)] /\ Rank(i) = hi
  BY <1>2, <1>3
<1>5. \A i \in DOMAIN r : Rank(i) \in lo..hi
  BY <1>4
<1> HIDE DEF Rank
<1>6. ASSUME NEW i \in DOMAIN r, NEW j \in DOMAIN r, i < j
      PROVE  Rank(i) <= Rank(j)
  <2>1. CASE i \in DOMAIN p /\ j \in DOMAIN p
    BY <1>2, <1>3, <1>4, <1>6, <2>1
  <2>2. CASE i \in DOMAIN p /\ j \notin DOMAIN p
    BY <1>4, <2>2
  <2>3. CASE i \notin DOMAIN p
    BY <1>2, <1>4, <1>6, <2>3
  <2>4. QED
    BY <2>1, <2>2, <2>3
<1>7. ASSUME NEW i \in DOMAIN r, NEW j \in DOMAIN r, Rank(i) >= 4, Rank(i) = Rank(j)
      PROVE  i = j
  <2>1. CASE i \in DOMAIN p /\ j \in DOMAIN p
    <3>1. Rank(i) = Phase(Kind(p[i])) /\ Rank(j) = Phase(Kind(p[j]))
      BY <1>2, <1>4, <2>1
    <3>2. QED
      BY <1>3, <1>7, <2>1, <3>1
  <2>2. CASE i \notin DOMAIN p /\ j \notin DOMAIN p
    <3>1. i - Len(p) \in DOMAIN q /\ j - Len(p) \in DOMAIN q /\ hi >= 4
      BY <1>4, <1>7, <2>2
    <3>2. i - Len(p) = j - Len(p)
      BY <1>3, <3>1
    <3>3. QED
      BY <1>2, <3>2
  <2>3. QED
    BY <1>4, <1>7, <2>1, <2>2
<1>8. \A i \in DOMAIN r : Rank(i) <= mid => i \in DOMAIN p
  BY <1>4
<1>9. ASSUME UniqueIds(p), UniqueIds(q), NEW i \in DOMAIN r, NEW j \in DOMAIN r, r[i].id = r[j].id
      PROVE  i = j
  <2>1. Rank(i) = Rank(j)
    BY <1>9 DEF Rank, Kind
  <2>2. CASE i \in DOMAIN p /\ j \in DOMAIN p
    BY <1>2, <1>9, <2>2 DEF UniqueIds
  <2>3. CASE i \notin DOMAIN p /\ j \notin DOMAIN p
    <3>1. i - Len(p) \in DOMAIN q /\ j - Len(p) \in DOMAIN q /\ r[i] = q[i - Len(p)] /\ r[j] = q[j - Len(p)]
      BY <1>4, <2>3
    <3>2. i - Len(p) = j - Len(p)
      BY <1>9, <3>1 DEF UniqueIds
    <3>3. QED
      BY <1>2, <3>2
  <2>4. QED
    BY <1>4, <2>1, <2>2, <2>3
<1>10. DOMAIN p \subseteq DOMAIN r
  BY <1>2
<1>11. QED
  BY <1>2, <1>5, <1>6, <1>7, <1>8, <1>9, <1>10 DEF Rising, Continues, UniqueIds, Rank, r

LEMMA ContinuesOn ==
    ASSUME NEW p, NEW q, NEW r, NEW lo \in 1..8, NEW hi \in 1..8, lo <= hi,
           NEW names, Rising(p, lo, lo, names), Continues(q, p, lo), Continues(r, q, hi),
           \A i \in DOMAIN r : Phase(Kind(r[i])) \in 1..8
    PROVE  Continues(r, p, lo)
<1>1. /\ DOMAIN p \subseteq DOMAIN q /\ DOMAIN q \subseteq DOMAIN r
      /\ \A i \in DOMAIN p : q[i] = p[i]
      /\ \A i \in DOMAIN q : r[i] = q[i]
      /\ \A i \in DOMAIN q : Phase(Kind(q[i])) <= lo => i \in DOMAIN p
      /\ \A i \in DOMAIN r : Phase(Kind(r[i])) <= hi => i \in DOMAIN q
  BY DEF Continues
<1>2. ASSUME NEW i \in DOMAIN r, Phase(Kind(r[i])) <= lo
      PROVE  i \in DOMAIN p
  <2>1. Phase(Kind(r[i])) <= hi
    BY <1>2
  <2>2. QED
    BY <1>1, <1>2, <2>1
<1>3. QED
  BY <1>1, <1>2 DEF Continues

\* The steps there is one of for each tool.
LEMMA EachRises ==
    ASSUME NEW names, NEW T, \A t \in T : t.id \in names, NEW tools \in Seq(T),
           NEW kind \in {"tool", "tool-setup"}
    PROVE  LET p == Each(tools, kind, Label(kind)) IN
           /\ Rising(p, Phase(kind), Phase(kind), names)
           /\ DOMAIN p = DOMAIN tools
           /\ \A i \in DOMAIN tools : p[i].id = <<kind, tools[i].id>>
           /\ (\A a, b \in T : a.id = b.id => a = b) /\ ~HasTwins(tools) => UniqueIds(p)
<1> DEFINE p == Each(tools, kind, Label(kind))
<1>1. DOMAIN tools = 1..Len(tools) /\ Len(tools) \in Nat /\ \A i \in DOMAIN tools : tools[i] \in T
  OBVIOUS
<1>2. p = [i \in DOMAIN tools |-> PlanStep(kind, tools[i].id)]
  <2>1. MayFail(kind) = FALSE
    BY DEF MayFail
  <2>2. QED
    BY <2>1 DEF Each, PlanStep
<1>3. kind \in PlanKinds /\ Phase(kind) \in {1, 3}
  BY DEF PlanKinds, Phase
<1> HIDE DEF p
<1>4. \A i \in DOMAIN tools : /\ p[i] \in PlanSteps(names)
                              /\ p[i].id = <<kind, tools[i].id>> /\ Kind(p[i]) = kind
  <2>1. ASSUME NEW i \in DOMAIN tools
        PROVE  /\ p[i] = PlanStep(kind, tools[i].id) /\ tools[i].id \in names
               /\ p[i].id = <<kind, tools[i].id>> /\ Kind(p[i]) = kind
    BY <1>1, <1>2 DEF PlanStep, Step, Kind
  <2>2. QED
    BY <1>3, <2>1 DEF PlanSteps
<1>5. p \in Seq(PlanSteps(names)) /\ DOMAIN p = DOMAIN tools
  <2>1. p \in [1..Len(tools) -> PlanSteps(names)]
    BY <1>1, <1>2, <1>4
  <2>2. QED
    BY <1>1, <2>1
<1>6. Rising(p, Phase(kind), Phase(kind), names)
  BY <1>3, <1>4, <1>5 DEF Rising
<1>7. ASSUME \A a, b \in T : a.id = b.id => a = b, ~HasTwins(tools),
             NEW i \in DOMAIN p, NEW j \in DOMAIN p, p[i].id = p[j].id
      PROVE  i = j
  <2>1. tools[i].id = tools[j].id
    BY <1>4, <1>5, <1>7
  <2>2. tools[i] = tools[j]
    BY <1>1, <1>5, <1>7, <2>1
  <2>3. QED
    BY <1>5, <1>7, <2>2 DEF HasTwins
<1>8. QED
  BY <1>4, <1>5, <1>6, <1>7 DEF UniqueIds, p

\* And for each repository.
LEMMA ReposRise ==
    ASSUME NEW names, NEW R, NEW repos \in Seq(R),
           \A i \in DOMAIN repos : repoDirName(repos[i]) \in names
    PROVE  LET p == [i \in DOMAIN repos |-> Step("repo", repoDirName(repos[i]), "cloning_repos", TRUE)]
           IN  /\ Rising(p, 2, 2, names)
               /\ ~HasTwins([i \in DOMAIN repos |-> repoDirName(repos[i])]) => UniqueIds(p)
<1> DEFINE p == [i \in DOMAIN repos |-> Step("repo", repoDirName(repos[i]), "cloning_repos", TRUE)]
<1>1. DOMAIN repos = 1..Len(repos) /\ Len(repos) \in Nat
  OBVIOUS
<1>2. p = [i \in DOMAIN repos |-> PlanStep("repo", repoDirName(repos[i]))]
  BY DEF PlanStep, MayFail, Label
<1>3. "repo" \in PlanKinds /\ Phase("repo") = 2
  BY DEF PlanKinds, Phase
<1> HIDE DEF p
<1>4. \A i \in DOMAIN repos : /\ p[i] \in PlanSteps(names)
                              /\ p[i].id = <<"repo", repoDirName(repos[i])>> /\ Kind(p[i]) = "repo"
  BY <1>2, <1>3 DEF PlanSteps, PlanStep, Step, Kind
<1>5. p \in Seq(PlanSteps(names)) /\ DOMAIN p = DOMAIN repos
  <2>1. p \in [1..Len(repos) -> PlanSteps(names)]
    BY <1>1, <1>2, <1>4
  <2>2. QED
    BY <1>1, <2>1
<1>6. Rising(p, 2, 2, names)
  BY <1>3, <1>4, <1>5 DEF Rising
<1>7. ~HasTwins([i \in DOMAIN repos |-> repoDirName(repos[i])]) => UniqueIds(p)
  BY <1>4, <1>5 DEF HasTwins, UniqueIds
<1>8. QED
  BY <1>6, <1>7 DEF p

\* The steps there is at most one of.
LEMMA SingleRises ==
    ASSUME NEW names, 0 \in names, NEW condition,
           NEW kind \in PlanKinds \ {"tool", "repo", "tool-setup"}
    PROVE  LET p == When(condition, <<Singleton(kind, Label(kind), MayFail(kind))>>) IN
           Rising(p, Phase(kind), Phase(kind), names) /\ UniqueIds(p)
<1> DEFINE s == Singleton(kind, Label(kind), MayFail(kind))
<1>1. s = PlanStep(kind, 0) /\ s \in PlanSteps(names) /\ Kind(s) = kind
  BY DEF Singleton, PlanStep, PlanSteps, Step, Kind
<1>2. Phase(kind) \in 1..8
  BY DEF PlanKinds, Phase
<1> HIDE DEF s
<1>3. Rising(<<s>>, Phase(kind), Phase(kind), names) /\ UniqueIds(<<s>>)
  BY <1>1, <1>2 DEF Rising, UniqueIds
<1>4. Rising(<<>>, Phase(kind), Phase(kind), names) /\ UniqueIds(<<>>)
  BY DEF Rising, UniqueIds
<1>5. QED
  BY <1>3, <1>4 DEF When, s

\* The tools of a plan, runtime tools first.
Tools(in) == BootstrapTools(in) \o PackTools(in)

\* What comes after the tools, appended phase by phase.
Cloning(in) == [i \in DOMAIN in.repositories |->
                   Step("repo", repoDirName(in.repositories[i]), "cloning_repos", TRUE)]
SettingUp(in) == Each(Those(Tools(in), {t \in in.tools : t.setup}), "tool-setup", "tools_installed")

Names(in) == Nat \cup {repoDirName(in.repositories[i]) : i \in DOMAIN in.repositories}

LEMMA ToolsAre ==
    ASSUME NEW in, WellFormed(in)
    PROVE  /\ Tools(in) \in Seq(in.tools)
           /\ ToSet(Tools(in)) = Guaranteed(in) \cup Wanted(in)
           /\ ~AsksTwice(in) => ~HasTwins(Tools(in))
           /\ \A j, k \in DOMAIN Tools(in) :
                 j < k => \/ Tools(in)[j].bootstrap /\ ~Tools(in)[k].bootstrap
                          \/ /\ Tools(in)[j].bootstrap = Tools(in)[k].bootstrap
                             /\ NotAfter(Tools(in)[j], Tools(in)[k])
<1> DEFINE s == BootstrapTools(in)
           t == PackTools(in)
           q == Tools(in)
<1>1. /\ s \in Seq(in.tools) /\ ToSet(s) = Guaranteed(in) /\ ~HasTwins(s)
      /\ \A j, k \in DOMAIN s : j < k => NotAfter(s[j], s[k])
  BY BootstrapToolsAre
<1>2. /\ t \in Seq(in.tools) /\ ToSet(t) = Wanted(in)
      /\ ~AsksTwice(in) => ~HasTwins(t)
      /\ \A j, k \in DOMAIN t : j < k => NotAfter(t[j], t[k])
  BY PackToolsAre DEF AsksTwice
<1>3. q = s \o t
  BY DEF Tools
<1> HIDE DEF s, t, q
<1>4. Guaranteed(in) \cap Wanted(in) = {}
  BY DEF Guaranteed, Wanted
<1>5. /\ q \in Seq(in.tools)
      /\ Len(s) \in Nat /\ Len(t) \in Nat
      /\ DOMAIN s = 1..Len(s) /\ DOMAIN t = 1..Len(t) /\ DOMAIN q = 1..(Len(s) + Len(t))
      /\ \A i \in DOMAIN q :
            \/ i \in DOMAIN s /\ q[i] = s[i]
            \/ i > Len(s) /\ i - Len(s) \in DOMAIN t /\ q[i] = t[i - Len(s)]
  BY <1>1, <1>2, <1>3, ListsJoin
<1>6. /\ ToSet(q) = Guaranteed(in) \cup Wanted(in)
      /\ ~AsksTwice(in) => ~HasTwins(q)
  BY <1>1, <1>2, <1>3, <1>4, JoinedSet
<1>7. /\ \A i \in DOMAIN s : s[i].bootstrap = TRUE
      /\ \A i \in DOMAIN t : t[i].bootstrap = FALSE
  <2>1. /\ \A i \in DOMAIN s : s[i] \in Guaranteed(in)
        /\ \A i \in DOMAIN t : t[i] \in Wanted(in)
    BY <1>1, <1>2, SetOfList
  <2>2. \A u \in in.tools : u.bootstrap \in BOOLEAN
    BY DEF WellFormed, ToolRow
  <2>3. QED
    BY <2>1, <2>2 DEF Guaranteed, Wanted
<1>8. ASSUME NEW j \in DOMAIN q, NEW k \in DOMAIN q, j < k
      PROVE  \/ q[j].bootstrap /\ ~q[k].bootstrap
             \/ q[j].bootstrap = q[k].bootstrap /\ NotAfter(q[j], q[k])
  <2>1. CASE j \in DOMAIN s /\ q[j] = s[j] /\ k \in DOMAIN s /\ q[k] = s[k]
    BY <1>1, <1>7, <1>8, <2>1
  <2>2. CASE j \in DOMAIN s /\ q[j] = s[j] /\ k - Len(s) \in DOMAIN t /\ q[k] = t[k - Len(s)]
    BY <1>7, <2>2
  <2>3. CASE /\ j - Len(s) \in DOMAIN t /\ q[j] = t[j - Len(s)]
             /\ k - Len(s) \in DOMAIN t /\ q[k] = t[k - Len(s)]
    <3>1. j - Len(s) < k - Len(s)
      BY <1>5, <1>8
    <3>2. QED
      BY <1>2, <1>7, <2>3, <3>1
  <2>4. ~(j > Len(s) /\ k \in DOMAIN s)
    BY <1>5, <1>8
  <2>5. QED
    BY <1>5, <2>1, <2>2, <2>3, <2>4
<1>9. QED
  BY <1>5, <1>6, <1>8 DEF q

\* The plan goes through its eight phases, and begins with the tools.
LEMMA PlanRises ==
    ASSUME NEW in, WellFormed(in)
    PROVE  LET plan_ == resolveInstallPlan(in)
               tools == Each(Tools(in), "tool", "installing_tools")
           IN  /\ Rising(plan_, 1, 8, Names(in))
               /\ Continues(plan_, tools, 1)
               /\ DOMAIN tools = DOMAIN Tools(in)
               /\ \A i \in DOMAIN tools : tools[i].id = <<"tool", Tools(in)[i].id>>
               /\ ~AsksTwice(in) => UniqueIds(plan_)
<1> DEFINE names == Names(in)
           p1 == Each(Tools(in), "tool", "installing_tools")
           q2 == Cloning(in)
           q3 == SettingUp(in)
           q4 == When(in.userScript, <<Singleton("user-script", "running_user_script", TRUE)>>)
           q5 == <<Singleton("shell-environment", "ready", FALSE)>>
           q6 == When(in.branding, <<Singleton("branding", "ready", TRUE)>>)
           q7 == When(in.pack.known /\ in.pack.requiresRdp, <<Singleton("rdp", "ready", FALSE)>>)
           q8 == When(in.suppliedKey, <<Singleton("supplied-key-only", "ready", FALSE)>>)
           p2 == p1 \o q2
           p3 == p2 \o q3
           p4 == p3 \o q4
           p5 == p4 \o q5
           p6 == p5 \o q6
           p7 == p6 \o q7
           p8 == p7 \o q8
<1>1. resolveInstallPlan(in) = p8
  BY DEF resolveInstallPlan, Tools, Cloning, SettingUp
<1>2. /\ Tools(in) \in Seq(in.tools)
      /\ ~AsksTwice(in) => ~HasTwins(Tools(in))
  BY ToolsAre
<1>3. /\ \A t \in in.tools : t.id \in names
      /\ \A a, b \in in.tools : a.id = b.id => a = b
      /\ 0 \in names
      /\ \A i \in DOMAIN in.repositories : repoDirName(in.repositories[i]) \in names
  BY DEF WellFormed, Names, ToolRow
<1>4. /\ Label("tool") = "installing_tools" /\ Label("tool-setup") = "tools_installed"
      /\ Label("user-script") = "running_user_script"
      /\ Label("shell-environment") = "ready" /\ Label("branding") = "ready"
      /\ Label("rdp") = "ready" /\ Label("supplied-key-only") = "ready"
  BY DEF Label
<1>5. /\ Phase("tool") = 1 /\ Phase("tool-setup") = 3 /\ Phase("user-script") = 4
      /\ Phase("shell-environment") = 5 /\ Phase("branding") = 6
      /\ Phase("rdp") = 7 /\ Phase("supplied-key-only") = 8
  BY DEF Phase
<1>6. /\ MayFail("user-script") = TRUE /\ MayFail("shell-environment") = FALSE
      /\ MayFail("branding") = TRUE /\ MayFail("rdp") = FALSE
      /\ MayFail("supplied-key-only") = FALSE
  BY DEF MayFail
<1> HIDE DEF names
<1>7. /\ Rising(p1, 1, 1, names)
      /\ DOMAIN p1 = DOMAIN Tools(in)
      /\ \A i \in DOMAIN p1 : p1[i].id = <<"tool", Tools(in)[i].id>>
      /\ ~AsksTwice(in) => UniqueIds(p1)
  <2> DEFINE kind == "tool"
             list == Tools(in)
             whole == Each(list, kind, Label(kind))
  <2>1. p1 = whole
    BY <1>4
  <2>2. list \in Seq(in.tools) /\ kind \in {"tool", "tool-setup"}
    BY <1>2
  <2> HIDE DEF p1, kind, list
  <2>3. DOMAIN whole = DOMAIN list /\ \A i \in DOMAIN list : whole[i].id = <<kind, list[i].id>>
    BY DEF Each, Step
  <2>4. Rising(whole, Phase(kind), Phase(kind), names)
    BY <1>3, <2>2, EachRises
  <2>5. ~HasTwins(list) => UniqueIds(whole)
    BY <1>3, <2>2, EachRises
  <2> HIDE DEF whole
  <2>6. QED
    BY <1>2, <1>5, <2>1, <2>3, <2>4, <2>5 DEF kind, list
<1>8. Rising(q2, 2, 2, names) /\ (~AsksTwice(in) => UniqueIds(q2))
  BY <1>3, ReposRise DEF WellFormed, Cloning, AsksTwice
<1>9. Rising(q3, 3, 3, names) /\ (~AsksTwice(in) => UniqueIds(q3))
  <2> DEFINE kept == {t \in in.tools : t.setup}
             those == Those(Tools(in), kept)
  <2>1. q3 = Each(those, "tool-setup", "tools_installed")
    BY DEF SettingUp
  <2> HIDE DEF kept, those
  <2>2. /\ those \in Seq(in.tools \cap kept)
        /\ ~HasTwins(Tools(in)) => ~HasTwins(those)
    BY <1>2, ThoseAre DEF those
  <2>3. those \in Seq(in.tools)
    BY <2>2, SetOfList
  <2>4. QED
    BY <1>2, <1>3, <1>4, <1>5, <2>1, <2>2, <2>3, EachRises
<1>10. Rising(q4, 4, 4, names) /\ UniqueIds(q4)
  BY <1>3, <1>4, <1>5, <1>6, SingleRises DEF PlanKinds
<1>11. Rising(q5, 5, 5, names) /\ UniqueIds(q5)
  <2>1. q5 = When(TRUE, q5)
    BY DEF When
  <2>2. QED
    BY <1>3, <1>4, <1>5, <1>6, <2>1, SingleRises DEF PlanKinds
<1>12. Rising(q6, 6, 6, names) /\ UniqueIds(q6)
  BY <1>3, <1>4, <1>5, <1>6, SingleRises DEF PlanKinds
<1>13. Rising(q7, 7, 7, names) /\ UniqueIds(q7)
  BY <1>3, <1>4, <1>5, <1>6, SingleRises DEF PlanKinds
<1>14. Rising(q8, 8, 8, names) /\ UniqueIds(q8)
  BY <1>3, <1>4, <1>5, <1>6, SingleRises DEF PlanKinds
<1> HIDE DEF p1, q2, q3, q4, q5, q6, q7, q8
<1>21. /\ Rising(p2, 1, 2, names) /\ Continues(p2, p1, 1)
       /\ UniqueIds(p1) /\ UniqueIds(q2) => UniqueIds(p2)
  BY <1>7, <1>8, PartsJoin
<1> HIDE DEF p2
<1>22. /\ Rising(p3, 1, 3, names) /\ Continues(p3, p2, 2)
       /\ UniqueIds(p2) /\ UniqueIds(q3) => UniqueIds(p3)
  BY <1>9, <1>21, PartsJoin
<1> HIDE DEF p3
<1>23. /\ Rising(p4, 1, 4, names) /\ Continues(p4, p3, 3)
       /\ UniqueIds(p3) /\ UniqueIds(q4) => UniqueIds(p4)
  BY <1>10, <1>22, PartsJoin
<1> HIDE DEF p4
<1>24. /\ Rising(p5, 1, 5, names) /\ Continues(p5, p4, 4)
       /\ UniqueIds(p4) /\ UniqueIds(q5) => UniqueIds(p5)
  BY <1>11, <1>23, PartsJoin
<1> HIDE DEF p5
<1>25. /\ Rising(p6, 1, 6, names) /\ Continues(p6, p5, 5)
       /\ UniqueIds(p5) /\ UniqueIds(q6) => UniqueIds(p6)
  BY <1>12, <1>24, PartsJoin
<1> HIDE DEF p6
<1>26. /\ Rising(p7, 1, 7, names) /\ Continues(p7, p6, 6)
       /\ UniqueIds(p6) /\ UniqueIds(q7) => UniqueIds(p7)
  BY <1>13, <1>25, PartsJoin
<1> HIDE DEF p7
<1>27. /\ Rising(p8, 1, 8, names) /\ Continues(p8, p7, 7)
       /\ UniqueIds(p7) /\ UniqueIds(q8) => UniqueIds(p8)
  BY <1>14, <1>26, PartsJoin
<1> HIDE DEF p8
<1>28. UniqueIds(p1) /\ UniqueIds(q2) /\ UniqueIds(q3) => UniqueIds(p8)
  BY <1>10, <1>11, <1>12, <1>13, <1>14, <1>21, <1>22, <1>23, <1>24, <1>25, <1>26, <1>27
<1>29. Continues(p8, p1, 1)
  <2>1. \A i \in DOMAIN p3 : Phase(Kind(p3[i])) \in 1..8
    BY <1>22 DEF Rising
  <2>2. \A i \in DOMAIN p4 : Phase(Kind(p4[i])) \in 1..8
    BY <1>23 DEF Rising
  <2>3. \A i \in DOMAIN p5 : Phase(Kind(p5[i])) \in 1..8
    BY <1>24 DEF Rising
  <2>4. \A i \in DOMAIN p6 : Phase(Kind(p6[i])) \in 1..8
    BY <1>25 DEF Rising
  <2>5. \A i \in DOMAIN p7 : Phase(Kind(p7[i])) \in 1..8
    BY <1>26 DEF Rising
  <2>6. \A i \in DOMAIN p8 : Phase(Kind(p8[i])) \in 1..8
    BY <1>27 DEF Rising
  <2>7. Continues(p3, p1, 1)
    BY <1>7, <1>21, <1>22, <2>1, ContinuesOn
  <2>8. Continues(p4, p1, 1)
    BY <1>7, <1>23, <2>2, <2>7, ContinuesOn
  <2>9. Continues(p5, p1, 1)
    BY <1>7, <1>24, <2>3, <2>8, ContinuesOn
  <2>10. Continues(p6, p1, 1)
    BY <1>7, <1>25, <2>4, <2>9, ContinuesOn
  <2>11. Continues(p7, p1, 1)
    BY <1>7, <1>26, <2>5, <2>10, ContinuesOn
  <2>12. QED
    BY <1>7, <1>27, <2>6, <2>11, ContinuesOn
<1>30. QED
  BY <1>1, <1>7, <1>8, <1>9, <1>27, <1>28, <1>29 DEF names, p1

LEMMA RisingIsOrderly ==
    ASSUME NEW names, NEW p, Rising(p, 1, 8, names)
    PROVE  ReadyIsLast(p) /\ KeyGoesLast(p) /\ SetupFindsItsWorld(p)
<1> DEFINE Rank(i) == Phase(Kind(p[i]))
<1>1. /\ DOMAIN p = 1..Len(p) /\ Len(p) \in Nat
      /\ \A i \in DOMAIN p : p[i] \in PlanSteps(names)
      /\ \A i \in DOMAIN p : Rank(i) \in 1..8
      /\ \A i, j \in DOMAIN p : i < j => Rank(i) <= Rank(j)
      /\ \A i, j \in DOMAIN p : Rank(i) >= 4 /\ Rank(i) = Rank(j) => i = j
  BY DEF Rising
<1>2. \A i \in DOMAIN p :
         /\ Kind(p[i]) = "tool" <=> Rank(i) = 1
         /\ Kind(p[i]) = "repo" <=> Rank(i) = 2
         /\ Kind(p[i]) = "tool-setup" <=> Rank(i) = 3
         /\ Kind(p[i]) = "user-script" <=> Rank(i) = 4
         /\ p[i].reports = "ready" <=> Rank(i) >= 5
         /\ p[i].retires => Rank(i) = 8 /\ ~p[i].optional
  BY <1>1, PhasesTell
<1> HIDE DEF Rank
<1>3. ASSUME NEW i \in DOMAIN p, NEW j \in DOMAIN p, Rank(i) < Rank(j)
      PROVE  i < j
  BY <1>1, <1>3
<1>4. ReadyIsLast(p)
  <2>1. ASSUME NEW i \in DOMAIN p, NEW j \in DOMAIN p, p[i].reports # "ready", p[j].reports = "ready"
        PROVE  i < j
    BY <1>1, <1>2, <1>3, <2>1
  <2>2. QED
    BY <2>1 DEF ReadyIsLast, Before
<1>5. KeyGoesLast(p)
  <2>1. ASSUME NEW i \in DOMAIN p, p[i].retires
        PROVE  i = Len(p) /\ ~p[i].optional
    <3>1. Len(p) \in DOMAIN p /\ Rank(i) = 8 /\ ~p[i].optional
      BY <1>1, <1>2, <2>1
    <3>2. i < Len(p) => Rank(Len(p)) = 8
      BY <1>1, <3>1
    <3>3. QED
      BY <1>1, <3>1, <3>2
  <2>2. QED
    BY <2>1 DEF KeyGoesLast
<1>6. SetupFindsItsWorld(p)
  <2>1. ASSUME NEW i \in DOMAIN p, NEW j \in DOMAIN p,
               \/ Kind(p[i]) = "tool" /\ Kind(p[j]) = "tool-setup"
               \/ Kind(p[i]) = "repo" /\ Kind(p[j]) \in {"tool-setup", "user-script"}
               \/ Kind(p[i]) # "user-script" /\ p[i].reports # "ready" /\ Kind(p[j]) = "user-script"
        PROVE  i < j
    <3>1. Rank(i) < Rank(j)
      BY <1>1, <1>2, <2>1
    <3>2. QED
      BY <1>3, <3>1
  <2>2. QED
    BY <2>1 DEF SetupFindsItsWorld, Before
<1>7. QED
  BY <1>4, <1>5, <1>6

\* Exactly the tools due, in the order they ask for.
LEMMA ToolsDue ==
    ASSUME NEW in, WellFormed(in)
    PROVE  ToolsAreRight(in, resolveInstallPlan(in))
<1> DEFINE p == resolveInstallPlan(in)
           q == Tools(in)
           first == Each(q, "tool", "installing_tools")
           wanted == ToSet(IF in.pack.known /\ in.selected = <<>> THEN in.pack.tools ELSE in.selected)
           due == {t \in in.tools : t.enabled /\ (t.bootstrap \/ t.always \/ t.id \in wanted)}
           Rank(t) == CHOOSE i \in DOMAIN p : p[i].id = <<"tool", t.id>>
           Earlier(a, b) == \/ a.bootstrap /\ ~b.bootstrap
                            \/ a.bootstrap = b.bootstrap /\ a.order < b.order
                            \/ a.bootstrap = b.bootstrap /\ a.order = b.order /\ a.id < b.id
<1>1. /\ Rising(p, 1, 8, Names(in)) /\ Continues(p, first, 1)
      /\ DOMAIN first = DOMAIN q
      /\ \A i \in DOMAIN first : first[i].id = <<"tool", q[i].id>>
  BY PlanRises
<1>2. /\ q \in Seq(in.tools)
      /\ ToSet(q) = Guaranteed(in) \cup Wanted(in)
      /\ \A j, k \in DOMAIN q : j < k => \/ q[j].bootstrap /\ ~q[k].bootstrap
                                         \/ q[j].bootstrap = q[k].bootstrap /\ NotAfter(q[j], q[k])
  BY ToolsAre
<1>3. due = Guaranteed(in) \cup Wanted(in)
  <2>1. \A t \in in.tools : t.bootstrap \in BOOLEAN /\ t.always \in BOOLEAN /\ t.enabled \in BOOLEAN
    BY DEF WellFormed, ToolRow
  <2>2. wanted = ToSet(ChosenIds(in))
    BY DEF ChosenIds
  <2> HIDE DEF wanted
  <2>3. QED
    BY <2>1, <2>2 DEF Guaranteed, Wanted
<1>4. /\ in.tools \in SUBSET ToolRow
      /\ \A a, b \in in.tools : a.id = b.id => a = b
  BY DEF WellFormed
<1> HIDE DEF p, q, first, wanted
<1>5. \A i \in DOMAIN q : i \in DOMAIN p /\ p[i].id = <<"tool", q[i].id>> /\ Kind(p[i]) = "tool"
  <2>1. \A i \in DOMAIN q : i \in DOMAIN p /\ p[i] = first[i]
    BY <1>1 DEF Continues
  <2>2. QED
    BY <1>1, <2>1 DEF Kind
<1>6. \A i \in DOMAIN p : Kind(p[i]) = "tool" => i \in DOMAIN q
  <2>1. ASSUME NEW i \in DOMAIN p, Kind(p[i]) = "tool"
        PROVE  i \in DOMAIN q
    <3>1. Phase(Kind(p[i])) = 1
      BY <2>1 DEF Phase
    <3>2. QED
      BY <1>1, <3>1 DEF Continues
  <2>2. QED
    BY <2>1
<1>7. /\ \A i \in DOMAIN q : q[i] \in due
      /\ \A t \in due : \E i \in DOMAIN q : q[i] = t
  <2> HIDE DEF due
  <2>1. QED
    BY <1>2, <1>3, SetOfList
<1>8. {<<"tool", t.id>> : t \in due} = {p[i].id : i \in {j \in DOMAIN p : Kind(p[j]) = "tool"}}
  <2> HIDE DEF due
  <2>1. \A t \in due : \E i \in DOMAIN p : Kind(p[i]) = "tool" /\ p[i].id = <<"tool", t.id>>
    BY <1>5, <1>7
  <2>2. \A i \in DOMAIN p : Kind(p[i]) = "tool" => \E t \in due : p[i].id = <<"tool", t.id>>
    BY <1>5, <1>6, <1>7
  <2> DEFINE asked == {<<"tool", t.id>> : t \in due}
               places == {j \in DOMAIN p : Kind(p[j]) = "tool"}
               got == {p[i].id : i \in places}
  <2>4. asked \subseteq got
    <3>1. ASSUME NEW t \in due
          PROVE  <<"tool", t.id>> \in got
      <4>1. PICK i \in DOMAIN p : Kind(p[i]) = "tool" /\ p[i].id = <<"tool", t.id>>
        BY <2>1
      <4>2. i \in places
        BY <4>1
      <4>3. QED
        BY <4>1, <4>2
    <3>2. QED
      BY <3>1
  <2>5. got \subseteq asked
    <3>1. ASSUME NEW i \in places
          PROVE  p[i].id \in asked
      BY <2>2
    <3>2. QED
      BY <3>1
  <2>6. QED
    BY <2>4, <2>5
<1>9. ASSUME NEW t \in due
      PROVE  Rank(t) \in DOMAIN q /\ q[Rank(t)] = t
  <2>1. \E i \in DOMAIN p : p[i].id = <<"tool", t.id>>
    BY <1>5, <1>7
  <2>2. Rank(t) \in DOMAIN p /\ p[Rank(t)].id = <<"tool", t.id>>
    BY <2>1
  <2> HIDE DEF Rank
  <2>3. Kind(p[Rank(t)]) = "tool"
    BY <2>2 DEF Kind
  <2>4. Rank(t) \in DOMAIN q /\ p[Rank(t)].id = <<"tool", q[Rank(t)].id>>
    BY <1>5, <1>6, <2>2, <2>3
  <2>5. q[Rank(t)].id = t.id /\ q[Rank(t)] \in in.tools /\ t \in in.tools
    BY <1>7, <2>2, <2>4
  <2>6. QED
    BY <1>4, <2>4, <2>5
<1>10. ASSUME NEW a \in due, NEW b \in due, Earlier(a, b)
       PROVE  Rank(a) < Rank(b)
  <2>1. Rank(a) \in DOMAIN q /\ q[Rank(a)] = a /\ Rank(b) \in DOMAIN q /\ q[Rank(b)] = b
    BY <1>9
  <2>2. /\ a \in ToolRow /\ b \in ToolRow
    BY <1>4
  <2>3. Rank(a) \in Nat /\ Rank(b) \in Nat
    BY <1>2, <2>1
  <2> HIDE DEF Rank, due
  <2>4. a # b /\ ~(b.bootstrap /\ ~a.bootstrap) /\ (a.bootstrap = b.bootstrap => ~NotAfter(b, a))
    BY <1>10, <2>2 DEF ToolRow, NotAfter
  <2>5. ~(Rank(b) < Rank(a))
    BY <1>2, <2>1, <2>4
  <2>6. Rank(a) # Rank(b)
    BY <2>1, <2>4
  <2>7. QED
    BY <2>3, <2>5, <2>6
<1>11. QED
  BY <1>8, <1>10 DEF ToolsAreRight, p, wanted

\* Whatever is asked for, the plan core renders is sound: nothing reports another
\* label after `ready`, core's key goes last, set-up scripts find tools and
\* clones, and the tools are exactly the ones due, in the order they ask for.
THEOREM PlansAreSound ==
    ASSUME NEW in, WellFormed(in)
    PROVE  SoundPlan(in, resolveInstallPlan(in))
<1> DEFINE p == resolveInstallPlan(in)
<1>1. Rising(p, 1, 8, Names(in)) /\ (~AsksTwice(in) => UniqueIds(p))
  BY PlanRises
<1>2. ReadyIsLast(p) /\ KeyGoesLast(p) /\ SetupFindsItsWorld(p)
  <2> HIDE DEF p
  <2>1. QED
    BY <1>1, RisingIsOrderly
<1>3. QED
  BY <1>1, <1>2, ToolsDue DEF SoundPlan

\* A rendered plan is a plan the install may rely on: what PlansAssumption and
\* PhasesAssumption say holds of every plan core renders.
THEOREM PlansAreInstallable ==
    ASSUME NEW in, WellFormed(in)
    PROVE  LET p == resolveInstallPlan(in) IN
           /\ p \in Seq([id : {p[i].id : i \in DOMAIN p}, reports : Steps,
                         optional : BOOLEAN, retires : BOOLEAN])
           /\ \A i, j \in DOMAIN p : i < j /\ p[i].reports = "ready" => p[j].reports = "ready"
           /\ \A i \in DOMAIN p : p[i].retires => ~p[i].optional
<1> DEFINE p == resolveInstallPlan(in)
           Plan == [id : {p[i].id : i \in DOMAIN p}, reports : Steps,
                    optional : BOOLEAN, retires : BOOLEAN]
<1>1. Rising(p, 1, 8, Names(in))
  BY PlanRises
<1> HIDE DEF p
<1>2. p \in Seq(PlanSteps(Names(in))) /\ DOMAIN p = 1..Len(p) /\ Len(p) \in Nat
  BY <1>1 DEF Rising
<1>3. \A i \in DOMAIN p : p[i] \in Plan
  <2>1. ASSUME NEW i \in DOMAIN p
        PROVE  /\ p[i].reports \in Steps /\ p[i].optional \in BOOLEAN /\ p[i].retires \in BOOLEAN
               /\ p[i] = [id |-> p[i].id, reports |-> p[i].reports,
                          optional |-> p[i].optional, retires |-> p[i].retires]
    <3>1. p[i] \in PlanSteps(Names(in))
      BY <1>2
    <3>2. QED
      BY <3>1, PhasesTell
  <2>2. QED
    BY <2>1
<1>4. p \in Seq(Plan)
  <2> HIDE DEF Plan
  <2>1. QED
    BY <1>2, <1>3
<1>5. ReadyIsLast(p) /\ KeyGoesLast(p)
  BY <1>1, RisingIsOrderly
<1>6. ASSUME NEW i \in DOMAIN p, NEW j \in DOMAIN p, i < j, p[i].reports = "ready"
      PROVE  p[j].reports = "ready"
  <2>1. p[j].reports # "ready" => j < i
    BY <1>5, <1>6 DEF ReadyIsLast, Before
  <2>2. QED
    BY <1>2, <1>6, <2>1
<1>7. QED
  BY <1>4, <1>5, <1>6 DEF KeyGoesLast, Plan, p

\* The inputs the plans are checked on are inputs the resolver may be given.
LEMMA TableIsSmall ==
    /\ Table \in SUBSET ToolRow /\ IsFiniteSet(Table)
    /\ \A a, b \in Table : a.id = b.id => a = b
<1> DEFINE t1 == Tool(1, 30, FALSE, FALSE, TRUE)
           t2 == Tool(2, 20, FALSE, FALSE, FALSE)
           t3 == Tool(3, 20, FALSE, TRUE, FALSE)
           t4 == Tool(4, 50, TRUE, FALSE, FALSE)
<1>1. t1 \in ToolRow /\ t2 \in ToolRow /\ t3 \in ToolRow /\ t4 \in ToolRow
  BY DEF Tool, ToolRow
<1>2. t1.id = 1 /\ t2.id = 2 /\ t3.id = 3 /\ t4.id = 4
  BY DEF Tool
<1>3. Table = {t1, t2, t3, t4}
  BY DEF Table
<1> HIDE DEF t1, t2, t3, t4
<1>4. IsFiniteSet({t1}) /\ IsFiniteSet({t2}) /\ IsFiniteSet({t3}) /\ IsFiniteSet({t4})
  BY FS_Singleton
<1>5. IsFiniteSet({t1} \cup {t2}) /\ IsFiniteSet({t3} \cup {t4})
  BY <1>4, FS_Union
<1>6. IsFiniteSet(({t1} \cup {t2}) \cup ({t3} \cup {t4}))
  BY <1>5, FS_Union
<1>7. Table = ({t1} \cup {t2}) \cup ({t3} \cup {t4})
  BY <1>3
<1>8. QED
  BY <1>1, <1>2, <1>3, <1>6, <1>7

LEMMA TablesAreSmall ==
    ASSUME NEW t \in {Table, {[x EXCEPT !.enabled = x.id # 2] : x \in Table}}
    PROVE  /\ t \in SUBSET ToolRow /\ IsFiniteSet(t)
           /\ \A a, b \in t : a.id = b.id => a = b
<1>1. CASE t = Table
  BY <1>1, TableIsSmall
<1>2. CASE t = {[x EXCEPT !.enabled = x.id # 2] : x \in Table}
  <2> DEFINE switched == [x \in Table |-> [x EXCEPT !.enabled = x.id # 2]]
  <2>1. ASSUME NEW x \in Table
        PROVE  switched[x] \in ToolRow /\ switched[x].id = x.id
    BY TableIsSmall DEF ToolRow
  <2>2. \A x \in Table : switched[x] \in t
    BY <1>2
  <2>3. \A a \in t : \E x \in Table : switched[x] = a
    BY <1>2
  <2>4. switched \in [Table -> t]
    BY <2>2
  <2> HIDE DEF switched
  <2>5. switched \in Surjection(Table, t)
    BY <2>3, <2>4 DEF Surjection
  <2>6. IsFiniteSet(t)
    BY <2>5, TableIsSmall, FS_Surjection
  <2>7. \A a \in t : a \in ToolRow
    BY <2>1, <2>3
  <2>8. ASSUME NEW a \in t, NEW b \in t, a.id = b.id
        PROVE  a = b
    BY <2>1, <2>3, <2>8, TableIsSmall
  <2>9. QED
    BY <2>6, <2>7, <2>8
<1>3. QED
  BY <1>1, <1>2

LEMMA InputsWellFormed ==
    ASSUME NEW in \in AllInputs
    PROVE  WellFormed(in)
<1> DEFINE packs == {NoPack, Pack(<<1, 2>>, FALSE), Pack(<<2, 3>>, TRUE), Pack(<<1, 1>>, FALSE)}
           tables == {Table, {[x EXCEPT !.enabled = x.id # 2] : x \in Table}}
<1>1. PICK p \in packs, s \in Selections, t \in tables, r \in RepoLists, e \in Endings :
           in = Input(p, s, t, r, e[1], e[2], e[3])
  <2>1. AllInputs = {Input(p, s, t, r, e[1], e[2], e[3]) : p \in packs, s \in Selections,
                        t \in tables, r \in RepoLists, e \in Endings}
    BY DEF AllInputs
  <2> HIDE DEF packs, tables
  <2>2. QED
    BY <2>1
<1>2. /\ in.pack = p /\ in.selected = s /\ in.tools = t /\ in.repositories = r
      /\ in.userScript = e[1] /\ in.branding = e[2] /\ in.suppliedKey = e[3]
  BY <1>1 DEF Input
<1>3. /\ in.tools \in SUBSET ToolRow /\ IsFiniteSet(in.tools)
      /\ \A a, b \in in.tools : a.id = b.id => a = b
  BY <1>2, TablesAreSmall
<1>4. p.tools \in Seq(Nat) /\ p.known \in BOOLEAN /\ p.requiresRdp \in BOOLEAN
  <2>1. CASE p = NoPack
    BY <2>1 DEF NoPack
  <2>2. CASE p = Pack(<<1, 2>>, FALSE)
    BY <2>2 DEF Pack
  <2>3. CASE p = Pack(<<2, 3>>, TRUE)
    BY <2>3 DEF Pack
  <2>4. CASE p = Pack(<<1, 1>>, FALSE)
    BY <2>4 DEF Pack
  <2>5. QED
    BY <1>1, <2>1, <2>2, <2>3, <2>4
<1>5. s \in Seq(Nat)
  <2>1. s \in {<<>>, <<2>>, <<1, 2>>, <<3, 1>>, <<9, 4>>}
    BY <1>1 DEF Selections
  <2>2. /\ <<>> \in Seq(Nat) /\ <<2>> \in Seq(Nat) /\ <<1, 2>> \in Seq(Nat)
        /\ <<3, 1>> \in Seq(Nat) /\ <<9, 4>> \in Seq(Nat)
    OBVIOUS
  <2>3. QED
    BY <2>1, <2>2
<1>6. r \in Seq(ToSet(r))
  <2> DEFINE a == Repo(1, 1)
             b == Repo(1, 2)
             c == Repo(2, 1)
  <2>1. r \in {<<>>, <<a>>, <<a, b>>, <<a, c>>}
    BY <1>1 DEF RepoLists
  <2> HIDE DEF a, b, c
  <2>2. /\ <<>> \in Seq({a, b, c}) /\ <<a>> \in Seq({a, b, c})
        /\ <<a, b>> \in Seq({a, b, c}) /\ <<a, c>> \in Seq({a, b, c})
    OBVIOUS
  <2>4. r \in Seq({a, b, c})
    BY <2>1, <2>2
  <2>3. QED
    BY <2>4, SetOfList
<1>7. e[1] \in BOOLEAN /\ e[2] \in BOOLEAN /\ e[3] \in BOOLEAN
  <2>1. \/ e = <<TRUE, TRUE, FALSE>> \/ e = <<TRUE, FALSE, TRUE>>
        \/ e = <<FALSE, TRUE, TRUE>> \/ e = <<FALSE, FALSE, FALSE>>
    BY <1>1 DEF Endings
  <2>2. \A x, y, z : e = <<x, y, z>> => e[1] = x /\ e[2] = y /\ e[3] = z
    OBVIOUS
  <2>3. QED
    BY <2>1, <2>2
<1>8. QED
  BY <1>2, <1>3, <1>4, <1>5, <1>6, <1>7 DEF WellFormed

\* The plan a run drives goes through its phases in order in every state: it is
\* rendered once and never again, and what is rendered is sound.
THEOREM PhasesAlwaysInOrder == Spec => []PhasesInOrder
<1>1. PhasesInOrder
  <2>1. ASSUME NEW r \in Rendered
        PROVE  SoundPlan(r.input, r.plan)
    <3>1. PICK in \in AllInputs : r = [input |-> in, plan |-> resolveInstallPlan(in)]
      BY DEF Rendered
    <3>2. SoundPlan(in, resolveInstallPlan(in))
      BY InputsWellFormed, PlansAreSound
    <3>3. QED
      BY <3>1, <3>2
  <2>2. QED
    BY <2>1 DEF PhasesInOrder
<1>2. QED
  BY <1>1, PTL

=============================================================================
