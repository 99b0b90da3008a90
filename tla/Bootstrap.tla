------------------------------ MODULE Bootstrap ------------------------------
(***************************************************************************)
(* From a machine that answers to a server that is ready: the agent on the *)
(* box walking its plan, the journal it leaves, and the two ways core      *)
(* follows it.  In push mode core's supervisor drives the box over SSH and *)
(* polls the journal; in callback mode the box fetches its plan with a     *)
(* token and reports each journal write itself.                            *)
(*                                                                         *)
(* Every remote command is a step of its own: between two of them the      *)
(* agent moves, systemd restarts it, the box reboots, the connection drops *)
(* or core is killed.                                                      *)
(*                                                                         *)
(* Translated from packages/core/bootstrap/agent.sh and, in                *)
(* packages/core/src, bootstrap/push.ts, push-runner.ts, supervisor.ts,    *)
(* internal-routes.ts, user-data.ts and db/repositories/                   *)
(* bootstrap-tokens.ts.  The row is ServerRow's; what a failed bootstrap   *)
(* does to the machine is ServerLifecycle's subject.                       *)
(***************************************************************************)
EXTENDS ServerRow, Sequences, FiniteSets

CONSTANTS
    Plans,        \* the plans servers are created with
    Provisioned,  \* those of servers whose provider then gave them a machine
    Topologies,   \* the bootstrap modes explored: "push", "callback"
    MaxAttempts,  \* drives in a row that may fail for want of infrastructure
    Restarts,     \* restarts systemd grants a unit (StartLimitBurst - 1)
    Budget,       \* uses a plan token has
    FetchTries,   \* times the box asks for its plan (curl --retry 5)
    MaxMishaps    \* bound on what goes wrong: steps, reports, connections, kills, crashes

ASSUME PlansAssumption ==
    \A p \in Plans : p \in Seq([id : {p[i].id : i \in DOMAIN p}, reports : Steps,
                                optional : BOOLEAN, retires : BOOLEAN])
\* What the resolver renders: nothing reports another label after a step that
\* reports `ready`, and the step that removes core's key is never optional.
ASSUME PhasesAssumption ==
    \A p \in Plans :
        /\ \A i, j \in DOMAIN p : i < j /\ p[i].reports = "ready" => p[j].reports = "ready"
        /\ \A i \in DOMAIN p : p[i].retires => ~p[i].optional
ASSUME ProvisionedAssumption == Provisioned \subseteq Plans
ASSUME TopologiesAssumption == Topologies \subseteq {"push", "callback"}
ASSUME LimitsAssumption ==
    /\ MaxAttempts \in Nat \ {0} /\ Restarts \in Nat
    /\ Budget \in Nat /\ FetchTries \in Nat \ {0}
ASSUME BoundsAssumption == MaxMishaps \in Nat

VARIABLES
    topology, plan,  \* how this server bootstraps, and its snapshotted plan
    row,         \* its row
    retired,     \* core has destroyed its own private key
    token,       \* the plan token: uses, whether it has expired, been retired
    box,         \* the machine: "booting", "up" or "gone"
    authorized,  \* the box still lets core's key in
    planFile,    \* run id in plan.json; None before it is there, Torn mid-write
    journal,     \* state.json
    agent,       \* the agent process: where it is, its run, its place in the plan
    unit,        \* restarts systemd has left for it
    drive,       \* the supervisor's drive
    attempts, settled, \* its memory of the server
    ended,       \* history: the plan has ended since this drive looked at the journal
    installed,   \* history: the steps that have run on the box and succeeded
    misread,     \* history: for want of a whole plan.json the agent passed over a step
    late,        \* a report still on its way
    fetch,       \* the stub's tries, and how many answers were lost
    mishaps      \* how much of the bound is used

boxVars == <<box, authorized, planFile, journal, agent, unit>>
driveVars == <<drive, attempts, settled>>
rowVars == <<row, retired, token>>
netVars == <<late, fetch>>
histVars == <<installed, misread>>
vars == <<topology, plan, rowVars, boxVars, driveVars, netVars, ended, histVars, mishaps>>

-----------------------------------------------------------------------------
(***************************************************************************)
(* The journal and the plan.                                               *)
(***************************************************************************)

\* Run ids are random and only ever compared: a fresh one is any that nothing
\* on the box still carries.
RunIds == 1..4
None == 0
Torn == 99
FreshRun ==
    CHOOSE run \in RunIds :
        /\ run \notin {planFile, journal.run, agent.run}
        /\ \A lower \in 1..(run - 1) : lower \in {planFile, journal.run, agent.run}

N == Len(plan)
\* parseInstallPlan: ids are the journal's keys, and must be unique.
Parses == \A i, j \in DOMAIN plan : plan[i].id = plan[j].id => i = j
Supplied == \E i \in DOMAIN plan : plan[i].retires
Required == {i \in DOMAIN plan : ~plan[i].optional}

StepStates == {"pending", "running", "done", "failed"}
NoJournal == [run |-> None, status |-> "none", step |-> 0,
              steps |-> [i \in DOMAIN plan |-> "pending"]]
Complete(j) == {i \in DOMAIN plan : j.steps[i] = "done"}

\* parseAgentState returns nothing before the first flush.
Ended(j) == j.status \in {"done", "failed"}

\* Mutant: whatever is on the disk is taken for this push's.
AnyRun(j, run) == j.status # "none"

isCurrentRun(j, run) == j.run = run

\* The plan is rendered before the provider is asked for a machine; a server
\* that is refused one has failed, and its plan is all it will ever have.
CreatedRow ==
    [InsertedRow EXCEPT !.status = "provisioning", !.step = "instance_running",
                        !.handle = TRUE, !.state = "running", !.billingSince = TRUE]

Init ==
    /\ topology \in Topologies
    /\ plan \in Plans
    /\ row = IF plan \in Provisioned THEN CreatedRow ELSE [InsertedRow EXCEPT !.status = "failed"]
    /\ retired = FALSE
    /\ token = [uses |-> 0, expired |-> FALSE, retired |-> FALSE]
    /\ box = IF plan \in Provisioned THEN "booting" ELSE "gone"
    /\ authorized = TRUE
    /\ planFile = None /\ journal = NoJournal
    /\ agent = [pc |-> IF topology = "callback" THEN "unborn" ELSE "off", run |-> None, at |-> 1,
                lost |-> {}]
    /\ unit = 0
    /\ drive = [pc |-> "off", run |-> None, alive |-> FALSE, strikes |-> 0]
    /\ attempts = 0 /\ settled = "none"
    /\ ended = FALSE /\ installed = {} /\ misread = FALSE
    /\ late = {}
    /\ fetch = [tries |-> 0, lost |-> 0]
    /\ mishaps = 0

\* So much goes wrong, within the bound.
Costs(n) == mishaps + n <= MaxMishaps /\ mishaps' = mishaps + n
GoesWrong == Costs(1)

-----------------------------------------------------------------------------
(***************************************************************************)
(* Callback mode: a report is sent with each journal write and handled by  *)
(* the progress route in one step.                                         *)
(***************************************************************************)

\* The run id of the snapshot: in callback mode the only one there is.
SnapshotRun == 1

\* The report of a flush; an agent with no step yet has nothing to say.
ReportOf(j) == [run |-> j.run, step |-> plan[j.step].reports, status |-> j.status]

\* retirePlanToken, and the retirement of the managed key, when the row has
\* just become running.
Finished == /\ token' = [token EXCEPT !.retired = TRUE]
            /\ retired' = (retired \/ Supplied)

\* POST /internal/servers/:id/status.  A stale run or a row that no longer
\* provisions is answered and forgotten; a failure is failBootstrap's.
HandleReport(r) ==
    IF r.run # SnapshotRun \/ ~AcceptsProgressReports(row.status)
    THEN UNCHANGED rowVars
    ELSE LET shown == RecordProgress(row, r.step)
         IN IF r.status = "failed"
            THEN row' = TryStatus(shown, "failed") /\ UNCHANGED <<retired, token>>
            ELSE /\ row' = shown
                 /\ IF shown.status = "running" THEN Finished
                                                ELSE UNCHANGED <<retired, token>>

\* flush_state: the journal is replaced, then reported.  A report may be lost,
\* or arrive twice, or only after ones the agent sends later.
Flush(j, cost) ==
    /\ journal' = j
    /\ IF topology = "push" \/ j.step = 0
       THEN Costs(cost) /\ UNCHANGED <<rowVars, late>>
       ELSE \/ Costs(cost) /\ HandleReport(ReportOf(j)) /\ UNCHANGED late
            \/ Costs(cost + 1) /\ UNCHANGED <<rowVars, late>>
            \/ /\ Costs(cost + 1) /\ late = {} /\ late' = {ReportOf(j)}
               /\ UNCHANGED rowVars \/ HandleReport(ReportOf(j))

\* A delayed report, or the retry of one that was handled, arrives.
ReportArrives ==
    /\ \E r \in late : late' = late \ {r} /\ HandleReport(r)
    /\ UNCHANGED <<topology, plan, boxVars, driveVars, fetch, ended, histVars,
                   mishaps>>

-----------------------------------------------------------------------------
(***************************************************************************)
(* The agent.                                                              *)
(***************************************************************************)

agentFrame == <<topology, plan, box, planFile, driveVars, fetch>>

\* Processes pgrep finds, and units systemd counts as active.
Running == agent.pc \in {"starting", "stamping", "looking", "executing", "failing"}
UnitActive == Running \/ agent.pc = "waiting"

\* A process, or none, that has read nothing yet.
AgentAt(pc) == [pc |-> pc, run |-> None, at |-> 1, lost |-> {}]

\* The process exits: systemd restarts a unit that failed, within its limit;
\* a unit that succeeded is collected, and cloud-init starts nothing twice.
Exits(failed) ==
    /\ agent' = IF failed /\ unit > 0 THEN AgentAt("waiting") ELSE AgentAt("off")
    /\ unit' = IF failed THEN unit ELSE 0

\* main, up to init_state: the plan is there and readable, jq can be had, and
\* the run id is read off the plan once.
AgentStarts ==
    /\ agent.pc = "starting"
    /\ \/ /\ planFile \notin {None, Torn}
          /\ agent' = [agent EXCEPT !.pc = "stamping", !.run = planFile]
          /\ UNCHANGED <<unit, mishaps>>
       \/ planFile \in {None, Torn} /\ Exits(TRUE) /\ UNCHANGED mishaps
       \/ GoesWrong /\ Exits(TRUE)
    /\ UNCHANGED <<agentFrame, ended, histVars, rowVars, authorized, journal, late>>

\* What jq writes back: nothing, of a journal it was given nothing of.
Rewritten(j) == IF journal.status = "none" THEN NoJournal ELSE j

Fresh(run) == [NoJournal EXCEPT !.run = run, !.status = "running"]

\* init_state: the journal takes the run's id and keeps what the steps came to.
Stamp(run) == [journal EXCEPT !.run = run, !.status = "running"]

\* It reads plan.json three times, and core may be rewriting it: no server id is
\* another server's journal, and of no steps there is no journal at all.
Stamped(lost) ==
    LET run == IF "runId" \in lost THEN None ELSE agent.run
    IN IF "steps" \in lost THEN NoJournal
       ELSE IF "serverId" \in lost THEN Fresh(run) ELSE Stamp(run)

AgentStamps ==
    /\ agent.pc = "stamping"
    /\ \E lost \in SUBSET {"serverId", "runId", "steps"} :
          /\ planFile # Torn => lost = {}
          /\ Flush(Stamped(lost), 0)
    /\ agent' = AgentAt("looking")
    /\ UNCHANGED <<agentFrame, ended, histVars, authorized, unit>>

\* Mutant: a step left running by a kill is taken for done as well.
ToDoSkippingRunning == {i \in agent.at..N : journal.steps[i] = "pending"}

\* Only `done` is skipped on resume.
ToDo == {i \in agent.at..N : journal.steps[i] # "done"}

\* set_step; a step whose name could not be read is nobody's.
WithStep(i, state, lost) ==
    Rewritten(IF "id" \in lost THEN [journal EXCEPT !.step = 0]
              ELSE [journal EXCEPT !.step = i, !.steps[i] = state])

PlanStatus(status) == Rewritten([journal EXCEPT !.status = status])

\* run_plan takes up the next step, if there is one.
AgentTakesStep ==
    /\ agent.pc = "looking" /\ planFile # Torn
    /\ \E i \in ToDo :
        /\ \A k \in ToDo : i <= k
        /\ Flush(WithStep(i, "running", {}), 0)
        /\ agent' = [agent EXCEPT !.pc = "executing", !.at = i]
    /\ UNCHANGED <<agentFrame, ended, histVars, authorized, unit>>

\* What run_plan reads of a step, in this order, each on its own; what core's
\* rewriting of plan.json can make a step lose is a stretch of it.
Fields == <<"id", "runAs", "run", "check", "optional", "timeoutSeconds">>
FieldNames == {Fields[k] : k \in DOMAIN Fields}
Stretches == {{Fields[k] : k \in first..last} : first, last \in DOMAIN Fields} \ {{}}

\* A live agent reads its next step out of plan.json while core is rewriting it,
\* and jq prints nothing for what is lost.  Without its id a step is not known to
\* be done.
AgentMisreadsStep ==
    /\ agent.pc = "looking" /\ planFile = Torn
    /\ \E i \in agent.at..N, lost \in Stretches :
        /\ \A k \in agent.at..(i - 1) : k \notin ToDo
        /\ i \in ToDo \/ "id" \in lost
        /\ Flush(WithStep(i, "running", lost), 1)
        /\ agent' = [agent EXCEPT !.pc = "executing", !.at = i, !.lost = lost]
    /\ UNCHANGED <<agentFrame, ended, histVars, authorized, unit>>

\* The plan's length is read before its steps; no number is no steps.
LengthIsLost == agent.at = 1 /\ planFile = Torn

AgentCompletesPlan ==
    /\ agent.pc = "looking" /\ (ToDo = {} \/ LengthIsLost)
    /\ Flush(PlanStatus("done"), 0)
    /\ Exits(FALSE)
    /\ ended' = (drive.pc # "off")
    /\ misread' = (misread \/ ToDo # {})
    /\ UNCHANGED <<agentFrame, authorized, installed>>

\* sudo finds no user of no name, and timeout no number.
CanRun == {"runAs", "timeoutSeconds"} \cap agent.lost = {}

Proceeds == agent' = [agent EXCEPT !.pc = "looking", !.at = @ + 1, !.lost = {}]

\* The last step of a plan for a supplied key takes core's own key off the box;
\* no script takes nothing off.
Revoked == authorized /\ ~("run" \notin agent.lost /\ plan[agent.at].retires)

\* run_step and its retries succeeded.  `bash -c ''` succeeds too, and nothing is
\* verified by a check that was lost.
StepSucceeds ==
    /\ agent.pc = "executing" /\ CanRun
    /\ IF {"run", "check"} \cap agent.lost = {}
       THEN /\ authorized' = Revoked
            /\ installed' = installed \union {agent.at}
            /\ UNCHANGED misread
       ELSE misread' = TRUE /\ authorized' \in {authorized, Revoked} /\ UNCHANGED installed
    /\ Flush(WithStep(agent.at, "done", agent.lost), 0)
    /\ Proceeds
    /\ UNCHANGED <<agentFrame, ended, unit>>

\* Mutant: no step's failure stops the plan.
StopsPlanNever(i) == FALSE

\* Only what reads `optional: true` is.
StopsPlan(i) == ~plan[i].optional \/ "optional" \in agent.lost

\* An optional step is left behind, a required one ends the plan.
LeavesStep == IF StopsPlan(agent.at) THEN agent' = AgentAt("failing") ELSE Proceeds

\* It failed, or its check did.
StepFails ==
    /\ agent.pc = "executing" /\ CanRun
    /\ authorized' \in {authorized, Revoked}
    /\ Flush(WithStep(agent.at, "failed", agent.lost), 1)
    /\ LeavesStep
    /\ UNCHANGED <<agentFrame, ended, histVars, unit>>

StepCannotRun ==
    /\ agent.pc = "executing" /\ ~CanRun
    /\ Flush(WithStep(agent.at, "failed", agent.lost), 0)
    /\ LeavesStep
    /\ UNCHANGED <<agentFrame, ended, histVars, authorized, unit>>

\* mark_failed, and exit.
AgentMarksFailed ==
    /\ agent.pc = "failing"
    /\ Flush(PlanStatus("failed"), 0)
    /\ Exits(TRUE)
    /\ ended' = (drive.pc # "off")
    /\ UNCHANGED <<agentFrame, histVars, authorized>>

-----------------------------------------------------------------------------
(***************************************************************************)
(* The box under it.                                                       *)
(***************************************************************************)

\* What a kill leaves of the key while the step that removes it runs.
KilledKey ==
    authorized' \in
        IF agent.pc = "executing" /\ plan[agent.at].retires THEN {authorized, FALSE}
                                                            ELSE {authorized}

\* RestartSec has passed.
SystemdRestarts ==
    /\ agent.pc = "waiting"
    /\ agent' = AgentAt("starting")
    /\ unit' = unit - 1
    /\ UNCHANGED <<agentFrame, ended, histVars, rowVars, authorized, journal, late, mishaps>>

\* The agent is killed, or the box reboots: a transient unit does not survive
\* that, and cloud-init ran once.
AgentIsKilled ==
    /\ Running /\ GoesWrong
    /\ KilledKey
    /\ Exits(TRUE)
    /\ UNCHANGED <<topology, plan, rowVars, box, planFile, journal, driveVars,
                   netVars, ended, histVars>>

BoxReboots ==
    /\ box = "up" /\ GoesWrong
    /\ KilledKey
    /\ box' = "booting"
    /\ agent' = AgentAt("off") /\ unit' = 0
    /\ UNCHANGED <<topology, plan, rowVars, planFile, journal, driveVars,
                   netVars, ended, histVars>>

\* cloud-init is done; in callback mode its last act is the stub.
BoxBoots ==
    /\ box = "booting"
    /\ box' = "up"
    /\ agent' = IF agent.pc = "unborn" THEN [agent EXCEPT !.pc = "fetching"] ELSE agent
    /\ UNCHANGED <<topology, plan, rowVars, authorized, planFile, journal, unit,
                   driveVars, netVars, ended, histVars, mishaps>>

-----------------------------------------------------------------------------
(***************************************************************************)
(* Callback mode: the stub asks for the plan until it has one, or an answer *)
(* that is final.                                                          *)
(***************************************************************************)

fetchFrame == <<topology, plan, row, retired, box, authorized, journal, unit,
                driveVars, late, ended, histVars, mishaps>>

\* Mutant: strict single use, as the token's comment explains it must not be.
SingleUse == ~token.retired /\ ~token.expired /\ token.uses = 0

\* Mutant: the lifetime is all that is looked at.
AnyNumber == ~token.retired /\ ~token.expired

\* consumePlanToken: within its lifetime and its budget of uses.
TokenIsGood == ~token.retired /\ ~token.expired /\ token.uses < Budget

Spend == token' = [token EXCEPT !.uses = @ + 1]

\* curl tries again after silence or a 5xx, and gives up in the end.
TryAgain(lost) ==
    /\ fetch' = [tries |-> fetch.tries + 1, lost |-> fetch.lost + lost]
    /\ agent' = [agent EXCEPT !.pc = IF fetch.tries + 1 = FetchTries THEN "stuck" ELSE @]
    /\ UNCHANGED planFile

\* GET /internal/servers/:id/plan: the request is lost, or refused for good, or
\* the token is spent and the plan parsed and sent, to arrive or not.
FetchIsLost ==
    /\ agent.pc = "fetching"
    /\ TryAgain(0) /\ UNCHANGED token
    /\ UNCHANGED fetchFrame

FetchIsRefused ==
    /\ agent.pc = "fetching" /\ ~TokenIsGood
    /\ agent' = [agent EXCEPT !.pc = "refused"]
    /\ UNCHANGED <<fetchFrame, token, planFile, fetch>>

PlanIsSent ==
    /\ agent.pc = "fetching" /\ TokenIsGood
    /\ Spend
    /\ \/ TryAgain(1)
       \/ /\ Parses
          /\ planFile' = SnapshotRun
          /\ agent' = AgentAt("starting")
          /\ fetch' = [tries |-> 0, lost |-> 0]
    /\ UNCHANGED fetchFrame

\* PLAN_TOKEN_TTL_MS has passed, while somebody may still want the token.
TokenExpires ==
    /\ agent.pc \in {"unborn", "fetching"} /\ ~token.expired
    /\ token' = [token EXCEPT !.expired = TRUE]
    /\ UNCHANGED <<topology, plan, row, retired, boxVars, driveVars, netVars, ended,
                   histVars, mishaps>>

-----------------------------------------------------------------------------
(***************************************************************************)
(* Push mode: the supervisor.                                              *)
(***************************************************************************)

driveFrame == <<topology, plan, token, box, authorized, journal, late, fetch, histVars>>

Off == [pc |-> "off", run |-> None, alive |-> FALSE, strikes |-> 0]
At(pc) == [drive EXCEPT !.pc = pc]
Follow == [At("polling") EXCEPT !.alive = FALSE]

\* Mutant: a drive that failed is always tried again.
RetryForever ==
    /\ attempts' = (attempts + 1) % MaxAttempts
    /\ UNCHANGED settled

\* An attempt is counted, and the last one settles the server as failed.
CountAttempt ==
    IF attempts + 1 >= MaxAttempts THEN attempts' = 0 /\ settled' = "gone"
                                   ELSE attempts' = attempts + 1 /\ UNCHANGED settled

DriveFails == drive' = Off /\ CountAttempt

\* A fatal error settles it at once.
DriveIsFatal == drive' = Off /\ attempts' = 0 /\ settled' = "fatal"

\* The provision ticker polls: an outcome is collected and acted on, otherwise
\* a drive starts unless one is active.  A plan that does not parse fails every
\* drive before it connects; a server without its key can never be driven.
SupervisorPolls ==
    /\ topology = "push" /\ row.status = "provisioning"
    /\ \/ /\ settled # "none"
          /\ settled' = "none"
          /\ row' = TryStatus(row, "failed")
          /\ UNCHANGED <<drive, attempts>>
       \/ /\ settled = "none" /\ drive.pc = "off"
          /\ IF retired THEN DriveIsFatal
             ELSE IF ~Parses THEN DriveFails
             ELSE drive' = At("connecting") /\ UNCHANGED <<attempts, settled>>
          /\ UNCHANGED row
    /\ UNCHANGED <<driveFrame, retired, planFile, agent, unit, ended, mishaps>>

\* waitForSsh: core's key opens the door of a box that is up, sooner or later;
\* five minutes without that are an attempt, a wrong host key is the end.
DriveConnects ==
    /\ drive.pc = "connecting"
    /\ \/ /\ box = "up" /\ authorized
          /\ drive' = At("looking")
          /\ UNCHANGED <<attempts, settled, mishaps>>
       \/ /\ box = "gone" \/ (box = "up" /\ ~authorized)
          /\ DriveFails
          /\ UNCHANGED mishaps
       \/ GoesWrong /\ DriveFails
       \/ GoesWrong /\ box = "up" /\ DriveIsFatal
    /\ UNCHANGED <<driveFrame, row, retired, planFile, agent, unit, ended>>

\* The connection goes, with the box or on its own.
DriveIsCutOff ==
    /\ drive.pc \in {"looking", "probing", "writing", "written", "launching", "polling"}
    /\ IF box = "up" THEN GoesWrong ELSE UNCHANGED mishaps
    /\ DriveFails
    /\ UNCHANGED <<driveFrame, row, retired, planFile, agent, unit, ended>>

\* The journal as the drive finds it: the run that might be adopted.
DriveLooks ==
    /\ drive.pc = "looking" /\ box = "up"
    /\ drive' = [At("probing") EXCEPT
                    !.run = IF journal.status = "running" THEN journal.run ELSE None]
    /\ ended' = FALSE
    /\ UNCHANGED <<driveFrame, row, retired, planFile, agent, unit, attempts,
                   settled, mishaps>>

\* adoptableRunId: a live agent's run is joined, otherwise a new id is minted.
Adopts(alive) == alive /\ drive.run # None

DriveProbes ==
    /\ drive.pc = "probing" /\ box = "up"
    /\ drive' = [At("writing") EXCEPT
                    !.alive = Running, !.run = IF Adopts(Running) THEN @ ELSE FreshRun]
    /\ UNCHANGED <<driveFrame, row, retired, planFile, agent, unit, attempts,
                   settled, ended, mishaps>>

\* writeRemote opens plan.json for writing, which empties it, then fills it.
DriveOpensPlan ==
    /\ drive.pc = "writing" /\ box = "up"
    /\ planFile' = Torn
    /\ drive' = At("written")
    /\ UNCHANGED <<driveFrame, row, retired, agent, unit, attempts, settled,
                   ended, mishaps>>

DriveWritesPlan ==
    /\ drive.pc = "written" /\ box = "up"
    /\ planFile' = drive.run
    /\ drive' = At("launching")
    /\ UNCHANGED <<driveFrame, row, retired, agent, unit, attempts, settled,
                   ended, mishaps>>

\* launchAgent: nothing for an agent that was alive; systemd refuses a unit of
\* the same name that is active or waiting to restart.
DriveLaunches ==
    /\ drive.pc = "launching" /\ box = "up"
    /\ \/ /\ drive.alive
          /\ drive' = Follow
          /\ UNCHANGED <<agent, unit, attempts, settled>>
       \/ /\ ~drive.alive /\ UnitActive
          /\ DriveFails
          /\ UNCHANGED <<agent, unit>>
       \/ /\ ~drive.alive /\ ~UnitActive
          /\ agent' = AgentAt("starting")
          /\ unit' = Restarts
          /\ drive' = Follow
          /\ UNCHANGED <<attempts, settled>>
    /\ UNCHANGED <<driveFrame, row, retired, planFile, ended, mishaps>>

\* Mutant: the label is shown whatever it is.
ShownAlways(j) == IF j.step = 0 THEN row ELSE RecordProgress(row, plan[j.step].reports)

\* applyAgentState: the label of the current step is shown, unless it promotes.
Shown(j) ==
    IF j.step = 0 \/ plan[j.step].reports = "ready" THEN row
    ELSE RecordProgress(row, plan[j.step].reports)

\* The drive reads the journal.  What another run wrote is not looked at; the
\* end of this run ends the drive: done promotes the row and retires core's
\* key, failed settles the server with a step to blame.
DrivePolls ==
    /\ drive.pc = "polling" /\ box = "up"
    /\ \/ /\ isCurrentRun(journal, drive.run) /\ journal.status = "done"
          /\ row' = RecordProgress(Shown(journal), "ready")
          /\ retired' = (retired \/ Supplied)
          /\ drive' = Off /\ attempts' = 0
          /\ UNCHANGED settled
       \/ /\ isCurrentRun(journal, drive.run) /\ journal.status = "failed"
          /\ row' = Shown(journal)
          /\ drive' = Off /\ settled' = "step"
          /\ UNCHANGED <<retired, attempts>>
       \/ /\ ~(isCurrentRun(journal, drive.run) /\ Ended(journal))
          /\ row' = IF isCurrentRun(journal, drive.run) THEN Shown(journal) ELSE row
          /\ drive' = At("checking")
          /\ UNCHANGED <<retired, attempts, settled>>
    /\ UNCHANGED <<driveFrame, planFile, agent, unit, ended, mishaps>>

\* Mutant: one look at a dead agent is enough.
OneStrike == 1

\* Looks at a dead agent it takes to give up on it.
DeadStrikes == 2

\* isAgentAlive, after the journal: an agent that is gone twice over has left
\* its plan unfinished.
DriveChecks ==
    /\ drive.pc = "checking"
    /\ \/ /\ UnitActive
          /\ drive' = [At("polling") EXCEPT !.strikes = 0]
          /\ UNCHANGED <<attempts, settled>>
       \/ /\ ~UnitActive /\ drive.strikes + 1 < DeadStrikes
          /\ drive' = [At("polling") EXCEPT !.strikes = @ + 1]
          /\ UNCHANGED <<attempts, settled>>
       \/ /\ ~UnitActive /\ drive.strikes + 1 >= DeadStrikes
          /\ DriveFails
    /\ UNCHANGED <<driveFrame, row, retired, planFile, agent, unit, ended, mishaps>>

\* No journal progress for the stall timeout: the agent is busy with a run this
\* drive cannot see, or with a step that takes longer than it.
DriveStalls ==
    /\ drive.pc = "polling" /\ box = "up"
    /\ agent.pc \in {"looking", "executing", "failing"}
    /\ IF isCurrentRun(journal, drive.run) THEN GoesWrong ELSE UNCHANGED mishaps
    /\ DriveFails
    /\ UNCHANGED <<driveFrame, row, retired, planFile, agent, unit, ended>>

-----------------------------------------------------------------------------
(***************************************************************************)
(* What else happens to the server.                                        *)
(***************************************************************************)

\* Core is killed and starts again: the supervisor forgets everything.
CoreRestarts ==
    /\ GoesWrong
    /\ drive' = Off /\ attempts' = 0 /\ settled' = "none"
    /\ UNCHANGED <<topology, plan, rowVars, boxVars, netVars, ended, histVars>>

\* The provisioning timeout or a user ends the row, and with it the box.
RowEnds ==
    /\ row.status = "provisioning"
    /\ \E to \in {"failed", "terminated"} : row' = TryStatus(row, to)
    /\ box' = "gone" /\ agent' = AgentAt("off") /\ unit' = 0
    /\ UNCHANGED <<topology, plan, retired, token, authorized, planFile, journal,
                   driveVars, netVars, ended, histVars, mishaps>>

\* A failed server's machine is released, by policy or by its user.
BoxIsReleased ==
    /\ row.status = "failed" /\ box # "gone"
    /\ box' = "gone" /\ agent' = AgentAt("off") /\ unit' = 0
    /\ UNCHANGED <<topology, plan, rowVars, authorized, planFile, journal,
                   driveVars, netVars, ended, histVars, mishaps>>

-----------------------------------------------------------------------------
AgentStep ==
    \/ AgentStarts \/ AgentStamps \/ AgentTakesStep \/ AgentCompletesPlan
    \/ AgentMisreadsStep \/ StepSucceeds \/ StepCannotRun \/ AgentMarksFailed
    \/ SystemdRestarts
    \/ BoxBoots

DriveStep ==
    \/ SupervisorPolls \/ DriveConnects \/ DriveLooks \/ DriveProbes
    \/ DriveOpensPlan \/ DriveWritesPlan \/ DriveLaunches \/ DrivePolls \/ DriveChecks

Fetching == FetchIsLost \/ FetchIsRefused \/ PlanIsSent \/ TokenExpires

Mishap ==
    \/ StepFails \/ AgentIsKilled \/ BoxReboots \/ ReportArrives
    \/ DriveIsCutOff \/ DriveStalls \/ CoreRestarts \/ RowEnds \/ BoxIsReleased

Next == AgentStep \/ DriveStep \/ Fetching \/ Mishap

\* The agent and systemd run, every step has a timeout, and the supervisor is
\* polled and its remote commands return: nothing is assumed of the network or
\* of the user.
Fairness ==
    /\ WF_vars(AgentStep)
    /\ WF_vars(SupervisorPolls)
    /\ WF_vars(DriveStep \/ (box # "up" /\ DriveIsCutOff))

Spec == Init /\ [][Next]_vars /\ Fairness

-----------------------------------------------------------------------------
(***************************************************************************)
(* Properties.                                                             *)
(***************************************************************************)

JournalType ==
    [run : RunIds \union {None}, status : {"none", "running", "done", "failed"},
     step : 0..N, steps : [DOMAIN plan -> StepStates]]
AgentPlaces == {"unborn", "fetching", "refused", "stuck", "off", "starting",
                "stamping", "looking", "executing", "failing", "waiting"}
DrivePlaces == {"off", "connecting", "looking", "probing", "writing", "written",
                "launching", "polling", "checking"}

\* Every variable holds what its declaration says; a row in this module is one
\* whose machine has been created, and an executing agent is at a step.
TypeOK ==
    /\ topology \in Topologies /\ plan \in Plans
    /\ row \in Row /\ row.status \in {"provisioning", "running", "failed", "terminated"}
    /\ retired \in BOOLEAN
    /\ token \in [uses : 0..Budget, expired : BOOLEAN, retired : BOOLEAN]
    /\ box \in {"booting", "up", "gone"} /\ authorized \in BOOLEAN
    /\ planFile \in RunIds \union {None, Torn} /\ journal \in JournalType
    /\ agent \in [pc : AgentPlaces, run : RunIds \union {None}, at : 1..(N + 1),
                 lost : SUBSET FieldNames]
    /\ agent.pc = "executing" => agent.at \in DOMAIN plan
    /\ unit \in 0..Restarts
    /\ drive \in [pc : DrivePlaces, run : RunIds \union {None}, alive : BOOLEAN, strikes : 0..1]
    /\ attempts \in 0..(MaxAttempts - 1)
    /\ settled \in {"none", "step", "gone", "fatal"}
    /\ ended \in BOOLEAN /\ installed \subseteq DOMAIN plan /\ misread \in BOOLEAN
    /\ late \subseteq [run : RunIds \union {None}, step : Steps, status : {"running", "done", "failed"}]
    /\ fetch \in [tries : 0..FetchTries, lost : 0..FetchTries]
    /\ mishaps \in 0..MaxMishaps

\* The steps a server that is shown running has behind it: in push mode all the
\* required ones, in callback mode, where the first report of `ready` comes as
\* the closing phases start, the required ones before them.
Promised ==
    IF topology = "push" THEN Required
    ELSE {i \in Required : plan[i].reports # "ready"}

\* A row is shown running only when what that stands for has run on the box and
\* succeeded: no kill, resume, lost report, adopted run, stale or lost journal
\* skips a step that was required.  Not so when a live agent read a plan.json that
\* an adopting drive was rewriting: an agent that finds no length or no script in
\* it is done without the step, and the drive promotes the row.
ReadyIsEarned == row.status = "running" /\ ~misread => Promised \subseteq installed

\* In push mode core destroys its private key only after the box has stopped
\* accepting it: a drive that ends in failure at any step leaves core the key a
\* human may need.  (In callback mode the key goes with the first report of
\* `ready`, before the step that takes it off the box; and in push mode a step
\* that was passed over for want of a whole plan.json took nothing off.)
KeyRetiredOnlyWhenRevoked == topology = "push" /\ retired /\ ~misread => ~authorized

\* A drive never takes an earlier attempt's end for its own: when it promotes
\* or fails the server, the plan has ended since the drive looked at the
\* journal, whatever was adopted, resumed or left on the disk.
NoOldVerdict ==
    [][ /\ topology = "push"
        /\ \/ row'.status = "running" /\ row.status # "running"
           \/ settled' = "step" /\ settled # "step"
        => ended ]_vars

\* A drive gives an agent up as gone only when the agent has left its plan
\* unfinished: the look at the journal and the look at the process race with
\* the agent's last write and exit, and with systemd's restarts.
GoneMeansUnfinished ==
    [][ drive.pc = "checking" /\ drive'.pc = "off" /\ mishaps' = mishaps
        => ~(isCurrentRun(journal, drive.run) /\ Ended(journal)) ]_vars

\* The box is refused its plan only when the token has expired or so many
\* answers were lost that its budget is gone: one lost answer never bricks it.
PlanIsNotWithheld ==
    agent.pc = "refused" => token.expired \/ fetch.lost >= Budget

\* Through reboots, kills, restarts of the unit, lost connections and crashes of
\* core, the install keeps its contract, until a step is passed over for want of a
\* whole plan.json.
Contract == INSTANCE InstallContract WITH
    promised <- Promised,
    complete <- installed,
    shown <- CASE row.status = "provisioning" -> "pending"
               [] row.status = "running" -> "ready"
               [] OTHER -> "over",
    spoiled <- misread

KeepsInstallContract == Contract!Spec

\* In push mode a server does not stay in provisioning: without the timeout's
\* help the drives end, well or badly, even when core has locked itself out.
DrivesEnd == topology = "push" ~> row.status # "provisioning"

=============================================================================
