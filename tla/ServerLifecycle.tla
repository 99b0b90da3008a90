--------------------------- MODULE ServerLifecycle ---------------------------
(***************************************************************************)
(* The core of Rocky Surf: server rows in one database, the cloud machines *)
(* they stand for, and everything in the core process that moves either.   *)
(*                                                                         *)
(* The process is single-threaded, so what runs between two awaits is one  *)
(* step.  Only an await that reaches outside (a provider call) lets others *)
(* in: each such call is made, lands at the provider, and is returned from *)
(* in three different steps.  An await that never leaves the microtask     *)
(* queue (broadcasting an event, the supervisor's poll) is not a step.     *)
(*                                                                         *)
(* Actors: the users' requests and the boxes' failure callbacks (Request), *)
(* the provision ticker, the reconciler, and the recovery pass that runs   *)
(* before the server listens.                                              *)
(*                                                                         *)
(* Translated from packages/core/src: servers/lifecycle.ts,                *)
(* jobs/provision-ticker.ts, jobs/reconciler.ts, jobs/recovery.ts,         *)
(* bootstrap/failure.ts, and the parts of bootstrap/supervisor.ts,         *)
(* bootstrap/internal-routes.ts and server.ts that move a row.  The        *)
(* machine is the contract of provider-sdk/src/provider.ts.                *)
(***************************************************************************)
EXTENDS ServerRow, FiniteSets

CONSTANTS
    Server,             \* ids of the servers this installation will have
    Request,            \* concurrent HTTP requests (a bound on concurrency)
    None,               \* no server
    Push,               \* servers bootstrapped over SSH; the others call back
    OnFailure,          \* bootstrap.onFailure: "terminate" or "keep"
    BillsWhileStopped,  \* capabilities.billsWhileStopped of the provider
    CanStop,            \* capabilities.stop of the provider
    UserOps,            \* the operations users ask for
    ActiveJobs,         \* the periodic jobs a run explores
    Mishaps,            \* what a machine may do that core did not ask for
    BoxSteps,           \* the provisioning steps boxes report
    MaxFaults,          \* bound on failing calls and preparations
    MaxCrashes          \* bound on crashes of core

ASSUME ServersAssumption == None \notin Server /\ Push \subseteq Server
ASSUME PolicyAssumption ==
    /\ OnFailure \in {"terminate", "keep"}
    /\ BillsWhileStopped \in BOOLEAN /\ CanStop \in BOOLEAN
ASSUME BoundsAssumption ==
    /\ UserOps \subseteq {"get", "start", "stop", "terminate"}
    /\ ActiveJobs \subseteq {"ticker", "reconciler"}
    /\ Mishaps \subseteq {"fail", "console-terminate", "console-stop"}
    /\ BoxSteps \subseteq Steps
    /\ MaxFaults \in Nat /\ MaxCrashes \in Nat
ASSUME RequestAssumption ==
    Request \intersect {"ticker", "reconciler", "recovery"} = {}

Jobs == {"ticker", "reconciler", "recovery"}
Actor == Request \union Jobs

VARIABLES
    row,       \* the servers table
    machine,   \* the machine of each server, as the cloud has it
    core,      \* "down", "recovering" or "serving"
    task,      \* what each actor is in the middle of
    tick,      \* the provision ticker's snapshot: rows left, stuck, with handle
    sweep,     \* the reconciler's snapshot: its phase, live rows, rows left
    recovering, \* the rows the recovery pass has left to look at
    drive,     \* the supervisor's memory: the push of each server
    expired,   \* rows older than PROVISIONING_TIMEOUT_MS
    flagged,   \* servers a reconciler.orphan_detected event names
    wire,      \* provider calls a crashed core left on their way
    faults, crashes   \* how much of each bound is used

vars == <<row, machine, core, task, tick, sweep, recovering, drive, expired,
          flagged, wire, faults, crashes>>

-----------------------------------------------------------------------------
(***************************************************************************)
(* The cloud.                                                              *)
(***************************************************************************)

Machines == {"none", "pending", "running", "stopping", "stopped",
             "terminating", "gone", "failed"}

\* A machine core must not lose sight of: it exists and nobody has asked for
\* its end.
Alive(m) == m \in {"pending", "running", "stopping", "stopped", "failed"}

\* describe(): absence is `terminated`, and for a while after an accepted
\* terminate a provider may still report the machine as running.
Views(m) ==
    CASE m = "terminating" -> {"terminating", "running"}
      [] m = "gone"        -> {"terminated"}
      [] m = "none"        -> {}
      [] OTHER             -> {m}

\* terminate() is idempotent: not-found is success.
Released(m) == IF m \in {"none", "gone"} THEN m ELSE "terminating"

-----------------------------------------------------------------------------
(***************************************************************************)
(* The tasks.  A task names its operation, its server, where it waits, the *)
(* provider's answer once it has come and, where core goes on using it, the *)
(* status of the row object the task has in hand.                          *)
(***************************************************************************)

Ops == {"none", "create", "get", "start", "stop", "terminate", "tick",
        "stuck", "fail", "sweep", "recover"}
Waits == {"idle", "validate", "provision", "provisioned", "describe", "fold",
          "power", "release", "released"}
Calls == {"create", "start", "stop", "terminate"}
Answers == InstanceStates \union {"none", "error", "notfound", "ok", "refused"}

Idle == [op |-> "none", srv |-> None, pc |-> "idle", view |-> "none",
         snap |-> "absent"]

Holding(op, s, pc, snap) ==
    [op |-> op, srv |-> s, pc |-> pc, view |-> "none", snap |-> snap]

Doing(op, s, pc) == Holding(op, s, pc, "absent")

Free(t) == task[t].pc = "idle"

NoTick == [todo |-> {}, stuck |-> {}, known |-> {}]
NoSweep == [phase |-> "idle", live |-> {}, todo |-> {}]

Tasks == [op : Ops, srv : Server \union {None}, pc : Waits, view : Answers,
          snap : Statuses \union {"absent"}]

\* Rows have the columns of a row, and every task waits where its operation can.
TypeOK ==
    /\ row \in [Server -> Row \union {NoRow}]
    /\ machine \in [Server -> Machines]
    /\ core \in {"down", "recovering", "serving"}
    /\ task \in [Actor -> Tasks]
    /\ tick \in [todo : SUBSET Server, stuck : SUBSET Server,
                 known : SUBSET Server]
    /\ sweep \in [phase : {"idle", "list", "walk"}, live : SUBSET Server,
                  todo : SUBSET Server]
    /\ recovering \in SUBSET Server
    /\ drive \in [Server -> {"idle", "active", "tool", "other", "below"}]
    /\ expired \in SUBSET Server
    /\ flagged \in SUBSET Server
    /\ wire \in SUBSET (Calls \X Server)
    /\ faults \in 0..MaxFaults
    /\ crashes \in 0..MaxCrashes

Init ==
    /\ row = [s \in Server |-> NoRow]
    /\ machine = [s \in Server |-> "none"]
    /\ core = "serving"
    /\ task = [t \in Actor |-> Idle]
    /\ tick = NoTick
    /\ sweep = NoSweep
    /\ recovering = {}
    /\ drive = [s \in Server |-> "idle"]
    /\ expired = {}
    /\ flagged = {}
    /\ wire = {}
    /\ faults = 0
    /\ crashes = 0

\* A provider call fails, or core's own preparation of one, within the bound.
Fault == faults < MaxFaults /\ faults' = faults + 1

Exists(s) == row[s].status # "absent"
WriteRow(s, r) == row' = [row EXCEPT ![s] = r]
Finish(t) == task' = [task EXCEPT ![t] = Idle]
Go(t, doing) == task' = [task EXCEPT ![t] = doing]
Answer(t, pc, view) ==
    task' = [task EXCEPT ![t] = [@ EXCEPT !.pc = pc, !.view = view]]

\* A job that has rows left and waits for nothing is in the middle of a turn
\* of the event loop: it goes on to its next row before any other code runs.
MidTurn ==
    \/ tick.todo # {} /\ Free("ticker")
    \/ sweep.phase = "walk" /\ Free("reconciler")

NewTurn == core = "serving" /\ ~MidTurn

jobVars == <<tick, sweep, recovering>>
boundVars == <<faults, crashes>>

-----------------------------------------------------------------------------
(***************************************************************************)
(* syncObserved: ask the provider, fold its answer into the row.           *)
(***************************************************************************)

\* Mutant: a failed row is history, whatever its machine does.
ReadsUnlessOver(r) == r.status \in {"provisioning", "running", "stopped"} /\ r.handle

\* The rows syncObserved asks about: with a handle, not over, and not a failed
\* row whose release core has already recorded.
ReadsProvider(r) ==
    /\ r.status \in {"provisioning", "running", "stopped", "failed"}
    /\ r.handle
    /\ ~(r.status = "failed" /\ r.state = "terminated")

\* Mutant: a booted VM is a usable box (the bug of rockysurf-55fx.13).
SuppressesNothing(r, next) == FALSE

\* A booted VM is not a usable box: only its own bootstrap promotes a row.
SuppressesPromotionToRunning(r, next) ==
    next = "running" /\ r.status = "provisioning" /\ r.step # "ready"

\* reportInstanceMilestone: forward only, and only while provisioning.
ReportInstanceMilestone(r, view) ==
    IF HasMilestone(view) /\ AdvancesProvisioning(r.step, StateToMilestone[view])
    THEN RecordProgress(r, StateToMilestone[view])
    ELSE r

\* Mutant: a failed row turns terminated with its machine, and is hidden.
FoldsEveryStatus(r, view) ==
    /\ HasStatus(view)
    /\ CanTransition(r.status, StateToStatus[view])
    /\ ~SuppressesPromotionToRunning(r, StateToStatus[view])

\* The status a view moves the row to, if any.  A failed row stays failed when
\* its machine goes away (ADR-0010).
FoldsStatus(r, view) ==
    /\ HasStatus(view)
    /\ LET next == StateToStatus[view] IN
        /\ CanTransition(r.status, next)
        /\ ~SuppressesPromotionToRunning(r, next)
        /\ ~(r.status = "failed" /\ next = "terminated")

FoldView(r, view) ==
    LET seen  == RecordProviderState(r, view, BillsWhileStopped)
        moved == IF FoldsStatus(seen, view)
                 THEN WithStatus(seen, StateToStatus[view]) ELSE seen
    IN  ReportInstanceMilestone(moved, view)

\* The row a task's sync leaves in the table: a failed read leaves it alone.
SyncedRow(t) ==
    LET r == row[task[t].srv] IN
    IF task[t].view \in InstanceStates THEN FoldView(r, task[t].view) ELSE r

\* The status of the row object sync hands back: on not_found it is the object
\* the caller passed in, however old.
SyncedStatus(t) ==
    IF task[t].view = "notfound" THEN task[t].snap ELSE SyncedRow(t).status

\* The describe call reaches the provider and is answered, or fails.
DescribeLands(t) ==
    /\ task[t].pc = "describe"
    /\ \/ /\ \E v \in Views(machine[task[t].srv]) : Answer(t, "fold", v)
          /\ UNCHANGED faults
       \/ /\ Fault
          /\ \E v \in {"error", "notfound", "unknown"} : Answer(t, "fold", v)
    /\ UNCHANGED <<row, machine, core, jobVars, drive, expired, flagged, wire, crashes>>

-----------------------------------------------------------------------------
(***************************************************************************)
(* create: the row, then the provider, then the row again.                 *)
(***************************************************************************)

CreateBegin(t, s) ==
    /\ NewTurn /\ Free(t) /\ ~Exists(s)
    /\ WriteRow(s, InsertedRow)
    /\ Go(t, Doing("create", s, "validate"))
    /\ UNCHANGED <<machine, core, jobVars, drive, expired, flagged, wire, boundVars>>

\* Between the insert and the try block that covers the provider nothing is
\* caught: a token, a key, the plan, a secret or the rendered user data that
\* throws there leaves the row `requested`, and no create at work on it.
CreateBreaks(t, s) ==
    /\ NewTurn /\ Free(t) /\ ~Exists(s)
    /\ Fault
    /\ WriteRow(s, InsertedRow)
    /\ UNCHANGED <<machine, core, task, jobVars, drive, expired, flagged, wire, crashes>>

\* validateSpec returned: the provision call goes out, whatever has become of
\* the row meanwhile.
ValidateReturns(t) ==
    /\ NewTurn /\ task[t].pc = "validate"
    /\ Answer(t, "provision", "none")
    /\ UNCHANGED <<row, machine, core, jobVars, drive, expired, flagged, wire, boundVars>>

\* The provider makes the machine and answers with its state.
ProvisionLands(t) ==
    /\ task[t].pc = "provision"
    /\ \E m \in {"pending", "running"} :
        /\ machine' = [machine EXCEPT ![task[t].srv] = m]
        /\ Answer(t, "provisioned", m)
    /\ UNCHANGED <<row, core, jobVars, drive, expired, flagged, wire, boundVars>>

\* validateSpec or provision throws: the row survives, failed, if the table
\* still lets it.
CreateFails(t) ==
    /\ NewTurn /\ task[t].pc \in {"validate", "provision"}
    /\ Fault
    /\ WriteRow(task[t].srv, TryStatus(row[task[t].srv], "failed"))
    /\ Finish(t)
    /\ UNCHANGED <<machine, core, jobVars, drive, expired, flagged, wire, crashes>>

\* What create writes once provision() has returned.  The state and the handle
\* are written first; if the row can then go nowhere from where it is, the
\* transition throws, and the catch block tries to fail it.
CreatedRow(r, view) ==
    LET withData == SetProviderData(RecordProviderState(r, view, BillsWhileStopped))
        initial  == StateToStatus[view]
        to       == IF CanTransition(withData.status, initial)
                    THEN initial ELSE "provisioning"
    IN  IF CanTransition(withData.status, to)
        THEN ReportInstanceMilestone(WithStatus(withData, to), view)
        ELSE TryStatus(withData, "failed")

CreateReturns(t) ==
    /\ NewTurn /\ task[t].pc = "provisioned"
    /\ WriteRow(task[t].srv, CreatedRow(row[task[t].srv], task[t].view))
    /\ Finish(t)
    /\ UNCHANGED <<machine, core, jobVars, drive, expired, flagged, wire, boundVars>>

-----------------------------------------------------------------------------
(***************************************************************************)
(* get, list, start, stop, terminate.                                      *)
(***************************************************************************)

\* get and list sync the row; start and stop sync it before they act, and
\* both need a provider that can stop.
ReadBegin(t, op, s) ==
    /\ NewTurn /\ Free(t)
    /\ op \in UserOps \intersect {"get", "start", "stop"}
    /\ op = "get" \/ CanStop
    /\ Exists(s) /\ ReadsProvider(row[s])
    /\ Go(t, IF op = "get" THEN Doing(op, s, "describe")
                           ELSE Holding(op, s, "describe", row[s].status))
    /\ UNCHANGED <<row, machine, core, jobVars, drive, expired, flagged, wire, boundVars>>

\* start acts on a stopped row the provider is not already bringing up, stop
\* on a running one it is not already stopping.
MayAct(op, status, view) ==
    \/ op = "start" /\ status = "stopped" /\ view # "pending"
    \/ op = "stop"  /\ status = "running" /\ view # "stopping"

ReadReturns(t) ==
    /\ NewTurn /\ t \in Request /\ task[t].pc = "fold"
    /\ WriteRow(task[t].srv, SyncedRow(t))
    /\ IF task[t].view # "error" /\ MayAct(task[t].op, SyncedStatus(t), task[t].view)
       THEN Go(t, Doing(task[t].op, task[t].srv, "power"))
       ELSE Finish(t)
    /\ UNCHANGED <<machine, core, jobVars, drive, expired, flagged, wire, boundVars>>

PowerEffect(op, m) ==
    CASE op = "start" /\ m = "stopped" -> "pending"
      [] op = "stop"  /\ m = "running" -> "stopping"
      [] OTHER                         -> m

\* The provider does what it was asked, and core reads the machine once more;
\* or it refuses, because the machine is not in a state it can do it from.
PowerLands(t) ==
    /\ task[t].pc = "power"
    /\ LET s == task[t].srv
           m == PowerEffect(task[t].op, machine[s])
       IN  /\ machine' = [machine EXCEPT ![s] = m]
           /\ IF m # machine[s]
              THEN Go(t, Doing("get", s, "describe"))
              ELSE Finish(t)
    /\ UNCHANGED <<row, core, jobVars, drive, expired, flagged, wire, boundVars>>

\* Mutant: the row is terminated first, and the provider told afterwards.
TerminateRowFirst(t, s) ==
    /\ NewTurn /\ Free(t) /\ "terminate" \in UserOps
    /\ Exists(s) /\ row[s].status # "terminated"
    /\ WriteRow(s, WithStatus(row[s], "terminated"))
    /\ IF row[s].handle THEN Go(t, Doing("terminate", s, "release")) ELSE UNCHANGED task
    /\ UNCHANGED <<machine, core, jobVars, drive, expired, flagged, wire, boundVars>>

\* A row with no handle is terminated in one step; otherwise the provider is
\* called first.
TerminateBegin(t, s) ==
    /\ NewTurn /\ Free(t) /\ "terminate" \in UserOps
    /\ Exists(s) /\ row[s].status # "terminated"
    /\ IF row[s].handle
       THEN /\ Go(t, Doing("terminate", s, "release"))
            /\ UNCHANGED row
       ELSE /\ WriteRow(s, WithStatus(row[s], "terminated"))
            /\ UNCHANGED task
    /\ UNCHANGED <<machine, core, jobVars, drive, expired, flagged, wire, boundVars>>

\* The terminate call of any actor reaches the provider, or is refused.
ReleaseLands(t) ==
    /\ task[t].pc = "release"
    /\ \/ /\ machine' = [machine EXCEPT ![task[t].srv] = Released(@)]
          /\ Answer(t, "released", "ok")
          /\ UNCHANGED faults
       \/ /\ Fault
          /\ Answer(t, "released", "refused")
          /\ UNCHANGED machine
    /\ UNCHANGED <<row, core, jobVars, drive, expired, flagged, wire, crashes>>

\* Mutant: a refused terminate is swallowed.
TerminateReturnsAnyway(t) ==
    /\ NewTurn /\ task[t].op = "terminate" /\ task[t].pc = "released"
    /\ WriteRow(task[t].srv, TryStatus(row[task[t].srv], "terminated"))
    /\ Finish(t)
    /\ UNCHANGED <<machine, core, jobVars, drive, expired, flagged, wire, boundVars>>

\* A refused terminate throws.  An accepted one reads the row again, since the
\* call was long enough to lose a race with a retry of itself.
TerminateReturns(t) ==
    /\ NewTurn /\ task[t].op = "terminate" /\ task[t].pc = "released"
    /\ LET s == task[t].srv IN
        IF task[t].view = "ok" /\ row[s].status # "terminated"
        THEN WriteRow(s, WithStatus(row[s], "terminated"))
        ELSE UNCHANGED row
    /\ Finish(t)
    /\ UNCHANGED <<machine, core, jobVars, drive, expired, flagged, wire, boundVars>>

-----------------------------------------------------------------------------
(***************************************************************************)
(* Bootstrap, as far as it moves a row: a push drive or a box's callbacks  *)
(* report steps, and a failure is settled by failBootstrap.                *)
(***************************************************************************)

BoxAlive(s) == machine[s] \in {"running", "stopping"}

\* A step reported by a live box, over the callback route or through the
\* supervisor's drive, which ends when the step is `ready`.
BoxReports(s, step) ==
    /\ NewTurn /\ BoxAlive(s)
    /\ s \in Push => drive[s] = "active"
    /\ Exists(s) /\ AcceptsProgressReports(row[s].status)
    /\ WriteRow(s, RecordProgress(row[s], step))
    /\ drive' = [drive EXCEPT ![s] = IF step = "ready" THEN "idle" ELSE @]
    /\ UNCHANGED <<machine, core, task, jobVars, expired, flagged, wire, boundVars>>

\* A drive ends without `ready`.  A failed plan step, or a failure below the
\* plan that a retry cannot cure, waits in memory for the ticker's next poll;
\* after any other failure ("idle") the next poll simply drives again.
DriveEnds(s, outcome) ==
    /\ NewTurn /\ drive[s] = "active"
    /\ outcome \in {"tool", "other"} => BoxAlive(s)
    /\ drive' = [drive EXCEPT ![s] = outcome]
    /\ UNCHANGED <<row, machine, core, task, jobVars, expired, flagged, wire, boundVars>>

\* Only a failed tool install releases the machine, and only by default.
TerminatesInstance(phase) == phase = "tool" /\ OnFailure = "terminate"

\* failBootstrap after the machine's fate is known: state, report, status.
FailedRow(r, outcome) ==
    LET known == IF outcome = "terminated"
                 THEN RecordProviderState(r, "terminated", FALSE) ELSE r
    IN  TryStatus(SetBootstrapReport(known, outcome), "failed")

\* Mutant: the release is reported before the provider has been asked.
FailBootstrapAtOnce(t, s, r, phase) ==
    /\ WriteRow(s, FailedRow(r, IF TerminatesInstance(phase) THEN "terminated" ELSE "kept"))
    /\ Finish(t)

\* failBootstrap as actor t begins it for the row r: the machine goes first,
\* then the row.
FailBootstrap(t, s, r, phase) ==
    IF TerminatesInstance(phase) /\ r.handle
    THEN WriteRow(s, r) /\ Go(t, Doing("fail", s, "release"))
    ELSE WriteRow(s, FailedRow(r, "kept")) /\ Finish(t)

\* Mutant: the refusal of the release is not told from its success.
FailReturnsReleased(t) ==
    /\ NewTurn /\ task[t].op = "fail" /\ task[t].pc = "released"
    /\ WriteRow(task[t].srv, FailedRow(row[task[t].srv], "terminated"))
    /\ Finish(t)
    /\ UNCHANGED <<machine, core, jobVars, drive, expired, flagged, wire, boundVars>>

FailReturns(t) ==
    /\ NewTurn /\ task[t].op = "fail" /\ task[t].pc = "released"
    /\ WriteRow(task[t].srv,
                FailedRow(row[task[t].srv],
                          IF task[t].view = "ok" THEN "terminated"
                                                 ELSE "terminate-failed"))
    /\ Finish(t)
    /\ UNCHANGED <<machine, core, jobVars, drive, expired, flagged, wire, boundVars>>

\* A box calls back that its plan failed: the step is recorded, then the row
\* is failed by the same path.
CallbackFails(t, s, step, phase) ==
    /\ NewTurn /\ Free(t) /\ s \notin Push /\ BoxAlive(s)
    /\ Exists(s) /\ AcceptsProgressReports(row[s].status)
    /\ FailBootstrap(t, s, RecordProgress(row[s], step), phase)
    /\ UNCHANGED <<machine, core, jobVars, drive, expired, flagged, wire, boundVars>>

-----------------------------------------------------------------------------
(***************************************************************************)
(* The provision ticker.                                                   *)
(***************************************************************************)

\* The 30-minute window of a row that is still coming up passes.
Expire(s) ==
    /\ Exists(s) /\ NeedsRecovery(row[s]) /\ s \notin expired
    /\ expired' = expired \union {s}
    /\ UNCHANGED <<row, machine, core, task, jobVars, drive, flagged, wire, boundVars>>

\* Mutant: a row's age is counted from its last update, which every tick moves.
TickBeginForever ==
    LET todo == {s \in Server : Exists(s) /\ NeedsRecovery(row[s])} IN
    /\ NewTurn /\ "ticker" \in ActiveJobs
    /\ Free("ticker") /\ tick.todo = {} /\ todo # {}
    /\ tick' = [todo  |-> todo, stuck |-> {}, known |-> {s \in todo : row[s].handle}]
    /\ UNCHANGED <<row, machine, core, task, sweep, recovering, drive, expired,
                   flagged, wire, boundVars>>

\* A tick lists the rows in flight once and judges their age at that moment.
TickBegin ==
    LET todo == {s \in Server : Exists(s) /\ NeedsRecovery(row[s])} IN
    /\ NewTurn /\ "ticker" \in ActiveJobs
    /\ Free("ticker") /\ tick.todo = {} /\ todo # {}
    /\ tick' = [todo  |-> todo,
                stuck |-> todo \intersect expired,
                known |-> {s \in todo : row[s].handle}]
    /\ UNCHANGED <<row, machine, core, task, sweep, recovering, drive, expired,
                   flagged, wire, boundVars>>

\* The next row of the list: failStuck if it is stuck, else sync.  Either way
\* it is the listed row object that is used, not the row as it is now.
TickNext(s) ==
    /\ core = "serving" /\ Free("ticker") /\ s \in tick.todo
    /\ tick' = IF tick.todo = {s} THEN NoTick ELSE [tick EXCEPT !.todo = @ \ {s}]
    /\ \/ /\ s \in tick.known
          /\ Go("ticker", IF s \in tick.stuck
                          THEN Doing("stuck", s, "release")
                          ELSE Holding("tick", s, "describe", "provisioning"))
          /\ UNCHANGED row
       \/ /\ s \notin tick.known
          /\ WriteRow(s, IF s \in tick.stuck THEN TryStatus(row[s], "failed") ELSE row[s])
          /\ UNCHANGED task
    /\ UNCHANGED <<machine, core, sweep, recovering, drive, expired, flagged,
                   wire, boundVars>>

\* failStuck's terminate returned.  A refusal is logged, and the row is failed
\* all the same.
StuckReturns ==
    LET s == task["ticker"].srv IN
    /\ NewTurn /\ task["ticker"].op = "stuck" /\ task["ticker"].pc = "released"
    /\ WriteRow(s, TryStatus(row[s], "failed"))
    /\ Finish("ticker")
    /\ UNCHANGED <<machine, core, jobVars, drive, expired, flagged, wire, boundVars>>

\* The supervisor's poll for the synced row r: hand over a settled outcome,
\* leave a live drive alone, or start one if the row has an address by now.
Poll(s, r) ==
    CASE drive[s] \in {"tool", "other"} ->
            /\ FailBootstrap("ticker", s, r, drive[s])
            /\ drive' = [drive EXCEPT ![s] = "idle"]
      [] drive[s] = "below" ->
            /\ WriteRow(s, TryStatus(r, "failed"))
            /\ Finish("ticker")
            /\ drive' = [drive EXCEPT ![s] = "idle"]
      [] drive[s] = "active" ->
            WriteRow(s, r) /\ Finish("ticker") /\ UNCHANGED drive
      [] OTHER ->
            /\ WriteRow(s, r)
            /\ Finish("ticker")
            /\ drive' \in {drive, [drive EXCEPT ![s] = "active"]}

TickReturns ==
    LET s == task["ticker"].srv IN
    /\ NewTurn /\ task["ticker"].op = "tick" /\ task["ticker"].pc = "fold"
    /\ IF /\ task["ticker"].view # "error"
          /\ s \in Push /\ SyncedStatus("ticker") = "provisioning"
       THEN Poll(s, SyncedRow("ticker"))
       ELSE /\ WriteRow(s, SyncedRow("ticker"))
            /\ Finish("ticker")
            /\ UNCHANGED drive
    /\ UNCHANGED <<machine, core, jobVars, expired, flagged, wire, boundVars>>

-----------------------------------------------------------------------------
(***************************************************************************)
(* The reconciler.                                                         *)
(***************************************************************************)

\* Rows that stand for a live resource, and failed rows core can still reach.
Claimed(r) ==
    \/ r.status \in {"requested", "provisioning", "running", "stopped"}
    \/ r.status = "failed" /\ r.handle

\* Mutant: every failed row claims a machine, reachable or not.
SweepBeginAllFailed ==
    LET live == {s \in Server : Exists(s) /\ row[s].status # "terminated"} IN
    /\ NewTurn /\ "reconciler" \in ActiveJobs
    /\ Free("reconciler") /\ sweep.phase = "idle"
    /\ sweep' = [phase |-> "list", live |-> live,
                 todo |-> {s \in live : ReadsProvider(row[s])}]
    /\ UNCHANGED <<row, machine, core, task, tick, recovering, drive, expired,
                   flagged, wire, boundVars>>

SweepBegin ==
    LET live == {s \in Server : Exists(s) /\ Claimed(row[s])} IN
    /\ NewTurn /\ "reconciler" \in ActiveJobs
    /\ Free("reconciler") /\ sweep.phase = "idle"
    /\ sweep' = [phase |-> "list", live |-> live,
                 todo |-> {s \in live : ReadsProvider(row[s])}]
    /\ UNCHANGED <<row, machine, core, task, tick, recovering, drive, expired,
                   flagged, wire, boundVars>>

\* listManaged answers, terminating machines included: what no listed row
\* claims is flagged, and nothing else is done about it.  A provider that
\* throws is skipped.
SweepLists ==
    /\ NewTurn /\ sweep.phase = "list"
    /\ sweep' = [sweep EXCEPT !.phase = "walk", !.live = {}]
    /\ \/ /\ flagged' = flagged \union
                {s \in Server : machine[s] \notin {"none", "gone"} /\ s \notin sweep.live}
          /\ UNCHANGED faults
       \/ Fault /\ UNCHANGED flagged
    /\ UNCHANGED <<row, machine, core, task, tick, recovering, drive, expired,
                   wire, crashes>>

SweepNext(s) ==
    /\ core = "serving" /\ sweep.phase = "walk" /\ Free("reconciler")
    /\ s \in sweep.todo
    /\ sweep' = [sweep EXCEPT !.todo = @ \ {s}]
    /\ Go("reconciler", Doing("sweep", s, "describe"))
    /\ UNCHANGED <<row, machine, core, tick, recovering, drive, expired, flagged,
                   wire, boundVars>>

SweepReturns ==
    /\ NewTurn /\ task["reconciler"].pc = "fold"
    /\ WriteRow(task["reconciler"].srv, SyncedRow("reconciler"))
    /\ Finish("reconciler")
    /\ UNCHANGED <<machine, core, jobVars, drive, expired, flagged, wire, boundVars>>

SweepEnds ==
    /\ core = "serving" /\ sweep.phase = "walk" /\ Free("reconciler")
    /\ sweep.todo = {}
    /\ sweep' = NoSweep
    /\ UNCHANGED <<row, machine, core, task, tick, recovering, drive, expired,
                   flagged, wire, boundVars>>

-----------------------------------------------------------------------------
(***************************************************************************)
(* Crashes, and the recovery pass that runs before the server listens.     *)
(***************************************************************************)

\* The call each waiting task has sent out.
SentCall(t) == IF task[t].op \in {"start", "stop", "create"} THEN task[t].op
                                                             ELSE "terminate"

\* Memory is lost; the rows are not; what was on its way to a provider still is.
Crash ==
    /\ core # "down" /\ crashes < MaxCrashes
    /\ core' = "down"
    /\ wire' = wire \union
         {<<SentCall(t), task[t].srv>> :
             t \in {u \in Actor : task[u].pc \in {"provision", "power", "release"}}}
    /\ task' = [t \in Actor |-> Idle]
    /\ tick' = NoTick
    /\ sweep' = NoSweep
    /\ recovering' = {}
    /\ drive' = [s \in Server |-> "idle"]
    /\ crashes' = crashes + 1
    /\ UNCHANGED <<row, machine, expired, flagged, faults>>

\* A call nobody waits for any more reaches the provider, or never does.
WireLands(call, s) ==
    /\ <<call, s>> \in wire
    /\ wire' = wire \ {<<call, s>>}
    /\ machine' \in {machine, [machine EXCEPT ![s] =
            CASE call = "create"    -> IF @ = "none" THEN "pending" ELSE @
              [] call = "terminate" -> Released(@)
              [] OTHER              -> PowerEffect(call, @)]}
    /\ UNCHANGED <<row, core, task, jobVars, drive, expired, flagged, boundVars>>

Boot ==
    /\ core = "down"
    /\ core' = "recovering"
    /\ recovering' = {s \in Server : Exists(s) /\ NeedsRecovery(row[s])}
    /\ UNCHANGED <<row, machine, task, tick, sweep, drive, expired, flagged, wire,
                   boundVars>>

\* Mutant: a row without a handle is left as it was found.
RecoverNextLeaves(s) ==
    /\ core = "recovering" /\ Free("recovery") /\ s \in recovering
    /\ recovering' = recovering \ {s}
    /\ IF row[s].handle THEN Go("recovery", Doing("recover", s, "describe")) ELSE UNCHANGED task
    /\ UNCHANGED <<row, machine, core, tick, sweep, drive, expired, flagged, wire, boundVars>>

\* A row without a handle is failed at once; any other is synced.
RecoverNext(s) ==
    /\ core = "recovering" /\ Free("recovery") /\ s \in recovering
    /\ recovering' = recovering \ {s}
    /\ IF row[s].handle
       THEN Go("recovery", Doing("recover", s, "describe")) /\ UNCHANGED row
       ELSE WriteRow(s, TryStatus(row[s], "failed")) /\ UNCHANGED task
    /\ UNCHANGED <<machine, core, tick, sweep, drive, expired, flagged, wire, boundVars>>

\* A row whose read throws is failed; any other is left to the ticker.
RecoverReturns ==
    LET s == task["recovery"].srv IN
    /\ task["recovery"].pc = "fold"
    /\ WriteRow(s, IF task["recovery"].view = "error" THEN TryStatus(row[s], "failed")
                                                      ELSE SyncedRow("recovery"))
    /\ Finish("recovery")
    /\ UNCHANGED <<machine, core, jobVars, drive, expired, flagged, wire, boundVars>>

Serve ==
    /\ core = "recovering" /\ recovering = {} /\ Free("recovery")
    /\ core' = "serving"
    /\ UNCHANGED <<row, machine, task, jobVars, drive, expired, flagged, wire, boundVars>>

-----------------------------------------------------------------------------
(***************************************************************************)
(* What machines do by themselves, and what others do to them.             *)
(***************************************************************************)

Settles(m) ==
    CASE m = "pending"     -> "running"
      [] m = "stopping"    -> "stopped"
      [] m = "terminating" -> "gone"
      [] OTHER             -> m

MachineSettles(s) ==
    /\ Settles(machine[s]) # machine[s]
    /\ machine' = [machine EXCEPT ![s] = Settles(@)]
    /\ UNCHANGED <<row, core, task, jobVars, drive, expired, flagged, wire, boundVars>>

Mishap(s, kind) ==
    /\ kind \in Mishaps
    /\ \/ kind = "fail" /\ machine[s] \in {"pending", "running"}
          /\ machine' = [machine EXCEPT ![s] = "failed"]
       \/ kind = "console-terminate" /\ Alive(machine[s])
          /\ machine' = [machine EXCEPT ![s] = "terminating"]
       \/ kind = "console-stop" /\ machine[s] = "running"
          /\ machine' = [machine EXCEPT ![s] = "stopping"]
    /\ UNCHANGED <<row, core, task, jobVars, drive, expired, flagged, wire, boundVars>>

-----------------------------------------------------------------------------

RequestStep(t) ==
    \/ \E s \in Server : CreateBegin(t, s) \/ CreateBreaks(t, s)
    \/ \E s \in Server : TerminateBegin(t, s)
    \/ \E s \in Server, op \in {"get", "start", "stop"} : ReadBegin(t, op, s)
    \/ \E s \in Server, step \in BoxSteps, phase \in {"tool", "other"} :
            CallbackFails(t, s, step, phase)
    \/ ValidateReturns(t)
    \/ CreateFails(t)
    \/ CreateReturns(t)
    \/ ReadReturns(t)
    \/ TerminateReturns(t)

TickerStep ==
    \/ TickBegin
    \/ \E s \in Server : TickNext(s)
    \/ TickReturns
    \/ StuckReturns

ReconcilerStep ==
    \/ SweepBegin
    \/ SweepLists
    \/ \E s \in Server : SweepNext(s)
    \/ SweepReturns
    \/ SweepEnds

RecoveryStep ==
    \/ Boot
    \/ \E s \in Server : RecoverNext(s)
    \/ RecoverReturns
    \/ Serve

\* A provider call of actor t is answered.
ProviderStep(t) ==
    \/ ProvisionLands(t)
    \/ DescribeLands(t)
    \/ PowerLands(t)
    \/ ReleaseLands(t)

BoxStep(s) ==
    \/ \E step \in BoxSteps : BoxReports(s, step)
    \/ \E outcome \in {"tool", "other", "below", "idle"} : DriveEnds(s, outcome)

CloudStep(s) ==
    \/ MachineSettles(s)
    \/ \E kind \in Mishaps : Mishap(s, kind)
    \/ \E call \in Calls : WireLands(call, s)

Next ==
    \/ \E t \in Request : RequestStep(t)
    \/ \E t \in Actor : ProviderStep(t) \/ FailReturns(t)
    \/ TickerStep
    \/ ReconcilerStep
    \/ RecoveryStep
    \/ \E s \in Server : BoxStep(s) \/ CloudStep(s) \/ Expire(s)
    \/ Crash

Spec == Init /\ [][Next]_vars

(***************************************************************************)
(* Fairness: timers keep firing (setInterval), a provider answers or times *)
(* out, a pending promise is resumed, the machine and the clock move on,   *)
(* and an operator restarts a core that went down.  Nothing is assumed of  *)
(* users, boxes or drives.                                                 *)
(***************************************************************************)
Fairness ==
    /\ \A t \in Actor : WF_vars(ProviderStep(t)) /\ WF_vars(FailReturns(t))
    /\ \A t \in Request :
          /\ WF_vars(ValidateReturns(t)) /\ WF_vars(CreateReturns(t))
          /\ WF_vars(ReadReturns(t)) /\ WF_vars(TerminateReturns(t))
    /\ WF_vars(TickBegin) /\ WF_vars(TickReturns) /\ WF_vars(StuckReturns)
    /\ WF_vars(SweepBegin) /\ WF_vars(SweepLists)
    /\ WF_vars(SweepReturns) /\ WF_vars(SweepEnds)
    /\ \A s \in Server :
          /\ WF_vars(TickNext(s)) /\ WF_vars(SweepNext(s)) /\ WF_vars(RecoverNext(s))
          /\ WF_vars(MachineSettles(s)) /\ WF_vars(Expire(s))
          /\ WF_vars(\E call \in Calls : WireLands(call, s))
    /\ WF_vars(Boot) /\ WF_vars(RecoverReturns) /\ WF_vars(Serve)

FairSpec == Spec /\ Fairness

-----------------------------------------------------------------------------
(***************************************************************************)
(* The inductive invariant: what a row, a task and a job's list may take   *)
(* for granted of each other whenever nobody is writing.                   *)
(***************************************************************************)

\* A task is about a row that exists.  Until it is through, a create owns its
\* row's way out of `requested`; every other task goes by the row's handle.
TaskCoherent(t) ==
    LET s == task[t].srv IN
    /\ s \in Server /\ Exists(s)
    /\ \/ /\ t \in Request /\ task[t].op = "create"
          /\ task[t].pc \in {"validate", "provision", "provisioned"}
          /\ row[s].status \in {"requested", "failed", "terminated"}
          /\ task[t].pc = "provisioned" => task[t].view \in {"pending", "running"}
       \/ /\ task[t].op # "create"
          /\ task[t].pc \in {"describe", "fold", "power", "release", "released"}
          /\ row[s].handle

RowsCohere == \A s \in Server : Exists(s) => RowCoherent(row[s])

\* A free actor remembers nothing; a busy one is about a row it can rely on.
TasksCohere == \A t \in Actor : IF Free(t) THEN task[t] = Idle ELSE TaskCoherent(t)

\* Two creates are never about one server.
CreatesApart ==
    \A t, u \in Actor :
        /\ task[t].op = "create" /\ task[u].op = "create"
        /\ task[t].srv = task[u].srv
        => t = u

\* What a job has listed and not yet reached is still what it was listed as.
ListsCohere ==
    /\ \A s \in tick.todo \union sweep.todo \union recovering : Exists(s)
    /\ \A s \in tick.known \union sweep.todo : Exists(s) /\ row[s].handle

\* Before core serves, a `requested` row has the recovery pass still to come.
RequestedIsListed ==
    \A s \in Server :
        row[s].status = "requested" /\ core = "recovering" => s \in recovering

\* Every column, task and list agrees with the rows, at every moment: no two
\* creates of one server, no listed row without what its lister takes for
\* granted, no `requested` row that recovery would pass over.
Coherent ==
    /\ RowsCohere
    /\ TasksCohere
    /\ CreatesApart
    /\ ListsCohere
    /\ RequestedIsListed

-----------------------------------------------------------------------------
(***************************************************************************)
(* Safety.                                                                 *)
(***************************************************************************)

Busy(s) == \E t \in Actor : task[t].srv = s

BeingCreated(s) == \E t \in Request : task[t].op = "create" /\ task[t].srv = s

\* No machine has been made for the server, nor is one being made unwatched.
Untouched(s) == machine[s] = "none" /\ \A call \in Calls : <<call, s>> \notin wire

\* No machine is lost behind a row: while core serves, a `requested` row is one
\* some create is still working on, or one no provider was ever asked about,
\* whatever a crash left on its way and whatever threw after the insert; and a
\* row that claims a machine has the handle to reach it by.
RowsAreReachable ==
    \A s \in Server :
        /\ core = "serving" /\ row[s].status = "requested" => BeingCreated(s) \/ Untouched(s)
        /\ row[s].status \in {"provisioning", "running", "stopped"} => row[s].handle

\* A booted VM is not a usable box (rockysurf-55fx.13): whatever the provider
\* says and however requests interleave, a row that shows `running` or
\* `stopped` has had `ready` reported by its own bootstrap, and one still
\* provisioning has not.
OnlyReadyRuns ==
    \A s \in Server :
        Exists(s) => /\ row[s].status \in {"running", "stopped"} => row[s].step = "ready"
                     /\ row[s].status = "provisioning" => row[s].step # "ready"

\* What a row records as the end of its machine is one: neither the provider
\* state nor the report of a failed bootstrap says `terminated` of a machine
\* that still runs, so the meter never stops early (ADR-0010).
DeathIsTrue ==
    \A s \in Server :
        /\ Exists(s)
        /\ \/ row[s].state \in {"terminating", "terminated"}
           \/ row[s].report = "terminated"
        => machine[s] \in {"terminating", "gone"}

\* A user's terminate, a sync and a release may overlap in any order, but a row
\* core holds a handle for turns `terminated` (and leaves the dashboard) only
\* once its machine has been let go of.
TerminatedLetsGo ==
    [][\A s \in Server :
          /\ Exists(s) /\ row[s].status # "terminated" /\ row[s].handle
          /\ row'[s].status = "terminated"
          => ~Alive(machine[s])]_vars

\* ADR-0010: a failed row stays on the dashboard, with its explanation, until
\* its user dismisses it through terminate; no read of the cloud hides it.
FailedUntilDismissed ==
    [][\A s \in Server :
          Exists(s) /\ row[s].status = "failed" /\ row'[s].status # "failed" =>
              \E t \in Request : TerminateBegin(t, s) \/ TerminateReturns(t)]_vars

(***************************************************************************)
(* The promise the rows keep.                                              *)
(***************************************************************************)

Usable == {s \in Server : Exists(s) /\ row[s].step = "ready"}

Promise == INSTANCE ServerPromise
           WITH status <- [s \in Server |-> row[s].status], usable <- Usable

\* Every handler, job and crash recovery implements the abstract status
\* machine: rows appear as `requested`, follow the table, and become usable
\* only by their own bootstrap.
KeepsPromise == Promise!Spec

(***************************************************************************)
(* Liveness.                                                               *)
(***************************************************************************)

\* The 30-minute timeout bounds how long a row may sit unfinished: no server
\* is `requested` or `provisioning` forever, through faults and crashes.
RowsSettle ==
    \A s \in Server :
        (Exists(s) /\ NeedsRecovery(row[s])) ~> ~NeedsRecovery(row[s])

Metering(s) == Exists(s) /\ IsBillingRow(row[s])

\* The meter of a machine that is gone stops, whichever of the reads, releases
\* and crashes that could have recorded it happened last.
MeterStops ==
    \A s \in Server :
        machine[s] = "gone" ~> ~Metering(s)

\* The meter of a machine that runs, and that core has the handle of, starts.
MeterStarts ==
    \A s \in Server :
        (machine[s] = "running" /\ Exists(s) /\ row[s].handle) ~>
            (machine[s] # "running" \/ row[s].status = "terminated" \/ Metering(s))

Orphaned(s) == Alive(machine[s]) /\ ~Claimed(row[s])

\* A machine no row claims any more is flagged for a human, unless it ends or
\* the create that made it comes back and writes its handle down after all.
OrphansAreFlagged ==
    \A s \in Server : Orphaned(s) ~> (s \in flagged \/ ~Orphaned(s))

(***************************************************************************)
(* What the repository says of itself, and the runs refute.                *)
(***************************************************************************)

\* provision-ticker.ts on what a timeout ends: "a server stuck in
\* `requested`/`provisioning` past the deadline", never one that came up.
RunningIsNotTimedOut ==
    [][\A s \in Server :
          /\ task["ticker"].op # "stuck"
          /\ task'["ticker"].op = "stuck" /\ task'["ticker"].srv = s
          => row[s].status # "running"]_vars

=============================================================================
