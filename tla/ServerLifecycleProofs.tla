------------------------ MODULE ServerLifecycleProofs ------------------------
(***************************************************************************)
(* Theorems of ServerLifecycle, for every set of servers and requests and  *)
(* every bound: its type invariant, the inductive invariant Coherent, the  *)
(* safety properties that follow from it, that it implements               *)
(* ServerPromise, that a failed row stays until it is dismissed, and what  *)
(* a row may say of its machine.                                           *)
(*                                                                         *)
(* The argument: between two steps a row is only ever moved by one of the  *)
(* functions of ServerRow, all of which it Follows, except by the two      *)
(* writers who may make it usable or provisioning, and those two find it   *)
(* in a state Coherent pins down.  A step writes one row at most, and what *)
(* it writes is a move the promise allows.                                 *)
(*                                                                         *)
(* What a row says of its machine needs more: an answer, a release or a    *)
(* create is acted on well after the provider spoke, and a call may        *)
(* outlive the core that made it.  Vouched adds what each of them may      *)
(* still take for granted of the machine by then.                          *)
(***************************************************************************)
EXTENDS ServerLifecycle, TLAPS

-----------------------------------------------------------------------------
(***************************************************************************)
(* What the functions of the `servers` table do to one row.                *)
(***************************************************************************)

\* How a row may change under anything but a create's own last write: it stays
\* a coherent row, keeps its handle, and moves by the table, never into
\* `provisioning`.
Advances(r, q) ==
    /\ q \in Row
    /\ RowCoherent(q)
    /\ r.handle => q.handle
    /\ q.status = r.status \/ CanTransition(r.status, q.status)
    /\ q.status = "provisioning" => r.status = "provisioning"

\* And, but for what its own box reports, it becomes no more usable than it was.
Follows(r, q) ==
    /\ Advances(r, q)
    /\ q.step = r.step \/ (r.step # "ready" /\ q.step # "ready")

StaysFailed(r, q) == r.status = "failed" => q.status = "failed"

\* The eight steps, named.
LEMMA StepsNamed ==
    Steps = {"requested", "instance_launching", "instance_running", "installing_tools",
             "tools_installed", "cloning_repos", "running_user_script", "ready"}
BY DEF Steps, ProvisioningSteps

\* A row that does not change follows itself.
LEMMA FollowsItself ==
    ASSUME NEW r \in Row, RowCoherent(r)
    PROVE  Follows(r, r) /\ StaysFailed(r, r)
BY DEF Advances, Follows, StaysFailed

\* insertServer writes a coherent row.
LEMMA InsertedRowCoheres == InsertedRow \in Row /\ RowCoherent(InsertedRow)
BY StepsNamed DEF InsertedRow, Row, RowCoherent, Statuses

\* updateServerStatus to `failed`: an illegal transition writes nothing, a legal
\* one leaves a coherent row that no longer is `requested`.
LEMMA TryFailedFollows ==
    ASSUME NEW r \in Row, RowCoherent(r)
    PROVE  LET q == TryStatus(r, "failed") IN
           /\ Follows(r, q) /\ StaysFailed(r, q)
           /\ q.status = IF r.status = "terminated" THEN "terminated" ELSE "failed"
<1>1. CASE CanTransition(r.status, "failed")
  <2>1. TryStatus(r, "failed") = WithStatus(r, "failed")
    BY <1>1 DEF TryStatus
  <2> QED
    BY <1>1, <2>1 DEF WithStatus, CanTransition, Transitions, Row, Statuses, RowCoherent, Advances, Follows, StaysFailed
<1>2. CASE ~CanTransition(r.status, "failed")
  <2>1. TryStatus(r, "failed") = r
    BY <1>2 DEF TryStatus
  <2>2. r.status \in {"failed", "terminated"}
    BY <1>2 DEF CanTransition, Transitions, Row, Statuses
  <2> QED
    BY <2>1, <2>2, FollowsItself
<1> QED
  BY <1>1, <1>2

\* updateServerStatus to `terminated`, from any row that is not over.
LEMMA TerminatedFollows ==
    ASSUME NEW r \in Row, RowCoherent(r), r.status # "terminated"
    PROVE  /\ Follows(r, WithStatus(r, "terminated"))
           /\ WithStatus(r, "terminated").status = "terminated"
<1>1. CanTransition(r.status, "terminated")
  BY DEF CanTransition, Transitions, Row, Statuses
<1> QED
  BY <1>1 DEF WithStatus, Row, Statuses, RowCoherent, Advances, Follows

\* recordProviderState touches neither the status, the step nor the handle.
LEMMA RecordedFollows ==
    ASSUME NEW r \in Row, RowCoherent(r),
           NEW state \in InstanceStates, NEW bills \in BOOLEAN
    PROVE  LET q == RecordProviderState(r, state, bills) IN
           /\ Follows(r, q)
           /\ q.status = r.status /\ q.step = r.step /\ q.handle = r.handle
<1>1. RecordProviderState(r, state, bills) \in Row
  BY DEF RecordProviderState, Row
<1>2. /\ RecordProviderState(r, state, bills).status = r.status
      /\ RecordProviderState(r, state, bills).step = r.step
      /\ RecordProviderState(r, state, bills).handle = r.handle
  BY DEF RecordProviderState, Row
<1> QED
  BY <1>1, <1>2 DEF RowCoherent, Advances, Follows

\* recordProgress on a provisioning row: the step is written, and `ready` is the
\* promotion to running.
LEMMA ProgressCoheres ==
    ASSUME NEW r \in Row, RowCoherent(r), r.status = "provisioning",
           NEW step \in Steps
    PROVE  LET q == RecordProgress(r, step) IN
           /\ q \in Row /\ RowCoherent(q)
           /\ q.handle = r.handle /\ q.step = step
           /\ q.status = IF step = "ready" THEN "running" ELSE "provisioning"
<1>1. RecordProgress(r, step) =
        WithStatus([r EXCEPT !.step = step], StatusForStep(step))
  BY DEF RecordProgress, AcceptsProgressReports
<1> QED
  BY <1>1 DEF WithStatus, StatusForStep, Row, Statuses, RowCoherent

\* recordProgress of a machine's milestone never completes a bootstrap.
LEMMA MilestoneFollows ==
    ASSUME NEW r \in Row, RowCoherent(r), NEW view, HasMilestone(view)
    PROVE  LET q == RecordProgress(r, StateToMilestone[view]) IN
           /\ Follows(r, q) /\ StaysFailed(r, q)
           /\ q.status = r.status /\ q.handle = r.handle
<1>1. StateToMilestone[view] \in Steps \ {"ready"}
  BY StepsNamed DEF HasMilestone, StateToMilestone
<1>2. CASE r.status = "provisioning"
  BY <1>1, <1>2, ProgressCoheres DEF Advances, Follows, StaysFailed, RowCoherent
<1>3. CASE r.status # "provisioning"
  <2>1. RecordProgress(r, StateToMilestone[view]) = r
    BY <1>3 DEF RecordProgress, AcceptsProgressReports
  <2> QED
    BY <2>1, FollowsItself
<1> QED
  BY <1>2, <1>3

\* A row that advances and is then failed has advanced.
LEMMA AdvanceThenFail ==
    ASSUME NEW r \in Row, NEW m, NEW q, Advances(r, m), Follows(m, q),
           q.status = IF m.status = "terminated" THEN "terminated" ELSE "failed"
    PROVE  Advances(r, q)
BY DEF Advances, Follows, Row, Statuses, CanTransition, Transitions

IInv == TypeOK /\ Coherent

-----------------------------------------------------------------------------
(***************************************************************************)
(* The lifecycle's own functions of a row.                                 *)
(***************************************************************************)

\* A row that exists has the columns of a row.
LEMMA ExistingRow ==
    ASSUME TypeOK, NEW s \in Server, Exists(s)
    PROVE  row[s] \in Row
BY DEF TypeOK, Exists, NoRow

\* recordProviderState as this installation's provider bills.
LEMMA RecordedWhileBilling ==
    ASSUME NEW r \in Row, RowCoherent(r), NEW state \in InstanceStates
    PROVE  LET q == RecordProviderState(r, state, BillsWhileStopped) IN
           /\ Follows(r, q)
           /\ q.status = r.status /\ q.step = r.step /\ q.handle = r.handle
<1>1. BillsWhileStopped \in BOOLEAN
  BY PolicyAssumption DEF PolicyAssumption
<1> QED
  BY <1>1, RecordedFollows, Zenon

\* reportInstanceMilestone follows its row and never moves the status.
LEMMA ReportFollows ==
    ASSUME NEW r \in Row, RowCoherent(r), NEW view
    PROVE  LET q == ReportInstanceMilestone(r, view) IN
           /\ Follows(r, q) /\ StaysFailed(r, q)
           /\ q.status = r.status /\ q.handle = r.handle
<1>1. CASE HasMilestone(view) /\ AdvancesProvisioning(r.step, StateToMilestone[view])
  BY <1>1, MilestoneFollows DEF ReportInstanceMilestone
<1>2. CASE ~(HasMilestone(view) /\ AdvancesProvisioning(r.step, StateToMilestone[view]))
  <2>1. ReportInstanceMilestone(r, view) = r
    BY <1>2 DEF ReportInstanceMilestone
  <2> QED
    BY <2>1, FollowsItself
<1> QED
  BY <1>1, <1>2

\* syncObserved's fold: no answer of a provider promotes a row that its own
\* bootstrap has not made ready, and none moves a failed row.
LEMMA FoldFollows ==
    ASSUME NEW r \in Row, RowCoherent(r), r.handle, NEW view \in InstanceStates
    PROVE  Follows(r, FoldView(r, view)) /\ StaysFailed(r, FoldView(r, view))
<1> DEFINE seen  == RecordProviderState(r, view, BillsWhileStopped)
           moved == IF FoldsStatus(seen, view)
                    THEN WithStatus(seen, StateToStatus[view]) ELSE seen
<1>1. /\ seen \in Row /\ RowCoherent(seen) /\ seen.status = r.status
      /\ seen.step = r.step /\ seen.handle = r.handle
  BY RecordedWhileBilling DEF Advances, Follows
<1> HIDE DEF seen
<1>2. /\ moved \in Row /\ RowCoherent(moved)
      /\ moved.step = r.step /\ moved.handle = r.handle
      /\ moved.status = r.status \/ CanTransition(r.status, moved.status)
      /\ moved.status = "provisioning" => r.status = "provisioning"
      /\ r.status = "failed" => moved.status = "failed"
  <2>1. CASE FoldsStatus(seen, view)
    <3> DEFINE next == StateToStatus[view]
    <3>1. next \in Statuses
      BY <2>1 DEF FoldsStatus, HasStatus, StateToStatus, InstanceStates, Statuses
    <3>2. /\ CanTransition(r.status, next)
          /\ ~(next = "running" /\ r.status = "provisioning" /\ r.step # "ready")
          /\ ~(r.status = "failed" /\ next = "terminated")
      BY <1>1, <2>1 DEF FoldsStatus, SuppressesPromotionToRunning
    <3>3. r.status # "requested" /\ (r.status = "provisioning" => r.step # "ready")
      BY DEF RowCoherent
    <3>4. moved = WithStatus(seen, next)
      BY <2>1
    <3> HIDE DEF next, moved
    <3>5. /\ moved.status = next /\ moved.step = r.step /\ moved.handle = r.handle
          /\ moved \in Row
      BY <1>1, <3>1, <3>4 DEF WithStatus, Row
    <3>6. /\ next \in {"running", "stopped"} => r.status \in {"running", "stopped"}
          /\ next # "provisioning" /\ next # "requested"
          /\ r.status # "failed"
      BY <3>2, <3>3 DEF CanTransition, Transitions
    <3> QED
      BY <1>1, <3>2, <3>5, <3>6 DEF RowCoherent
  <2>2. CASE ~FoldsStatus(seen, view)
    BY <1>1, <2>2
  <2> QED
    BY <2>1, <2>2
<1>3. FoldView(r, view) = ReportInstanceMilestone(moved, view)
  BY DEF FoldView, seen
<1> HIDE DEF moved
<1>4. /\ Follows(moved, FoldView(r, view))
      /\ FoldView(r, view).status = moved.status
  BY <1>2, <1>3, ReportFollows
<1> QED
  BY <1>2, <1>4 DEF Advances, Follows, StaysFailed

\* What a task's sync leaves in the table.
LEMMA SyncFollows ==
    ASSUME TypeOK, NEW t \in Actor, task[t].srv \in Server, Exists(task[t].srv),
           RowCoherent(row[task[t].srv]), row[task[t].srv].handle
    PROVE  LET r == row[task[t].srv] IN
           Follows(r, SyncedRow(t)) /\ StaysFailed(r, SyncedRow(t))
<1>1. row[task[t].srv] \in Row
  BY ExistingRow
<1>2. CASE task[t].view \in InstanceStates
  BY <1>1, <1>2, FoldFollows DEF SyncedRow
<1>3. CASE task[t].view \notin InstanceStates
  BY <1>1, <1>3, FollowsItself DEF SyncedRow
<1> QED
  BY <1>2, <1>3

\* failBootstrap's three writes.
LEMMA FailedRowFollows ==
    ASSUME NEW r \in Row, RowCoherent(r), NEW outcome \in InstanceOutcomes
    PROVE  LET q == FailedRow(r, outcome) IN
           /\ Follows(r, q) /\ StaysFailed(r, q)
           /\ q.status = IF r.status = "terminated" THEN "terminated" ELSE "failed"
<1> DEFINE known == IF outcome = "terminated"
                    THEN RecordProviderState(r, "terminated", FALSE) ELSE r
           told  == SetBootstrapReport(known, outcome)
<1>1. /\ known \in Row /\ RowCoherent(known) /\ known.status = r.status
      /\ known.step = r.step /\ known.handle = r.handle
  BY RecordedFollows DEF Advances, Follows, InstanceStates
<1> HIDE DEF known
<1>2. /\ told \in Row /\ RowCoherent(told) /\ told.status = r.status
      /\ told.step = r.step /\ told.handle = r.handle
  BY <1>1 DEF SetBootstrapReport, Row, RowCoherent
<1>3. FailedRow(r, outcome) = TryStatus(told, "failed")
  BY DEF FailedRow, known
<1> HIDE DEF told
<1>4. /\ Follows(told, FailedRow(r, outcome)) /\ StaysFailed(told, FailedRow(r, outcome))
      /\ FailedRow(r, outcome).status = IF r.status = "terminated" THEN "terminated" ELSE "failed"
  BY <1>2, <1>3, TryFailedFollows
<1> QED
  BY <1>2, <1>4 DEF Advances, Follows, StaysFailed

\* A create's last write: from `requested` to `provisioning`, never further, and
\* otherwise nothing but the handle of the machine it made.
LEMMA CreatedRowCoheres ==
    ASSUME NEW r \in Row, RowCoherent(r), NEW view \in {"pending", "running"},
           r.status \in {"requested", "failed", "terminated"}
    PROVE  LET q == CreatedRow(r, view) IN
           /\ q \in Row /\ RowCoherent(q) /\ q.handle
           /\ q.status = IF r.status = "requested" THEN "provisioning" ELSE r.status
           /\ q.step = r.step \/ (r.step # "ready" /\ q.step # "ready")
<1> DEFINE seen     == RecordProviderState(r, view, BillsWhileStopped)
           withData == SetProviderData(seen)
           initial  == StateToStatus[view]
           to       == IF CanTransition(withData.status, initial)
                       THEN initial ELSE "provisioning"
<1>1. /\ seen \in Row /\ RowCoherent(seen) /\ seen.status = r.status
      /\ seen.step = r.step
  BY RecordedWhileBilling DEF Advances, Follows, InstanceStates
<1>2. initial \in {"provisioning", "running"}
  BY DEF StateToStatus, InstanceStates
<1>3. CreatedRow(r, view) =
        IF CanTransition(withData.status, to)
        THEN ReportInstanceMilestone(WithStatus(withData, to), view)
        ELSE TryStatus(withData, "failed")
  BY DEF CreatedRow
<1> HIDE DEF seen, initial
<1>4. /\ withData \in Row /\ withData.handle /\ withData.status = r.status
      /\ withData.step = r.step
  BY <1>1 DEF SetProviderData, Row
<1> HIDE DEF withData
<1>5. to = "provisioning"
  BY <1>2, <1>4 DEF CanTransition, Transitions
<1>6. CASE r.status = "requested"
  <2> DEFINE made == WithStatus(withData, "provisioning")
  <2>1. CanTransition(withData.status, to)
    BY <1>4, <1>5, <1>6 DEF CanTransition, Transitions
  <2>2. /\ made \in Row /\ RowCoherent(made) /\ made.handle
        /\ made.status = "provisioning" /\ made.step = r.step
    BY <1>4, <1>6 DEF WithStatus, Row, Statuses, RowCoherent
  <2> HIDE DEF made
  <2>3. CreatedRow(r, view) = ReportInstanceMilestone(made, view)
    BY <1>3, <1>5, <2>1 DEF made
  <2> QED
    BY <1>6, <2>2, <2>3, ReportFollows DEF Advances, Follows
<1>7. CASE r.status # "requested"
  <2>1. ~CanTransition(withData.status, to) /\ ~CanTransition(withData.status, "failed")
    BY <1>4, <1>5, <1>7 DEF CanTransition, Transitions
  <2>2. CreatedRow(r, view) = withData
    BY <1>3, <2>1 DEF TryStatus
  <2>3. RowCoherent(withData)
    BY <1>4, <1>7 DEF RowCoherent
  <2> QED
    BY <1>4, <1>7, <2>2, <2>3
<1> QED
  BY <1>6, <1>7

-----------------------------------------------------------------------------
(***************************************************************************)
(* Frames: what a step that moves one row and one task leaves intact.      *)
(***************************************************************************)

\* An idle, a suspended and a holding task are all Tasks.
LEMMA TasksTyped ==
    /\ Idle \in Tasks
    /\ \A op \in Ops, s \in Server, pc \in Waits : Doing(op, s, pc) \in Tasks
    /\ \A op \in Ops, s \in Server, pc \in Waits, snap \in Statuses :
          Holding(op, s, pc, snap) \in Tasks
BY DEF Tasks, Idle, Holding, Doing, Ops, Waits, Answers

\* A failed call stays within the bound on failures.
LEMMA FaultTyped ==
    ASSUME TypeOK, Fault
    PROVE  faults' \in 0..MaxFaults
BY BoundsAssumption DEF TypeOK, Fault, BoundsAssumption

\* What a machine becomes is a machine.
LEMMA MachinesTyped ==
    ASSUME NEW m \in Machines
    PROVE  /\ Released(m) \in Machines
           /\ Settles(m) \in Machines
           /\ \A op : PowerEffect(op, m) \in Machines
BY DEF Released, Settles, PowerEffect, Machines

\* What a write of one row does to the table.
LEMMA WriteTyped ==
    ASSUME TypeOK, NEW s \in Server, NEW q \in Row, WriteRow(s, q)
    PROVE  /\ row' \in [Server -> Row \union {NoRow}]
           /\ row'[s] = q
           /\ \A u \in Server \ {s} : row'[u] = row[u]
BY DEF TypeOK, WriteRow

\* What the move of one task does to the others.
LEMMA GoTyped ==
    ASSUME TypeOK, NEW t \in Actor, NEW doing \in Tasks, Go(t, doing)
    PROVE  /\ task' \in [Actor -> Tasks]
           /\ task'[t] = doing
           /\ \A u \in Actor \ {t} : task'[u] = task[u]
BY DEF TypeOK, Go

\* A task that finishes leaves the others alone.
LEMMA FinishTyped ==
    ASSUME TypeOK, NEW t \in Actor, Finish(t)
    PROVE  /\ task' \in [Actor -> Tasks]
           /\ task'[t] = Idle
           /\ \A u \in Actor \ {t} : task'[u] = task[u]
BY TasksTyped DEF TypeOK, Finish

\* A task that is answered keeps its operation and its server.
LEMMA AnswerTyped ==
    ASSUME TypeOK, NEW t \in Actor, NEW pc \in Waits, NEW view \in Answers,
           Answer(t, pc, view)
    PROVE  /\ task' \in [Actor -> Tasks]
           /\ task'[t] = [task[t] EXCEPT !.pc = pc, !.view = view]
           /\ \A u \in Actor \ {t} : task'[u] = task[u]
<1> DEFINE doing == [task[t] EXCEPT !.pc = pc, !.view = view]
<1>1. task[t] \in Tasks
  BY DEF TypeOK
<1>2. doing \in Tasks
  BY <1>1 DEF Tasks
<1> HIDE DEF doing
<1>3. task' = [task EXCEPT ![t] = doing]
  BY DEF Answer, doing
<1> QED
  BY <1>2, <1>3 DEF TypeOK, doing

\* Every row either stays or advances.
RowsMove == \A s \in Server : row'[s] = row[s] \/ (Exists(s) /\ Advances(row[s], row'[s]))

\* A row that is written moves alone.
LEMMA WriteMoves ==
    ASSUME TypeOK, NEW s \in Server, Exists(s), NEW q, Advances(row[s], q), WriteRow(s, q)
    PROVE  RowsMove
BY WriteTyped DEF RowsMove, Advances

\* A row that moves still exists, keeps its handle and does not fall back.
LEMMA MovedRow ==
    ASSUME TypeOK, RowsMove, NEW s \in Server, Exists(s)
    PROVE  /\ Exists(s)'
           /\ row[s].handle => row'[s].handle
           /\ row'[s].status = "requested" => row[s].status = "requested"
           /\ row[s].status \in {"requested", "failed", "terminated"} =>
                 row'[s].status \in {"requested", "failed", "terminated"}
<1>1. CASE row'[s] = row[s]
  BY <1>1 DEF Exists
<1>2. CASE Advances(row[s], row'[s])
  BY <1>2 DEF Advances, Exists, Row, Statuses, CanTransition, Transitions
<1> QED
  BY <1>1, <1>2 DEF RowsMove

\* A task nobody touches stays coherent while rows move.
LEMMA TaskStays ==
    ASSUME TypeOK, RowsMove, NEW u \in Actor, TaskCoherent(u), task'[u] = task[u]
    PROVE  TaskCoherent(u)'
BY MovedRow DEF TaskCoherent

\* One actor moves on, every row stays or advances: what remains to be
\* seen of the step is what its actor now relies on.
LEMMA Frame ==
    ASSUME TypeOK, Coherent, RowsMove, core' = core,
           NEW t \in Actor,
           \A u \in Actor \ {t} : task'[u] = task[u],
           task'[t] = Idle \/ (~Free(t)' /\ TaskCoherent(t)'),
           task'[t].op = "create" => task[t].op = "create" /\ task'[t].srv = task[t].srv,
           task[t].op = "create" /\ task'[t].op # "create" =>
              row'[task[t].srv].status # "requested",
           \A s \in recovering \ recovering' : row'[s].status # "requested"
    PROVE  RowsCohere' /\ TasksCohere' /\ CreatesApart' /\ RequestedIsListed'
<1>1. RowsCohere'
  <2>1. \A s \in Server : Exists(s)' /\ row'[s] = row[s] => Exists(s)
    BY DEF Exists
  <2> QED
    BY <2>1 DEF Coherent, RowsCohere, RowsMove, Advances, Exists
<1>2. TasksCohere'
  <2> SUFFICES ASSUME NEW u \in Actor
               PROVE  IF Free(u)' THEN task'[u] = Idle ELSE TaskCoherent(u)'
    BY DEF TasksCohere
  <2>1. CASE u = t
    BY <2>1 DEF Free, Idle
  <2>2. CASE u # t
    <3>1. task'[u] = task[u]
      BY <2>2
    <3> QED
      BY <3>1, TaskStays DEF Coherent, TasksCohere, Free
  <2> QED
    BY <2>1, <2>2
<1>3. CreatesApart'
  BY DEF Coherent, CreatesApart
<1>4. RequestedIsListed'
  <2> SUFFICES ASSUME NEW s \in Server, row'[s].status = "requested"
               PROVE  core' = "recovering" => s \in recovering'
    BY DEF RequestedIsListed
  <2>1. row[s].status = "requested"
    <3>1. CASE row'[s] = row[s]
      BY <3>1
    <3>2. CASE Exists(s)
      BY <3>2, MovedRow
    <3> QED
      BY <3>1, <3>2 DEF RowsMove
  <2> QED
    BY <2>1 DEF Coherent, RequestedIsListed
<1> QED
  BY <1>1, <1>2, <1>3, <1>4

\* The lists stay good while they only shrink.
LEMMA ListsStay ==
    ASSUME TypeOK, Coherent, RowsMove,
           tick'.todo \subseteq tick.todo, tick'.known \subseteq tick.known,
           sweep'.todo \subseteq sweep.todo, recovering' \subseteq recovering
    PROVE  ListsCohere'
<1>1. /\ tick.todo \subseteq Server /\ tick.known \subseteq Server
      /\ sweep.todo \subseteq Server /\ recovering \subseteq Server
  BY DEF TypeOK
<1> QED
  BY <1>1, MovedRow DEF Coherent, ListsCohere

\* The whole invariant, for a step whose jobs' lists stay as they are.
LEMMA TaskStep ==
    ASSUME TypeOK, Coherent, RowsMove, core' = core, UNCHANGED jobVars,
           NEW t \in Actor,
           \A u \in Actor \ {t} : task'[u] = task[u],
           task'[t] = Idle \/ (~Free(t)' /\ TaskCoherent(t)'),
           task'[t].op = "create" => task[t].op = "create" /\ task'[t].srv = task[t].srv,
           task[t].op = "create" /\ task'[t].op # "create" =>
              row'[task[t].srv].status # "requested"
    PROVE  Coherent'
<1>1. tick' = tick /\ sweep' = sweep /\ recovering' = recovering
  BY DEF jobVars
<1>2. ListsCohere'
  BY <1>1, ListsStay
<1>3. RowsCohere' /\ TasksCohere' /\ CreatesApart' /\ RequestedIsListed'
  BY <1>1, Frame
<1> QED
  BY <1>2, <1>3 DEF Coherent

\* A step that touches no row, no task and no list.
LEMMA QuietStep ==
    ASSUME Coherent, UNCHANGED <<row, core, task, jobVars>>
    PROVE  Coherent'
BY DEF Coherent, RowsCohere, TasksCohere, TaskCoherent, CreatesApart, ListsCohere,
       RequestedIsListed, Free, Exists, jobVars

\* What a busy task is about.
LEMMA BusyTask ==
    ASSUME IInv, NEW t \in Actor, task[t].pc # "idle"
    PROVE  /\ task[t] \in Tasks /\ TaskCoherent(t)
           /\ task[t].srv \in Server /\ Exists(task[t].srv)
           /\ row[task[t].srv] \in Row /\ RowCoherent(row[task[t].srv])
<1>1. TaskCoherent(t)
  BY DEF IInv, Coherent, TasksCohere, Free
<1>2. task[t].srv \in Server /\ Exists(task[t].srv)
  BY <1>1 DEF TaskCoherent
<1> QED
  BY <1>1, <1>2, ExistingRow DEF IInv, TypeOK, Coherent, RowsCohere

\* An actor with nothing to do is not creating anything.
LEMMA FreeTask ==
    ASSUME IInv, NEW t \in Actor, Free(t)
    PROVE  task[t] = Idle /\ task[t].op # "create"
BY DEF IInv, Coherent, TasksCohere, Idle

\* The kind of a task follows from where it waits.
LEMMA TaskKind ==
    ASSUME IInv, NEW t \in Actor, task[t].pc # "idle"
    PROVE  /\ task[t].pc \in {"validate", "provision", "provisioned"} =>
                 /\ t \in Request /\ task[t].op = "create"
                 /\ row[task[t].srv].status \in {"requested", "failed", "terminated"}
                 /\ task[t].pc = "provisioned" => task[t].view \in {"pending", "running"}
           /\ task[t].pc \in {"describe", "fold", "power", "release", "released"} =>
                 task[t].op # "create" /\ row[task[t].srv].handle
BY BusyTask DEF TaskCoherent

\* Rows nobody writes do not move.
LEMMA RowsRest ==
    ASSUME UNCHANGED row
    PROVE  RowsMove
BY DEF RowsMove

-----------------------------------------------------------------------------
(***************************************************************************)
(* One lemma per action: IInv is preserved.                                *)
(***************************************************************************)

\* A create inserts its row and has its request validated.
LEMMA CreateBeginStep ==
    ASSUME IInv, NEW t \in Request, NEW s \in Server, CreateBegin(t, s)
    PROVE  IInv'
<1> DEFINE doing == Doing("create", s, "validate")
<1> USE DEF CreateBegin
<1>1. t \in Actor /\ task[t] = Idle
  BY FreeTask DEF Actor
<1>2. /\ row' \in [Server -> Row \union {NoRow}] /\ row'[s] = InsertedRow
      /\ \A u \in Server \ {s} : row'[u] = row[u]
  BY InsertedRowCoheres, WriteTyped DEF IInv
<1>3. doing \in Tasks
  BY TasksTyped DEF Ops, Waits
<1>4. /\ task' \in [Actor -> Tasks] /\ task'[t] = doing
      /\ \A u \in Actor \ {t} : task'[u] = task[u]
  BY <1>1, <1>3, GoTyped DEF IInv
<1>5. TypeOK'
  BY <1>2, <1>4 DEF IInv, TypeOK, jobVars, boundVars
<1>6. \A u \in Server : Exists(u) => u # s /\ row'[u] = row[u] /\ Exists(u)'
  BY <1>2 DEF Exists
<1>7. \A u \in Actor \ {t} : ~Free(u) => TaskCoherent(u) /\ task[u].srv # s /\ TaskCoherent(u)'
  BY <1>4, <1>6 DEF IInv, Coherent, TasksCohere, TaskCoherent
<1>8. /\ doing.op = "create" /\ doing.srv = s /\ doing.pc = "validate"
      /\ InsertedRow.status = "requested"
  BY DEF Doing, Holding, InsertedRow
<1> HIDE DEF doing
<1>9. RowsCohere'
  BY <1>2, <1>6, InsertedRowCoheres DEF IInv, Coherent, RowsCohere, Exists
<1>10. TasksCohere'
  <2>1. TaskCoherent(t)'
    BY <1>2, <1>4, <1>8 DEF TaskCoherent, Exists
  <2> QED
    BY <1>4, <1>7, <1>8, <2>1 DEF IInv, Coherent, TasksCohere, Free
<1>11. CreatesApart'
  <2>1. \A u \in Actor \ {t} : task[u].op = "create" => ~Free(u)
    BY FreeTask
  <2> QED
    BY <1>4, <1>7, <1>8, <2>1 DEF IInv, Coherent, CreatesApart
<1>12. ListsCohere'
  BY <1>6 DEF IInv, TypeOK, Coherent, ListsCohere, jobVars
<1>13. RequestedIsListed'
  BY DEF RequestedIsListed, NewTurn
<1> QED
  BY <1>5, <1>9, <1>10, <1>11, <1>12, <1>13 DEF IInv, Coherent

\* A create that breaks leaves a row, and nothing else.
LEMMA CreateBreaksStep ==
    ASSUME IInv, NEW t \in Request, NEW s \in Server, CreateBreaks(t, s)
    PROVE  IInv'
<1> USE DEF CreateBreaks
<1>1. /\ row' \in [Server -> Row \union {NoRow}] /\ row'[s] = InsertedRow
      /\ \A u \in Server \ {s} : row'[u] = row[u]
  BY InsertedRowCoheres, WriteTyped DEF IInv
<1>2. TypeOK'
  BY <1>1, FaultTyped DEF IInv, TypeOK, jobVars
<1>3. \A u \in Server : Exists(u) => u # s /\ row'[u] = row[u] /\ Exists(u)'
  BY <1>1 DEF Exists
<1>4. RowsCohere'
  BY <1>1, <1>3, InsertedRowCoheres DEF IInv, Coherent, RowsCohere, Exists
<1>5. TasksCohere'
  BY <1>3 DEF IInv, Coherent, TasksCohere, TaskCoherent, Free
<1>6. CreatesApart'
  BY DEF IInv, Coherent, CreatesApart
<1>7. ListsCohere'
  BY <1>3 DEF IInv, TypeOK, Coherent, ListsCohere, jobVars
<1>8. RequestedIsListed'
  BY DEF RequestedIsListed, NewTurn
<1> QED
  BY <1>2, <1>4, <1>5, <1>6, <1>7, <1>8 DEF IInv, Coherent

\* A create's provision call goes out.
LEMMA ValidateReturnsStep ==
    ASSUME IInv, NEW t \in Request, ValidateReturns(t)
    PROVE  IInv'
<1> USE DEF ValidateReturns
<1>1. /\ t \in Actor /\ TaskCoherent(t) /\ task[t] \in Tasks /\ task[t].op = "create"
  BY BusyTask, TaskKind DEF Actor
<1>2. /\ task' \in [Actor -> Tasks]
      /\ task'[t] = [task[t] EXCEPT !.pc = "provision", !.view = "none"]
      /\ \A u \in Actor \ {t} : task'[u] = task[u]
  BY <1>1, AnswerTyped DEF IInv, Waits, Answers
<1>3. TypeOK'
  BY <1>2 DEF IInv, TypeOK, jobVars, boundVars
<1>4. /\ task'[t].op = "create" /\ task'[t].srv = task[t].srv /\ task'[t].pc = "provision"
  BY <1>1, <1>2 DEF Tasks
<1>5. TaskCoherent(t)'
  BY <1>1, <1>4 DEF TaskCoherent, Exists
<1> QED
  BY <1>1, <1>2, <1>3, <1>4, <1>5, RowsRest, TaskStep DEF IInv, Free

\* A create is refused and fails its row.
LEMMA CreateFailsStep ==
    ASSUME IInv, NEW t \in Request, CreateFails(t)
    PROVE  IInv'
<1> DEFINE s == task[t].srv
           q == TryStatus(row[s], "failed")
<1> USE DEF CreateFails
<1>1. /\ t \in Actor /\ s \in Server /\ Exists(s) /\ row[s] \in Row /\ RowCoherent(row[s])
  BY BusyTask DEF Actor
<1>2. Advances(row[s], q) /\ q.status # "requested" /\ q \in Row
  BY <1>1, TryFailedFollows DEF Advances, Follows
<1>3. WriteRow(s, q)
  OBVIOUS
<1> HIDE DEF s, q
<1>4. /\ row' \in [Server -> Row \union {NoRow}] /\ row'[s] = q /\ RowsMove
  BY <1>1, <1>2, <1>3, WriteTyped, WriteMoves DEF IInv, Follows
<1>5. /\ task' \in [Actor -> Tasks] /\ task'[t] = Idle
      /\ \A u \in Actor \ {t} : task'[u] = task[u]
  BY <1>1, FinishTyped DEF IInv
<1>6. TypeOK'
  BY <1>4, <1>5, FaultTyped DEF IInv, TypeOK, jobVars
<1> QED
  BY <1>1, <1>2, <1>4, <1>5, <1>6, TaskStep DEF IInv, Idle, s

\* A create writes the handle down and makes its row provisioning.
LEMMA CreateReturnsStep ==
    ASSUME IInv, NEW t \in Request, CreateReturns(t)
    PROVE  IInv'
<1> DEFINE s == task[t].srv
           q == CreatedRow(row[s], task[t].view)
<1> USE DEF CreateReturns
<1>1. /\ t \in Actor /\ s \in Server /\ Exists(s) /\ row[s] \in Row /\ RowCoherent(row[s])
  BY BusyTask DEF Actor
<1>2. /\ task[t].op = "create" /\ task[t].view \in {"pending", "running"}
      /\ row[s].status \in {"requested", "failed", "terminated"}
  BY <1>1, TaskKind
<1>3. /\ q \in Row /\ RowCoherent(q) /\ q.handle
      /\ q.status \in {"provisioning", "failed", "terminated"}
  BY <1>1, <1>2, CreatedRowCoheres
<1>4. WriteRow(s, q)
  OBVIOUS
<1>5. task[t].srv = s
  OBVIOUS
<1> HIDE DEF s, q
<1>6. /\ row' \in [Server -> Row \union {NoRow}] /\ row'[s] = q
      /\ \A u \in Server \ {s} : row'[u] = row[u]
  BY <1>1, <1>3, <1>4, WriteTyped DEF IInv
<1>7. /\ task' \in [Actor -> Tasks] /\ task'[t] = Idle
      /\ \A u \in Actor \ {t} : task'[u] = task[u]
  BY <1>1, FinishTyped DEF IInv
<1>8. TypeOK'
  BY <1>6, <1>7 DEF IInv, TypeOK, jobVars, boundVars
<1>9. RowsCohere'
  BY <1>3, <1>6 DEF IInv, Coherent, RowsCohere, Exists
<1>10. \A u \in Server : Exists(u) => Exists(u)' /\ (row[u].handle => row'[u].handle)
  BY <1>3, <1>6 DEF Exists, Row, Statuses
<1>11. TasksCohere'
  <2> SUFFICES ASSUME NEW u \in Actor \ {t}, ~Free(u)
               PROVE  TaskCoherent(u)'
    BY <1>7 DEF IInv, Coherent, TasksCohere, Free, Idle
  <2>1. TaskCoherent(u)
    BY DEF IInv, Coherent, TasksCohere
  <2>2. CASE task[u].op = "create"
    <3>1. task[u].srv # s
      BY <1>1, <1>2, <1>5, <2>2 DEF IInv, Coherent, CreatesApart
    <3> QED
      BY <1>6, <1>7, <1>10, <2>1, <3>1 DEF TaskCoherent, Exists
  <2>3. CASE task[u].op # "create"
    BY <1>7, <1>10, <2>1, <2>3 DEF TaskCoherent
  <2> QED
    BY <2>2, <2>3
<1>12. CreatesApart'
  BY <1>7 DEF IInv, Coherent, CreatesApart, Idle
<1>13. ListsCohere'
  BY <1>10 DEF IInv, TypeOK, Coherent, ListsCohere, jobVars
<1>14. RequestedIsListed'
  BY DEF RequestedIsListed, NewTurn
<1> QED
  BY <1>8, <1>9, <1>11, <1>12, <1>13, <1>14 DEF IInv, Coherent

\* A task that may go by the handle of the row q it is about.
Relies(doing, s, q) ==
    /\ doing \in Tasks /\ doing.op # "create" /\ doing.srv = s /\ q.handle
    /\ doing.pc \in {"describe", "fold", "power", "release", "released"}

\* The common shape of the steps that remain: one row advances, and one
\* actor goes idle or on to a call that needs the row's handle.
LEMMA MoveStep ==
    ASSUME IInv, NEW t \in Actor, NEW s \in Server, Exists(s),
           NEW q, Advances(row[s], q), WriteRow(s, q),
           NEW doing, Go(t, doing), doing = Idle \/ Relies(doing, s, q),
           task[t].op # "create",
           core' = core, UNCHANGED jobVars
    PROVE  /\ Coherent'
           /\ row' \in [Server -> Row \union {NoRow}]
           /\ task' \in [Actor -> Tasks]
<1>1. q \in Row
  BY DEF Advances
<1>2. /\ row' \in [Server -> Row \union {NoRow}] /\ row'[s] = q /\ RowsMove
  BY <1>1, WriteTyped, WriteMoves DEF IInv
<1>3. doing \in Tasks
  BY TasksTyped DEF Relies
<1>4. /\ task' \in [Actor -> Tasks] /\ task'[t] = doing
      /\ \A u \in Actor \ {t} : task'[u] = task[u]
  BY <1>3, GoTyped DEF IInv
<1>5. task'[t].op # "create"
  BY <1>4 DEF Idle, Relies
<1>6. task'[t] = Idle \/ (~Free(t)' /\ TaskCoherent(t)')
  <2>1. ASSUME Relies(doing, s, q)
        PROVE  ~Free(t)' /\ TaskCoherent(t)'
    <3>1. Exists(s)'
      BY <1>1, <1>2 DEF Exists, Row, Statuses
    <3> QED
      BY <1>2, <1>4, <2>1, <3>1 DEF Relies, Free, TaskCoherent
  <2> QED
    BY <1>4, <2>1
<1> QED
  BY <1>2, <1>4, <1>5, <1>6, TaskStep DEF IInv

\* A row that is written as it was.
LEMMA WriteSame ==
    ASSUME TypeOK, NEW s \in Server, UNCHANGED row
    PROVE  WriteRow(s, row[s])
BY DEF TypeOK, WriteRow

\* A task that finishes holds nothing.
LEMMA FinishGoes ==
    ASSUME NEW t, Finish(t)
    PROVE  Go(t, Idle)
BY DEF Finish, Go

\* One row advances, and nobody's task moves.
LEMMA RowStep ==
    ASSUME IInv, NEW s \in Server, Exists(s), NEW q, Advances(row[s], q), WriteRow(s, q),
           UNCHANGED task, core' = core, UNCHANGED jobVars
    PROVE  Coherent' /\ row' \in [Server -> Row \union {NoRow}]
<1>1. /\ row' \in [Server -> Row \union {NoRow}] /\ RowsMove
  BY WriteTyped, WriteMoves DEF IInv, Advances
<1>2. PICK t \in Actor : t = "ticker"
  BY DEF Actor, Jobs
<1>3. task'[t] = Idle \/ (~Free(t)' /\ TaskCoherent(t)')
  <2>1. CASE Free(t)
    BY <2>1, FreeTask
  <2>2. CASE ~Free(t)
    BY <1>1, <2>2, TaskStays DEF IInv, Coherent, TasksCohere, Free
  <2> QED
    BY <2>1, <2>2
<1> QED
  BY <1>1, <1>3, TaskStep DEF IInv

\* A get, a start or a stop calls the provider.
LEMMA ReadBeginStep ==
    ASSUME IInv, NEW t \in Request, NEW op \in {"get", "start", "stop"}, NEW s \in Server,
           ReadBegin(t, op, s)
    PROVE  IInv'
<1> DEFINE doing == IF op = "get" THEN Doing(op, s, "describe")
                    ELSE Holding(op, s, "describe", row[s].status)
<1> USE DEF ReadBegin
<1>1. t \in Actor /\ Exists(s) /\ row[s] \in Row /\ RowCoherent(row[s]) /\ row[s].handle
  BY ExistingRow DEF Actor, IInv, Coherent, RowsCohere, ReadsProvider
<1>2. task[t].op # "create"
  BY <1>1, FreeTask
<1>3. doing \in Tasks
  BY <1>1, TasksTyped DEF Ops, Waits, Row
<1>4. Relies(doing, s, row[s])
  BY <1>1, <1>3 DEF Relies, Doing, Holding
<1>5. Go(t, doing)
  OBVIOUS
<1>6. WriteRow(s, row[s]) /\ Follows(row[s], row[s])
  BY <1>1, WriteSame, FollowsItself DEF IInv
<1> HIDE DEF doing
<1>7. /\ Coherent' /\ row' \in [Server -> Row \union {NoRow}] /\ task' \in [Actor -> Tasks]
  BY <1>1, <1>2, <1>4, <1>5, <1>6, MoveStep DEF Follows
<1> QED
  BY <1>7 DEF IInv, TypeOK, jobVars, boundVars

\* A get, a start or a stop folds the answer into its row.
LEMMA ReadReturnsStep ==
    ASSUME IInv, NEW t \in Request, ReadReturns(t)
    PROVE  IInv'
<1> DEFINE s     == task[t].srv
           q     == SyncedRow(t)
           acts  == task[t].view # "error" /\ MayAct(task[t].op, SyncedStatus(t), task[t].view)
           doing == IF acts THEN Doing(task[t].op, s, "power") ELSE Idle
<1> USE DEF ReadReturns
<1>1. /\ t \in Actor /\ s \in Server /\ Exists(s) /\ row[s] \in Row /\ RowCoherent(row[s])
      /\ task[t] \in Tasks /\ task[t].op # "create" /\ row[s].handle
  BY BusyTask, TaskKind DEF Actor
<1>2. Follows(row[s], q)
  BY <1>1, SyncFollows DEF IInv
<1>3. WriteRow(s, q)
  OBVIOUS
<1>4. Go(t, doing)
  BY FinishGoes
<1>5. doing = Idle \/ Relies(doing, s, q)
  <2>1. task[t].op \in Ops
    BY <1>1 DEF Tasks
  <2>2. Doing(task[t].op, s, "power") \in Tasks
    BY <1>1, <2>1, TasksTyped DEF Waits
  <2> QED
    BY <1>1, <1>2, <2>2 DEF Relies, Doing, Holding, Advances, Follows
<1> HIDE DEF s, q, doing
<1>6. /\ Coherent' /\ row' \in [Server -> Row \union {NoRow}] /\ task' \in [Actor -> Tasks]
  BY <1>1, <1>2, <1>3, <1>4, <1>5, MoveStep DEF Follows
<1> QED
  BY <1>6 DEF IInv, TypeOK, jobVars, boundVars

\* A terminate calls the provider, or is over at once.
LEMMA TerminateBeginStep ==
    ASSUME IInv, NEW t \in Request, NEW s \in Server, TerminateBegin(t, s)
    PROVE  IInv'
<1> USE DEF TerminateBegin
<1>1. /\ t \in Actor /\ Exists(s) /\ row[s] \in Row /\ RowCoherent(row[s])
      /\ task[t].op # "create"
  BY ExistingRow, FreeTask DEF Actor, IInv, Coherent, RowsCohere
<1>2. CASE row[s].handle
  <2> DEFINE doing == Doing("terminate", s, "release")
  <2>1. doing \in Tasks
    BY TasksTyped DEF Ops, Waits
  <2>2. Relies(doing, s, row[s])
    BY <1>2, <2>1 DEF Relies, Doing, Holding
  <2>3. WriteRow(s, row[s]) /\ Follows(row[s], row[s])
    BY <1>1, <1>2, WriteSame, FollowsItself DEF IInv
  <2>4. Go(t, doing)
    BY <1>2
  <2> HIDE DEF doing
  <2>5. /\ Coherent' /\ row' \in [Server -> Row \union {NoRow}] /\ task' \in [Actor -> Tasks]
    BY <1>1, <2>2, <2>3, <2>4, MoveStep DEF Follows
  <2> QED
    BY <2>5 DEF IInv, TypeOK, jobVars, boundVars
<1>3. CASE ~row[s].handle
  <2>1. Follows(row[s], WithStatus(row[s], "terminated"))
    BY <1>1, TerminatedFollows
  <2>2. WriteRow(s, WithStatus(row[s], "terminated")) /\ UNCHANGED task
    BY <1>3
  <2>3. Coherent' /\ row' \in [Server -> Row \union {NoRow}]
    BY <1>1, <2>1, <2>2, RowStep DEF Follows
  <2> QED
    BY <2>2, <2>3 DEF IInv, TypeOK, jobVars, boundVars
<1> QED
  BY <1>2, <1>3

\* A terminate is answered.
LEMMA TerminateReturnsStep ==
    ASSUME IInv, NEW t \in Request, TerminateReturns(t)
    PROVE  IInv'
<1> DEFINE s == task[t].srv
           q == IF task[t].view = "ok" /\ row[s].status # "terminated"
                THEN WithStatus(row[s], "terminated") ELSE row[s]
<1> USE DEF TerminateReturns
<1>1. /\ t \in Actor /\ s \in Server /\ Exists(s) /\ row[s] \in Row /\ RowCoherent(row[s])
      /\ task[t].op # "create"
  BY BusyTask, TaskKind DEF Actor
<1>2. Follows(row[s], q)
  BY <1>1, TerminatedFollows, FollowsItself
<1>3. WriteRow(s, q)
  BY <1>1, WriteSame DEF IInv
<1>4. Go(t, Idle)
  BY FinishGoes
<1> HIDE DEF s, q
<1>5. /\ Coherent' /\ row' \in [Server -> Row \union {NoRow}] /\ task' \in [Actor -> Tasks]
  BY <1>1, <1>2, <1>3, <1>4, MoveStep DEF Follows
<1> QED
  BY <1>5 DEF IInv, TypeOK, jobVars, boundVars

\* A failed bootstrap's release is answered.
LEMMA FailReturnsStep ==
    ASSUME IInv, NEW t \in Actor, FailReturns(t)
    PROVE  IInv'
<1> DEFINE s       == task[t].srv
           outcome == IF task[t].view = "ok" THEN "terminated" ELSE "terminate-failed"
           q       == FailedRow(row[s], outcome)
<1> USE DEF FailReturns
<1>1. /\ s \in Server /\ Exists(s) /\ row[s] \in Row /\ RowCoherent(row[s])
      /\ task[t].op # "create"
  BY BusyTask, TaskKind
<1>2. Follows(row[s], q)
  BY <1>1, FailedRowFollows DEF InstanceOutcomes
<1>3. WriteRow(s, q)
  OBVIOUS
<1>4. Go(t, Idle)
  BY FinishGoes
<1> HIDE DEF s, q
<1>5. /\ Coherent' /\ row' \in [Server -> Row \union {NoRow}] /\ task' \in [Actor -> Tasks]
  BY <1>1, <1>2, <1>3, <1>4, MoveStep DEF Follows
<1> QED
  BY <1>5 DEF IInv, TypeOK, jobVars, boundVars

\* A box's report on a provisioning row.
LEMMA ProgressAdvances ==
    ASSUME NEW r \in Row, RowCoherent(r), r.status = "provisioning", NEW step \in Steps
    PROVE  Advances(r, RecordProgress(r, step))
BY ProgressCoheres DEF Advances, CanTransition, Transitions, RowCoherent

\* failBootstrap, begun by actor t for a row r that s may have advanced to.
LEMMA FailBootstrapStep ==
    ASSUME IInv, NEW t \in Actor, NEW s \in Server, Exists(s), row[s] \in Row,
           NEW r, Advances(row[s], r), NEW phase,
           FailBootstrap(t, s, r, phase), task[t].op # "create",
           core' = core, UNCHANGED jobVars
    PROVE  /\ Coherent'
           /\ row' \in [Server -> Row \union {NoRow}]
           /\ task' \in [Actor -> Tasks]
<1> DEFINE doing == Doing("fail", s, "release")
           q     == FailedRow(r, "kept")
<1>1. CASE TerminatesInstance(phase) /\ r.handle
  <2>1. doing \in Tasks
    BY TasksTyped DEF Ops, Waits
  <2>2. Relies(doing, s, r)
    BY <1>1, <2>1 DEF Relies, Doing, Holding
  <2>3. WriteRow(s, r) /\ Go(t, doing)
    BY <1>1 DEF FailBootstrap
  <2> HIDE DEF doing
  <2> QED
    BY <2>2, <2>3, MoveStep
<1>2. CASE ~(TerminatesInstance(phase) /\ r.handle)
  <2>1. WriteRow(s, q) /\ Go(t, Idle)
    BY <1>2, FinishGoes DEF FailBootstrap
  <2>2. r \in Row /\ RowCoherent(r) /\ "kept" \in InstanceOutcomes
    BY DEF Advances, InstanceOutcomes
  <2>3. Follows(r, q) /\ q.status = IF r.status = "terminated" THEN "terminated" ELSE "failed"
    BY <2>2, FailedRowFollows
  <2>4. Advances(row[s], q)
    BY <2>3, AdvanceThenFail
  <2> HIDE DEF q
  <2> QED
    BY <2>1, <2>4, MoveStep
<1> QED
  BY <1>1, <1>2

\* A box reports that its bootstrap failed.
LEMMA CallbackFailsStep ==
    ASSUME IInv, NEW t \in Request, NEW s \in Server, NEW step \in BoxSteps, NEW phase,
           CallbackFails(t, s, step, phase)
    PROVE  IInv'
<1> USE DEF CallbackFails
<1>1. /\ t \in Actor /\ Exists(s) /\ row[s] \in Row /\ RowCoherent(row[s])
      /\ task[t].op # "create"
  BY ExistingRow, FreeTask DEF Actor, IInv, Coherent, RowsCohere
<1>2. step \in Steps
  BY BoundsAssumption DEF BoundsAssumption
<1>3. Advances(row[s], RecordProgress(row[s], step))
  BY <1>1, <1>2, ProgressAdvances DEF AcceptsProgressReports
<1>4. /\ Coherent' /\ row' \in [Server -> Row \union {NoRow}] /\ task' \in [Actor -> Tasks]
  BY <1>1, <1>3, FailBootstrapStep
<1> QED
  BY <1>4 DEF IInv, TypeOK, jobVars, boundVars

\* A box reports a step.
LEMMA BoxReportsStep ==
    ASSUME IInv, NEW s \in Server, NEW step \in BoxSteps, BoxReports(s, step)
    PROVE  IInv'
<1> USE DEF BoxReports
<1>1. Exists(s) /\ row[s] \in Row /\ RowCoherent(row[s])
  BY ExistingRow DEF IInv, Coherent, RowsCohere
<1>2. step \in Steps
  BY BoundsAssumption DEF BoundsAssumption
<1>3. Advances(row[s], RecordProgress(row[s], step))
  BY <1>1, <1>2, ProgressAdvances DEF AcceptsProgressReports
<1>4. Coherent' /\ row' \in [Server -> Row \union {NoRow}]
  BY <1>1, <1>3, RowStep
<1>5. drive' \in [Server -> {"idle", "active", "tool", "other", "below"}]
  BY DEF IInv, TypeOK
<1> QED
  BY <1>4, <1>5 DEF IInv, TypeOK, jobVars, boundVars

\* A drive ends; no row is touched.
LEMMA DriveEndsStep ==
    ASSUME IInv, NEW s \in Server, NEW outcome \in {"tool", "other", "below", "idle"},
           DriveEnds(s, outcome)
    PROVE  IInv'
<1>1. Coherent'
  BY QuietStep DEF DriveEnds, IInv
<1>2. TypeOK'
  BY DEF DriveEnds, IInv, TypeOK, jobVars, boundVars
<1> QED
  BY <1>1, <1>2 DEF IInv

-----------------------------------------------------------------------------

\* A machine is made, or refused; no row is touched.
LEMMA ProvisionLandsStep ==
    ASSUME IInv, NEW t \in Actor, ProvisionLands(t)
    PROVE  IInv'
<1> USE DEF ProvisionLands
<1>1. PICK m \in {"pending", "running"} :
         /\ machine' = [machine EXCEPT ![task[t].srv] = m]
         /\ Answer(t, "provisioned", m)
  OBVIOUS
<1>2. /\ TaskCoherent(t) /\ task[t] \in Tasks /\ task[t].op = "create" /\ t \in Request
      /\ row[task[t].srv].status \in {"requested", "failed", "terminated"}
  BY BusyTask, TaskKind
<1>3. /\ task' \in [Actor -> Tasks]
      /\ task'[t] = [task[t] EXCEPT !.pc = "provisioned", !.view = m]
      /\ \A u \in Actor \ {t} : task'[u] = task[u]
  BY <1>1, AnswerTyped DEF IInv, Waits, Answers, InstanceStates
<1>4. /\ task'[t].op = "create" /\ task'[t].srv = task[t].srv
      /\ task'[t].pc = "provisioned" /\ task'[t].view \in {"pending", "running"}
  BY <1>2, <1>3 DEF Tasks
<1>5. machine' \in [Server -> Machines]
  BY <1>1 DEF IInv, TypeOK, Machines
<1>6. TypeOK'
  BY <1>3, <1>5 DEF IInv, TypeOK, jobVars, boundVars
<1>7. TaskCoherent(t)'
  BY <1>2, <1>4 DEF TaskCoherent, Exists
<1> QED
  BY <1>2, <1>3, <1>4, <1>6, <1>7, RowsRest, TaskStep DEF IInv, Free

\* A task that goes by its row's handle is answered: it still does.
LEMMA AnsweredStep ==
    ASSUME IInv, NEW t \in Actor,
           task[t].pc \in {"describe", "release"},
           NEW pc \in {"fold", "released"}, NEW view \in Answers, Answer(t, pc, view),
           UNCHANGED row, core' = core, UNCHANGED jobVars
    PROVE  Coherent' /\ task' \in [Actor -> Tasks]
<1>1. /\ TaskCoherent(t) /\ task[t] \in Tasks /\ task[t].op # "create"
      /\ row[task[t].srv].handle
  BY BusyTask, TaskKind
<1>2. /\ task' \in [Actor -> Tasks]
      /\ task'[t] = [task[t] EXCEPT !.pc = pc, !.view = view]
      /\ \A u \in Actor \ {t} : task'[u] = task[u]
  <2>1. pc \in Waits
    BY DEF Waits
  <2> QED
    BY <2>1, AnswerTyped DEF IInv
<1>3. task'[t].op = task[t].op /\ task'[t].srv = task[t].srv /\ task'[t].pc = pc
  BY <1>1, <1>2 DEF Tasks
<1>4. TaskCoherent(t)'
  BY <1>1, <1>3 DEF TaskCoherent, Exists
<1> QED
  BY <1>1, <1>2, <1>3, <1>4, RowsRest, TaskStep DEF IInv, Free

\* The provider describes a machine; no row is touched.
LEMMA DescribeLandsStep ==
    ASSUME IInv, NEW t \in Actor, DescribeLands(t)
    PROVE  IInv'
<1> USE DEF DescribeLands
<1>1. task[t].srv \in Server
  BY BusyTask
<1>2. PICK v \in Answers : Answer(t, "fold", v)
  <2>1. CASE \E v \in Views(machine[task[t].srv]) : Answer(t, "fold", v)
    <3>1. machine[task[t].srv] \in Machines
      BY <1>1 DEF IInv, TypeOK
    <3>2. Views(machine[task[t].srv]) \subseteq Answers
      BY <3>1 DEF Views, Answers, InstanceStates, Machines
    <3> QED
      BY <2>1, <3>2
  <2>2. CASE \E v \in {"error", "notfound", "unknown"} : Answer(t, "fold", v)
    BY <2>2 DEF Answers, InstanceStates
  <2> QED
    BY <2>1, <2>2
<1>3. Coherent' /\ task' \in [Actor -> Tasks]
  BY <1>2, AnsweredStep
<1>4. faults' \in 0..MaxFaults
  BY FaultTyped DEF IInv, TypeOK
<1> QED
  BY <1>3, <1>4 DEF IInv, TypeOK, jobVars

\* A machine is released, or the call is refused; no row is touched.
LEMMA ReleaseLandsStep ==
    ASSUME IInv, NEW t \in Actor, ReleaseLands(t)
    PROVE  IInv'
<1> USE DEF ReleaseLands
<1>1. task[t].srv \in Server
  BY BusyTask
<1>2. PICK v \in {"ok", "refused"} : Answer(t, "released", v)
  OBVIOUS
<1>3. Coherent' /\ task' \in [Actor -> Tasks]
  BY <1>2, AnsweredStep DEF Answers
<1>4. faults' \in 0..MaxFaults
  BY FaultTyped DEF IInv, TypeOK
<1>5. machine' \in [Server -> Machines]
  BY <1>1, MachinesTyped DEF IInv, TypeOK
<1> QED
  BY <1>3, <1>4, <1>5 DEF IInv, TypeOK, jobVars

\* A machine is started or stopped; no row is touched.
LEMMA PowerLandsStep ==
    ASSUME IInv, NEW t \in Actor, PowerLands(t)
    PROVE  IInv'
<1> DEFINE s     == task[t].srv
           doing == IF PowerEffect(task[t].op, machine[s]) # machine[s]
                    THEN Doing("get", s, "describe") ELSE Idle
<1> USE DEF PowerLands
<1>1. /\ s \in Server /\ Exists(s) /\ row[s] \in Row /\ RowCoherent(row[s])
      /\ task[t].op # "create" /\ row[s].handle
  BY BusyTask, TaskKind
<1>2. Doing("get", s, "describe") \in Tasks
  BY <1>1, TasksTyped DEF Ops, Waits
<1>3. doing = Idle \/ Relies(doing, s, row[s])
  BY <1>1, <1>2 DEF Relies, Doing, Holding
<1>4. Go(t, doing)
  BY FinishGoes
<1>5. WriteRow(s, row[s]) /\ Advances(row[s], row[s])
  BY <1>1, WriteSame, FollowsItself DEF IInv, Follows
<1>6. machine' \in [Server -> Machines]
  BY <1>1, MachinesTyped DEF IInv, TypeOK
<1> HIDE DEF s, doing
<1>7. /\ Coherent' /\ row' \in [Server -> Row \union {NoRow}] /\ task' \in [Actor -> Tasks]
  BY <1>1, <1>3, <1>4, <1>5, MoveStep
<1> QED
  BY <1>6, <1>7 DEF IInv, TypeOK, jobVars, boundVars

-----------------------------------------------------------------------------

\* A step that only changes what a job has listed.
LEMMA ListStep ==
    ASSUME Coherent, UNCHANGED <<row, core, task, recovering>>, ListsCohere'
    PROVE  Coherent'
BY DEF Coherent, RowsCohere, TasksCohere, TaskCoherent, CreatesApart,
       RequestedIsListed, Free, Exists

\* MoveStep and RowStep for a job that takes a row off its list.
LEMMA ListedMoveStep ==
    ASSUME IInv, NEW t \in Actor, NEW s \in Server, Exists(s),
           NEW q, Advances(row[s], q), WriteRow(s, q),
           \/ UNCHANGED task
           \/ \E doing : Go(t, doing) /\ (doing = Idle \/ Relies(doing, s, q)),
           task[t].op # "create", core' = core,
           tick'.todo \subseteq tick.todo, tick'.known \subseteq tick.known,
           sweep'.todo \subseteq sweep.todo, recovering' \subseteq recovering,
           recovering \ recovering' \subseteq {s}, recovering' # recovering => q.status # "requested"
    PROVE  /\ Coherent'
           /\ row' \in [Server -> Row \union {NoRow}]
           /\ task' \in [Actor -> Tasks]
<1>1. q \in Row
  BY DEF Advances
<1>2. /\ row' \in [Server -> Row \union {NoRow}] /\ row'[s] = q /\ RowsMove
  BY <1>1, WriteTyped, WriteMoves DEF IInv
<1>3. ListsCohere'
  BY <1>2, ListsStay DEF IInv
<1>4. \A u \in recovering \ recovering' : row'[u].status # "requested"
  BY <1>2
<1>5. /\ task' \in [Actor -> Tasks] /\ task'[t].op # "create"
      /\ \A u \in Actor \ {t} : task'[u] = task[u]
      /\ task'[t] = Idle \/ (~Free(t)' /\ TaskCoherent(t)')
  <2>1. CASE UNCHANGED task
    <3>1. task'[t] = Idle \/ (~Free(t)' /\ TaskCoherent(t)')
      <4>1. CASE Free(t)
        BY <2>1, <4>1, FreeTask
      <4>2. CASE ~Free(t)
        BY <1>2, <2>1, <4>2, TaskStays DEF IInv, Coherent, TasksCohere, Free
      <4> QED
        BY <4>1, <4>2
    <3> QED
      BY <2>1, <3>1 DEF IInv, TypeOK
  <2>2. CASE \E doing : Go(t, doing) /\ (doing = Idle \/ Relies(doing, s, q))
    <3>1. PICK doing : Go(t, doing) /\ (doing = Idle \/ Relies(doing, s, q))
      BY <2>2
    <3>2. doing \in Tasks
      BY <3>1, TasksTyped DEF Relies
    <3>3. /\ task' \in [Actor -> Tasks] /\ task'[t] = doing
          /\ \A u \in Actor \ {t} : task'[u] = task[u]
      BY <3>1, <3>2, GoTyped DEF IInv
    <3>4. ASSUME Relies(doing, s, q)
          PROVE  ~Free(t)' /\ TaskCoherent(t)'
      <4>1. Exists(s)'
        BY <1>1, <1>2 DEF Exists, Row, Statuses
      <4> QED
        BY <1>2, <3>3, <3>4, <4>1 DEF Relies, Free, TaskCoherent
    <3> QED
      BY <3>1, <3>3, <3>4 DEF Idle, Relies
  <2> QED
    BY <2>1, <2>2
<1> QED
  BY <1>2, <1>3, <1>4, <1>5, Frame DEF IInv, Coherent

\* The three jobs are actors beside the requests.
LEMMA JobsAreActors == "ticker" \in Actor /\ "reconciler" \in Actor /\ "recovery" \in Actor
BY DEF Actor, Jobs

\* The ticker lists the rows in flight.
LEMMA TickBeginStep ==
    ASSUME IInv, TickBegin
    PROVE  IInv'
<1> USE DEF TickBegin
<1>1. ListsCohere'
  BY DEF IInv, TypeOK, Coherent, ListsCohere, Exists
<1>2. Coherent'
  BY <1>1, ListStep DEF IInv
<1>3. TypeOK'
  BY DEF IInv, TypeOK, boundVars
<1> QED
  BY <1>2, <1>3 DEF IInv

\* The ticker takes the next row of its list.
LEMMA TickNextStep ==
    ASSUME IInv, NEW s \in Server, TickNext(s)
    PROVE  IInv'
<1> DEFINE t == "ticker"
<1> USE DEF TickNext
<1>1. /\ t \in Actor /\ task[t].op # "create" /\ Exists(s)
      /\ row[s] \in Row /\ RowCoherent(row[s])
  BY JobsAreActors, FreeTask, ExistingRow DEF IInv, Coherent, ListsCohere, RowsCohere
<1>2. /\ tick' \in [todo : SUBSET Server, stuck : SUBSET Server, known : SUBSET Server]
      /\ tick'.todo \subseteq tick.todo /\ tick'.known \subseteq tick.known
  BY DEF IInv, TypeOK, NoTick
<1>3. CASE s \in tick.known
  <2> DEFINE doing == IF s \in tick.stuck THEN Doing("stuck", s, "release")
                      ELSE Holding("tick", s, "describe", "provisioning")
  <2>1. Doing("stuck", s, "release") \in Tasks
    BY TasksTyped DEF Ops, Waits
  <2>2. Holding("tick", s, "describe", "provisioning") \in Tasks
    BY TasksTyped DEF Ops, Waits, Statuses
  <2>3. row[s].handle
    BY <1>3 DEF IInv, Coherent, ListsCohere
  <2>4. Relies(doing, s, row[s])
    BY <2>1, <2>2, <2>3 DEF Relies, Doing, Holding
  <2>5. Go(t, doing) /\ UNCHANGED row
    BY <1>3
  <2>6. WriteRow(s, row[s]) /\ Advances(row[s], row[s])
    BY <1>1, <2>5, WriteSame, FollowsItself DEF IInv, Follows
  <2> HIDE DEF doing
  <2>7. /\ Coherent' /\ row' \in [Server -> Row \union {NoRow}] /\ task' \in [Actor -> Tasks]
    BY <1>1, <1>2, <2>4, <2>5, <2>6, ListedMoveStep
  <2> QED
    BY <1>2, <2>7 DEF IInv, TypeOK, boundVars
<1>4. CASE s \notin tick.known
  <2> DEFINE q == IF s \in tick.stuck THEN TryStatus(row[s], "failed") ELSE row[s]
  <2>1. Advances(row[s], q)
    BY <1>1, TryFailedFollows, FollowsItself DEF Follows
  <2>2. WriteRow(s, q) /\ UNCHANGED task
    BY <1>4
  <2> HIDE DEF q
  <2>3. /\ Coherent' /\ row' \in [Server -> Row \union {NoRow}] /\ task' \in [Actor -> Tasks]
    BY <1>1, <1>2, <2>1, <2>2, ListedMoveStep
  <2> QED
    BY <1>2, <2>3 DEF IInv, TypeOK, boundVars
<1> QED
  BY <1>3, <1>4

\* The ticker's release of a stuck row is answered.
LEMMA StuckReturnsStep ==
    ASSUME IInv, StuckReturns
    PROVE  IInv'
<1> DEFINE t == "ticker"
           s == task[t].srv
           q == TryStatus(row[s], "failed")
<1> USE DEF StuckReturns
<1>1. /\ t \in Actor /\ s \in Server /\ Exists(s) /\ row[s] \in Row /\ RowCoherent(row[s])
      /\ task[t].op # "create"
  BY JobsAreActors, BusyTask
<1>2. Advances(row[s], q)
  BY <1>1, TryFailedFollows DEF Follows
<1>3. WriteRow(s, q) /\ Go(t, Idle)
  BY FinishGoes
<1> HIDE DEF s, q, t
<1>4. /\ Coherent' /\ row' \in [Server -> Row \union {NoRow}] /\ task' \in [Actor -> Tasks]
  BY <1>1, <1>2, <1>3, MoveStep
<1> QED
  BY <1>4 DEF IInv, TypeOK, jobVars, boundVars

\* The ticker's sync is answered and the drive is polled.
LEMMA TickReturnsStep ==
    ASSUME IInv, TickReturns
    PROVE  IInv'
<1> DEFINE t == "ticker"
           s == task[t].srv
           r == SyncedRow(t)
           Drives == {"idle", "active", "tool", "other", "below"}
<1> USE DEF TickReturns
<1>1. /\ t \in Actor /\ s \in Server /\ Exists(s) /\ row[s] \in Row /\ RowCoherent(row[s])
      /\ task[t].op # "create" /\ row[s].handle
  BY JobsAreActors, BusyTask, TaskKind
<1>2. Follows(row[s], r)
  BY <1>1, SyncFollows DEF IInv
<1>3. r \in Row /\ RowCoherent(r) /\ Advances(row[s], r)
  BY <1>2 DEF Advances, Follows
<1>4. core' = core /\ UNCHANGED jobVars
  OBVIOUS
<1>5. /\ Coherent' /\ row' \in [Server -> Row \union {NoRow}] /\ task' \in [Actor -> Tasks]
  <2>1. ASSUME WriteRow(s, r), Finish(t)
        PROVE  /\ Coherent' /\ row' \in [Server -> Row \union {NoRow}] /\ task' \in [Actor -> Tasks]
    <3>1. Go(t, Idle)
      BY <2>1, FinishGoes
    <3> HIDE DEF s, r, t
    <3> QED
      BY <1>1, <1>3, <1>4, <2>1, <3>1, MoveStep
  <2>2. ASSUME WriteRow(s, TryStatus(r, "failed")), Finish(t)
        PROVE  /\ Coherent' /\ row' \in [Server -> Row \union {NoRow}] /\ task' \in [Actor -> Tasks]
    <3>1. Go(t, Idle)
      BY <2>2, FinishGoes
    <3> HIDE DEF s, r, t
    <3>2. Advances(row[s], TryStatus(r, "failed"))
      BY <1>1, <1>3, TryFailedFollows, AdvanceThenFail
    <3> QED
      BY <1>1, <1>4, <2>2, <3>1, <3>2, MoveStep
  <2>3. ASSUME NEW phase, FailBootstrap(t, s, r, phase)
        PROVE  /\ Coherent' /\ row' \in [Server -> Row \union {NoRow}] /\ task' \in [Actor -> Tasks]
    <3> HIDE DEF s, r, t
    <3> QED
      BY <1>1, <1>3, <1>4, <2>3, FailBootstrapStep
  <2>4. \/ WriteRow(s, r) /\ Finish(t)
        \/ WriteRow(s, TryStatus(r, "failed")) /\ Finish(t)
        \/ FailBootstrap(t, s, r, drive[s])
    BY DEF Poll
  <2> QED
    BY <2>1, <2>2, <2>3, <2>4
<1>6. drive' \in [Server -> Drives]
  BY <1>1 DEF Poll, IInv, TypeOK
<1> QED
  BY <1>4, <1>5, <1>6 DEF IInv, TypeOK, jobVars, boundVars

\* The reconciler lists the live rows.
LEMMA SweepBeginStep ==
    ASSUME IInv, SweepBegin
    PROVE  IInv'
<1> USE DEF SweepBegin
<1>1. ListsCohere'
  BY DEF IInv, TypeOK, Coherent, ListsCohere, Exists, ReadsProvider
<1>2. Coherent'
  BY <1>1, ListStep DEF IInv
<1>3. TypeOK'
  BY DEF IInv, TypeOK, boundVars
<1> QED
  BY <1>2, <1>3 DEF IInv

\* The reconciler is told what the provider manages.
LEMMA SweepListsStep ==
    ASSUME IInv, SweepLists
    PROVE  IInv'
<1> USE DEF SweepLists
<1>1. /\ sweep' \in [phase : {"idle", "list", "walk"}, live : SUBSET Server,
                     todo : SUBSET Server]
      /\ sweep'.todo = sweep.todo
  BY DEF IInv, TypeOK
<1>2. ListsCohere'
  BY <1>1 DEF IInv, TypeOK, Coherent, ListsCohere, Exists
<1>3. Coherent'
  BY <1>2, ListStep DEF IInv
<1>4. faults' \in 0..MaxFaults /\ flagged' \in SUBSET Server
  BY FaultTyped DEF IInv, TypeOK
<1> QED
  BY <1>1, <1>3, <1>4 DEF IInv, TypeOK

\* The reconciler takes the next row of its list.
LEMMA SweepNextStep ==
    ASSUME IInv, NEW s \in Server, SweepNext(s)
    PROVE  IInv'
<1> DEFINE t     == "reconciler"
           doing == Doing("sweep", s, "describe")
<1> USE DEF SweepNext
<1>1. /\ t \in Actor /\ task[t].op # "create" /\ Exists(s) /\ row[s].handle
      /\ row[s] \in Row /\ RowCoherent(row[s])
  BY JobsAreActors, FreeTask, ExistingRow DEF IInv, Coherent, ListsCohere, RowsCohere
<1>2. /\ sweep' \in [phase : {"idle", "list", "walk"}, live : SUBSET Server,
                     todo : SUBSET Server]
      /\ sweep'.todo \subseteq sweep.todo
  BY DEF IInv, TypeOK
<1>3. doing \in Tasks
  BY TasksTyped DEF Ops, Waits
<1>4. Relies(doing, s, row[s]) /\ Go(t, doing)
  BY <1>1, <1>3 DEF Relies, Doing, Holding
<1>5. WriteRow(s, row[s]) /\ Advances(row[s], row[s])
  BY <1>1, WriteSame, FollowsItself DEF IInv, Follows
<1> HIDE DEF doing
<1>6. /\ Coherent' /\ row' \in [Server -> Row \union {NoRow}] /\ task' \in [Actor -> Tasks]
  BY <1>1, <1>2, <1>4, <1>5, ListedMoveStep
<1> QED
  BY <1>2, <1>6 DEF IInv, TypeOK, boundVars

\* The reconciler's sync is answered.
LEMMA SweepReturnsStep ==
    ASSUME IInv, SweepReturns
    PROVE  IInv'
<1> DEFINE t == "reconciler"
           s == task[t].srv
           q == SyncedRow(t)
<1> USE DEF SweepReturns
<1>1. /\ t \in Actor /\ s \in Server /\ Exists(s) /\ row[s] \in Row /\ RowCoherent(row[s])
      /\ task[t].op # "create" /\ row[s].handle
  BY JobsAreActors, BusyTask, TaskKind
<1>2. Advances(row[s], q)
  BY <1>1, SyncFollows DEF IInv, Follows
<1>3. WriteRow(s, q) /\ Go(t, Idle)
  BY FinishGoes
<1> HIDE DEF s, q, t
<1>4. /\ Coherent' /\ row' \in [Server -> Row \union {NoRow}] /\ task' \in [Actor -> Tasks]
  BY <1>1, <1>2, <1>3, MoveStep
<1> QED
  BY <1>4 DEF IInv, TypeOK, jobVars, boundVars

\* The reconciler's tick is over.
LEMMA SweepEndsStep ==
    ASSUME IInv, SweepEnds
    PROVE  IInv'
<1> USE DEF SweepEnds
<1>1. ListsCohere'
  BY DEF IInv, TypeOK, Coherent, ListsCohere, Exists, NoSweep
<1>2. Coherent'
  BY <1>1, ListStep DEF IInv
<1>3. TypeOK'
  BY DEF IInv, TypeOK, boundVars, NoSweep
<1> QED
  BY <1>2, <1>3 DEF IInv

-----------------------------------------------------------------------------

\* Memory goes, and with it every task: what is left of the invariant is what
\* the rows say by themselves.
LEMMA CrashStep ==
    ASSUME IInv, Crash
    PROVE  IInv'
<1> USE DEF Crash
<1>1. \A t \in Actor : task'[t] = Idle
  OBVIOUS
<1>2. TypeOK'
  <2>1. task' \in [Actor -> Tasks]
    BY TasksTyped
  <2>2. wire' \in SUBSET (Calls \X Server)
    <3>1. \A t \in Actor : task[t].pc \in {"provision", "power", "release"} =>
             <<SentCall(t), task[t].srv>> \in Calls \X Server
      BY BusyTask DEF SentCall, Calls
    <3> QED
      BY <3>1 DEF IInv, TypeOK
  <2>3. crashes' \in 0..MaxCrashes
    BY BoundsAssumption DEF IInv, TypeOK, BoundsAssumption
  <2> QED
    BY <2>1, <2>2, <2>3 DEF IInv, TypeOK, NoTick, NoSweep
<1>3. RowsCohere'
  BY DEF IInv, Coherent, RowsCohere, Exists
<1>4. TasksCohere' /\ CreatesApart'
  BY <1>1 DEF TasksCohere, CreatesApart, Free, Idle
<1>5. ListsCohere' /\ RequestedIsListed'
  BY DEF ListsCohere, RequestedIsListed, NoTick, NoSweep
<1> QED
  BY <1>2, <1>3, <1>4, <1>5 DEF IInv, Coherent

\* Core starts and lists the rows in flight.
LEMMA BootStep ==
    ASSUME IInv, Boot
    PROVE  IInv'
<1> USE DEF Boot
<1>1. RowsCohere' /\ TasksCohere' /\ CreatesApart'
  BY DEF IInv, Coherent, RowsCohere, TasksCohere, TaskCoherent, CreatesApart, Free, Exists
<1>2. ListsCohere' /\ RequestedIsListed'
  BY DEF IInv, TypeOK, Coherent, ListsCohere, RequestedIsListed, Exists, NeedsRecovery
<1>3. TypeOK'
  BY DEF IInv, TypeOK, boundVars
<1> QED
  BY <1>1, <1>2, <1>3 DEF IInv, Coherent

\* Recovery takes the next row of its list.
LEMMA RecoverNextStep ==
    ASSUME IInv, NEW s \in Server, RecoverNext(s)
    PROVE  IInv'
<1> DEFINE t == "recovery"
<1> USE DEF RecoverNext
<1>1. /\ t \in Actor /\ task[t].op # "create" /\ Exists(s)
      /\ row[s] \in Row /\ RowCoherent(row[s])
  BY JobsAreActors, FreeTask, ExistingRow DEF IInv, Coherent, ListsCohere, RowsCohere
<1>2. CASE row[s].handle
  <2> DEFINE doing == Doing("recover", s, "describe")
  <2>1. doing \in Tasks
    BY TasksTyped DEF Ops, Waits
  <2>2. Relies(doing, s, row[s]) /\ Go(t, doing)
    BY <1>2, <2>1 DEF Relies, Doing, Holding
  <2>3. WriteRow(s, row[s]) /\ Advances(row[s], row[s])
    BY <1>1, <1>2, WriteSame, FollowsItself DEF IInv, Follows
  <2>4. row[s].status # "requested"
    BY <1>1, <1>2 DEF RowCoherent
  <2> HIDE DEF doing
  <2>5. /\ Coherent' /\ row' \in [Server -> Row \union {NoRow}] /\ task' \in [Actor -> Tasks]
    BY <1>1, <2>2, <2>3, <2>4, ListedMoveStep
  <2> QED
    BY <2>5 DEF IInv, TypeOK, boundVars
<1>3. CASE ~row[s].handle
  <2> DEFINE q == TryStatus(row[s], "failed")
  <2>1. Advances(row[s], q) /\ q.status # "requested"
    BY <1>1, TryFailedFollows DEF Follows
  <2>2. WriteRow(s, q) /\ UNCHANGED task
    BY <1>3
  <2> HIDE DEF q
  <2>3. /\ Coherent' /\ row' \in [Server -> Row \union {NoRow}] /\ task' \in [Actor -> Tasks]
    BY <1>1, <2>1, <2>2, ListedMoveStep
  <2> QED
    BY <2>3 DEF IInv, TypeOK, boundVars
<1> QED
  BY <1>2, <1>3

\* Recovery's sync is answered.
LEMMA RecoverReturnsStep ==
    ASSUME IInv, RecoverReturns
    PROVE  IInv'
<1> DEFINE t == "recovery"
           s == task[t].srv
           q == IF task[t].view = "error" THEN TryStatus(row[s], "failed") ELSE SyncedRow(t)
<1> USE DEF RecoverReturns
<1>1. /\ t \in Actor /\ s \in Server /\ Exists(s) /\ row[s] \in Row /\ RowCoherent(row[s])
      /\ task[t].op # "create" /\ row[s].handle
  BY JobsAreActors, BusyTask, TaskKind
<1>2. Advances(row[s], q)
  BY <1>1, TryFailedFollows, SyncFollows DEF IInv, Follows
<1>3. WriteRow(s, q) /\ Go(t, Idle)
  BY FinishGoes
<1> HIDE DEF s, q, t
<1>4. /\ Coherent' /\ row' \in [Server -> Row \union {NoRow}] /\ task' \in [Actor -> Tasks]
  BY <1>1, <1>2, <1>3, MoveStep
<1> QED
  BY <1>4 DEF IInv, TypeOK, jobVars, boundVars

\* Recovery is over and core serves.
LEMMA ServeStep ==
    ASSUME IInv, Serve
    PROVE  IInv'
<1> USE DEF Serve
<1>1. RowsCohere' /\ TasksCohere' /\ CreatesApart' /\ ListsCohere'
  BY DEF IInv, Coherent, RowsCohere, TasksCohere, TaskCoherent, CreatesApart,
         ListsCohere, Free, Exists, jobVars
<1>2. RequestedIsListed'
  BY DEF IInv, Coherent, RequestedIsListed
<1>3. TypeOK'
  BY DEF IInv, TypeOK, jobVars, boundVars
<1> QED
  BY <1>1, <1>2, <1>3 DEF IInv, Coherent

-----------------------------------------------------------------------------

\* A row passes its timeout; it is not written.
LEMMA ExpireStep ==
    ASSUME IInv, NEW s \in Server, Expire(s)
    PROVE  IInv'
<1>1. Coherent'
  BY QuietStep DEF Expire, IInv
<1>2. TypeOK'
  BY DEF Expire, IInv, TypeOK, jobVars, boundVars
<1> QED
  BY <1>1, <1>2 DEF IInv

\* What happens in the cloud reaches no row.
LEMMA CloudSteps ==
    ASSUME IInv, NEW s \in Server, CloudStep(s)
    PROVE  IInv'
<1>1. Coherent'
  BY QuietStep DEF CloudStep, MachineSettles, Mishap, WireLands, IInv
<1>2. machine[s] \in Machines
  BY DEF IInv, TypeOK
<1>3. CASE MachineSettles(s)
  <2>1. machine' \in [Server -> Machines]
    BY <1>2, <1>3, MachinesTyped DEF MachineSettles, IInv, TypeOK
  <2> QED
    BY <1>1, <1>3, <2>1 DEF MachineSettles, IInv, TypeOK, jobVars, boundVars
<1>4. ASSUME NEW kind \in Mishaps, Mishap(s, kind)
      PROVE  IInv'
  <2>1. machine' \in [Server -> Machines]
    BY <1>4 DEF Mishap, IInv, TypeOK, Machines
  <2> QED
    BY <1>1, <1>4, <2>1 DEF Mishap, IInv, TypeOK, jobVars, boundVars
<1>5. ASSUME NEW call \in Calls, WireLands(call, s)
      PROVE  IInv'
  <2> DEFINE m == CASE call = "create"    -> IF machine[s] = "none" THEN "pending" ELSE machine[s]
                    [] call = "terminate" -> Released(machine[s])
                    [] OTHER              -> PowerEffect(call, machine[s])
  <2>1. m \in Machines
    BY <1>2, MachinesTyped DEF Machines
  <2>2. machine' \in {machine, [machine EXCEPT ![s] = m]}
    BY <1>5 DEF WireLands
  <2> HIDE DEF m
  <2>3. machine' \in [Server -> Machines]
    BY <2>1, <2>2 DEF IInv, TypeOK
  <2> QED
    BY <1>1, <1>5, <2>3 DEF WireLands, IInv, TypeOK, jobVars, boundVars
<1> QED
  BY <1>3, <1>4, <1>5 DEF CloudStep

-----------------------------------------------------------------------------
(***************************************************************************)
(* The invariant, and what follows from it.                                *)
(***************************************************************************)

\* The invariant holds of an empty table.
LEMMA Initially == Init => IInv
<1> SUFFICES ASSUME Init PROVE IInv
  OBVIOUS
<1>1. TypeOK
  BY TasksTyped, BoundsAssumption
  DEF Init, TypeOK, NoRow, NoTick, NoSweep, Machines, BoundsAssumption
<1>2. Coherent
  BY DEF Init, Coherent, RowsCohere, TasksCohere, CreatesApart, ListsCohere,
         RequestedIsListed, Exists, Free, Idle, NoRow, NoTick, NoSweep
<1> QED
  BY <1>1, <1>2 DEF IInv

\* Every step preserves the invariant.
LEMMA Inductive == IInv /\ [Next]_vars => IInv'
<1> SUFFICES ASSUME IInv, [Next]_vars PROVE IInv'
  OBVIOUS
<1>1. ASSUME NEW t \in Request, RequestStep(t)
      PROVE  IInv'
  BY <1>1, CreateBeginStep, CreateBreaksStep, TerminateBeginStep, ReadBeginStep, CallbackFailsStep,
     ValidateReturnsStep, CreateFailsStep, CreateReturnsStep, ReadReturnsStep,
     TerminateReturnsStep
  DEF RequestStep
<1>2. ASSUME NEW t \in Actor, ProviderStep(t) \/ FailReturns(t)
      PROVE  IInv'
  BY <1>2, ProvisionLandsStep, DescribeLandsStep, PowerLandsStep, ReleaseLandsStep,
     FailReturnsStep
  DEF ProviderStep
<1>3. CASE TickerStep
  BY <1>3, TickBeginStep, TickNextStep, TickReturnsStep, StuckReturnsStep DEF TickerStep
<1>4. CASE ReconcilerStep
  BY <1>4, SweepBeginStep, SweepListsStep, SweepNextStep, SweepReturnsStep, SweepEndsStep
  DEF ReconcilerStep
<1>5. CASE RecoveryStep
  BY <1>5, BootStep, RecoverNextStep, RecoverReturnsStep, ServeStep DEF RecoveryStep
<1>6. ASSUME NEW s \in Server, BoxStep(s) \/ CloudStep(s) \/ Expire(s)
      PROVE  IInv'
  BY <1>6, BoxReportsStep, DriveEndsStep, CloudSteps, ExpireStep DEF BoxStep
<1>7. CASE Crash
  BY <1>7, CrashStep
<1>8. CASE UNCHANGED vars
  <2>1. Coherent'
    BY <1>8, QuietStep DEF vars, IInv, jobVars
  <2> QED
    BY <1>8, <2>1 DEF vars, IInv, TypeOK
<1> QED
  BY <1>1, <1>2, <1>3, <1>4, <1>5, <1>6, <1>7, <1>8 DEF Next

\* The inductive invariant holds of every behaviour.
THEOREM Invariance == Spec => []IInv
BY Initially, Inductive, PTL DEF Spec

\* Every variable keeps its type, for any servers, requests and bounds.
THEOREM TypeCorrect == Spec => []TypeOK
<1>1. IInv => TypeOK
  BY DEF IInv
<1> QED
  BY <1>1, Invariance, PTL

\* Rows, tasks and the jobs' lists agree at every moment.
THEOREM AlwaysCoherent == Spec => []Coherent
<1>1. IInv => Coherent
  BY DEF IInv
<1> QED
  BY <1>1, Invariance, PTL

\* A row shows `running` only after its own bootstrap reported `ready`, whatever
\* the provider says and however requests, jobs and crashes interleave.
THEOREM NothingElsePromotes == Spec => []OnlyReadyRuns
<1>1. IInv => OnlyReadyRuns
  BY DEF IInv, Coherent, RowsCohere, RowCoherent, OnlyReadyRuns
<1> QED
  BY <1>1, Invariance, PTL

-----------------------------------------------------------------------------
(***************************************************************************)
(* The promise.                                                            *)
(***************************************************************************)

\* What the promise allows a row: a move of the table that makes it no more
\* usable than it was, or its own bootstrap's `ready`.
Promised(r, q) ==
    /\ q \in Row /\ RowCoherent(q)
    /\ \/ /\ q.status = r.status \/ CanTransition(r.status, q.status)
          /\ q.step = "ready" <=> r.step = "ready"
       \/ /\ r.status = "provisioning" /\ q.status \in {"running", "failed"}
          /\ q.step = "ready"

RowMoves(s) ==
    /\ Exists(s) /\ row[s] \in Row
    /\ \A u \in Server \ {s} : row'[u] = row[u]
    /\ Promised(row[s], row'[s])

\* One row at most moves, and only as promised.
OneRowMoves == UNCHANGED row \/ \E s \in Server : RowMoves(s)

FailedStays ==
    \A s \in Server : Exists(s) /\ row[s].status = "failed" => row'[s].status = "failed"

-----------------------------------------------------------------------------
(***************************************************************************)
(* Rows.                                                                   *)
(***************************************************************************)

\* What follows a row is promised of it.
LEMMA FollowsPromised ==
    ASSUME NEW r, NEW q, Follows(r, q)
    PROVE  Promised(r, q)
BY DEF Follows, Advances, Promised

\* A box's report: the step moves on, and `ready` is the promotion.
LEMMA ProgressPromised ==
    ASSUME NEW r \in Row, RowCoherent(r), r.status = "provisioning", NEW step \in Steps
    PROVE  Promised(r, RecordProgress(r, step)) /\ Advances(r, RecordProgress(r, step))
<1>1. r.step # "ready"
  BY DEF RowCoherent
<1> QED
  BY <1>1, ProgressCoheres, ProgressAdvances DEF Promised

\* A promised move, and then a failure, is a promised move.
LEMMA PromisedThenFails ==
    ASSUME NEW r \in Row, RowCoherent(r), NEW m, Promised(r, m), Advances(r, m), NEW q, Follows(m, q),
           q.status = IF m.status = "terminated" THEN "terminated" ELSE "failed"
    PROVE  Promised(r, q)
<1>1. Advances(r, q)
  BY AdvanceThenFail
<1>2. q.step = "ready" <=> m.step = "ready"
  BY DEF Follows
<1>3. CASE m.step = "ready" <=> r.step = "ready"
  BY <1>1, <1>2, <1>3 DEF Promised, Advances
<1>4. CASE r.status = "provisioning" /\ m.status \in {"running", "failed"} /\ m.step = "ready"
  BY <1>1, <1>2, <1>4 DEF Promised, Advances
<1> QED
  BY <1>3, <1>4 DEF Promised

\* One row is written as promised.
LEMMA WritePromised ==
    ASSUME IInv, NEW s \in Server, Exists(s), NEW q, Promised(row[s], q), WriteRow(s, q)
    PROVE  OneRowMoves /\ (StaysFailed(row[s], q) => FailedStays)
<1>1. row[s] \in Row /\ q \in Row
  BY ExistingRow DEF IInv, Promised
<1>2. row'[s] = q /\ \A u \in Server \ {s} : row'[u] = row[u]
  BY <1>1, WriteTyped DEF IInv
<1>3. OneRowMoves
  BY <1>1, <1>2 DEF OneRowMoves, RowMoves
<1>4. StaysFailed(row[s], q) => FailedStays
  BY <1>2 DEF FailedStays, StaysFailed
<1> QED
  BY <1>3, <1>4

\* No row is written.
LEMMA NothingWritten ==
    ASSUME UNCHANGED row
    PROVE  OneRowMoves /\ FailedStays
BY DEF OneRowMoves, FailedStays

-----------------------------------------------------------------------------
(***************************************************************************)
(* One lemma per action that writes a row.                                 *)
(***************************************************************************)

\* A create fails before its machine was made: its row is failed, if it still
\* can be.
LEMMA CreateFailsKeeps ==
    ASSUME IInv, NEW t \in Request, CreateFails(t)
    PROVE  OneRowMoves /\ FailedStays
<1> DEFINE s == task[t].srv
           q == TryStatus(row[s], "failed")
<1>1. s \in Server /\ Exists(s) /\ row[s] \in Row /\ RowCoherent(row[s])
  BY BusyTask DEF CreateFails, Actor
<1>2. Promised(row[s], q) /\ StaysFailed(row[s], q)
  BY <1>1, TryFailedFollows, FollowsPromised
<1>3. WriteRow(s, q)
  BY DEF CreateFails
<1> HIDE DEF s, q
<1> QED
  BY <1>1, <1>2, <1>3, WritePromised

\* A create's last write leads from `requested` to `provisioning`, or leaves the
\* status alone.
LEMMA CreateReturnsKeeps ==
    ASSUME IInv, NEW t \in Request, CreateReturns(t)
    PROVE  OneRowMoves /\ FailedStays
<1> DEFINE s == task[t].srv
           q == CreatedRow(row[s], task[t].view)
<1>1. /\ t \in Actor /\ s \in Server /\ Exists(s) /\ row[s] \in Row /\ RowCoherent(row[s])
      /\ task[t].view \in {"pending", "running"}
      /\ row[s].status \in {"requested", "failed", "terminated"}
  BY BusyTask, TaskKind DEF CreateReturns, Actor
<1>2. /\ q \in Row /\ RowCoherent(q)
      /\ q.status = IF row[s].status = "requested" THEN "provisioning" ELSE row[s].status
      /\ q.step = row[s].step \/ (row[s].step # "ready" /\ q.step # "ready")
  BY <1>1, CreatedRowCoheres
<1>3. WriteRow(s, q)
  BY DEF CreateReturns
<1> HIDE DEF s, q
<1>4. Promised(row[s], q) /\ StaysFailed(row[s], q)
  BY <1>1, <1>2 DEF Promised, StaysFailed, CanTransition, Transitions
<1> QED
  BY <1>1, <1>3, <1>4, WritePromised

\* Any task's fold of what a provider said.
LEMMA FoldKeeps ==
    ASSUME IInv, NEW t \in Actor, task[t].pc = "fold",
           WriteRow(task[t].srv, SyncedRow(t))
    PROVE  OneRowMoves /\ FailedStays
<1> DEFINE s == task[t].srv
<1>1. /\ s \in Server /\ Exists(s) /\ row[s] \in Row /\ RowCoherent(row[s])
      /\ row[s].handle
  BY BusyTask, TaskKind
<1>2. Promised(row[s], SyncedRow(t)) /\ StaysFailed(row[s], SyncedRow(t))
  BY <1>1, SyncFollows, FollowsPromised DEF IInv
<1> QED
  BY <1>1, <1>2, WritePromised

\* A terminate without a machine to release.
LEMMA TerminateBeginKeeps ==
    ASSUME IInv, NEW t \in Request, NEW s \in Server, TerminateBegin(t, s)
    PROVE  OneRowMoves
<1>1. Exists(s) /\ row[s] \in Row /\ RowCoherent(row[s]) /\ row[s].status # "terminated"
  BY ExistingRow DEF TerminateBegin, IInv, Coherent, RowsCohere
<1>2. CASE UNCHANGED row
  BY <1>2, NothingWritten
<1>3. CASE WriteRow(s, WithStatus(row[s], "terminated"))
  BY <1>1, <1>3, TerminatedFollows, FollowsPromised, WritePromised
<1> QED
  BY <1>2, <1>3 DEF TerminateBegin

\* A terminate whose release has been answered.
LEMMA TerminateReturnsKeeps ==
    ASSUME IInv, NEW t \in Request, TerminateReturns(t)
    PROVE  OneRowMoves
<1> DEFINE s == task[t].srv
<1>1. s \in Server /\ Exists(s) /\ row[s] \in Row /\ RowCoherent(row[s])
  BY BusyTask DEF TerminateReturns, Actor
<1>2. CASE UNCHANGED row
  BY <1>2, NothingWritten
<1>3. CASE row[s].status # "terminated" /\ WriteRow(s, WithStatus(row[s], "terminated"))
  BY <1>1, <1>3, TerminatedFollows, FollowsPromised, WritePromised
<1> QED
  BY <1>2, <1>3 DEF TerminateReturns

\* A failure whose release has been answered.
LEMMA FailReturnsKeeps ==
    ASSUME IInv, NEW t \in Actor, FailReturns(t)
    PROVE  OneRowMoves /\ FailedStays
<1> DEFINE s       == task[t].srv
           outcome == IF task[t].view = "ok" THEN "terminated" ELSE "terminate-failed"
           q       == FailedRow(row[s], outcome)
<1>1. s \in Server /\ Exists(s) /\ row[s] \in Row /\ RowCoherent(row[s])
  BY BusyTask DEF FailReturns
<1>2. Promised(row[s], q) /\ StaysFailed(row[s], q)
  BY <1>1, FailedRowFollows, FollowsPromised DEF InstanceOutcomes
<1>3. WriteRow(s, q)
  BY DEF FailReturns
<1> HIDE DEF s, q
<1> QED
  BY <1>1, <1>2, <1>3, WritePromised

\* failBootstrap as it begins, for a row r that s has moved to as promised.
LEMMA FailBootstrapKeeps ==
    ASSUME IInv, NEW t, NEW s \in Server, Exists(s), NEW r,
           Promised(row[s], r), Advances(row[s], r), StaysFailed(row[s], r),
           NEW phase, FailBootstrap(t, s, r, phase)
    PROVE  OneRowMoves /\ FailedStays
<1> DEFINE q == FailedRow(r, "kept")
<1>1. r \in Row /\ RowCoherent(r) /\ "kept" \in InstanceOutcomes
  BY DEF Advances, InstanceOutcomes
<1>2. /\ Follows(r, q) /\ StaysFailed(r, q)
      /\ q.status = IF r.status = "terminated" THEN "terminated" ELSE "failed"
  BY <1>1, FailedRowFollows
<1>3. row[s] \in Row /\ RowCoherent(row[s])
  BY ExistingRow DEF IInv, Coherent, RowsCohere
<1>4. WriteRow(s, r) \/ WriteRow(s, q)
  BY DEF FailBootstrap
<1> HIDE DEF q
<1>5. Promised(row[s], q) /\ StaysFailed(row[s], q)
  BY <1>2, <1>3, PromisedThenFails DEF StaysFailed
<1> QED
  BY <1>4, <1>5, WritePromised

\* A box calls back that its plan failed.
LEMMA CallbackFailsKeeps ==
    ASSUME IInv, NEW t \in Request, NEW s \in Server, NEW step \in BoxSteps, NEW phase,
           CallbackFails(t, s, step, phase)
    PROVE  OneRowMoves /\ FailedStays
<1> DEFINE r == RecordProgress(row[s], step)
<1>1. /\ Exists(s) /\ row[s] \in Row /\ RowCoherent(row[s])
      /\ row[s].status = "provisioning"
  BY ExistingRow DEF CallbackFails, AcceptsProgressReports, IInv, Coherent, RowsCohere
<1>2. step \in Steps
  BY BoundsAssumption DEF BoundsAssumption
<1>3. Promised(row[s], r) /\ Advances(row[s], r) /\ StaysFailed(row[s], r)
  BY <1>1, <1>2, ProgressPromised DEF StaysFailed
<1>4. FailBootstrap(t, s, r, phase)
  BY DEF CallbackFails
<1> HIDE DEF r
<1> QED
  BY <1>1, <1>3, <1>4, FailBootstrapKeeps

\* A box reports a step.
LEMMA BoxReportsKeeps ==
    ASSUME IInv, NEW s \in Server, NEW step \in BoxSteps, BoxReports(s, step)
    PROVE  OneRowMoves /\ FailedStays
<1> DEFINE r == RecordProgress(row[s], step)
<1>1. /\ Exists(s) /\ row[s] \in Row /\ RowCoherent(row[s])
      /\ row[s].status = "provisioning"
  BY ExistingRow DEF BoxReports, AcceptsProgressReports, IInv, Coherent, RowsCohere
<1>2. step \in Steps
  BY BoundsAssumption DEF BoundsAssumption
<1>3. Promised(row[s], r) /\ StaysFailed(row[s], r)
  BY <1>1, <1>2, ProgressPromised DEF StaysFailed
<1>4. WriteRow(s, r)
  BY DEF BoxReports
<1> HIDE DEF r
<1> QED
  BY <1>1, <1>3, <1>4, WritePromised

\* A row is failed where it stands: a timeout, or a recovery without a machine.
LEMMA TryFailedKeeps ==
    ASSUME IInv, NEW s \in Server, Exists(s), WriteRow(s, TryStatus(row[s], "failed"))
    PROVE  OneRowMoves /\ FailedStays
<1>1. row[s] \in Row /\ RowCoherent(row[s])
  BY ExistingRow DEF IInv, Coherent, RowsCohere
<1> QED
  BY <1>1, TryFailedFollows, FollowsPromised, WritePromised

\* The ticker takes the next row of its list.
LEMMA TickNextKeeps ==
    ASSUME IInv, NEW s \in Server, TickNext(s)
    PROVE  OneRowMoves /\ FailedStays
<1>1. Exists(s)
  BY DEF TickNext, IInv, Coherent, ListsCohere
<1>2. \/ UNCHANGED row
      \/ WriteRow(s, row[s])
      \/ WriteRow(s, TryStatus(row[s], "failed"))
  BY DEF TickNext
<1>3. row[s] \in Row /\ RowCoherent(row[s])
  BY <1>1, ExistingRow DEF IInv, Coherent, RowsCohere
<1>4. Promised(row[s], row[s]) /\ StaysFailed(row[s], row[s])
  BY <1>3, FollowsItself, FollowsPromised
<1> QED
  BY <1>1, <1>2, <1>4, NothingWritten, WritePromised, TryFailedKeeps

\* The ticker's sync is back, and the supervisor is polled.
LEMMA TickReturnsKeeps ==
    ASSUME IInv, TickReturns
    PROVE  OneRowMoves /\ FailedStays
<1> DEFINE t == "ticker"
           s == task[t].srv
           r == SyncedRow(t)
<1>1. /\ t \in Actor /\ s \in Server /\ Exists(s) /\ row[s] \in Row /\ RowCoherent(row[s])
      /\ row[s].handle
  BY JobsAreActors, BusyTask, TaskKind DEF TickReturns
<1>2. Follows(row[s], r) /\ StaysFailed(row[s], r)
  BY <1>1, SyncFollows DEF IInv
<1>3. Promised(row[s], r) /\ Advances(row[s], r) /\ r \in Row /\ RowCoherent(r)
  BY <1>2, FollowsPromised DEF Follows, Advances
<1>4. \/ WriteRow(s, r)
      \/ WriteRow(s, TryStatus(r, "failed"))
      \/ FailBootstrap(t, s, r, drive[s])
  BY DEF TickReturns, Poll
<1> HIDE DEF s, r
<1>5. CASE WriteRow(s, r)
  BY <1>1, <1>2, <1>3, <1>5, WritePromised
<1>6. CASE WriteRow(s, TryStatus(r, "failed"))
  <2> DEFINE q == TryStatus(r, "failed")
  <2>1. /\ Follows(r, q) /\ StaysFailed(r, q)
        /\ q.status = IF r.status = "terminated" THEN "terminated" ELSE "failed"
    BY <1>3, TryFailedFollows
  <2> HIDE DEF q
  <2>2. Promised(row[s], q) /\ StaysFailed(row[s], q)
    BY <1>1, <1>2, <1>3, <2>1, PromisedThenFails DEF StaysFailed
  <2>3. WriteRow(s, q)
    BY <1>6 DEF q
  <2> QED
    BY <1>1, <2>2, <2>3, WritePromised
<1>7. CASE FailBootstrap(t, s, r, drive[s])
  BY <1>1, <1>2, <1>3, <1>7, FailBootstrapKeeps
<1> QED
  BY <1>4, <1>5, <1>6, <1>7

\* The ticker's release of a stuck row is back.
LEMMA StuckReturnsKeeps ==
    ASSUME IInv, StuckReturns
    PROVE  OneRowMoves /\ FailedStays
<1>1. task["ticker"].srv \in Server /\ Exists(task["ticker"].srv)
  BY JobsAreActors, BusyTask DEF StuckReturns
<1> QED
  BY <1>1, TryFailedKeeps DEF StuckReturns

\* The recovery pass takes a row, and hears of its machine.
LEMMA RecoveryKeeps ==
    ASSUME IInv, RecoveryStep
    PROVE  OneRowMoves /\ FailedStays
<1>1. CASE Boot \/ Serve
  BY <1>1, NothingWritten DEF Boot, Serve
<1>2. ASSUME NEW s \in Server, RecoverNext(s)
      PROVE  OneRowMoves /\ FailedStays
  <2>1. Exists(s)
    BY <1>2 DEF RecoverNext, IInv, Coherent, ListsCohere
  <2> QED
    BY <1>2, <2>1, NothingWritten, TryFailedKeeps DEF RecoverNext
<1>3. CASE RecoverReturns
  <2>1. "recovery" \in Actor /\ task["recovery"].srv \in Server /\ Exists(task["recovery"].srv)
    BY <1>3, JobsAreActors, BusyTask DEF RecoverReturns
  <2> QED
    BY <1>3, <2>1, FoldKeeps, TryFailedKeeps DEF RecoverReturns
<1> QED
  BY <1>1, <1>2, <1>3 DEF RecoveryStep

-----------------------------------------------------------------------------
(***************************************************************************)
(* All steps.                                                              *)
(***************************************************************************)

\* A server's row appears.
Appears == \E s \in Server :
    /\ ~Exists(s)
    /\ row' = [row EXCEPT ![s] = InsertedRow]

Dismisses == \E t \in Request :
    TerminateReturns(t) \/ \E s \in Server : TerminateBegin(t, s)

\* Every step inserts a row, is a user's terminate, or moves one row at most, as
\* promised, and no failed one.
LEMMA StepsKeep ==
    ASSUME IInv, [Next]_vars
    PROVE  \/ Appears /\ FailedStays
           \/ Dismisses /\ OneRowMoves
           \/ OneRowMoves /\ FailedStays
<1>1. ASSUME NEW t \in Request, RequestStep(t)
      PROVE  \/ Appears /\ FailedStays
             \/ Dismisses /\ OneRowMoves
             \/ OneRowMoves /\ FailedStays
  <2>1. ASSUME NEW s \in Server, CreateBegin(t, s)
        PROVE  Appears /\ FailedStays
    <3>1. ~Exists(s) /\ row' = [row EXCEPT ![s] = InsertedRow]
      BY <2>1 DEF CreateBegin, WriteRow
    <3>2. \A u \in Server : Exists(u) => row'[u] = row[u]
      BY <3>1 DEF IInv, TypeOK
    <3> QED
      BY <3>1, <3>2 DEF Appears, FailedStays
  <2>7. ASSUME NEW s \in Server, CreateBreaks(t, s)
        PROVE  Appears /\ FailedStays
    <3>1. ~Exists(s) /\ row' = [row EXCEPT ![s] = InsertedRow]
      BY <2>7 DEF CreateBreaks, WriteRow
    <3>2. \A u \in Server : Exists(u) => row'[u] = row[u]
      BY <3>1 DEF IInv, TypeOK
    <3> QED
      BY <3>1, <3>2 DEF Appears, FailedStays
  <2>2. CASE \E s \in Server : TerminateBegin(t, s)
    BY <2>2, TerminateBeginKeeps DEF Dismisses
  <2>3. CASE TerminateReturns(t)
    BY <2>3, TerminateReturnsKeeps DEF Dismisses
  <2>4. ASSUME NEW s \in Server, NEW op \in {"get", "start", "stop"}, ReadBegin(t, op, s)
        PROVE  OneRowMoves /\ FailedStays
    BY <2>4, NothingWritten DEF ReadBegin
  <2>5. CASE ValidateReturns(t)
    BY <2>5, NothingWritten DEF ValidateReturns
  <2>6. CASE ReadReturns(t)
    BY <2>6, FoldKeeps DEF ReadReturns, Actor
  <2> QED
    BY <1>1, <2>1, <2>2, <2>3, <2>4, <2>5, <2>6, <2>7, CallbackFailsKeeps,
       CreateFailsKeeps, CreateReturnsKeeps
    DEF RequestStep
<1>2. ASSUME NEW t \in Actor, ProviderStep(t) \/ FailReturns(t)
      PROVE  OneRowMoves /\ FailedStays
  BY <1>2, NothingWritten, FailReturnsKeeps
  DEF ProviderStep, ProvisionLands, DescribeLands, PowerLands, ReleaseLands
<1>3. CASE TickerStep
  BY <1>3, NothingWritten, TickNextKeeps, TickReturnsKeeps, StuckReturnsKeeps
  DEF TickerStep, TickBegin
<1>4. CASE ReconcilerStep
  <2>1. CASE SweepReturns
    BY <2>1, JobsAreActors, FoldKeeps DEF SweepReturns
  <2>2. CASE ~SweepReturns
    BY <1>4, <2>2, NothingWritten
    DEF ReconcilerStep, SweepBegin, SweepLists, SweepNext, SweepEnds
  <2> QED
    BY <2>1, <2>2
<1>5. CASE RecoveryStep
  BY <1>5, RecoveryKeeps
<1>6. ASSUME NEW s \in Server, BoxStep(s) \/ CloudStep(s) \/ Expire(s)
      PROVE  OneRowMoves /\ FailedStays
  BY <1>6, NothingWritten, BoxReportsKeeps
  DEF BoxStep, DriveEnds, CloudStep, MachineSettles, Mishap, WireLands, Expire
<1>7. CASE Crash
  BY <1>7, NothingWritten DEF Crash
<1>8. CASE UNCHANGED vars
  BY <1>8, NothingWritten DEF vars
<1> QED
  BY <1>1, <1>2, <1>3, <1>4, <1>5, <1>6, <1>7, <1>8 DEF Next

-----------------------------------------------------------------------------
(***************************************************************************)
(* The implementation.                                                     *)
(***************************************************************************)

Shown == [s \in Server |-> row[s].status]

\* Nothing exists at first, and nothing is promised.
LEMMA InitPromise == Init => Promise!Init
BY DEF Init, NoRow, Promise!Init, Usable, Exists

\* A row that appears is the promise's Appear.
LEMMA AppearsPromised ==
    ASSUME TypeOK, Appears
    PROVE  Promise!Next
<1>1. PICK s \in Server : ~Exists(s) /\ row' = [row EXCEPT ![s] = InsertedRow]
  BY DEF Appears
<1>2. row'[s] = InsertedRow /\ \A u \in Server \ {s} : row'[u] = row[u]
  BY <1>1 DEF TypeOK
<1>3. InsertedRow.status = "requested" /\ InsertedRow.step # "ready"
  BY DEF InsertedRow
<1>4. Shown[s] = "absent" /\ Shown' = [Shown EXCEPT ![s] = "requested"]
  <2>1. Shown[s] = "absent"
    BY <1>1 DEF Shown, Exists
  <2>2. row'[s].status = "requested"
    BY <1>2, <1>3
  <2> QED
    BY <1>2, <2>1, <2>2 DEF Shown
<1>5. Usable' = Usable
  BY <1>1, <1>2, <1>3 DEF Usable, Exists
<1>6. Promise!Appear(s)
  BY <1>4, <1>5 DEF Promise!Appear, Shown
<1> QED
  BY <1>6 DEF Promise!Next

\* A row that moves as promised is a step of the promise, or shows nothing.
LEMMA MovePromised ==
    ASSUME NEW s \in Server, RowMoves(s)
    PROVE  Promise!Next \/ UNCHANGED <<Shown, Usable>>
<1> DEFINE r == row[s]
           q == row'[s]
<1>1. /\ r \in Row /\ q \in Row /\ RowCoherent(q) /\ Promised(r, q)
      /\ r.status \in Statuses /\ q.status \in Statuses
      /\ Exists(s) /\ Exists(s)'
      /\ \A u \in Server \ {s} : row'[u] = row[u]
  BY DEF RowMoves, Promised, Row, Statuses, Exists
<1>2. Shown' = [Shown EXCEPT ![s] = q.status] /\ Shown[s] = r.status
  BY <1>1 DEF Shown
<1>3. Usable' = IF q.step = "ready" THEN Usable \union {s} ELSE Usable \ {s}
  BY <1>1 DEF Usable, Exists
<1>4. s \in Usable <=> r.step = "ready"
  BY <1>1 DEF Usable
<1> HIDE DEF r, q
<1>5. CASE q.step = "ready" <=> r.step = "ready"
  <2>1. Usable' = Usable
    BY <1>3, <1>4, <1>5
  <2>2. CASE q.status = r.status
    BY <1>2, <2>1, <2>2 DEF Shown
  <2>3. CASE CanTransition(r.status, q.status)
    <3>1. q.status \in {"running", "stopped"} => s \in Usable
      BY <1>1, <1>4, <1>5 DEF RowCoherent
    <3>2. Promise!CanTransition(Shown[s], q.status)
      BY <1>2, <2>3
      DEF CanTransition, Transitions, Promise!CanTransition, Promise!Transitions
    <3>3. PICK to \in Promise!Statuses : to = q.status
      BY <1>1 DEF Statuses, Promise!Statuses
    <3>4. Promise!Move(s, to)
      BY <1>2, <2>1, <3>1, <3>2, <3>3 DEF Promise!Move, Shown
    <3> QED
      BY <3>4 DEF Promise!Next
  <2>4. CASE r.status = "provisioning" /\ q.status \in {"running", "failed"}
    <3>1. CanTransition(r.status, q.status)
      BY <2>4 DEF CanTransition, Transitions
    <3> QED
      BY <2>3, <3>1
  <2> QED
    BY <1>1, <2>2, <2>3, <2>4 DEF Promised
<1>6. CASE ~(q.step = "ready" <=> r.step = "ready")
  <2>1. r.status = "provisioning" /\ q.status \in {"running", "failed"} /\ q.step = "ready"
    BY <1>1, <1>6 DEF Promised
  <2>2. Promise!Ready(s)
    BY <1>2, <1>3, <2>1 DEF Promise!Ready, Shown
  <2> QED
    BY <2>2 DEF Promise!Next
<1> QED
  BY <1>5, <1>6

\* A step of the lifecycle is a step of the promise, or shows nothing.
LEMMA StepPromised ==
    IInv /\ [Next]_vars => [Promise!Next]_(Promise!vars)
<1> SUFFICES ASSUME IInv, [Next]_vars
             PROVE  Promise!Next \/ UNCHANGED <<Shown, Usable>>
  BY DEF Promise!vars, Shown
<1>1. CASE Appears
  BY <1>1, AppearsPromised DEF IInv
<1>2. CASE OneRowMoves
  <2>1. CASE UNCHANGED row
    BY <2>1 DEF Shown, Usable, Exists
  <2>2. CASE \E s \in Server : RowMoves(s)
    BY <2>2, MovePromised
  <2> QED
    BY <1>2, <2>1, <2>2 DEF OneRowMoves
<1> QED
  BY <1>1, <1>2, StepsKeep

\* Every handler, job and crash recovery, however they interleave, implements
\* the status machine that ServerPromise states.
THEOREM ImplementsPromise == Spec => KeepsPromise
BY Invariance, InitPromise, StepPromised, PTL DEF Spec, KeepsPromise, Promise!Spec

-----------------------------------------------------------------------------
(***************************************************************************)
(* Failed rows.                                                            *)
(***************************************************************************)

\* Only a user's terminate takes a failed row out of `failed`, and only its own.
LEMMA FailedStep ==
    ASSUME IInv, [Next]_vars, NEW s \in Server,
           Exists(s), row[s].status = "failed", row'[s].status # "failed"
    PROVE  \E t \in Request : TerminateBegin(t, s) \/ TerminateReturns(t)
<1>1. Dismisses
  BY StepsKeep DEF FailedStays
<1>2. PICK t \in Request : TerminateReturns(t) \/ \E u \in Server : TerminateBegin(t, u)
  BY <1>1 DEF Dismisses
<1>3. ASSUME NEW u \in Server, TerminateBegin(t, u)
      PROVE  u = s
  <2>1. row' = row \/ row' = [row EXCEPT ![u] = WithStatus(row[u], "terminated")]
    BY <1>3 DEF TerminateBegin, WriteRow
  <2> QED
    BY <2>1 DEF IInv, TypeOK
<1> QED
  BY <1>2, <1>3

\* Whatever retries, races or restarts follow, a failed row is shown until a
\* user dismisses it.
THEOREM FailedRowsStay == Spec => FailedUntilDismissed
<1>1. IInv /\ [Next]_vars =>
        [\A s \in Server :
            Exists(s) /\ row[s].status = "failed" /\ row'[s].status # "failed" =>
                \E t \in Request : TerminateBegin(t, s) \/ TerminateReturns(t)]_vars
  BY FailedStep
<1> QED
  BY <1>1, Invariance, PTL DEF Spec, FailedUntilDismissed

-----------------------------------------------------------------------------
(***************************************************************************)
(* What rows and answers say of the machines.                              *)
(***************************************************************************)

Dying(m) == m \in {"terminating", "gone"}

ClaimsDeath(r) == r.state \in {"terminating", "terminated"} \/ r.report = "terminated"

\* What is in a row before its create has returned.
Bare(r) == ~r.handle /\ r.state = "none" /\ r.report = "none"

\* A row speaks of a machine that was made, and of its death when it is dying.
RowVouched(s) ==
    /\ ~Exists(s) => Untouched(s)
    /\ Exists(s) /\ row[s].handle => machine[s] # "none"
    /\ Exists(s) /\ ClaimsDeath(row[s]) => Dying(machine[s])

\* An answer is still true when it is acted on, if it was the end of a machine;
\* a create has a bare row, and a machine once it has been told of one.
TaskVouched(t) ==
    LET s == task[t].srv IN
    /\ task[t].pc \in {"validate", "provision", "provisioned"} => Bare(row[s])
    /\ task[t].pc \in {"validate", "provision"} => Untouched(s)
    /\ task[t].pc = "provisioned" => machine[s] # "none"
    /\ task[t].pc = "fold" /\ task[t].view \in {"terminating", "terminated"} => Dying(machine[s])
    /\ task[t].pc = "released" /\ task[t].view = "ok" => Dying(machine[s])

Vouched ==
    /\ \A s \in Server : RowVouched(s)
    /\ \A t \in Actor : TaskVouched(t)

-----------------------------------------------------------------------------
(***************************************************************************)
(* What a step may do to a row, whose machine is m: the row speaks of no   *)
(* machine that was not made and of no death but a dying machine's, and it *)
(* is given up while core holds its handle only if its machine is dying.   *)
(***************************************************************************)

Truthful(r, q, m) ==
    /\ r.handle => q.handle
    /\ q.handle => r.handle \/ m # "none"
    /\ ClaimsDeath(q) => ClaimsDeath(r) \/ Dying(m)
    /\ r.handle /\ q.status = "terminated" => r.status = "terminated" \/ Dying(m)

\* A truthful write that gives a bare row nothing to say.
Honest(r, q, m) == Truthful(r, q, m) /\ (Bare(r) => Bare(q))

\* What a row says of its machine.
SameWords(r, q) == q.handle = r.handle /\ q.state = r.state /\ q.report = r.report

\* A move of the status alone is honest, unless it ends a row with a handle.
LEMMA SameWordsHonest ==
    ASSUME NEW r, NEW q, NEW m, SameWords(r, q),
           q.status = "terminated" => r.status = "terminated" \/ ~r.handle
    PROVE  Honest(r, q, m)
BY DEF SameWords, Honest, Truthful, ClaimsDeath, Bare

\* One honest write after another is honest.
LEMMA HonestTwice ==
    ASSUME NEW r, NEW q, NEW p, NEW m, r.handle, Honest(r, q, m), Honest(q, p, m)
    PROVE  Honest(r, p, m)
BY DEF Honest, Truthful, Bare

\* Writing a row back as it was is honest.
LEMMA HonestStays ==
    ASSUME NEW r, NEW m
    PROVE  Honest(r, r, m)
BY DEF Honest, Truthful

\* updateServerStatus to `failed` says nothing of the machine.
LEMMA TryFailedHonest ==
    ASSUME NEW r \in Row, NEW m
    PROVE  SameWords(r, TryStatus(r, "failed")) /\ Honest(r, TryStatus(r, "failed"), m)
<1>1. /\ SameWords(r, TryStatus(r, "failed"))
      /\ TryStatus(r, "failed").status = "terminated" => r.status = "terminated"
  BY DEF TryStatus, WithStatus, SameWords, Row
<1> QED
  BY <1>1, SameWordsHonest

\* Nor does the terminate of a row without a handle.
LEMMA TerminatedHonest ==
    ASSUME NEW r \in Row, NEW m, r.handle => Dying(m)
    PROVE  Honest(r, WithStatus(r, "terminated"), m)
BY DEF WithStatus, Honest, Truthful, ClaimsDeath, Bare, Row

\* recordProgress neither.
LEMMA ProgressHonest ==
    ASSUME NEW r \in Row, NEW step, NEW m
    PROVE  SameWords(r, RecordProgress(r, step)) /\ Honest(r, RecordProgress(r, step), m)
<1>1. SameWords(r, RecordProgress(r, step))
  BY DEF RecordProgress, WithStatus, SameWords, Row
<1>2. RecordProgress(r, step).status = "terminated" => r.status = "terminated"
  BY DEF RecordProgress, WithStatus, StatusForStep, Row
<1> QED
  BY <1>1, <1>2, SameWordsHonest

\* reportInstanceMilestone neither.
LEMMA ReportHonest ==
    ASSUME NEW r \in Row, NEW view, NEW m
    PROVE  /\ SameWords(r, ReportInstanceMilestone(r, view))
           /\ Honest(r, ReportInstanceMilestone(r, view), m)
<1>1. CASE HasMilestone(view) /\ AdvancesProvisioning(r.step, StateToMilestone[view])
  BY <1>1, ProgressHonest DEF ReportInstanceMilestone
<1>2. CASE ~(HasMilestone(view) /\ AdvancesProvisioning(r.step, StateToMilestone[view]))
  BY <1>2, HonestStays DEF ReportInstanceMilestone, SameWords
<1> QED
  BY <1>1, <1>2

\* What a provider says is recorded word for word.
LEMMA RecordedWords ==
    ASSUME NEW r \in Row, NEW state \in InstanceStates, NEW bills \in BOOLEAN
    PROVE  LET q == RecordProviderState(r, state, bills) IN
           /\ q \in Row
           /\ q.handle = r.handle /\ q.report = r.report /\ q.status = r.status
           /\ q.state \in {r.state, state}
<1>1. RecordProviderState(r, state, bills) \in Row
  BY DEF RecordProviderState, Row
<1> QED
  BY <1>1 DEF RecordProviderState, Row

\* syncObserved's fold is honest when the answer is true of the machine.
LEMMA FoldHonest ==
    ASSUME NEW r \in Row, r.handle, NEW view \in InstanceStates, NEW m,
           view \in {"terminating", "terminated"} => Dying(m)
    PROVE  Honest(r, FoldView(r, view), m)
<1> DEFINE seen  == RecordProviderState(r, view, BillsWhileStopped)
           moved == IF FoldsStatus(seen, view)
                    THEN WithStatus(seen, StateToStatus[view]) ELSE seen
<1>1. /\ seen \in Row /\ seen.handle /\ seen.report = r.report
      /\ seen.status = r.status /\ seen.state \in {r.state, view}
  <2>1. BillsWhileStopped \in BOOLEAN
    BY PolicyAssumption DEF PolicyAssumption
  <2> QED
    BY <2>1, RecordedWords
<1> HIDE DEF seen
<1>2. /\ moved \in Row /\ moved.handle /\ moved.report = seen.report
      /\ moved.state = seen.state
      /\ moved.status = "terminated" =>
            r.status = "terminated" \/ view \in {"terminating", "terminated"}
  <2>1. CASE FoldsStatus(seen, view)
    <3>1. view \in InstanceStates \ {"unknown"}
      BY <2>1 DEF FoldsStatus, HasStatus
    <3>2. /\ StateToStatus[view] \in Statuses
          /\ StateToStatus[view] = "terminated" => view \in {"terminating", "terminated"}
      BY <3>1 DEF StateToStatus, InstanceStates, Statuses
    <3> QED
      BY <1>1, <2>1, <3>2 DEF WithStatus, Row
  <2>2. CASE ~FoldsStatus(seen, view)
    BY <1>1, <2>2
  <2> QED
    BY <2>1, <2>2
<1>3. FoldView(r, view) = ReportInstanceMilestone(moved, view)
  BY DEF FoldView, seen
<1> HIDE DEF moved
<1>4. Honest(r, moved, m)
  BY <1>1, <1>2 DEF Honest, Truthful, ClaimsDeath, Bare
<1>5. Honest(moved, FoldView(r, view), m)
  BY <1>2, <1>3, ReportHonest
<1> QED
  BY <1>4, <1>5, HonestTwice

\* failBootstrap's writes are honest: it reports a release that was accepted.
LEMMA FailedRowHonest ==
    ASSUME NEW r \in Row, r.handle, NEW outcome \in InstanceOutcomes, NEW m,
           outcome = "terminated" => Dying(m)
    PROVE  Honest(r, FailedRow(r, outcome), m)
<1> DEFINE known == IF outcome = "terminated"
                    THEN RecordProviderState(r, "terminated", FALSE) ELSE r
           told  == SetBootstrapReport(known, outcome)
<1>1. /\ known \in Row /\ known.handle /\ known.status = r.status
      /\ known.report = r.report
      /\ known.state \in {r.state, IF outcome = "terminated" THEN "terminated" ELSE r.state}
  BY RecordedWords DEF InstanceStates
<1> HIDE DEF known
<1>2. /\ told \in Row /\ told.handle /\ told.status = r.status
      /\ told.state = known.state /\ told.report = outcome
  BY <1>1 DEF SetBootstrapReport, Row
<1>3. FailedRow(r, outcome) = TryStatus(told, "failed")
  BY DEF FailedRow, known
<1> HIDE DEF told
<1>4. Honest(r, told, m)
  BY <1>1, <1>2 DEF Honest, Truthful, ClaimsDeath, Bare
<1>5. Honest(told, FailedRow(r, outcome), m)
  BY <1>2, <1>3, TryFailedHonest
<1> QED
  BY <1>4, <1>5, HonestTwice

\* A create writes down the handle of the machine it made, which is alive.
LEMMA CreatedRowTruthful ==
    ASSUME NEW r \in Row, RowCoherent(r), Bare(r), NEW view \in {"pending", "running"},
           r.status \in {"requested", "failed", "terminated"},
           NEW m, m # "none"
    PROVE  LET q == CreatedRow(r, view) IN
           Truthful(r, q, m) /\ ~ClaimsDeath(q)
<1> DEFINE seen     == RecordProviderState(r, view, BillsWhileStopped)
           withData == SetProviderData(seen)
           initial  == StateToStatus[view]
           to       == IF CanTransition(withData.status, initial)
                       THEN initial ELSE "provisioning"
           q        == CreatedRow(r, view)
<1>1. /\ seen \in Row /\ seen.report = "none" /\ seen.state \in {"none", view}
  <2>1. BillsWhileStopped \in BOOLEAN /\ view \in InstanceStates
    BY PolicyAssumption DEF PolicyAssumption, InstanceStates
  <2> QED
    BY <2>1, RecordedWords DEF Bare
<1>2. q = IF CanTransition(withData.status, to)
          THEN ReportInstanceMilestone(WithStatus(withData, to), view)
          ELSE TryStatus(withData, "failed")
  BY DEF CreatedRow
<1>3. to \in Statuses
  BY DEF StateToStatus, InstanceStates, Statuses
<1> HIDE DEF seen, to
<1>4. /\ withData \in Row /\ withData.report = "none" /\ withData.state \in {"none", view}
  BY <1>1 DEF SetProviderData, Row
<1> HIDE DEF withData
<1>5. /\ WithStatus(withData, to) \in Row
      /\ SameWords(withData, WithStatus(withData, to))
  BY <1>3, <1>4 DEF WithStatus, SameWords, Row
<1>6. q.report = "none" /\ q.state \in {"none", view}
  BY <1>2, <1>4, <1>5, ReportHonest, TryFailedHonest DEF SameWords
<1>7. ~ClaimsDeath(q)
  BY <1>6 DEF ClaimsDeath
<1> QED
  BY <1>7 DEF Truthful, Bare

-----------------------------------------------------------------------------
(***************************************************************************)
(* What a step may do to the rows, the machines and the tasks together.    *)
(***************************************************************************)

TruthsTold == \A s \in Server : Exists(s) => Truthful(row[s], row'[s], machine[s])

RowsHonest == \A s \in Server :
    /\ Exists(s) <=> Exists(s)'
    /\ Exists(s) => Honest(row[s], row'[s], machine[s])

\* No machine comes back from its end, and none is made out of nothing.
MachinesAge == \A s \in Server :
    /\ machine[s] # "none" => machine'[s] # "none"
    /\ Dying(machine[s]) => Dying(machine'[s])
    /\ Untouched(s) => Untouched(s)'

TasksHonest == \A t \in Actor : task'[t] = task[t] \/ TaskVouched(t)'

\* Such a step tells the truth and leaves everything vouched for.
LEMMA HonestStep ==
    ASSUME IInv, Vouched, RowsHonest, MachinesAge, TasksHonest
    PROVE  TruthsTold /\ Vouched'
<1>1. TruthsTold
  BY DEF TruthsTold, RowsHonest, Honest
<1>2. ASSUME NEW s \in Server
      PROVE  RowVouched(s)'
  <2>1. RowVouched(s)
    BY DEF Vouched
  <2>2. ~Exists(s)' => Untouched(s)'
    BY <2>1 DEF RowsHonest, MachinesAge, RowVouched
  <2>3. ASSUME Exists(s)'
        PROVE  /\ row'[s].handle => machine'[s] # "none"
               /\ ClaimsDeath(row'[s]) => Dying(machine'[s])
    BY <2>1, <2>3 DEF RowsHonest, MachinesAge, RowVouched, Honest, Truthful
  <2> QED
    BY <2>2, <2>3 DEF RowVouched
<1>3. ASSUME NEW t \in Actor, task'[t] = task[t]
      PROVE  TaskVouched(t)'
  <2>1. CASE task[t].pc = "idle"
    BY <1>3, <2>1 DEF TaskVouched
  <2>2. CASE task[t].pc # "idle"
    <3>1. task[t].srv \in Server /\ Exists(task[t].srv) /\ TaskVouched(t)
      BY <2>2, BusyTask DEF Vouched
    <3>2. PICK s \in Server : s = task[t].srv
      BY <3>1
    <3>3. /\ Bare(row[s]) => Bare(row'[s])
          /\ Untouched(s) => Untouched(s)'
          /\ machine[s] # "none" => machine'[s] # "none"
          /\ Dying(machine[s]) => Dying(machine'[s])
      BY <3>1, <3>2 DEF RowsHonest, Honest, MachinesAge
    <3>4. task'[t].srv = s
      BY <1>3, <3>2
    <3> QED
      BY <1>3, <3>1, <3>2, <3>3, <3>4 DEF TaskVouched
  <2> QED
    BY <2>1, <2>2
<1> QED
  BY <1>1, <1>2, <1>3 DEF Vouched, TasksHonest

\* A row is written.
LEMMA WriteHonest ==
    ASSUME IInv, NEW s \in Server, Exists(s), NEW q \in Row,
           Honest(row[s], q, machine[s]), WriteRow(s, q)
    PROVE  RowsHonest
<1>1. row'[s] = q /\ \A u \in Server \ {s} : row'[u] = row[u]
  BY WriteTyped DEF IInv
<1>2. q.status # "absent"
  BY DEF Row, Statuses
<1> QED
  BY <1>1, <1>2, HonestStays DEF RowsHonest, Exists

\* No row is written.
LEMMA UnwrittenHonest ==
    ASSUME UNCHANGED row
    PROVE  RowsHonest
BY HonestStays DEF RowsHonest, Exists

\* A step that does not reach the cloud leaves its machines as they are.
LEMMA CloudStays ==
    ASSUME UNCHANGED <<machine, wire>>
    PROVE  MachinesAge
BY DEF MachinesAge, Untouched

\* A task that finishes, or that goes off to ask the provider, takes nothing
\* for granted yet.
LEMMA TaskHonest ==
    ASSUME IInv, NEW t \in Actor, NEW d \in Tasks,
           d.pc \in {"idle", "describe", "power", "release"},
           Go(t, d)
    PROVE  TasksHonest
<1>1. task'[t] = d /\ \A u \in Actor \ {t} : task'[u] = task[u]
  BY GoTyped DEF IInv
<1> QED
  BY <1>1 DEF TasksHonest, TaskVouched

\* A task finishes.
LEMMA FinishHonest ==
    ASSUME IInv, NEW t \in Actor, Finish(t)
    PROVE  TasksHonest
BY TaskHonest, TasksTyped DEF Finish, Go, Idle

\* A task asks, or calls, the provider.
LEMMA DoingHonest ==
    ASSUME IInv, NEW t \in Actor, NEW op \in Ops, NEW s \in Server,
           NEW pc \in {"describe", "power", "release"}, Go(t, Doing(op, s, pc))
    PROVE  TasksHonest
<1>1. Doing(op, s, pc) \in Tasks /\ Doing(op, s, pc).pc = pc
  BY TasksTyped DEF Doing, Holding, Waits
<1> QED
  BY <1>1, TaskHonest

\* No task moves.
LEMMA TasksStayHonest ==
    ASSUME UNCHANGED task
    PROVE  TasksHonest
BY DEF TasksHonest

-----------------------------------------------------------------------------
(***************************************************************************)
(* The steps of the tasks.                                                 *)
(***************************************************************************)

\* A task with a handle in hand, and what its fold or its release was told.
LEMMA HeldTask ==
    ASSUME IInv, Vouched, NEW t \in Actor,
           task[t].pc \in {"describe", "fold", "power", "release", "released"}
    PROVE  LET s == task[t].srv IN
           /\ s \in Server /\ Exists(s) /\ row[s] \in Row /\ RowCoherent(row[s])
           /\ row[s].handle /\ machine[s] # "none"
           /\ task[t].pc = "fold" /\ task[t].view \in {"terminating", "terminated"}
                 => Dying(machine[s])
           /\ task[t].pc = "released" /\ task[t].view = "ok" => Dying(machine[s])
<1>1. /\ task[t].srv \in Server /\ Exists(task[t].srv)
      /\ row[task[t].srv] \in Row /\ RowCoherent(row[task[t].srv])
      /\ row[task[t].srv].handle
  BY BusyTask, TaskKind
<1> QED
  BY <1>1 DEF Vouched, RowVouched, TaskVouched

\* What a task's sync leaves in the table.
LEMMA SyncHonest ==
    ASSUME IInv, Vouched, NEW t \in Actor, task[t].pc = "fold"
    PROVE  LET s == task[t].srv IN
           /\ SyncedRow(t) \in Row /\ RowCoherent(SyncedRow(t)) /\ SyncedRow(t).handle
           /\ Honest(row[s], SyncedRow(t), machine[s])
<1> DEFINE s == task[t].srv
<1>1. /\ s \in Server /\ Exists(s) /\ row[s] \in Row /\ RowCoherent(row[s])
      /\ row[s].handle
      /\ task[t].view \in {"terminating", "terminated"} => Dying(machine[s])
  BY HeldTask
<1>2. SyncedRow(t) \in Row /\ RowCoherent(SyncedRow(t)) /\ SyncedRow(t).handle
  BY <1>1, SyncFollows DEF IInv, Follows, Advances
<1>3. CASE task[t].view \in InstanceStates
  BY <1>1, <1>2, <1>3, FoldHonest DEF SyncedRow
<1>4. CASE task[t].view \notin InstanceStates
  BY <1>1, <1>2, <1>4, HonestStays DEF SyncedRow
<1> QED
  BY <1>2, <1>3, <1>4

\* A create finds a bare row, and no other create is about its server.
LEMMA CreatingTask ==
    ASSUME IInv, Vouched, NEW t \in Actor,
           task[t].pc \in {"validate", "provision", "provisioned"}
    PROVE  LET s == task[t].srv IN
           /\ s \in Server /\ Exists(s) /\ row[s] \in Row /\ RowCoherent(row[s])
           /\ Bare(row[s]) /\ t \in Request /\ task[t].op = "create"
           /\ row[s].status \in {"requested", "failed", "terminated"}
           /\ \A u \in Actor \ {t} :
                 task[u].pc \in {"validate", "provision", "provisioned"} => task[u].srv # s
<1>1. /\ task[t].srv \in Server /\ Exists(task[t].srv)
      /\ row[task[t].srv] \in Row /\ RowCoherent(row[task[t].srv])
      /\ t \in Request /\ task[t].op = "create"
      /\ row[task[t].srv].status \in {"requested", "failed", "terminated"}
  BY BusyTask, TaskKind
<1>2. Bare(row[task[t].srv])
  BY DEF Vouched, TaskVouched
<1>3. ASSUME NEW u \in Actor \ {t}, task[u].pc \in {"validate", "provision", "provisioned"}
      PROVE  task[u].srv # task[t].srv
  BY <1>1, <1>3, TaskKind DEF IInv, Coherent, CreatesApart
<1> QED
  BY <1>1, <1>2, <1>3

\* A create is admitted for a server nothing has been made for.
LEMMA CreateBeginVouched ==
    ASSUME IInv, Vouched, NEW t \in Request, NEW s \in Server, CreateBegin(t, s)
    PROVE  TruthsTold /\ Vouched'
<1>1. /\ ~Exists(s) /\ Free(t) /\ t \in Actor /\ UNCHANGED <<machine, wire>>
      /\ WriteRow(s, InsertedRow) /\ Go(t, Doing("create", s, "validate"))
  BY DEF CreateBegin, Actor
<1>2. row'[s] = InsertedRow /\ \A u \in Server \ {s} : row'[u] = row[u]
  BY <1>1, InsertedRowCoheres, WriteTyped DEF IInv
<1>3. /\ task'[t] = Doing("create", s, "validate")
      /\ \A u \in Actor \ {t} : task'[u] = task[u]
  BY <1>1, TasksTyped, GoTyped DEF IInv, Ops, Waits
<1>4. Untouched(s)
  BY <1>1 DEF Vouched, RowVouched
<1>5. TruthsTold
  BY <1>1, <1>2, HonestStays DEF TruthsTold, Honest
<1>6. ASSUME NEW u \in Server
      PROVE  RowVouched(u)'
  <2>1. CASE u = s
    BY <1>2, <2>1 DEF RowVouched, InsertedRow, ClaimsDeath, Exists
  <2>2. CASE u # s
    BY <1>1, <1>2, <2>2 DEF Vouched, RowVouched, Untouched, Exists
  <2> QED
    BY <2>1, <2>2
<1>7. TaskVouched(t)'
  BY <1>1, <1>2, <1>3, <1>4
  DEF TaskVouched, Untouched, Bare, InsertedRow, Doing, Holding
<1>8. ASSUME NEW u \in Actor \ {t}
      PROVE  TaskVouched(u)'
  <2>1. CASE task[u].pc = "idle"
    BY <1>3, <2>1 DEF TaskVouched
  <2>2. CASE task[u].pc # "idle"
    <3>1. task[u].srv \in Server \ {s} /\ TaskVouched(u)
      BY <1>1, <2>2, BusyTask DEF Vouched
    <3> QED
      BY <1>1, <1>2, <1>3, <3>1 DEF TaskVouched, Untouched
  <2> QED
    BY <2>1, <2>2
<1> QED
  BY <1>5, <1>6, <1>7, <1>8 DEF Vouched

\* A create breaks before the provider has heard of it.
LEMMA CreateBreaksVouched ==
    ASSUME IInv, Vouched, NEW t \in Request, NEW s \in Server, CreateBreaks(t, s)
    PROVE  TruthsTold /\ Vouched'
<1>1. ~Exists(s) /\ UNCHANGED <<machine, wire, task>> /\ WriteRow(s, InsertedRow)
  BY DEF CreateBreaks
<1>2. row'[s] = InsertedRow /\ \A u \in Server \ {s} : row'[u] = row[u]
  BY <1>1, InsertedRowCoheres, WriteTyped DEF IInv
<1>3. TruthsTold
  BY <1>1, <1>2, HonestStays DEF TruthsTold, Honest
<1>4. ASSUME NEW u \in Server
      PROVE  RowVouched(u)'
  <2>1. CASE u = s
    BY <1>2, <2>1 DEF RowVouched, InsertedRow, ClaimsDeath, Exists
  <2>2. CASE u # s
    BY <1>1, <1>2, <2>2 DEF Vouched, RowVouched, Untouched, Exists
  <2> QED
    BY <2>1, <2>2
<1>5. ASSUME NEW u \in Actor
      PROVE  TaskVouched(u)'
  <2>1. CASE task[u].pc = "idle"
    BY <1>1, <2>1 DEF TaskVouched
  <2>2. CASE task[u].pc # "idle"
    <3>1. task[u].srv \in Server \ {s} /\ TaskVouched(u)
      BY <1>1, <2>2, BusyTask DEF Vouched
    <3> QED
      BY <1>1, <1>2, <3>1 DEF TaskVouched, Untouched
  <2> QED
    BY <2>1, <2>2
<1> QED
  BY <1>3, <1>4, <1>5 DEF Vouched

\* The provision call goes out.
LEMMA ValidateReturnsVouched ==
    ASSUME IInv, Vouched, NEW t \in Request, ValidateReturns(t)
    PROVE  TruthsTold /\ Vouched'
<1>1. /\ t \in Actor /\ task[t].pc = "validate" /\ Answer(t, "provision", "none")
      /\ UNCHANGED <<row, machine, wire>>
  BY DEF ValidateReturns, Actor
<1>2. /\ task'[t] = [task[t] EXCEPT !.pc = "provision", !.view = "none"]
      /\ \A u \in Actor \ {t} : task'[u] = task[u]
  <2>1. "provision" \in Waits /\ "none" \in Answers
    BY DEF Waits, Answers
  <2> QED
    BY <1>1, <2>1, AnswerTyped DEF IInv
<1>3. task[t] \in Tasks /\ TaskVouched(t)
  BY <1>1, BusyTask DEF Vouched
<1>4. task'[t].pc = "provision" /\ task'[t].srv = task[t].srv
  BY <1>2, <1>3 DEF Tasks
<1>5. TaskVouched(t)'
  BY <1>1, <1>3, <1>4 DEF TaskVouched, Untouched
<1> QED
  BY <1>1, <1>2, <1>5, HonestStep, UnwrittenHonest, CloudStays DEF TasksHonest

\* The machine is made, for the one create that waits for it.
LEMMA ProvisionLandsVouched ==
    ASSUME IInv, Vouched, NEW t \in Actor, ProvisionLands(t)
    PROVE  TruthsTold /\ Vouched'
<1>1. PICK s \in Server : s = task[t].srv
  BY CreatingTask DEF ProvisionLands
<1>2. PICK m \in {"pending", "running"} :
        /\ machine' = [machine EXCEPT ![s] = m]
        /\ Answer(t, "provisioned", m)
  BY <1>1 DEF ProvisionLands
<1>3. /\ task[t].pc = "provision" /\ UNCHANGED <<row, wire>>
      /\ Exists(s) /\ Bare(row[s])
      /\ \A u \in Actor \ {t} :
            task[u].pc \in {"validate", "provision", "provisioned"} => task[u].srv # s
  BY <1>1, CreatingTask DEF ProvisionLands
<1>4. machine[s] = "none"
  BY <1>1, <1>3 DEF Vouched, TaskVouched, Untouched
<1>5. machine'[s] = m /\ \A u \in Server \ {s} : machine'[u] = machine[u]
  BY <1>2 DEF IInv, TypeOK
<1>6. /\ task'[t] = [task[t] EXCEPT !.pc = "provisioned", !.view = m]
      /\ \A u \in Actor \ {t} : task'[u] = task[u]
  <2>1. "provisioned" \in Waits /\ m \in Answers
    BY DEF Waits, Answers, InstanceStates
  <2> QED
    BY <1>2, <2>1, AnswerTyped DEF IInv
<1>7. task'[t].pc = "provisioned" /\ task'[t].srv = s
  <2>1. task[t] \in Tasks
    BY DEF IInv, TypeOK
  <2> QED
    BY <1>1, <1>6, <2>1 DEF Tasks
<1>8. TruthsTold
  BY <1>3, HonestStays DEF TruthsTold, Honest
<1>9. ASSUME NEW u \in Server
      PROVE  RowVouched(u)'
  <2>1. RowVouched(u)
    BY DEF Vouched
  <2>2. CASE u = s
    BY <1>3, <1>4, <1>5, <2>1, <2>2 DEF RowVouched, Exists, Dying, Untouched
  <2>3. CASE u # s
    BY <1>3, <1>5, <2>1, <2>3 DEF RowVouched, Exists, Untouched
  <2> QED
    BY <2>2, <2>3
<1>10. TaskVouched(t)'
  BY <1>3, <1>5, <1>7 DEF TaskVouched
<1>11. ASSUME NEW u \in Actor \ {t}
       PROVE  TaskVouched(u)'
  <2>1. CASE task[u].pc = "idle"
    BY <1>6, <2>1 DEF TaskVouched
  <2>2. CASE task[u].pc # "idle" /\ task[u].srv = s
    <3>1. task[u].pc \notin {"validate", "provision", "provisioned"}
      BY <1>3, <2>2
    <3>2. TaskVouched(u)
      BY DEF Vouched
    <3> QED
      BY <1>4, <1>6, <2>2, <3>1, <3>2 DEF TaskVouched, Dying
  <2>3. CASE task[u].pc # "idle" /\ task[u].srv # s
    <3>1. task[u].srv \in Server \ {s} /\ TaskVouched(u)
      BY <2>3, BusyTask DEF Vouched
    <3> QED
      BY <1>3, <1>5, <1>6, <3>1 DEF TaskVouched, Untouched
  <2> QED
    BY <2>1, <2>2, <2>3
<1> QED
  BY <1>8, <1>9, <1>10, <1>11 DEF Vouched

\* The create writes down what it made.
LEMMA CreateReturnsVouched ==
    ASSUME IInv, Vouched, NEW t \in Request, CreateReturns(t)
    PROVE  TruthsTold /\ Vouched'
<1>1. PICK s \in Server : s = task[t].srv
  BY CreatingTask DEF CreateReturns, Actor
<1>2. /\ t \in Actor /\ task[t].pc = "provisioned" /\ UNCHANGED <<machine, wire>>
      /\ WriteRow(s, CreatedRow(row[s], task[t].view)) /\ Finish(t)
  BY <1>1 DEF CreateReturns, Actor
<1>3. /\ Exists(s) /\ row[s] \in Row /\ RowCoherent(row[s]) /\ Bare(row[s])
      /\ row[s].status \in {"requested", "failed", "terminated"}
      /\ task[t].view \in {"pending", "running"}
      /\ \A u \in Actor \ {t} :
            task[u].pc \in {"validate", "provision", "provisioned"} => task[u].srv # s
  BY <1>1, <1>2, CreatingTask, TaskKind
<1>4. machine[s] # "none"
  BY <1>1, <1>2 DEF Vouched, TaskVouched
<1> DEFINE q == CreatedRow(row[s], task[t].view)
<1>5. q \in Row /\ q.handle
  BY <1>3, CreatedRowCoheres
<1>6. Truthful(row[s], q, machine[s]) /\ ~ClaimsDeath(q)
  BY <1>3, <1>4, CreatedRowTruthful
<1>7. row'[s] = q /\ \A u \in Server \ {s} : row'[u] = row[u]
  BY <1>2, <1>5, WriteTyped DEF IInv
<1> HIDE DEF q
<1>8. task'[t] = Idle /\ \A u \in Actor \ {t} : task'[u] = task[u]
  BY <1>2, FinishTyped DEF IInv
<1>9. TruthsTold
  <2>1. ASSUME NEW u \in Server \ {s}, Exists(u)
        PROVE  Truthful(row[u], row'[u], machine[u])
    BY <1>7, <2>1, HonestStays DEF Honest
  <2> QED
    BY <1>6, <1>7, <2>1 DEF TruthsTold
<1>10. ASSUME NEW u \in Server
       PROVE  RowVouched(u)'
  <2>1. RowVouched(u)
    BY DEF Vouched
  <2>2. CASE u = s
    <3>1. q.status # "absent"
      BY <1>5 DEF Row, Statuses
    <3> QED
      BY <1>2, <1>4, <1>6, <1>7, <2>2, <3>1 DEF RowVouched, Exists
  <2>3. CASE u # s
    BY <1>2, <1>7, <2>1, <2>3 DEF RowVouched, Exists, Untouched
  <2> QED
    BY <2>2, <2>3
<1>11. TaskVouched(t)'
  BY <1>8 DEF TaskVouched, Idle
<1>12. ASSUME NEW u \in Actor \ {t}
       PROVE  TaskVouched(u)'
  <2>1. CASE task[u].pc = "idle"
    BY <1>8, <2>1 DEF TaskVouched
  <2>2. CASE task[u].pc # "idle" /\ task[u].srv = s
    <3>1. task[u].pc \notin {"validate", "provision", "provisioned"} /\ TaskVouched(u)
      BY <1>3, <2>2 DEF Vouched
    <3> QED
      BY <1>2, <1>8, <3>1 DEF TaskVouched
  <2>3. CASE task[u].pc # "idle" /\ task[u].srv # s
    <3>1. task[u].srv \in Server \ {s} /\ TaskVouched(u)
      BY <2>3, BusyTask DEF Vouched
    <3> QED
      BY <1>2, <1>7, <1>8, <3>1 DEF TaskVouched, Untouched
  <2> QED
    BY <2>1, <2>2, <2>3
<1> QED
  BY <1>9, <1>10, <1>11, <1>12 DEF Vouched

\* A request that fails before its machine is made.
LEMMA CreateFailsVouched ==
    ASSUME IInv, Vouched, NEW t \in Request, CreateFails(t)
    PROVE  TruthsTold /\ Vouched'
<1> DEFINE s == task[t].srv
           q == TryStatus(row[s], "failed")
<1>1. /\ t \in Actor /\ s \in Server /\ Exists(s)
      /\ row[s] \in Row /\ RowCoherent(row[s])
      /\ UNCHANGED <<machine, wire>> /\ WriteRow(s, q) /\ Finish(t)
  BY BusyTask DEF CreateFails, Actor
<1>2. q \in Row /\ Honest(row[s], q, machine[s])
  BY <1>1, TryFailedHonest, TryFailedFollows DEF Follows, Advances
<1> HIDE DEF s, q
<1> QED
  BY <1>1, <1>2, HonestStep, WriteHonest, CloudStays, FinishHonest

\* A task folds what a provider said into its row, and finishes or acts on it.
LEMMA FoldVouched ==
    ASSUME IInv, Vouched, NEW t \in Actor, task[t].pc = "fold",
           WriteRow(task[t].srv, SyncedRow(t)), TasksHonest, UNCHANGED <<machine, wire>>
    PROVE  TruthsTold /\ Vouched'
<1> DEFINE s == task[t].srv
<1>1. /\ s \in Server /\ Exists(s) /\ WriteRow(s, SyncedRow(t))
      /\ SyncedRow(t) \in Row /\ Honest(row[s], SyncedRow(t), machine[s])
  BY HeldTask, SyncHonest
<1> HIDE DEF s
<1> QED
  BY <1>1, HonestStep, WriteHonest, CloudStays

\* A row is failed where it stands.
LEMMA TryFailedVouched ==
    ASSUME IInv, Vouched, NEW s \in Server, Exists(s),
           WriteRow(s, TryStatus(row[s], "failed")), TasksHonest,
           UNCHANGED <<machine, wire>>
    PROVE  TruthsTold /\ Vouched'
<1>1. row[s] \in Row /\ RowCoherent(row[s])
  BY ExistingRow DEF IInv, Coherent, RowsCohere
<1>2. /\ TryStatus(row[s], "failed") \in Row
      /\ Honest(row[s], TryStatus(row[s], "failed"), machine[s])
  BY <1>1, TryFailedHonest, TryFailedFollows DEF Follows, Advances
<1> QED
  BY <1>2, HonestStep, WriteHonest, CloudStays

\* A step that writes neither rows nor machines, and starts tasks afresh.
LEMMA QuietVouched ==
    ASSUME IInv, Vouched, UNCHANGED <<row, machine, wire>>, TasksHonest
    PROVE  TruthsTold /\ Vouched'
BY HonestStep, UnwrittenHonest, CloudStays

\* A read begins.
LEMMA ReadBeginVouched ==
    ASSUME IInv, Vouched, NEW t \in Request, NEW op \in {"get", "start", "stop"},
           NEW s \in Server, ReadBegin(t, op, s)
    PROVE  TruthsTold /\ Vouched'
<1> DEFINE d == IF op = "get" THEN Doing(op, s, "describe")
                              ELSE Holding(op, s, "describe", row[s].status)
<1>1. /\ t \in Actor /\ Exists(s) /\ Go(t, d) /\ UNCHANGED <<row, machine, wire>>
  BY DEF ReadBegin, Actor
<1>2. row[s].status \in Statuses /\ op \in Ops /\ "describe" \in Waits
  BY <1>1, ExistingRow DEF IInv, Row, Ops, Waits
<1>3. d \in Tasks /\ d.pc = "describe"
  BY <1>2, TasksTyped DEF Doing, Holding
<1> HIDE DEF d
<1> QED
  BY <1>1, <1>3, TaskHonest, QuietVouched

\* A read returns.
LEMMA ReadReturnsVouched ==
    ASSUME IInv, Vouched, NEW t \in Request, ReadReturns(t)
    PROVE  TruthsTold /\ Vouched'
<1>1. /\ t \in Actor /\ task[t].pc = "fold" /\ WriteRow(task[t].srv, SyncedRow(t))
      /\ UNCHANGED <<machine, wire>>
      /\ Finish(t) \/ Go(t, Doing(task[t].op, task[t].srv, "power"))
  BY DEF ReadReturns, Actor
<1>2. task[t].op \in Ops /\ task[t].srv \in Server
  BY <1>1, BusyTask DEF Tasks
<1>3. TasksHonest
  BY <1>1, <1>2, FinishHonest, DoingHonest
<1> QED
  BY <1>1, <1>3, FoldVouched

\* A terminate begins.
LEMMA TerminateBeginVouched ==
    ASSUME IInv, Vouched, NEW t \in Request, NEW s \in Server, TerminateBegin(t, s)
    PROVE  TruthsTold /\ Vouched'
<1>1. t \in Actor /\ Exists(s) /\ row[s].status # "terminated" /\ UNCHANGED <<machine, wire>>
  BY DEF TerminateBegin, Actor
<1>2. row[s] \in Row /\ RowCoherent(row[s])
  BY <1>1, ExistingRow DEF IInv, Coherent, RowsCohere
<1>3. CASE row[s].handle
  <2>1. Go(t, Doing("terminate", s, "release")) /\ UNCHANGED row
    BY <1>3 DEF TerminateBegin
  <2> QED
    BY <1>1, <2>1, DoingHonest, QuietVouched DEF Ops
<1>4. CASE ~row[s].handle
  <2> DEFINE q == WithStatus(row[s], "terminated")
  <2>1. WriteRow(s, q) /\ UNCHANGED task
    BY <1>4 DEF TerminateBegin
  <2>2. q \in Row /\ Honest(row[s], q, machine[s])
    BY <1>1, <1>2, <1>4, TerminatedHonest, TerminatedFollows DEF Follows, Advances
  <2> HIDE DEF q
  <2> QED
    BY <1>1, <2>1, <2>2, HonestStep, WriteHonest, CloudStays, TasksStayHonest
<1> QED
  BY <1>3, <1>4

\* A terminate returns: the row is given up only if the release was accepted.
LEMMA TerminateReturnsVouched ==
    ASSUME IInv, Vouched, NEW t \in Request, TerminateReturns(t)
    PROVE  TruthsTold /\ Vouched'
<1> DEFINE s == task[t].srv
           q == WithStatus(row[s], "terminated")
<1>1. /\ t \in Actor /\ task[t].pc = "released" /\ Finish(t) /\ UNCHANGED <<machine, wire>>
      /\ \/ UNCHANGED row
         \/ task[t].view = "ok" /\ row[s].status # "terminated" /\ WriteRow(s, q)
  BY DEF TerminateReturns, Actor
<1>2. /\ s \in Server /\ Exists(s) /\ row[s] \in Row /\ RowCoherent(row[s])
      /\ task[t].view = "ok" => Dying(machine[s])
  BY <1>1, HeldTask
<1>3. TasksHonest
  BY <1>1, FinishHonest
<1>4. CASE UNCHANGED row
  BY <1>1, <1>3, <1>4, QuietVouched
<1>5. CASE task[t].view = "ok" /\ row[s].status # "terminated" /\ WriteRow(s, q)
  <2>1. q \in Row /\ Honest(row[s], q, machine[s])
    BY <1>2, <1>5, TerminatedHonest, TerminatedFollows DEF Follows, Advances
  <2> HIDE DEF s, q
  <2> QED
    BY <1>1, <1>2, <1>3, <1>5, <2>1, HonestStep, WriteHonest, CloudStays
<1> QED
  BY <1>1, <1>4, <1>5

\* A failure's release is back, and reported as it went.
LEMMA FailReturnsVouched ==
    ASSUME IInv, Vouched, NEW t \in Actor, FailReturns(t)
    PROVE  TruthsTold /\ Vouched'
<1> DEFINE s       == task[t].srv
           outcome == IF task[t].view = "ok" THEN "terminated" ELSE "terminate-failed"
           q       == FailedRow(row[s], outcome)
<1>1. /\ task[t].pc = "released" /\ Finish(t) /\ UNCHANGED <<machine, wire>>
      /\ WriteRow(s, q)
  BY DEF FailReturns
<1>2. /\ s \in Server /\ Exists(s) /\ row[s] \in Row /\ RowCoherent(row[s])
      /\ row[s].handle
      /\ task[t].view = "ok" => Dying(machine[s])
  BY <1>1, HeldTask
<1>3. outcome \in InstanceOutcomes /\ (outcome = "terminated" => Dying(machine[s]))
  BY <1>2 DEF InstanceOutcomes
<1> HIDE DEF outcome
<1>4. q \in Row /\ Honest(row[s], q, machine[s])
  BY <1>2, <1>3, FailedRowHonest, FailedRowFollows DEF Follows, Advances
<1> HIDE DEF s, q
<1> QED
  BY <1>1, <1>2, <1>4, HonestStep, WriteHonest, CloudStays, FinishHonest

\* failBootstrap as it begins, for a row r that s has honestly moved to.
LEMMA FailBootstrapVouched ==
    ASSUME IInv, Vouched, NEW t \in Actor, NEW s \in Server, Exists(s), row[s].handle,
           NEW r \in Row, RowCoherent(r), r.handle, Honest(row[s], r, machine[s]),
           NEW phase, FailBootstrap(t, s, r, phase), UNCHANGED <<machine, wire>>
    PROVE  TruthsTold /\ Vouched'
<1>1. CASE WriteRow(s, r) /\ Go(t, Doing("fail", s, "release"))
  BY <1>1, HonestStep, WriteHonest, CloudStays, DoingHonest DEF Ops
<1>2. CASE WriteRow(s, FailedRow(r, "kept")) /\ Finish(t)
  <2> DEFINE q == FailedRow(r, "kept")
  <2>1. q \in Row /\ Honest(r, q, machine[s])
    BY FailedRowHonest, FailedRowFollows DEF InstanceOutcomes, Follows, Advances
  <2>2. Honest(row[s], q, machine[s])
    BY <2>1, HonestTwice
  <2>3. WriteRow(s, q)
    BY <1>2
  <2> HIDE DEF q
  <2> QED
    BY <1>2, <2>1, <2>2, <2>3, HonestStep, WriteHonest, CloudStays, FinishHonest
<1> QED
  BY <1>1, <1>2 DEF FailBootstrap

\* What a live box says of its own bootstrap.
LEMMA ProgressOfBox ==
    ASSUME IInv, NEW s \in Server, Exists(s), AcceptsProgressReports(row[s].status),
           NEW step \in BoxSteps
    PROVE  LET r == RecordProgress(row[s], step) IN
           /\ row[s].handle /\ r \in Row /\ RowCoherent(r) /\ r.handle
           /\ Honest(row[s], r, machine[s])
<1>1. /\ row[s] \in Row /\ RowCoherent(row[s]) /\ row[s].status = "provisioning"
      /\ step \in Steps
  BY ExistingRow, BoundsAssumption
  DEF AcceptsProgressReports, IInv, Coherent, RowsCohere, BoundsAssumption
<1>2. row[s].handle
  BY <1>1 DEF RowCoherent
<1> QED
  BY <1>1, <1>2, ProgressCoheres, ProgressHonest

\* A box calls back that its plan failed.
LEMMA CallbackFailsVouched ==
    ASSUME IInv, Vouched, NEW t \in Request, NEW s \in Server, NEW step \in BoxSteps,
           NEW phase, CallbackFails(t, s, step, phase)
    PROVE  TruthsTold /\ Vouched'
<1> DEFINE r == RecordProgress(row[s], step)
<1>1. /\ t \in Actor /\ Exists(s) /\ AcceptsProgressReports(row[s].status)
      /\ FailBootstrap(t, s, r, phase) /\ UNCHANGED <<machine, wire>>
  BY DEF CallbackFails, Actor
<1>2. /\ row[s].handle /\ r \in Row /\ RowCoherent(r) /\ r.handle
      /\ Honest(row[s], r, machine[s])
  BY <1>1, ProgressOfBox
<1> HIDE DEF r
<1> QED
  BY <1>1, <1>2, FailBootstrapVouched

\* A box reports a step.
LEMMA BoxReportsVouched ==
    ASSUME IInv, Vouched, NEW s \in Server, NEW step \in BoxSteps, BoxReports(s, step)
    PROVE  TruthsTold /\ Vouched'
<1> DEFINE r == RecordProgress(row[s], step)
<1>1. /\ Exists(s) /\ AcceptsProgressReports(row[s].status)
      /\ WriteRow(s, r) /\ UNCHANGED <<machine, task, wire>>
  BY DEF BoxReports
<1>2. r \in Row /\ Honest(row[s], r, machine[s])
  BY <1>1, ProgressOfBox
<1> HIDE DEF r
<1> QED
  BY <1>1, <1>2, HonestStep, WriteHonest, CloudStays, TasksStayHonest

-----------------------------------------------------------------------------
(***************************************************************************)
(* The steps of the provider, the jobs and the cloud.                      *)
(***************************************************************************)

\* An answer says a machine is ending only when it is.
LEMMA DescribeLandsVouched ==
    ASSUME IInv, Vouched, NEW t \in Actor, DescribeLands(t)
    PROVE  TruthsTold /\ Vouched'
<1>1. task[t].pc = "describe" /\ UNCHANGED <<row, machine, wire>>
  BY DEF DescribeLands
<1>2. task[t] \in Tasks /\ machine[task[t].srv] \in Machines
  BY <1>1, BusyTask DEF IInv, TypeOK
<1>3. PICK v : /\ v \in Views(machine[task[t].srv]) \union {"error", "notfound", "unknown"}
               /\ Answer(t, "fold", v)
  BY DEF DescribeLands
<1>4. v \in Answers /\ (v \in {"terminating", "terminated"} => Dying(machine[task[t].srv]))
  BY <1>2, <1>3 DEF Views, Machines, Answers, InstanceStates, Dying
<1>5. /\ task'[t] = [task[t] EXCEPT !.pc = "fold", !.view = v]
      /\ \A u \in Actor \ {t} : task'[u] = task[u]
  <2>1. "fold" \in Waits
    BY DEF Waits
  <2> QED
    BY <1>3, <1>4, <2>1, AnswerTyped DEF IInv
<1>6. task'[t].pc = "fold" /\ task'[t].view = v /\ task'[t].srv = task[t].srv
  BY <1>2, <1>5 DEF Tasks
<1>7. TaskVouched(t)'
  BY <1>1, <1>4, <1>6 DEF TaskVouched
<1> QED
  BY <1>1, <1>5, <1>7, QuietVouched DEF TasksHonest

\* What one machine becomes leaves the others as they are.
LEMMA OneMachineAges ==
    ASSUME IInv, NEW s \in Server, NEW m, machine' = [machine EXCEPT ![s] = m],
           machine[s] # "none" => m # "none", Dying(machine[s]) => Dying(m),
           wire' \subseteq wire,
           Untouched(s) => m = "none"
    PROVE  MachinesAge
<1>1. machine'[s] = m /\ \A u \in Server \ {s} : machine'[u] = machine[u]
  BY DEF IInv, TypeOK
<1> QED
  BY <1>1 DEF MachinesAge, Untouched

\* A power call wakes or stops a machine, and neither makes nor ends one.
LEMMA PowerLandsVouched ==
    ASSUME IInv, Vouched, NEW t \in Actor, PowerLands(t)
    PROVE  TruthsTold /\ Vouched'
<1>1. PICK s \in Server : s = task[t].srv
  BY HeldTask DEF PowerLands
<1>2. PICK m : m = PowerEffect(task[t].op, machine[s])
  OBVIOUS
<1>3. /\ machine' = [machine EXCEPT ![s] = m] /\ UNCHANGED <<row, wire>>
      /\ Finish(t) \/ Go(t, Doing("get", s, "describe"))
  BY <1>1, <1>2 DEF PowerLands
<1>4. /\ machine[s] # "none" => m # "none"
      /\ Dying(machine[s]) => Dying(m)
      /\ Untouched(s) => m = "none"
  BY <1>2 DEF PowerEffect, Dying, Untouched
<1>5. MachinesAge
  BY <1>3, <1>4, OneMachineAges
<1>6. TasksHonest
  BY <1>3, FinishHonest, DoingHonest DEF Ops
<1> QED
  BY <1>3, <1>5, <1>6, HonestStep, UnwrittenHonest

\* An accepted release ends the machine of any row with a handle.
LEMMA ReleaseLandsVouched ==
    ASSUME IInv, Vouched, NEW t \in Actor, ReleaseLands(t)
    PROVE  TruthsTold /\ Vouched'
<1>1. PICK s \in Server : s = task[t].srv
  BY HeldTask DEF ReleaseLands
<1>2. /\ task[t].pc = "release" /\ UNCHANGED <<row, wire>>
      /\ machine[s] \in Machines /\ machine[s] # "none"
  BY <1>1, HeldTask DEF ReleaseLands, IInv, TypeOK
<1>3. PICK v \in {"ok", "refused"} :
        /\ Answer(t, "released", v)
        /\ v = "ok" => machine' = [machine EXCEPT ![s] = Released(machine[s])]
        /\ v = "refused" => UNCHANGED machine
  BY <1>1 DEF ReleaseLands
<1>4. Dying(Released(machine[s])) /\ Released(machine[s]) # "none"
  BY <1>2 DEF Released, Dying
<1>5. MachinesAge
  <2>1. CASE v = "ok"
    BY <1>2, <1>3, <1>4, <2>1, OneMachineAges DEF Untouched
  <2>2. CASE v = "refused"
    BY <1>2, <1>3, <2>2, CloudStays
  <2> QED
    BY <2>1, <2>2
<1>6. /\ task'[t] = [task[t] EXCEPT !.pc = "released", !.view = v]
      /\ \A u \in Actor \ {t} : task'[u] = task[u]
  <2>1. "released" \in Waits /\ v \in Answers
    BY <1>3 DEF Waits, Answers
  <2>2. Answer(t, "released", v)
    BY <1>3
  <2> QED
    BY <2>1, <2>2, AnswerTyped DEF IInv
<1>7. task'[t].pc = "released" /\ task'[t].view = v /\ task'[t].srv = s
  <2>1. task[t] \in Tasks
    BY DEF IInv, TypeOK
  <2> QED
    BY <1>1, <1>6, <2>1 DEF Tasks
<1>8. v = "ok" => Dying(machine'[s])
  BY <1>3, <1>4 DEF IInv, TypeOK
<1>9. TaskVouched(t)'
  BY <1>7, <1>8 DEF TaskVouched
<1>10. TasksHonest
  BY <1>6, <1>9 DEF TasksHonest
<1> QED
  BY <1>2, <1>5, <1>10, HonestStep, UnwrittenHonest

\* The ticker takes the next row of its list.
LEMMA TickNextVouched ==
    ASSUME IInv, Vouched, NEW s \in Server, TickNext(s)
    PROVE  TruthsTold /\ Vouched'
<1>1. /\ Exists(s) /\ UNCHANGED <<machine, wire>>
      /\ row[s] \in Row /\ RowCoherent(row[s])
  BY ExistingRow DEF TickNext, IInv, Coherent, ListsCohere, RowsCohere
<1>2. CASE s \in tick.known
  <2>1. /\ UNCHANGED row
        /\ \/ Go("ticker", Doing("stuck", s, "release"))
           \/ Go("ticker", Holding("tick", s, "describe", "provisioning"))
    BY <1>2 DEF TickNext
  <2>2. TasksHonest
    <3>1. CASE Go("ticker", Doing("stuck", s, "release"))
      BY <3>1, JobsAreActors, DoingHonest DEF Ops
    <3>2. CASE Go("ticker", Holding("tick", s, "describe", "provisioning"))
      <4> DEFINE d == Holding("tick", s, "describe", "provisioning")
      <4>1. d \in Tasks /\ d.pc = "describe"
        BY TasksTyped DEF Ops, Waits, Statuses, Holding
      <4>2. Go("ticker", d)
        BY <3>2
      <4> HIDE DEF d
      <4> QED
        BY <4>1, <4>2, JobsAreActors, TaskHonest
    <3> QED
      BY <2>1, <3>1, <3>2
  <2> QED
    BY <1>1, <2>1, <2>2, QuietVouched
<1>3. CASE s \notin tick.known
  <2>1. /\ UNCHANGED task
        /\ WriteRow(s, row[s]) \/ WriteRow(s, TryStatus(row[s], "failed"))
    BY <1>3 DEF TickNext
  <2>2. CASE WriteRow(s, row[s])
    BY <1>1, <2>1, <2>2, HonestStays, HonestStep, WriteHonest, CloudStays, TasksStayHonest
  <2>3. CASE WriteRow(s, TryStatus(row[s], "failed"))
    BY <1>1, <2>1, <2>3, TryFailedVouched, TasksStayHonest
  <2> QED
    BY <2>1, <2>2, <2>3
<1> QED
  BY <1>2, <1>3

\* The ticker's sync is back, and the supervisor is polled.
LEMMA TickReturnsVouched ==
    ASSUME IInv, Vouched, TickReturns
    PROVE  TruthsTold /\ Vouched'
<1> DEFINE t == "ticker"
           s == task[t].srv
           r == SyncedRow(t)
<1>1. /\ t \in Actor /\ task[t].pc = "fold" /\ UNCHANGED <<machine, wire>>
      /\ s \in Server /\ Exists(s) /\ row[s] \in Row /\ row[s].handle
  BY JobsAreActors, HeldTask DEF TickReturns
<1>2. r \in Row /\ RowCoherent(r) /\ r.handle /\ Honest(row[s], r, machine[s])
  BY <1>1, SyncHonest
<1>3. \/ WriteRow(s, r) /\ Finish(t)
      \/ WriteRow(s, TryStatus(r, "failed")) /\ Finish(t)
      \/ FailBootstrap(t, s, r, drive[s])
  BY DEF TickReturns, Poll
<1> HIDE DEF s, r
<1>4. CASE WriteRow(s, r) /\ Finish(t)
  BY <1>1, <1>2, <1>4, HonestStep, WriteHonest, CloudStays, FinishHonest
<1>5. CASE WriteRow(s, TryStatus(r, "failed")) /\ Finish(t)
  <2> DEFINE q == TryStatus(r, "failed")
  <2>1. q \in Row /\ Honest(r, q, machine[s])
    BY <1>2, TryFailedHonest, TryFailedFollows DEF Follows, Advances
  <2>2. Honest(row[s], q, machine[s])
    BY <1>1, <1>2, <2>1, HonestTwice
  <2>3. WriteRow(s, q)
    BY <1>5
  <2> HIDE DEF q
  <2> QED
    BY <1>1, <1>5, <2>1, <2>2, <2>3, HonestStep, WriteHonest, CloudStays, FinishHonest
<1>6. CASE FailBootstrap(t, s, r, drive[s])
  BY <1>1, <1>2, <1>6, FailBootstrapVouched
<1> QED
  BY <1>3, <1>4, <1>5, <1>6

\* The ticker's release of a stuck row is back.
LEMMA StuckReturnsVouched ==
    ASSUME IInv, Vouched, StuckReturns
    PROVE  TruthsTold /\ Vouched'
<1> DEFINE s == task["ticker"].srv
<1>1. /\ s \in Server /\ Exists(s) /\ UNCHANGED <<machine, wire>>
      /\ WriteRow(s, TryStatus(row[s], "failed")) /\ Finish("ticker")
  BY JobsAreActors, BusyTask DEF StuckReturns
<1> HIDE DEF s
<1> QED
  BY <1>1, JobsAreActors, FinishHonest, TryFailedVouched

\* The reconciler asks about a row.
LEMMA SweepNextVouched ==
    ASSUME IInv, Vouched, NEW s \in Server, SweepNext(s)
    PROVE  TruthsTold /\ Vouched'
<1>1. Go("reconciler", Doing("sweep", s, "describe")) /\ UNCHANGED <<row, machine, wire>>
  BY DEF SweepNext
<1> QED
  BY <1>1, JobsAreActors, DoingHonest, QuietVouched DEF Ops

\* The recovery pass takes a row, and hears of its machine.
LEMMA RecoveryVouched ==
    ASSUME IInv, Vouched, RecoveryStep
    PROVE  TruthsTold /\ Vouched'
<1>1. CASE Boot \/ Serve
  BY <1>1, TasksStayHonest, QuietVouched DEF Boot, Serve
<1>2. ASSUME NEW s \in Server, RecoverNext(s)
      PROVE  TruthsTold /\ Vouched'
  <2>1. /\ Exists(s) /\ UNCHANGED <<machine, wire>>
        /\ \/ Go("recovery", Doing("recover", s, "describe")) /\ UNCHANGED row
           \/ WriteRow(s, TryStatus(row[s], "failed")) /\ UNCHANGED task
    BY <1>2 DEF RecoverNext, IInv, Coherent, ListsCohere
  <2> QED
    BY <2>1, JobsAreActors, DoingHonest, QuietVouched, TryFailedVouched, TasksStayHonest
    DEF Ops
<1>3. CASE RecoverReturns
  <2> DEFINE t == "recovery"
             s == task[t].srv
  <2>1. /\ t \in Actor /\ task[t].pc = "fold" /\ Finish(t) /\ UNCHANGED <<machine, wire>>
        /\ WriteRow(s, SyncedRow(t)) \/ WriteRow(s, TryStatus(row[s], "failed"))
    BY <1>3, JobsAreActors DEF RecoverReturns
  <2>2. s \in Server /\ Exists(s) /\ TasksHonest
    BY <2>1, HeldTask, FinishHonest
  <2>3. CASE WriteRow(s, SyncedRow(t))
    BY <2>1, <2>2, <2>3, FoldVouched
  <2>4. CASE WriteRow(s, TryStatus(row[s], "failed"))
    BY <2>1, <2>2, <2>4, TryFailedVouched
  <2> QED
    BY <2>1, <2>3, <2>4
<1> QED
  BY <1>1, <1>2, <1>3 DEF RecoveryStep

\* A crash forgets every task, and leaves no call behind for a server without a row.
LEMMA CrashVouched ==
    ASSUME IInv, Vouched, Crash
    PROVE  TruthsTold /\ Vouched'
<1>1. UNCHANGED <<row, machine>> /\ task' = [t \in Actor |-> Idle]
  BY DEF Crash
<1>2. TruthsTold
  BY <1>1, HonestStays DEF TruthsTold, Honest
<1>3. ASSUME NEW s \in Server, ~Exists(s)
      PROVE  Untouched(s)'
  <2>1. Untouched(s)
    BY <1>3 DEF Vouched, RowVouched
  <2>2. ASSUME NEW t \in Actor, task[t].pc \in {"provision", "power", "release"}
        PROVE  task[t].srv # s
    BY <1>3, <2>2, BusyTask
  <2>3. \A call \in Calls : <<call, s>> \notin wire'
    BY <2>1, <2>2 DEF Crash, Untouched
  <2> QED
    BY <1>1, <2>1, <2>3 DEF Untouched
<1>4. ASSUME NEW s \in Server
      PROVE  RowVouched(s)'
  BY <1>1, <1>3 DEF Vouched, RowVouched, Exists
<1>5. ASSUME NEW t \in Actor
      PROVE  TaskVouched(t)'
  BY <1>1 DEF TaskVouched, Idle
<1> QED
  BY <1>2, <1>4, <1>5 DEF Vouched

\* What machines do by themselves, what others do to them, and what becomes of
\* a call nobody waits for.
LEMMA CloudVouched ==
    ASSUME IInv, Vouched, NEW s \in Server, CloudStep(s)
    PROVE  TruthsTold /\ Vouched'
<1>1. UNCHANGED <<row, task>>
  BY DEF CloudStep, MachineSettles, Mishap, WireLands
<1>2. machine[s] \in Machines
  BY DEF IInv, TypeOK
<1>3. CASE MachineSettles(s)
  <2>1. machine' = [machine EXCEPT ![s] = Settles(machine[s])] /\ UNCHANGED wire
    BY <1>3 DEF MachineSettles
  <2>2. /\ machine[s] = "none" <=> Settles(machine[s]) = "none"
        /\ Dying(machine[s]) => Dying(Settles(machine[s]))
    BY <1>2 DEF Settles, Dying, Machines
  <2>3. MachinesAge
    BY <2>1, <2>2, OneMachineAges DEF Untouched
  <2> QED
    BY <1>1, <2>3, HonestStep, UnwrittenHonest, TasksStayHonest
<1>4. ASSUME NEW kind \in Mishaps, Mishap(s, kind)
      PROVE  TruthsTold /\ Vouched'
  <2>1. PICK m \in {"failed", "terminating", "stopping"} :
          machine' = [machine EXCEPT ![s] = m]
    BY <1>4 DEF Mishap
  <2>2. UNCHANGED wire /\ machine[s] # "none" /\ ~Dying(machine[s])
    BY <1>4 DEF Mishap, Alive, Dying
  <2>3. MachinesAge
    BY <2>1, <2>2, OneMachineAges DEF Untouched
  <2> QED
    BY <1>1, <2>3, HonestStep, UnwrittenHonest, TasksStayHonest
<1>5. ASSUME NEW call \in Calls, WireLands(call, s)
      PROVE  TruthsTold /\ Vouched'
  <2>1. ~Untouched(s) /\ wire' \subseteq wire
    BY <1>5 DEF WireLands, Untouched
  <2> DEFINE m == CASE call = "create"    -> IF machine[s] = "none" THEN "pending" ELSE machine[s]
                    [] call = "terminate" -> Released(machine[s])
                    [] OTHER              -> PowerEffect(call, machine[s])
  <2>2. UNCHANGED machine \/ machine' = [machine EXCEPT ![s] = m]
    BY <1>5 DEF WireLands
  <2>3. /\ machine[s] # "none" => m # "none"
        /\ Dying(machine[s]) => Dying(m)
    BY DEF Released, PowerEffect, Dying
  <2> HIDE DEF m
  <2>4. MachinesAge
    <3>1. CASE UNCHANGED machine
      BY <2>1, <3>1 DEF MachinesAge, Untouched
    <3>2. CASE machine' = [machine EXCEPT ![s] = m]
      BY <2>1, <2>3, <3>2, OneMachineAges
    <3> QED
      BY <2>2, <3>1, <3>2
  <2> QED
    BY <1>1, <2>4, HonestStep, UnwrittenHonest, TasksStayHonest
<1> QED
  BY <1>3, <1>4, <1>5 DEF CloudStep

-----------------------------------------------------------------------------
(***************************************************************************)
(* All steps.                                                              *)
(***************************************************************************)

\* Nothing is claimed at first.
LEMMA InitVouched == Init => Vouched
BY DEF Init, Vouched, RowVouched, TaskVouched, Untouched, Exists, NoRow, Idle

\* Every step tells the truth and leaves everything vouched for.
LEMMA StepsVouched ==
    ASSUME IInv, Vouched, [Next]_vars
    PROVE  TruthsTold /\ Vouched'
<1>1. ASSUME NEW t \in Request, RequestStep(t)
      PROVE  TruthsTold /\ Vouched'
  BY <1>1, CreateBeginVouched, CreateBreaksVouched, TerminateBeginVouched, ReadBeginVouched,
     CallbackFailsVouched, ValidateReturnsVouched, CreateFailsVouched,
     CreateReturnsVouched, ReadReturnsVouched, TerminateReturnsVouched
  DEF RequestStep
<1>2. ASSUME NEW t \in Actor, ProviderStep(t) \/ FailReturns(t)
      PROVE  TruthsTold /\ Vouched'
  BY <1>2, ProvisionLandsVouched, DescribeLandsVouched, PowerLandsVouched,
     ReleaseLandsVouched, FailReturnsVouched
  DEF ProviderStep
<1>3. CASE TickerStep
  <2>1. CASE TickBegin
    BY <2>1, TasksStayHonest, QuietVouched DEF TickBegin
  <2> QED
    BY <1>3, <2>1, TickNextVouched, TickReturnsVouched, StuckReturnsVouched
    DEF TickerStep
<1>4. CASE ReconcilerStep
  <2>1. CASE SweepBegin \/ SweepLists \/ SweepEnds
    BY <2>1, TasksStayHonest, QuietVouched DEF SweepBegin, SweepLists, SweepEnds
  <2>2. CASE SweepReturns
    BY <2>2, JobsAreActors, FinishHonest, FoldVouched DEF SweepReturns
  <2> QED
    BY <1>4, <2>1, <2>2, SweepNextVouched DEF ReconcilerStep
<1>5. CASE RecoveryStep
  BY <1>5, RecoveryVouched
<1>6. ASSUME NEW s \in Server, BoxStep(s) \/ CloudStep(s) \/ Expire(s)
      PROVE  TruthsTold /\ Vouched'
  <2>1. CASE Expire(s) \/ \E outcome \in {"tool", "other", "below", "idle"} : DriveEnds(s, outcome)
    BY <2>1, TasksStayHonest, QuietVouched DEF Expire, DriveEnds
  <2> QED
    BY <1>6, <2>1, BoxReportsVouched, CloudVouched DEF BoxStep
<1>7. CASE Crash
  BY <1>7, CrashVouched
<1>8. CASE UNCHANGED vars
  BY <1>8, TasksStayHonest, QuietVouched DEF vars
<1> QED
  BY <1>1, <1>2, <1>3, <1>4, <1>5, <1>6, <1>7, <1>8 DEF Next

\* Rows and answers are vouched for at every moment.
LEMMA AlwaysVouched == Spec => [](IInv /\ Vouched)
<1>1. Init => IInv /\ Vouched
  BY Initially, InitVouched
<1>2. IInv /\ Vouched /\ [Next]_vars => (IInv /\ Vouched)'
  BY Inductive, StepsVouched
<1> QED
  BY <1>1, <1>2, PTL DEF Spec

\* A row records the end of its machine, and so stops its meter, only when the
\* machine is ending: no late answer, crash or lost call makes it say so early.
THEOREM DeathsAreTrue == Spec => []DeathIsTrue
<1>1. IInv /\ Vouched => DeathIsTrue
  BY DEF Vouched, RowVouched, ClaimsDeath, Dying, DeathIsTrue
<1> QED
  BY <1>1, AlwaysVouched, PTL

\* A row core holds a handle for turns `terminated`, and leaves the dashboard,
\* only once its machine has been let go of, whatever overlaps the terminate.
THEOREM EndsLetGo == Spec => TerminatedLetsGo
<1>1. IInv /\ Vouched /\ [Next]_vars =>
        [\A s \in Server :
            /\ Exists(s) /\ row[s].status # "terminated" /\ row[s].handle
            /\ row'[s].status = "terminated"
            => ~Alive(machine[s])]_vars
  BY StepsVouched DEF TruthsTold, Truthful, Dying, Alive
<1> QED
  BY <1>1, AlwaysVouched, PTL DEF Spec, TerminatedLetsGo

-----------------------------------------------------------------------------
(***************************************************************************)
(* Rows no create is working on.                                           *)
(***************************************************************************)

\* A `requested` row without a create has no machine behind it.
NothingBehind ==
    \A s \in Server :
        core = "serving" /\ row[s].status = "requested" => BeingCreated(s) \/ Untouched(s)

\* No machine comes to a server that has none, without its create or its handle.
LEMMA UntouchedStays ==
    ASSUME IInv, [Next]_vars, ~Crash, NEW s \in Server, Untouched(s), ~BeingCreated(s),
           Exists(s) => ~row[s].handle
    PROVE  Untouched(s)'
<1>1. CASE UNCHANGED <<machine, wire>>
  BY <1>1 DEF Untouched
<1>2. ASSUME NEW t \in Actor, ProviderStep(t)
      PROVE  Untouched(s)'
  <2>1. DescribeLands(t) => UNCHANGED <<machine, wire>>
    BY DEF DescribeLands
  <2>2. CASE ~DescribeLands(t)
    <3>1. task[t].pc \in {"provision", "power", "release"}
      BY <1>2, <2>2 DEF ProviderStep, ProvisionLands, PowerLands, ReleaseLands
    <3>2. task[t].srv # s
      BY <3>1, BusyTask, TaskKind DEF BeingCreated
    <3>3. machine'[s] = machine[s] /\ UNCHANGED wire
      BY <1>2, <2>2, <3>2
      DEF ProviderStep, ProvisionLands, PowerLands, ReleaseLands, IInv, TypeOK
    <3> QED
      BY <3>3 DEF Untouched
  <2> QED
    BY <1>1, <2>1, <2>2
<1>3. ASSUME NEW u \in Server, CloudStep(u)
      PROVE  Untouched(s)'
  <2>1. CASE u = s
    BY <1>3, <2>1 DEF CloudStep, MachineSettles, Settles, Mishap, WireLands, Alive, Untouched
  <2>2. CASE u # s
    <3>1. machine'[s] = machine[s] /\ wire' \subseteq wire
      BY <1>3, <2>2 DEF CloudStep, MachineSettles, Mishap, WireLands, IInv, TypeOK
    <3> QED
      BY <3>1 DEF Untouched
  <2> QED
    BY <2>1, <2>2
<1>4. ASSUME NEW t \in Request, RequestStep(t)
      PROVE  UNCHANGED <<machine, wire>>
  BY <1>4 DEF RequestStep, CreateBegin, CreateBreaks, TerminateBegin, ReadBegin, CallbackFails,
              ValidateReturns, CreateFails, CreateReturns, ReadReturns, TerminateReturns
<1>5. ASSUME TickerStep \/ ReconcilerStep
      PROVE  UNCHANGED <<machine, wire>>
  BY <1>5 DEF TickerStep, TickBegin, TickNext, TickReturns, StuckReturns, ReconcilerStep,
              SweepBegin, SweepLists, SweepNext, SweepReturns, SweepEnds
<1>6. ASSUME RecoveryStep
      PROVE  UNCHANGED <<machine, wire>>
  BY <1>6 DEF RecoveryStep, Boot, RecoverNext, RecoverReturns, Serve
<1>7. ASSUME NEW u \in Server, BoxStep(u) \/ Expire(u)
      PROVE  UNCHANGED <<machine, wire>>
  BY <1>7 DEF BoxStep, BoxReports, DriveEnds, Expire
<1>8. ASSUME NEW t \in Actor, FailReturns(t)
      PROVE  UNCHANGED <<machine, wire>>
  BY <1>8 DEF FailReturns
<1> QED
  BY <1>1, <1>2, <1>3, <1>4, <1>5, <1>6, <1>7, <1>8 DEF Next, vars

\* A create works on its row until the row is no longer `requested`.
LEMMA CreateStays ==
    ASSUME IInv, [Next]_vars, ~Crash, NEW s \in Server, BeingCreated(s),
           row'[s].status = "requested"
    PROVE  BeingCreated(s)'
<1>1. PICK t \in Request : task[t].op = "create" /\ task[t].srv = s
  BY DEF BeingCreated
<1>2. /\ t \in Actor /\ ~Free(t) /\ task[t].pc \in {"validate", "provision", "provisioned"}
      /\ task[t] \in Tasks
  <2>1. t \in Actor /\ ~Free(t)
    BY <1>1, FreeTask DEF Actor
  <2> QED
    BY <1>1, <2>1, BusyTask DEF TaskCoherent, Free
<1>3. CASE task'[t] = task[t]
  BY <1>1, <1>3 DEF BeingCreated
<1>4. t \notin Jobs
  BY RequestAssumption DEF Jobs
<1>5. ASSUME NEW u \in Request, RequestStep(u)
      PROVE  BeingCreated(s)'
  <2>1. CASE u # t
    <3>1. UNCHANGED task \/ \E d : Go(u, d)
      <4>1. ASSUME NEW v \in Server, CreateBegin(u, v) \/ CreateBreaks(u, v) \/ TerminateBegin(u, v)
            PROVE  UNCHANGED task \/ \E d : Go(u, d)
        BY <4>1 DEF CreateBegin, CreateBreaks, TerminateBegin
      <4>2. ASSUME NEW v \in Server, NEW op, ReadBegin(u, op, v)
            PROVE  \E d : Go(u, d)
        BY <4>2 DEF ReadBegin
      <4>3. ASSUME NEW v \in Server, NEW step, NEW phase, CallbackFails(u, v, step, phase)
            PROVE  \E d : Go(u, d)
        BY <4>3 DEF CallbackFails, FailBootstrap, Finish, Go
      <4>4. ASSUME ValidateReturns(u) \/ CreateFails(u) \/ CreateReturns(u) \/ TerminateReturns(u)
            PROVE  \E d : Go(u, d)
        BY <4>4 DEF ValidateReturns, CreateFails, CreateReturns, TerminateReturns, Answer, Finish, Go
      <4>5. ASSUME ReadReturns(u)
            PROVE  \E d : Go(u, d)
        BY <4>5 DEF ReadReturns, Finish, Go
      <4> QED
        BY <1>5, <4>1, <4>2, <4>3, <4>4, <4>5 DEF RequestStep
    <3> QED
      BY <1>2, <1>3, <2>1, <3>1 DEF Go, IInv, TypeOK
  <2>2. CASE u = t
    <3>1. CASE ValidateReturns(t)
      <4>1. task'[t] = [task[t] EXCEPT !.pc = "provision", !.view = "none"]
        BY <1>2, <3>1 DEF ValidateReturns, Answer, IInv, TypeOK
      <4> QED
        BY <1>1, <1>2, <4>1 DEF BeingCreated, Tasks
    <3>2. CASE CreateFails(t)
      <4>1. row'[s] = TryStatus(row[s], "failed") /\ row[s] \in Row /\ RowCoherent(row[s])
        BY <1>1, <1>2, <3>2, BusyTask DEF CreateFails, WriteRow, IInv, TypeOK
      <4>2. row'[s].status # "requested"
        BY <4>1, TryFailedFollows
      <4> QED
        BY <4>2
    <3>3. CASE CreateReturns(t)
      <4>1. /\ row'[s] = CreatedRow(row[s], task[t].view)
            /\ row[s] \in Row /\ RowCoherent(row[s])
        BY <1>1, <1>2, <3>3, BusyTask DEF CreateReturns, WriteRow, IInv, TypeOK
      <4>2. /\ task[t].view \in {"pending", "running"}
            /\ row[s].status \in {"requested", "failed", "terminated"}
        BY <1>1, <1>2, <3>3, TaskKind DEF CreateReturns
      <4>3. row'[s].status # "requested"
        BY <4>1, <4>2, CreatedRowCoheres
      <4> QED
        BY <4>3
    <3>4. CASE \E v \in Server : CreateBreaks(t, v)
      BY <1>2, <3>4 DEF CreateBreaks
    <3> QED
      BY <1>2, <1>5, <2>2, <3>1, <3>2, <3>3, <3>4
      DEF RequestStep, CreateBegin, TerminateBegin, ReadBegin, CallbackFails, ReadReturns,
          TerminateReturns
  <2> QED
    BY <2>1, <2>2
<1>6. ASSUME NEW u \in Actor, ProviderStep(u) \/ FailReturns(u)
      PROVE  BeingCreated(s)'
  <2>1. CASE u # t
    <3>1. \E d : Go(u, d)
      <4>1. ASSUME ProvisionLands(u) \/ DescribeLands(u) \/ ReleaseLands(u)
            PROVE  \E d : Go(u, d)
        <5>1. \E pc, view : Answer(u, pc, view)
          BY <4>1 DEF ProvisionLands, DescribeLands, ReleaseLands
        <5> QED
          BY <5>1 DEF Answer, Go
      <4>2. ASSUME PowerLands(u) \/ FailReturns(u)
            PROVE  \E d : Go(u, d)
        BY <4>2 DEF PowerLands, FailReturns, Finish, Go
      <4> QED
        BY <1>6, <4>1, <4>2 DEF ProviderStep
    <3> QED
      BY <1>2, <1>3, <2>1, <3>1 DEF Go, IInv, TypeOK
  <2>2. CASE u = t
    <3>1. ProvisionLands(t)
      BY <1>2, <1>6, <2>2
      DEF ProviderStep, DescribeLands, PowerLands, ReleaseLands, FailReturns
    <3>2. PICK m : task'[t] = [task[t] EXCEPT !.pc = "provisioned", !.view = m]
      BY <1>2, <3>1 DEF ProvisionLands, Answer, IInv, TypeOK
    <3> QED
      BY <1>1, <1>2, <3>2 DEF BeingCreated, Tasks
  <2> QED
    BY <2>1, <2>2
<1>7. ASSUME TickerStep \/ ReconcilerStep \/ RecoveryStep
      PROVE  task'[t] = task[t]
  BY <1>2, <1>4, <1>7
  DEF TickerStep, TickBegin, TickNext, TickReturns, StuckReturns, Poll, FailBootstrap,
      ReconcilerStep, SweepBegin, SweepLists, SweepNext, SweepReturns, SweepEnds, RecoveryStep,
      Boot, RecoverNext, RecoverReturns, Serve, Go, Finish, Jobs, IInv, TypeOK
<1>8. ASSUME NEW u \in Server, BoxStep(u) \/ CloudStep(u) \/ Expire(u)
      PROVE  task'[t] = task[t]
  BY <1>8 DEF BoxStep, BoxReports, DriveEnds, CloudStep, MachineSettles, Mishap, WireLands, Expire
<1> QED
  BY <1>3, <1>5, <1>6, <1>7, <1>8 DEF Next, vars

\* Core serves because it served, or because recovery is through.
LEMMA StaysServing ==
    ASSUME [Next]_vars, core' = "serving"
    PROVE  ~Crash /\ (core = "serving" \/ Serve)
<1>1. ~Crash
  BY DEF Crash
<1>2. ASSUME NEW t \in Request, RequestStep(t)
      PROVE  core' = core
  BY <1>2 DEF RequestStep, CreateBegin, CreateBreaks, TerminateBegin, ReadBegin, CallbackFails,
              ValidateReturns, CreateFails, CreateReturns, ReadReturns, TerminateReturns
<1>3. ASSUME NEW t \in Actor, ProviderStep(t) \/ FailReturns(t)
      PROVE  core' = core
  BY <1>3 DEF ProviderStep, ProvisionLands, DescribeLands, PowerLands, ReleaseLands, FailReturns
<1>4. ASSUME TickerStep \/ ReconcilerStep
      PROVE  core' = core
  BY <1>4 DEF TickerStep, TickBegin, TickNext, TickReturns, StuckReturns, ReconcilerStep,
              SweepBegin, SweepLists, SweepNext, SweepReturns, SweepEnds
<1>5. ASSUME RecoveryStep
      PROVE  core' = core \/ Serve
  BY <1>5 DEF RecoveryStep, Boot, RecoverNext, RecoverReturns
<1>6. ASSUME NEW s \in Server, BoxStep(s) \/ CloudStep(s) \/ Expire(s)
      PROVE  core' = core
  BY <1>6 DEF BoxStep, BoxReports, DriveEnds, CloudStep, MachineSettles, Mishap, WireLands, Expire
<1> QED
  BY <1>1, <1>2, <1>3, <1>4, <1>5, <1>6 DEF Next, vars

\* Every step leaves nothing behind a row no create is working on.
LEMMA NothingBehindStays ==
    ASSUME IInv, Vouched, NothingBehind, [Next]_vars
    PROVE  NothingBehind'
<1> SUFFICES ASSUME NEW s \in Server, core' = "serving", row'[s].status = "requested"
             PROVE  BeingCreated(s)' \/ Untouched(s)'
  BY DEF NothingBehind
<1>1. ~Crash /\ (core = "serving" \/ Serve)
  BY StaysServing
<1>2. ~Exists(s) \/ row[s].status = "requested"
  <2>1. CASE OneRowMoves /\ Exists(s)
    <3>1. ASSUME NEW u \in Server, RowMoves(u)
          PROVE  row[s].status = "requested"
      <4>1. CASE u = s
        BY <3>1, <4>1 DEF RowMoves, Promised, CanTransition, Transitions
      <4>2. CASE u # s
        BY <3>1, <4>2 DEF RowMoves
      <4> QED
        BY <4>1, <4>2
    <3> QED
      BY <2>1, <3>1 DEF OneRowMoves
  <2>2. CASE Appears
    BY <2>2 DEF Appears, IInv, TypeOK
  <2> QED
    BY <2>1, <2>2, StepsKeep
<1>3. CASE ~Exists(s)
  <2>1. Untouched(s)
    BY <1>3 DEF Vouched, RowVouched
  <2>2. ~BeingCreated(s)
    BY <1>3, FreeTask, BusyTask DEF BeingCreated, Free, Actor
  <2> QED
    BY <1>1, <1>3, <2>1, <2>2, UntouchedStays
<1>4. CASE row[s].status = "requested"
  <2>1. core = "serving"
    BY <1>1, <1>4 DEF Serve, IInv, Coherent, RequestedIsListed
  <2>2. CASE BeingCreated(s)
    BY <1>1, <2>2, CreateStays
  <2>3. CASE ~BeingCreated(s)
    <3>1. Untouched(s)
      BY <1>4, <2>1, <2>3 DEF NothingBehind
    <3>2. Exists(s) => ~row[s].handle
      BY <1>4 DEF IInv, Coherent, RowsCohere, RowCoherent
    <3> QED
      BY <1>1, <2>3, <3>1, <3>2, UntouchedStays
  <2> QED
    BY <2>2, <2>3
<1> QED
  BY <1>2, <1>3, <1>4

\* No machine is lost behind a row: a `requested` row has its create, or no
\* machine and none on its way, and any other row that claims one its handle.
THEOREM NoRowIsLost == Spec => []RowsAreReachable
<1>1. Init => NothingBehind
  BY DEF Init, NothingBehind, NoRow
<1>2. IInv /\ Vouched /\ NothingBehind /\ [Next]_vars => NothingBehind'
  BY NothingBehindStays
<1>3. IInv /\ NothingBehind => RowsAreReachable
  BY DEF IInv, Coherent, RowsCohere, RowCoherent, NothingBehind, RowsAreReachable, Exists
<1> QED
  BY <1>1, <1>2, <1>3, AlwaysVouched, PTL DEF Spec

=============================================================================
