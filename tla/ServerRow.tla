------------------------------ MODULE ServerRow ------------------------------
(***************************************************************************)
(* The `servers` table, one row at a time: what each repository function   *)
(* writes.  better-sqlite3 is synchronous, so every function here is one   *)
(* indivisible read-modify-write; a caller that awaits between two of them *)
(* is what the lifecycle module is about.                                  *)
(*                                                                         *)
(* Translated from packages/core/src/db/repositories/servers.ts.  A row    *)
(* keeps the columns the properties tell apart; the timestamps are reduced *)
(* to whether they are set.                                                *)
(***************************************************************************)
EXTENDS ServerStatus

\* What became of the machine of a failed bootstrap, as its report says.
InstanceOutcomes == {"kept", "terminated", "terminate-failed"}

Row ==
    [status            : Statuses,
     step              : Steps,
     handle            : BOOLEAN,     \* provider_data is set
     state             : InstanceStates \union {"none"},   \* provider_state
     billsWhileStopped : BOOLEAN,
     billingSince      : BOOLEAN,     \* the meter's anchor is set
     startedAt         : BOOLEAN,
     report            : InstanceOutcomes \union {"none"}]

\* No row with this id has been inserted yet.
NoRow == [status |-> "absent"]

\* insertServer: the row is written first, before any provider is called.
InsertedRow ==
    [status |-> "requested", step |-> "requested", handle |-> FALSE,
     state |-> "none", billsWhileStopped |-> FALSE, billingSince |-> FALSE,
     startedAt |-> FALSE, report |-> "none"]

\* updateServerStatus, where assertTransition let it through.
WithStatus(row, to) ==
    [row EXCEPT !.status = to, !.startedAt = @ \/ to = "running"]

\* updateServerStatus as its callers meet it: an illegal transition throws and
\* writes nothing.
TryStatus(row, to) ==
    IF CanTransition(row.status, to) THEN WithStatus(row, to) ELSE row

\* recordProgress: refused unless the row is provisioning; any valid step is
\* written, forward or backward, and `ready` is the promotion to running.
RecordProgress(row, step) ==
    IF ~AcceptsProgressReports(row.status) THEN row
    ELSE WithStatus([row EXCEPT !.step = step], StatusForStep(step))

\* recordProviderState: the single writer of what the provider last said.
RecordProviderState(row, state, billsWhileStopped) ==
    IF state = "unknown"
    THEN [row EXCEPT !.billsWhileStopped = billsWhileStopped]
    ELSE [row EXCEPT
            !.state = state,
            !.billsWhileStopped = billsWhileStopped,
            !.billingSince = @ \/ state \in BillingStatesFor(billsWhileStopped)]

SetProviderData(row) == [row EXCEPT !.handle = TRUE]

SetBootstrapReport(row, outcome) == [row EXCEPT !.report = outcome]

\* Statuses with which listServersNeedingRecovery selects a row.
NeedsRecovery(row) == row.status \in {"requested", "provisioning"}

\* The columns of a row agree: a handle from the moment the row leaves
\* `requested` for a live status, and `ready` exactly when it has been running.
RowCoherent(r) ==
    /\ r.handle => r.status # "requested"
    /\ r.status \in {"provisioning", "running", "stopped"} => r.handle
    /\ r.status \in {"requested", "provisioning"} => r.step # "ready"
    /\ r.status \in {"running", "stopped"} => r.step = "ready"

=============================================================================
