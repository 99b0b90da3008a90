---------------------------- MODULE ServerStatus ----------------------------
(***************************************************************************)
(* The vocabulary of a server row and the rules that move it: the status   *)
(* machine, the provisioning steps, and how a provider's word about a      *)
(* machine maps onto both.  Everything here is a constant-level operator;  *)
(* the modules that hold state apply these to their rows.                  *)
(*                                                                         *)
(* Translated from packages/core/src/db/transitions.ts, the enumerations   *)
(* of db/schema.ts, the two state maps of servers/lifecycle.ts, and the    *)
(* billing predicate of db/repositories/servers.ts.                        *)
(***************************************************************************)
EXTENDS Naturals

(***************************************************************************)
(* The status machine.                                                     *)
(***************************************************************************)

Statuses ==
    {"requested", "provisioning", "running", "stopped", "failed", "terminated"}

\* SERVER_STATUS_TRANSITIONS, as the set of the edges it lists.
Transitions ==
    ({"requested"}    \X {"provisioning", "failed", "terminated"}) \union
    ({"provisioning"} \X {"running", "failed", "terminated"})      \union
    ({"running"}      \X {"stopped", "terminated", "failed"})      \union
    ({"stopped"}      \X {"running", "terminated", "failed"})      \union
    ({"failed"}       \X {"terminated"})

\* Mutant: any move out of a row that is not over is allowed.
CanTransitionLoosely(from, to) == from # "terminated" /\ from # to

CanTransition(from, to) == <<from, to>> \in Transitions

(***************************************************************************)
(* The provisioning steps, in the order the timeline draws them.           *)
(***************************************************************************)

ProvisioningSteps ==
    <<"requested", "instance_launching", "instance_running", "installing_tools",
      "tools_installed", "cloning_repos", "running_user_script", "ready">>

Steps == {ProvisioningSteps[i] : i \in 1..8}

StepIndex(step) == CHOOSE i \in 1..8 : ProvisioningSteps[i] = step

AdvancesProvisioning(from, to) == StepIndex(to) > StepIndex(from)

AcceptsProgressReports(status) == status = "provisioning"

\* Reaching `ready` is what makes a server `running`; no other step moves it.
StatusForStep(step) == IF step = "ready" THEN "running" ELSE "provisioning"

(***************************************************************************)
(* What a provider says about a machine.                                   *)
(***************************************************************************)

InstanceStates ==
    {"pending", "running", "stopping", "stopped", "terminating", "terminated",
     "failed", "unknown"}

\* The states the provider admits nothing about have no status of their own.
HasStatus(state) == state # "unknown"

StateToStatus ==
    [state \in InstanceStates \ {"unknown"} |->
        CASE state = "pending"                      -> "provisioning"
          [] state \in {"running", "stopping"}      -> "running"
          [] state = "stopped"                      -> "stopped"
          [] state \in {"terminating", "terminated"} -> "terminated"
          [] state = "failed"                       -> "failed"]

StateToMilestone ==
    [state \in {"pending", "running"} |->
        IF state = "pending" THEN "instance_launching" ELSE "instance_running"]

HasMilestone(state) == state \in DOMAIN StateToMilestone

(***************************************************************************)
(* Billing.  A row meters on its own status `running`, or on the last      *)
(* provider state it recorded; a `terminated` row never meters.            *)
(***************************************************************************)

BillingInstanceStates == {"pending", "running", "stopping"}

BillingStatesFor(billsWhileStopped) ==
    BillingInstanceStates \union (IF billsWhileStopped THEN {"stopped"} ELSE {})

\* Mutant: only a running row meters, so a failed one with a live machine is free.
IsRunningRow(row) == row.status = "running"

IsBillingRow(row) ==
    /\ row.status # "terminated"
    /\ \/ row.status = "running"
       \/ row.state \in BillingStatesFor(row.billsWhileStopped)

=============================================================================
