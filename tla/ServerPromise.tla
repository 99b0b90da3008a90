---------------------------- MODULE ServerPromise ----------------------------
(***************************************************************************)
(* What a server row promises whoever reads it, with everything that moves *)
(* it forgotten: a row appears as `requested` and is never un-written, its *)
(* status follows the table of db/transitions.ts, and it shows `running`   *)
(* or `stopped` only for a machine whose own bootstrap reported `ready`.   *)
(* ServerLifecycle implements this specification.                          *)
(***************************************************************************)
EXTENDS ServerStatus

CONSTANT Server

VARIABLES
    status,   \* the status each row shows, "absent" before it is inserted
    usable    \* the servers whose own bootstrap has reported `ready`

vars == <<status, usable>>

Init ==
    /\ status = [s \in Server |-> "absent"]
    /\ usable = {}

\* A row appears, always as `requested`, before any provider is called.
Appear(s) ==
    /\ status[s] = "absent"
    /\ status' = [status EXCEPT ![s] = "requested"]
    /\ UNCHANGED usable

\* The box itself reports `ready`: the promotion out of provisioning.  A box
\* whose last step then fails is failed in the same stroke.
Ready(s) ==
    /\ status[s] = "provisioning"
    /\ status' \in {[status EXCEPT ![s] = "running"], [status EXCEPT ![s] = "failed"]}
    /\ usable' = usable \union {s}

\* Every other move follows the table and makes nothing usable.
Move(s, to) ==
    /\ CanTransition(status[s], to)
    /\ to \in {"running", "stopped"} => s \in usable
    /\ status' = [status EXCEPT ![s] = to]
    /\ UNCHANGED usable

Next ==
    \E s \in Server :
        \/ Appear(s)
        \/ Ready(s)
        \/ \E to \in Statuses : Move(s, to)

Spec == Init /\ [][Next]_vars

=============================================================================
