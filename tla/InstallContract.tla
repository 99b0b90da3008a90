--------------------------- MODULE InstallContract ---------------------------
(***************************************************************************)
(* What an install promises, with the box, the connection and the retries  *)
(* forgotten: steps complete one at a time, none before the required ones  *)
(* ahead of it, and the server is shown ready only when the steps that     *)
(* readiness stands for are complete.  Bootstrap implements this           *)
(* specification through reboots, kills, lost connections and crashes of   *)
(* core, as long as its agent reads its plan whole.                        *)
(***************************************************************************)
EXTENDS Naturals, Sequences

VARIABLES
    plan,     \* the steps, in order; .optional marks the ones that may fail
    promised, \* the steps a ready server must have completed
    complete, \* the steps that have completed on the box
    shown,    \* what the row shows: "pending", "ready" or "over"
    spoiled   \* the plan was misread: nothing is promised from then on

vars == <<plan, promised, complete, shown, spoiled>>

Init ==
    /\ promised \subseteq DOMAIN plan
    /\ complete = {}
    /\ shown \in {"pending", "over"}
    /\ spoiled = FALSE

\* The steps a step waits for.
Ahead(i) == {j \in 1..(i - 1) : ~plan[j].optional}

\* A step completes, once, on a box that has what comes before it.
Completes(i) ==
    /\ i \notin complete
    /\ Ahead(i) \subseteq complete
    /\ complete' = complete \union {i}

\* The server is shown ready, for good reason, or its row ends: failed, timed
\* out or terminated.
Shows ==
    \/ shown = "pending" /\ promised \subseteq complete' /\ shown' = "ready"
    \/ shown' = "over"

\* A report may show the very step that completes with it.
Keeps ==
    /\ UNCHANGED complete \/ \E i \in DOMAIN plan : Completes(i)
    /\ UNCHANGED shown \/ Shows

Next ==
    /\ UNCHANGED <<plan, promised>>
    /\ spoiled => spoiled'
    /\ spoiled' \/ Keeps

Spec == Init /\ [][Next]_vars

=============================================================================
