----------------------------- MODULE MCSshAccess -----------------------------
(***************************************************************************)
(* Two callers, and two networks: one that stays, one that comes and goes. *)
(***************************************************************************)
EXTENDS SshAccess, TLC

CONSTANTS home, cafe, c1, c2

MCNets == {home, cafe}
MCCallers == {c1, c2}
MCSymmetry == Permutations(MCNets) \union Permutations(MCCallers)

\* What the file has said matters while a push waits and while it is alone with the
\* object: no guard and no property looks at it otherwise.
MCView ==
    <<kind, config, object, bounds,
      [c \in Callers |-> IF call[c].alone \/ call[c].pc = "asked" THEN call[c]
                         ELSE [call[c] EXCEPT !.said = {}]]>>
=============================================================================
