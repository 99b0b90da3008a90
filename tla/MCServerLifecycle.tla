-------------------------- MODULE MCServerLifecycle --------------------------
(***************************************************************************)
(* ServerLifecycle for TLC.  Requests are interchangeable: no action and no *)
(* safety property names one, so runs that check no liveness may treat      *)
(* states that differ by a permutation of them as one.                      *)
(***************************************************************************)
EXTENDS ServerLifecycle, TLC

RequestSymmetry == Permutations(Request)

=============================================================================
