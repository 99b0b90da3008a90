------------------------------ MODULE MCAdmission ------------------------------
(***************************************************************************)
(* Three creates with two keys.                                            *)
(***************************************************************************)
EXTENDS Admission, TLC

CONSTANTS r1, r2, r3, k1, k2

MCRequests == {r1, r2, r3}
MCKeys == {k1, k2}
MCSymmetry == Permutations(MCRequests) \union Permutations(MCKeys)
=============================================================================
