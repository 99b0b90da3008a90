---------------------------- MODULE MCGithubConnect ----------------------------
(***************************************************************************)
(* One card, of one user; scripts of that user and of another.             *)
(***************************************************************************)
EXTENDS GithubConnect, TLC

CONSTANTS ann, bob, tab, f1, f2, c1, c2

MCUsers == {ann, bob}
MCTabs == {tab}
MCUserOf == (tab :> ann)
MCFlows == {f1, f2}
MCCalls == {c1, c2}
MCSymmetry == Permutations(MCFlows) \union Permutations(MCCalls)
=============================================================================
