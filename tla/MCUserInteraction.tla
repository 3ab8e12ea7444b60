-------------------------- MODULE MCUserInteraction --------------------------
(***************************************************************************)
(* Two users of one browser with two tabs, an authorization request and a  *)
(* device.                                                                 *)
(***************************************************************************)
EXTENDS UserInteraction, TLC

CONSTANTS t1, t2, alice, bob, browser, request, code, api1, offline

Symmetry == Permutations(Tab) \cup Permutations(User) \cup Permutations(Scope)

OneBrowser == [t \in Tab |-> browser]
=============================================================================
