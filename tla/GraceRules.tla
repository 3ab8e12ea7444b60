----------------------------- MODULE GraceRules -----------------------------
(***************************************************************************)
(* What the grace feature promises, without time, requests in progress or  *)
(* deferred removals: the rules of the README (lines 117 to 134) as atomic  *)
(* steps.                                                                  *)
(*                                                                         *)
(* A token can be redeemed several times.  Each redemption replaces the    *)
(* child it has, and is the proof that the token was received, so that its *)
(* own parent goes.                                                        *)
(***************************************************************************)
EXTENDS Integers

CONSTANTS Handle, Null, MaxUses

VARIABLES
    issued,     \* handles given out so far
    live,       \* those that can still be presented
    family,     \* the sign-in a token descends from
    child,      \* the child a live token was last replaced by
    parent,     \* the token a live token was minted from, until it is redeemed
    uses        \* how often a token was redeemed

vars == <<issued, live, family, child, parent, uses>>

TypeOK ==
    /\ issued \subseteq Handle
    /\ live \subseteq issued
    /\ family \in [Handle -> Handle \cup {Null}]
    /\ child \in [Handle -> Handle \cup {Null}]
    /\ parent \in [Handle -> Handle \cup {Null}]
    /\ uses \in [Handle -> Nat]

\* The links of tokens that are gone are forgotten.
Forget(links, gone) == [h \in Handle |-> IF h \in gone THEN Null ELSE links[h]]

Init ==
    /\ issued = {}
    /\ live = {}
    /\ family = [h \in Handle |-> Null]
    /\ child = [h \in Handle |-> Null]
    /\ parent = [h \in Handle |-> Null]
    /\ uses = [h \in Handle |-> 0]

SignIn(h) ==
    /\ h \in Handle \ issued
    /\ issued' = issued \cup {h}
    /\ live' = live \cup {h}
    /\ family' = [family EXCEPT ![h] = h]
    /\ UNCHANGED <<child, parent, uses>>

\* Rules 1 to 5: h is redeemed for the new token k.
Redeem(h, k) ==
    LET gone == {child[h], parent[h]} IN
    /\ h \in live
    /\ k \in Handle \ issued
    /\ uses[h] < MaxUses
    /\ issued' = issued \cup {k}
    /\ live' = (live \ gone) \cup {k}
    /\ family' = [family EXCEPT ![k] = family[h]]
    /\ child' = [Forget(child, gone) EXCEPT ![h] = k]
    /\ parent' = [Forget(parent, gone) EXCEPT ![h] = Null, ![k] = h]
    /\ uses' = [uses EXCEPT ![h] = @ + 1]

\* Rules 5 and 6, and every other reason to refuse a token: it is removed.
Refuse(h) ==
    /\ h \in live
    /\ live' = live \ {h}
    /\ child' = Forget(child, {h})
    /\ parent' = Forget(parent, {h})
    /\ UNCHANGED <<issued, family, uses>>

Next ==
    \/ \E h \in Handle : SignIn(h)
    \/ \E h, k \in Handle : Redeem(h, k)
    \/ \E h \in Handle : Refuse(h)

Spec == Init /\ [][Next]_vars

-----------------------------------------------------------------------------
\* a is the parent, not yet known to be superfluous, of its only child b.
Couple(a, b) == child[a] = b /\ parent[b] = a /\ parent[a] = Null

\* At most two tokens of one sign-in can be used at any time, and then they are
\* a parent and the child that was last minted from it (README, rules 2 and 4).
FamilyIsCouple ==
    \A a, b \in live :
        a # b /\ family[a] = family[b] => Couple(a, b) \/ Couple(b, a)

\* No token is redeemed more often than the attempts it is granted (rule 5).
UsesBounded == \A h \in Handle : uses[h] <= MaxUses
=============================================================================
