--------------------------- MODULE GraceRulesProofs ---------------------------
(***************************************************************************)
(* The rules of the grace period bound what a sign-in can give away: never *)
(* more than two usable tokens, never more redemptions than granted.       *)
(***************************************************************************)
EXTENDS GraceRules, TLAPS

\* A token that can be used descends from a token that was issued.
FamilyIssued == \A a \in live : family[a] \in issued

Inv == TypeOK /\ FamilyIssued /\ FamilyIsCouple

LEMMA InitInv == Init => Inv
  BY DEF Init, Inv, TypeOK, FamilyIssued, FamilyIsCouple

\* The type invariant is preserved by every step.
LEMMA NextType == TypeOK /\ [Next]_vars => TypeOK'
<1> SUFFICES ASSUME TypeOK, [Next]_vars PROVE TypeOK'
  OBVIOUS
<1>1. ASSUME NEW h \in Handle, SignIn(h) PROVE TypeOK'
  BY <1>1 DEF SignIn, TypeOK
<1>2. ASSUME NEW h \in Handle, NEW k \in Handle, Redeem(h, k) PROVE TypeOK'
  <2> DEFINE gone == {child[h], parent[h]}
  <2>1. /\ h \in live /\ live \subseteq issued
        /\ Forget(child, gone) \in [Handle -> Handle \cup {Null}]
        /\ Forget(parent, gone) \in [Handle -> Handle \cup {Null}]
    BY <1>2 DEF Redeem, TypeOK, Forget
  <2>2. /\ issued' = issued \cup {k}
        /\ live' = (live \ gone) \cup {k}
        /\ family' = [family EXCEPT ![k] = family[h]]
        /\ child' = [Forget(child, gone) EXCEPT ![h] = k]
        /\ parent' = [Forget(parent, gone) EXCEPT ![h] = Null, ![k] = h]
        /\ uses' = [uses EXCEPT ![h] = @ + 1]
    BY <1>2 DEF Redeem
  <2> HIDE DEF gone
  <2>3. /\ family' \in [Handle -> Handle \cup {Null}]
        /\ child' \in [Handle -> Handle \cup {Null}]
        /\ parent' \in [Handle -> Handle \cup {Null}]
    BY <2>1, <2>2 DEF TypeOK
  <2>4. uses' \in [Handle -> Nat]
    BY <2>2 DEF TypeOK
  <2>5. issued' \subseteq Handle /\ live' \subseteq issued'
    BY <2>1, <2>2 DEF TypeOK
  <2> QED
    BY <2>3, <2>4, <2>5 DEF TypeOK
<1>3. ASSUME NEW h \in Handle, Refuse(h) PROVE TypeOK'
  BY <1>3 DEF Refuse, TypeOK, Forget
<1>4. CASE UNCHANGED vars
  BY <1>4 DEF vars, TypeOK
<1> QED
  BY <1>1, <1>2, <1>3, <1>4 DEF Next

LEMMA NextInv == Inv /\ [Next]_vars => Inv'
<1> SUFFICES ASSUME Inv, [Next]_vars PROVE Inv'
  OBVIOUS
<1>0. TypeOK /\ FamilyIssued /\ FamilyIsCouple /\ TypeOK'
  BY NextType DEF Inv
<1>1. ASSUME NEW h \in Handle, SignIn(h) PROVE FamilyIssued' /\ FamilyIsCouple'
  <2>1. /\ h \notin issued /\ live' = live \cup {h} /\ issued' = issued \cup {h}
        /\ UNCHANGED <<child, parent>>
        /\ family'[h] = h
        /\ \A a \in live : a # h /\ family'[a] = family[a]
    BY <1>0, <1>1 DEF SignIn, TypeOK
  <2>2. \A a \in live : family'[a] # family'[h]
    BY <1>0, <2>1 DEF FamilyIssued
  <2> QED
    BY <1>0, <2>1, <2>2 DEF FamilyIssued, FamilyIsCouple, Couple
<1>2. ASSUME NEW h \in Handle, NEW k \in Handle, Redeem(h, k)
      PROVE  FamilyIssued' /\ FamilyIsCouple'
  <2>1. /\ h \in live /\ h \in issued /\ k \notin issued /\ k \notin live /\ h # k
        /\ issued' = issued \cup {k}
        /\ live' = (live \ {child[h], parent[h]}) \cup {k}
        /\ family'[k] = family[h]
        /\ \A a \in live : family'[a] = family[a]
    BY <1>0, <1>2 DEF Redeem, TypeOK
  <2>2. FamilyIssued'
    BY <1>0, <2>1 DEF FamilyIssued
  <2>3. /\ child'[h] = k /\ parent'[k] = h /\ parent'[h] = Null
        /\ \A a \in live' \ {h, k} : child'[a] = child[a] /\ parent'[a] = parent[a]
    <3>1. /\ child' = [Forget(child, {child[h], parent[h]}) EXCEPT ![h] = k]
          /\ parent' = [Forget(parent, {child[h], parent[h]})
                           EXCEPT ![h] = Null, ![k] = h]
      BY <1>2 DEF Redeem
    <3>2. live' \subseteq Handle
      BY <1>0 DEF TypeOK
    <3> QED
      BY <1>0, <2>1, <3>1, <3>2 DEF Forget, TypeOK
  <2>4. \A a \in live' \ {h, k} : family[a] # family[h]
    BY <1>0, <2>1 DEF FamilyIsCouple, Couple
  <2>5. Couple(h, k)'
    BY <2>3 DEF Couple
  <2>6. ASSUME NEW a \in live', NEW b \in live', a # b, family'[a] = family'[b]
        PROVE  (Couple(a, b) \/ Couple(b, a))'
    <3>1. CASE a \in {h, k} \/ b \in {h, k}
      <4>1. a \in {h, k} /\ b \in {h, k}
        BY <2>1, <2>4, <2>6, <3>1
      <4> QED
        BY <2>5, <2>6, <4>1
    <3>2. CASE a \notin {h, k} /\ b \notin {h, k}
      <4>1. a \in live /\ b \in live /\ family[a] = family[b]
        BY <2>1, <2>6, <3>2
      <4> QED
        BY <1>0, <2>3, <2>6, <3>2, <4>1 DEF FamilyIsCouple, Couple
    <3> QED
      BY <3>1, <3>2
  <2> QED
    BY <2>2, <2>6 DEF FamilyIsCouple
<1>3. ASSUME NEW h \in Handle, Refuse(h) PROVE FamilyIssued' /\ FamilyIsCouple'
  <2>1. /\ live' = live \ {h} /\ issued' = issued /\ family' = family
        /\ \A a \in live' : child'[a] = child[a] /\ parent'[a] = parent[a]
    BY <1>0, <1>3 DEF Refuse, TypeOK, Forget
  <2> QED
    BY <1>0, <2>1 DEF FamilyIssued, FamilyIsCouple, Couple
<1>4. ASSUME UNCHANGED vars PROVE FamilyIssued' /\ FamilyIsCouple'
  <2>1. UNCHANGED <<issued, live, family, child, parent>>
    BY <1>4 DEF vars
  <2>2. FamilyIssued'
    BY <1>0, <2>1 DEF FamilyIssued
  <2>3. FamilyIsCouple'
    BY <1>0, <2>1 DEF FamilyIsCouple, Couple
  <2> QED
    BY <2>2, <2>3
<1> QED
  BY <1>0, <1>1, <1>2, <1>3, <1>4 DEF Next, Inv

\* However often its tokens are redeemed, one sign-in has at most two usable
\* tokens, a parent and its latest child: what the removals at the end of
\* UpdateRefreshTokenAsync are for.
THEOREM RulesKeepACouple == Spec => []FamilyIsCouple
<1>1. Inv => FamilyIsCouple
  BY DEF Inv
<1> QED
  BY InitInv, NextInv, <1>1, PTL DEF Spec

\* No token is redeemed more often than its attempts allow (ConsumedAttempts in
\* AcceptConsumedTokenAsync).
THEOREM RulesBoundUses ==
    ASSUME MaxUses \in Nat
    PROVE  Spec => []UsesBounded
<1> DEFINE UsesInv == TypeOK /\ UsesBounded
<1>1. Init => UsesInv
  BY InitInv DEF Inv, Init, UsesBounded
<1>2. UsesInv /\ [Next]_vars => UsesInv'
  <2> SUFFICES ASSUME TypeOK, UsesBounded, [Next]_vars PROVE UsesBounded'
    BY NextType
  <2>1. ASSUME NEW h \in Handle, NEW k \in Handle, Redeem(h, k) PROVE UsesBounded'
    <3>1. uses[h] < MaxUses /\ uses' = [uses EXCEPT ![h] = @ + 1]
      BY <2>1 DEF Redeem
    <3> QED
      BY <3>1 DEF TypeOK, UsesBounded
  <2>2. CASE UNCHANGED uses
    BY <2>2 DEF UsesBounded
  <2> QED
    BY <2>1, <2>2 DEF Next, SignIn, Refuse, vars
<1>3. UsesInv => UsesBounded
  OBVIOUS
<1> QED
  BY <1>1, <1>2, <1>3, PTL DEF Spec
=============================================================================
