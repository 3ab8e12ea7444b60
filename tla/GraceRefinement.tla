--------------------------- MODULE GraceRefinement ---------------------------
(***************************************************************************)
(* GraceRefreshToken implements GraceRules as long as requests come one at *)
(* a time and the worker keeps up with them (Pacing = "drained"), the       *)
(* worker's removals succeed and nothing is revoked.                       *)
(*                                                                         *)
(* A redemption takes effect when the presented token is written back: the *)
(* new token counts from then on, and the tokens the handler is about to   *)
(* queue for removal count as gone.  A refusal takes effect at once.       *)
(***************************************************************************)
EXTENDS GraceRefreshToken

CONSTANT Redeemer   \* the client with grace whose tokens are followed

\* Request i has decided to remove h and has not queued it yet.
WillDrop(i, h) ==
    \/ pc[i] = "refuse" /\ handle[i] = h
    \/ pc[i] = "dropChild" /\ token[i].child = h
    \/ pc[i] \in {"dropChild", "dropParent"} /\ token[i].parent = h

RulesIssued == {h \in Minted : pc[h] # "link"}

RulesLive ==
    {h \in RulesIssued :
        /\ store[h] # Null
        /\ h \notin Pending
        /\ \A i \in Request : ~WillDrop(i, h)}

RulesFamily ==
    [h \in Request |-> IF h \in RulesIssued THEN family[h] ELSE Null]

RulesChild ==
    [h \in Request |-> IF h \in RulesLive THEN store[h].child ELSE Null]

RulesParent ==
    [h \in Request |-> IF h \in RulesLive THEN store[h].parent ELSE Null]

RulesUses == [h \in Request |-> Cardinality(Children(h) \cap RulesIssued)]

Rules == INSTANCE GraceRules
            WITH Handle <- Request, MaxUses <- MaxRedemptions(Redeemer),
                 issued <- RulesIssued, live <- RulesLive, family <- RulesFamily,
                 child <- RulesChild, parent <- RulesParent, uses <- RulesUses

\* The service keeps the rules of the README: each of its steps is a sign-in, a
\* redemption that replaces the old child and drops the old parent, a refusal,
\* or no step of the rules at all.
RulesFollowed == Rules!Spec

\* What follows from the rules: at most two tokens of one sign-in can be used, a
\* parent and its latest child (proved of GraceRules, and so of the service).
AtMostACouple == Rules!FamilyIsCouple
=============================================================================
