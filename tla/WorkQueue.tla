------------------------------ MODULE WorkQueue ------------------------------
(***************************************************************************)
(* What the background queue promises: work items run one at a time, in    *)
(* the order in which they were queued, each of them once.  The host may   *)
(* stop the worker before it has run them all.                             *)
(***************************************************************************)
EXTENDS Sequences

CONSTANTS Item, None

VARIABLES
    waiting,    \* items queued and not started
    running,    \* the item being run, or None
    ended       \* items that were run, whatever came of them

vars == <<waiting, running, ended>>

Queued == {waiting[n] : n \in DOMAIN waiting}

Init == waiting = <<>> /\ running = None /\ ended = {}

Queue(item) ==
    /\ item \notin Queued \cup {running} \cup ended
    /\ waiting' = Append(waiting, item)
    /\ UNCHANGED <<running, ended>>

Start ==
    /\ running = None
    /\ waiting # <<>>
    /\ running' = Head(waiting)
    /\ waiting' = Tail(waiting)
    /\ UNCHANGED ended

End ==
    /\ running # None
    /\ ended' = ended \cup {running}
    /\ running' = None
    /\ UNCHANGED waiting

Next == (\E item \in Item : Queue(item)) \/ Start \/ End

Spec == Init /\ [][Next]_vars
=============================================================================
