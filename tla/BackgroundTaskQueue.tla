------------------------- MODULE BackgroundTaskQueue -------------------------
(***************************************************************************)
(* BackgroundTaskQueue and its only consumer, QueuedHostedService: a       *)
(* concurrent queue of work items and a semaphore that counts them.        *)
(*                                                                         *)
(* Queueing is two steps, append and release, and many request handlers    *)
(* queue at once; the worker acquires the semaphore, then dequeues.  Each   *)
(* producer queues one item, which carries its name.  The host may stop    *)
(* the worker at any time.                                                 *)
(***************************************************************************)
EXTENDS Integers, Sequences, FiniteSets

CONSTANTS
    Producer,   \* calls of QueueBackgroundWorkItem, and the items they queue
    None        \* no item

ASSUME NoneIsNoItem == None \notin Producer

VARIABLES
    workItems,  \* _workItems
    permits,    \* the count of _signal
    producer,   \* where each call is: "idle", "signal" or "done"
    worker,     \* where BackgroundProcessing is
    workItem,   \* the item the worker holds, None when TryDequeue found nothing
    succeeded,  \* items that ran to their end
    failed,     \* items that threw, logged and dropped
    stopping    \* stoppingToken.IsCancellationRequested

vars == <<workItems, permits, producer, worker, workItem, succeeded, failed, stopping>>

Signalling == {p \in Producer : producer[p] = "signal"}

Queued == {workItems[n] : n \in DOMAIN workItems}

-----------------------------------------------------------------------------
(* QueueBackgroundWorkItem *)

Enqueue(p) ==
    /\ producer[p] = "idle"
    /\ workItems' = Append(workItems, p)
    /\ producer' = [producer EXCEPT ![p] = "signal"]
    /\ UNCHANGED <<permits, worker, workItem, succeeded, failed, stopping>>

\* Mutant: a blocked worker is not woken.
ReleaseUnheard(p) ==
    /\ producer[p] = "signal"
    /\ producer' = [producer EXCEPT ![p] = "done"]
    /\ permits' = permits + 1
    /\ UNCHANGED <<workItems, worker, workItem, succeeded, failed, stopping>>

\* Releasing the semaphore hands the permit to a waiting worker.
Release(p) ==
    /\ producer[p] = "signal"
    /\ producer' = [producer EXCEPT ![p] = "done"]
    /\ IF worker = "blocked"
       THEN worker' = "dequeue" /\ UNCHANGED permits
       ELSE permits' = permits + 1 /\ UNCHANGED worker
    /\ UNCHANGED <<workItems, workItem, succeeded, failed, stopping>>

-----------------------------------------------------------------------------
(* BackgroundProcessing, and DequeueAsync that it awaits *)

\* The condition of the loop.
CheckStopping ==
    /\ worker = "check"
    /\ worker' = IF stopping THEN "stopped" ELSE "acquire"
    /\ UNCHANGED <<workItems, permits, producer, workItem, succeeded, failed, stopping>>

\* Mutants: the permit is not waited for; it is not taken.
AcquireAnyway ==
    /\ worker = "acquire"
    /\ worker' = IF stopping THEN "stopped" ELSE "dequeue"
    /\ permits' = IF stopping THEN permits ELSE permits - 1
    /\ UNCHANGED <<workItems, producer, workItem, succeeded, failed, stopping>>
AcquireNothing ==
    /\ worker = "acquire"
    /\ worker' = IF stopping THEN "stopped"
                 ELSE IF permits > 0 THEN "dequeue" ELSE "blocked"
    /\ UNCHANGED <<workItems, permits, producer, workItem, succeeded, failed, stopping>>

\* WaitAsync: a token that is already cancelled wins over a free permit.  The
\* exception leaves the loop, for the await is outside the try block.
Acquire ==
    /\ worker = "acquire"
    /\ IF stopping
       THEN worker' = "stopped" /\ UNCHANGED permits
       ELSE IF permits > 0
       THEN worker' = "dequeue" /\ permits' = permits - 1
       ELSE worker' = "blocked" /\ UNCHANGED permits
    /\ UNCHANGED <<workItems, producer, workItem, succeeded, failed, stopping>>

\* The wait is cancelled.
Cancel ==
    /\ worker = "blocked"
    /\ stopping
    /\ worker' = "stopped"
    /\ UNCHANGED <<workItems, permits, producer, workItem, succeeded, failed, stopping>>

\* Mutant: the item is read and stays in the queue.
TryPeek ==
    /\ worker = "dequeue"
    /\ workItem' = IF workItems = <<>> THEN None ELSE Head(workItems)
    /\ worker' = "run"
    /\ UNCHANGED <<workItems, permits, producer, succeeded, failed, stopping>>

TryDequeue ==
    /\ worker = "dequeue"
    /\ workItem' = IF workItems = <<>> THEN None ELSE Head(workItems)
    /\ workItems' = IF workItems = <<>> THEN workItems ELSE Tail(workItems)
    /\ worker' = "run"
    /\ UNCHANGED <<permits, producer, succeeded, failed, stopping>>

Succeed ==
    /\ worker = "run"
    /\ workItem # None
    /\ succeeded' = succeeded \cup {workItem}
    /\ workItem' = None
    /\ worker' = "check"
    /\ UNCHANGED <<workItems, permits, producer, failed, stopping>>

\* The item throws, or there is none to call; the loop goes on.
Fail ==
    /\ worker = "run"
    /\ failed' = failed \cup ({workItem} \ {None})
    /\ workItem' = None
    /\ worker' = "check"
    /\ UNCHANGED <<workItems, permits, producer, succeeded, stopping>>

\* StopAsync: the host cancels the token and waits for the loop to end.
Stop ==
    /\ ~stopping
    /\ stopping' = TRUE
    /\ UNCHANGED <<workItems, permits, producer, worker, workItem, succeeded, failed>>

\* The worker is gone, and nobody has anything left to queue.
Quiescent ==
    /\ worker = "stopped"
    /\ \A p \in Producer : producer[p] = "done"
    /\ UNCHANGED vars

-----------------------------------------------------------------------------
Init ==
    /\ workItems = <<>>
    /\ permits = 0
    /\ producer = [p \in Producer |-> "idle"]
    /\ worker = "check"
    /\ workItem = None
    /\ succeeded = {}
    /\ failed = {}
    /\ stopping = FALSE

Work == CheckStopping \/ Acquire \/ Cancel \/ TryDequeue \/ Succeed \/ Fail

Next ==
    \/ \E p \in Producer : Enqueue(p) \/ Release(p)
    \/ Work
    \/ Stop
    \/ Quiescent

Spec == Init /\ [][Next]_vars

\* A call that has begun returns, and the worker runs; nobody has to queue
\* anything, and the host need not stop.
Fairness == WF_vars(Work) /\ \A p \in Producer : WF_vars(Release(p))

FairSpec == Spec /\ Fairness

-----------------------------------------------------------------------------
(* Correctness *)

TypeOK ==
    /\ workItems \in Seq(Producer)
    /\ permits \in Nat
    /\ producer \in [Producer -> {"idle", "signal", "done"}]
    /\ worker \in {"check", "acquire", "blocked", "dequeue", "run", "stopped"}
    /\ workItem \in Producer \cup {None}
    /\ succeeded \subseteq Producer
    /\ failed \subseteq Producer
    /\ stopping \in BOOLEAN

\* Permits the worker may still use: the free ones, and the one it acquired.
Acquired == IF worker = "dequeue" THEN 1 ELSE 0

\* Between them, the semaphore, the worker and the producers that are about to
\* release account for every queued item: none is left behind, and none is
\* signalled twice.
PermitsMatchItems ==
    Len(workItems) = permits + Acquired + Cardinality(Signalling)

\* Whatever the interleaving of the producers, a worker that got through the
\* semaphore finds an item: the unchecked result of TryDequeue is never null.
DequeueFindsItem == worker = "run" => workItem # None

Abstract == INSTANCE WorkQueue
                WITH Item <- Producer, waiting <- workItems,
                     running <- workItem, ended <- succeeded \cup failed

\* Items run in the order in which they were queued, one at a time and once.
RunsInOrder == Abstract!Spec

\* Every item that was queued is run, unless the host stops the worker.
ItemsRun ==
    \A p \in Producer :
        p \in Queued ~> p \in succeeded \cup failed \/ stopping
=============================================================================
