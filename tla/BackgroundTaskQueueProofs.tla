---------------------- MODULE BackgroundTaskQueueProofs ----------------------
(***************************************************************************)
(* The background queue keeps what it promises for any number of           *)
(* producers: the semaphore and the queue agree, the worker never gets an   *)
(* empty hand, and items run once each, in order.                          *)
(***************************************************************************)
EXTENDS BackgroundTaskQueue, FiniteSetTheorems, TLAPS

\* The worker holds an item exactly while it runs one.
HandMatches == workItem # None <=> worker = "run"

\* What was not queued yet is nowhere.
IdleIsNowhere ==
    \A p \in Producer :
        producer[p] = "idle" => p \notin Queued \cup {workItem} \cup succeeded \cup failed

Inv ==
    /\ TypeOK
    /\ IsFiniteSet(Signalling)
    /\ PermitsMatchItems
    /\ HandMatches
    /\ IdleIsNowhere

-----------------------------------------------------------------------------
(* The queue as a sequence *)

LEMMA QueuedAfterAppend ==
    ASSUME workItems \in Seq(Producer), NEW p \in Producer,
           workItems' = Append(workItems, p)
    PROVE  /\ workItems' \in Seq(Producer) /\ Len(workItems') = Len(workItems) + 1
           /\ Queued' = Queued \cup {p}
<1>1. /\ workItems' \in Seq(Producer) /\ Len(workItems') = Len(workItems) + 1
      /\ DOMAIN workItems = 1 .. Len(workItems)
      /\ DOMAIN workItems' = 1 .. Len(workItems) + 1
      /\ Len(workItems) \in Nat
      /\ workItems'[Len(workItems) + 1] = p
      /\ \A n \in 1 .. Len(workItems) : workItems'[n] = workItems[n]
  OBVIOUS
<1> QED
  BY <1>1 DEF Queued

LEMMA QueuedAfterTail ==
    ASSUME workItems \in Seq(Producer), workItems # <<>>, workItems' = Tail(workItems)
    PROVE  /\ workItems' \in Seq(Producer) /\ Len(workItems') = Len(workItems) - 1
           /\ Head(workItems) \in Producer /\ Head(workItems) \in Queued
           /\ Queued' \subseteq Queued
<1>1. /\ workItems' \in Seq(Producer) /\ Len(workItems') = Len(workItems) - 1
      /\ Len(workItems) \in Nat /\ Len(workItems) >= 1
      /\ DOMAIN workItems = 1 .. Len(workItems)
      /\ DOMAIN workItems' = 1 .. Len(workItems) - 1
      /\ Head(workItems) = workItems[1] /\ Head(workItems) \in Producer
      /\ \A n \in 1 .. Len(workItems) - 1 : workItems'[n] = workItems[n + 1]
  OBVIOUS
<1> QED
  BY <1>1 DEF Queued

-----------------------------------------------------------------------------
LEMMA InitInv == Init => Inv
<1> SUFFICES ASSUME Init PROVE Inv
  OBVIOUS
<1>1. TypeOK /\ HandMatches
  <2>1. workItems \in Seq(Producer)
    BY DEF Init
  <2> QED
    BY <2>1, NoneIsNoItem DEF Init, TypeOK, HandMatches
<1>2. Signalling = {} /\ Queued = {}
  BY DEF Init, Signalling, Queued
<1>3. IsFiniteSet(Signalling) /\ Cardinality(Signalling) = 0
  BY <1>2, FS_EmptySet
<1>4. PermitsMatchItems
  BY <1>3 DEF Init, PermitsMatchItems, Acquired
<1>5. IdleIsNowhere
  BY <1>2, NoneIsNoItem DEF Init, IdleIsNowhere
<1> QED
  BY <1>1, <1>3, <1>4, <1>5 DEF Inv

\* The worker that acquired a permit has an item to dequeue.
LEMMA AcquiredHasItem ==
    ASSUME Inv, worker = "dequeue"
    PROVE  workItems # <<>>
<1>1. Cardinality(Signalling) \in Nat
  BY FS_CardinalityType DEF Inv
<1>2. Len(workItems) >= 1
  BY <1>1 DEF Inv, TypeOK, PermitsMatchItems, Acquired
<1> QED
  BY <1>2

LEMMA NextInv == Inv /\ [Next]_vars => Inv'
<1> SUFFICES ASSUME Inv, [Next]_vars PROVE Inv'
  OBVIOUS
<1> USE NoneIsNoItem
<1>0. /\ TypeOK /\ IsFiniteSet(Signalling) /\ PermitsMatchItems
      /\ HandMatches /\ IdleIsNowhere /\ Cardinality(Signalling) \in Nat
      /\ Len(workItems) \in Nat
  BY FS_CardinalityType DEF Inv, TypeOK
<1>1. ASSUME NEW p \in Producer, Enqueue(p)
      PROVE  Inv'
  <2>1. /\ workItems' \in Seq(Producer) /\ Len(workItems') = Len(workItems) + 1
        /\ Queued' = Queued \cup {p}
    BY <1>0, <1>1, QueuedAfterAppend DEF Enqueue, TypeOK
  <2>2. Signalling' = Signalling \cup {p} /\ p \notin Signalling
    BY <1>0, <1>1 DEF Enqueue, TypeOK, Signalling
  <2>3. /\ IsFiniteSet(Signalling')
        /\ Cardinality(Signalling') = Cardinality(Signalling) + 1
    BY <1>0, <2>2, FS_AddElement
  <2>4. UNCHANGED <<permits, worker, workItem, succeeded, failed, stopping>>
    BY <1>1 DEF Enqueue
  <2>5. /\ TypeOK'
        /\ HandMatches'
        /\ PermitsMatchItems'
    <3>1. producer' \in [Producer -> {"idle", "signal", "done"}]
      <4>1. producer' = [producer EXCEPT ![p] = "signal"]
        BY <1>1 DEF Enqueue
      <4>2. producer \in [Producer -> {"idle", "signal", "done"}]
        BY <1>0 DEF TypeOK
      <4> QED
        BY <4>1, <4>2
    <3>2. TypeOK'
      BY <1>0, <2>1, <2>4, <3>1 DEF TypeOK
    <3>3. HandMatches'
      BY <1>0, <2>4 DEF HandMatches
    <3>4. PermitsMatchItems'
      BY <1>0, <2>1, <2>3, <2>4 DEF TypeOK, PermitsMatchItems, Acquired
    <3> QED
      BY <3>2, <3>3, <3>4
  <2>6. IdleIsNowhere'
    BY <1>0, <1>1, <2>1 DEF Enqueue, IdleIsNowhere, TypeOK
  <2> QED
    BY <2>3, <2>5, <2>6 DEF Inv
<1>2. ASSUME NEW p \in Producer, Release(p)
      PROVE  Inv'
  <2>1. Signalling' = Signalling \ {p} /\ p \in Signalling /\ Queued' = Queued
    BY <1>0, <1>2 DEF Release, TypeOK, Signalling, Queued
  <2>2. /\ IsFiniteSet(Signalling')
        /\ Cardinality(Signalling') = Cardinality(Signalling) - 1
    BY <1>0, <2>1, FS_RemoveElement
  <2>3. TypeOK' /\ HandMatches'
    BY <1>0, <1>2 DEF Release, TypeOK, HandMatches
  <2>4. PermitsMatchItems'
    BY <1>0, <1>2, <2>2 DEF Release, PermitsMatchItems, Acquired, TypeOK
  <2>5. IdleIsNowhere'
    BY <1>0, <1>2, <2>1 DEF Release, IdleIsNowhere, TypeOK
  <2> QED
    BY <2>2, <2>3, <2>4, <2>5 DEF Inv
<1>3. CASE TryDequeue
  <2>1. workItems # <<>>
    BY <1>3, AcquiredHasItem DEF TryDequeue
  <2>2. workItems' = Tail(workItems) /\ workItem' = Head(workItems)
    BY <1>3, <2>1 DEF TryDequeue
  <2>3. /\ workItems' \in Seq(Producer) /\ Len(workItems') = Len(workItems) - 1
        /\ workItem' \in Producer /\ workItem' \in Queued /\ Queued' \subseteq Queued
    BY <1>0, <2>1, <2>2, QueuedAfterTail DEF TypeOK
  <2>4. Signalling' = Signalling
    BY <1>3 DEF TryDequeue, Signalling
  <2>5. TypeOK' /\ HandMatches'
    BY <1>0, <1>3, <2>3 DEF TryDequeue, TypeOK, HandMatches
  <2>6. PermitsMatchItems'
    BY <1>0, <1>3, <2>3, <2>4 DEF TryDequeue, PermitsMatchItems, Acquired, TypeOK
  <2>7. IdleIsNowhere'
    BY <1>0, <1>3, <2>3 DEF TryDequeue, IdleIsNowhere
  <2> QED
    BY <1>0, <2>4, <2>5, <2>6, <2>7 DEF Inv
<1>4. CASE Succeed \/ Fail
  <2>1. Signalling' = Signalling /\ Queued' = Queued
    BY <1>4 DEF Succeed, Fail, Signalling, Queued
  <2>2. TypeOK' /\ HandMatches'
    <3>1. /\ UNCHANGED <<workItems, permits, producer, stopping>>
          /\ workItem' = None /\ worker' = "check"
          /\ succeeded' \subseteq succeeded \cup ({workItem} \ {None})
          /\ failed' \subseteq failed \cup ({workItem} \ {None})
      BY <1>4 DEF Succeed, Fail
    <3> QED
      BY <1>0, <3>1 DEF TypeOK, HandMatches
  <2>3. PermitsMatchItems'
    BY <1>0, <1>4, <2>1 DEF Succeed, Fail, PermitsMatchItems, Acquired
  <2>4. IdleIsNowhere'
    BY <1>0, <1>4, <2>1 DEF Succeed, Fail, IdleIsNowhere
  <2> QED
    BY <1>0, <2>1, <2>2, <2>3, <2>4 DEF Inv
<1>5. CASE CheckStopping \/ Acquire \/ Cancel \/ Stop \/ UNCHANGED vars
  <2>1. /\ Signalling' = Signalling /\ Queued' = Queued
        /\ UNCHANGED <<workItems, producer, workItem, succeeded, failed>>
    BY <1>5 DEF CheckStopping, Acquire, Cancel, Stop, vars, Signalling, Queued
  <2>2. TypeOK' /\ HandMatches'
    <3>1. stopping' \in BOOLEAN
      BY <1>0, <1>5 DEF CheckStopping, Acquire, Cancel, Stop, vars, TypeOK
    <3>2. /\ permits' \in Nat
          /\ worker' \in {"check", "acquire", "blocked", "dequeue", "stopped"}
             \/ worker' = worker
          /\ worker = "run" => worker' = "run"
      BY <1>0, <1>5 DEF CheckStopping, Acquire, Cancel, Stop, vars, TypeOK
    <3> QED
      BY <1>0, <2>1, <3>1, <3>2 DEF TypeOK, HandMatches
  <2>3. PermitsMatchItems'
    BY <1>0, <1>5, <2>1
    DEF CheckStopping, Acquire, Cancel, Stop, vars, PermitsMatchItems, Acquired, TypeOK
  <2>4. IdleIsNowhere'
    BY <1>0, <2>1 DEF IdleIsNowhere
  <2> QED
    BY <1>0, <2>1, <2>2, <2>3, <2>4 DEF Inv
<1> QED
  BY <1>1, <1>2, <1>3, <1>4, <1>5 DEF Next, Work, Quiescent

LEMMA InvHolds == Spec => []Inv
  BY InitInv, NextInv, PTL DEF Spec

-----------------------------------------------------------------------------
\* The permits of the semaphore, the permit the worker holds and the producers
\* between their two steps always add up to the queued items
\* (QueueBackgroundWorkItem and DequeueAsync).
THEOREM PermitsAlwaysMatch == Spec => []PermitsMatchItems
<1>1. Inv => PermitsMatchItems
  BY DEF Inv
<1> QED
  BY <1>1, InvHolds, PTL

\* A worker that awaited the semaphore finds an item, for any number of
\* concurrent producers: the result of TryDequeue needs no check.
THEOREM DequeueAlwaysFinds == Spec => []DequeueFindsItem
<1>1. Inv => DequeueFindsItem
  BY DEF Inv, HandMatches, DequeueFindsItem
<1> QED
  BY <1>1, InvHolds, PTL

\* The queue and its worker implement a first-in-first-out queue whose items run
\* one at a time and once each, wherever the host stops it.
THEOREM QueueRunsInOrder == Spec => RunsInOrder
<1> USE NoneIsNoItem
<1>1. Init => Abstract!Init
  BY DEF Init, Abstract!Init
<1>2. Inv /\ [Next]_vars => [Abstract!Next]_(Abstract!vars)
  <2> SUFFICES ASSUME Inv, [Next]_vars
               PROVE  [Abstract!Next]_(Abstract!vars)
    OBVIOUS
  <2> USE DEF Abstract!Next, Abstract!vars
  <2>1. ASSUME NEW p \in Producer, Enqueue(p)
        PROVE  Abstract!Queue(p)
    BY <2>1 DEF Enqueue, Abstract!Queue, Abstract!Queued, Queued, Inv, IdleIsNowhere
  <2>2. ASSUME TryDequeue
        PROVE  Abstract!Start
    BY <2>2, AcquiredHasItem DEF TryDequeue, Abstract!Start, Inv, HandMatches, TypeOK
  <2>3. ASSUME Succeed \/ Fail
        PROVE  Abstract!End
    BY <2>3 DEF Succeed, Fail, Abstract!End, Inv, HandMatches
  <2>4. ASSUME \/ \E p \in Producer : Release(p)
               \/ CheckStopping \/ Acquire \/ Cancel \/ Stop \/ UNCHANGED vars
        PROVE  UNCHANGED Abstract!vars
    BY <2>4 DEF Release, CheckStopping, Acquire, Cancel, Stop, vars
  <2> QED
    BY <2>1, <2>2, <2>3, <2>4 DEF Next, Work, Quiescent
<1> QED
  BY <1>1, <1>2, InvHolds, PTL DEF Spec, Abstract!Spec, RunsInOrder

\* Type correctness of the queue and its worker, for any number of producers.
THEOREM TypesHold == Spec => []TypeOK
<1>1. Inv => TypeOK
  BY DEF Inv
<1> QED
  BY <1>1, InvHolds, PTL
=============================================================================
