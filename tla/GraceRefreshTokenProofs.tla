----------------------- MODULE GraceRefreshTokenProofs -----------------------
(***************************************************************************)
(* What GraceRefreshToken guarantees for any number of requests, clients   *)
(* and settings, under any pacing, with failing removals and revocations.  *)
(*                                                                         *)
(* The argument is one inductive invariant, Inv.  Control ties the fields  *)
(* of a request to where its handler is; Lineage and Genuine tie every      *)
(* stored token, and every copy a handler works on, to the sign-in it       *)
(* descends from; Superseded and Safekeeping follow the child of a token   *)
(* from the moment it is minted.                                           *)
(***************************************************************************)
EXTENDS GraceRefreshToken, TLAPS

-----------------------------------------------------------------------------
(* The inductive invariant *)

Serving == {"validate", "refuse", "update", "mint", "link", "dropChild", "dropParent"}
Holding == {"update", "mint", "link", "dropChild", "dropParent"}
Marked  == {"mint", "link", "dropChild", "dropParent"}

\* The fields of a request follow the progress of its handler.
Control ==
    \A i \in Request :
        /\ pc[i] = "idle" => handle[i] = Null
        /\ pc[i] # "idle" => caller[i] \in Client
        /\ pc[i] \in Serving => handle[i] \in Request
        /\ pc[i] \in Holding => token[i] \in Token /\ token[i].client = caller[i]
        /\ pc[i] \in Marked => /\ token[i].consumedTime # NotConsumed
                               /\ Config(i).usage = "OneTimeOnly"
        /\ pc[i] \in {"idle", "validate", "refuse", "update", "mint"} => answer[i] = Null
        /\ pc[i] \in {"link", "dropChild", "dropParent"} => answer[i] = i
        /\ pc[i] = "reply" => answer[i] \in Request

\* Whatever refers to a handle refers to one that was minted, and a family has
\* one root and one client.
Lineage ==
    \A h \in Request :
        /\ family[h] # Null <=> answer[h] = h
        /\ family[h] # Null => /\ family[family[h]] = family[h]
                               /\ caller[family[h]] = caller[h]
        /\ store[h] # Null => family[h] # Null
        /\ h \in Pending \cup delivered => family[h] # Null
        /\ handle[h] # Null => family[handle[h]] # Null
        /\ answer[h] # Null => family[answer[h]] # Null
        /\ handle[h] # h

\* Redemption k is complete as far as the store is concerned.
Linked(k) == pc[k] \in {"dropChild", "dropParent", "reply", "done"} /\ answer[k] = k

\* t is a state of token h: of the client and the sign-in it descends from,
\* within the absolute lifetime, and truthful about its parent and its child.
Describes(t, h) ==
    LET config == ClientConfig[t.client] IN
    /\ t.client = caller[h]
    /\ t.creationTime = born[family[h]]
    /\ config.absoluteLifetime > 0 => t.lifetime <= config.absoluteLifetime
    /\ config.usage = "ReUse" => t.consumedTime = NotConsumed
    /\ t.parent # Null => handle[h] = t.parent
    /\ t.child # Null =>
          /\ config.usage = "OneTimeOnly" /\ config.graceEnabled
          /\ handle[t.child] = h
          /\ Linked(t.child)

Genuine ==
    /\ \A h \in Request : store[h] # Null => Describes(store[h], h)
    /\ \A i \in Request : pc[i] \in Holding => Describes(token[i], handle[i])

\* The child a handler is about to drop is no longer the one its parent names.
Superseded ==
    \A i \in Request :
        pc[i] = "dropChild" =>
            /\ token[i].child # i
            /\ \/ token[i].child = Null
               \/ store[handle[i]] = Null
               \/ store[handle[i]].child # token[i].child

\* A new token is safe before its parent names it, too.
Safekeeping == \A i \in Request : pc[i] = "link" => Safe(i)

Inv ==
    /\ TypeOK
    /\ Control
    /\ Lineage
    /\ Genuine
    /\ Superseded
    /\ Safekeeping
    /\ RemovalJustified
    /\ LatestChildKept

-----------------------------------------------------------------------------
(* The operators on tokens, lifetimes and the queue *)

\* Marking a copy as redeemed changes when and how often it was consumed.
LEMMA ConsumedFacts ==
    ASSUME now \in 0 .. MaxTime, NEW t \in Token
    PROVE  /\ Consumed(t) \in Token
           /\ Consumed(t).client = t.client
           /\ Consumed(t).creationTime = t.creationTime
           /\ Consumed(t).lifetime = t.lifetime
           /\ Consumed(t).parent = t.parent
           /\ Consumed(t).child = t.child
           /\ Consumed(t).consumedTime # NotConsumed
<1>1. /\ now \in Int
      /\ t.consumedTime \in {NotConsumed} \cup (0 .. MaxTime)
      /\ t.consumedAttempts \in Nat
  BY MaxTimeType DEF Token
<1>2. DEFINE time == IF t.consumedTime = NotConsumed THEN now ELSE t.consumedTime
             attempts == t.consumedAttempts + 1
<1>3. time \in 0 .. MaxTime /\ time # NotConsumed /\ attempts \in Nat
  BY <1>1, MaxTimeType DEF NotConsumed
<1>4. Consumed(t) = [t EXCEPT !.consumedTime = time, !.consumedAttempts = attempts]
  BY DEF Consumed
<1> HIDE DEF time, attempts
<1> QED
  BY <1>3, <1>4 DEF Token

\* The token that is stored for a child is fresh, childless and below h.
LEMMA ChildFacts ==
    ASSUME NEW t \in Token, NEW h \in Request
    PROVE  /\ ChildOf(h, t) \in Token
           /\ ChildOf(h, t).client = t.client
           /\ ChildOf(h, t).creationTime = t.creationTime
           /\ ChildOf(h, t).lifetime = t.lifetime
           /\ ChildOf(h, t).parent = h
           /\ ChildOf(h, t).child = Null
           /\ ChildOf(h, t).consumedTime = NotConsumed
  BY MaxTimeType DEF ChildOf, Token, NotConsumed

\* The token that is written back has no parent, and the new child if any.
LEMMA ParentFacts ==
    ASSUME NEW t \in Token, NEW k \in Request, NEW g \in BOOLEAN
    PROVE  /\ ParentOf(k, t, g) \in Token
           /\ ParentOf(k, t, g).client = t.client
           /\ ParentOf(k, t, g).creationTime = t.creationTime
           /\ ParentOf(k, t, g).lifetime = t.lifetime
           /\ ParentOf(k, t, g).parent = Null
           /\ ParentOf(k, t, g).child = IF g THEN k ELSE Null
           /\ ParentOf(k, t, g).consumedTime = t.consumedTime
  BY DEF ParentOf, Token

\* Sliding keeps a lifetime within the absolute one.
LEMMA SlidFacts ==
    ASSUME now \in 0 .. MaxTime, NEW t \in Token, NEW config \in Settings
    PROVE  /\ Slid(config, t) \in Token
           /\ Slid(config, t).client = t.client
           /\ Slid(config, t).creationTime = t.creationTime
           /\ Slid(config, t).parent = t.parent
           /\ Slid(config, t).child = t.child
           /\ Slid(config, t).consumedTime = t.consumedTime
           /\ config.absoluteLifetime > 0 /\ t.lifetime <= config.absoluteLifetime
                  => Slid(config, t).lifetime <= config.absoluteLifetime
<1>1. /\ t.creationTime \in Int /\ t.lifetime \in Int
      /\ config.absoluteLifetime \in Int /\ config.slidingLifetime \in Int
      /\ now \in Int
  BY MaxTimeType DEF Token, Settings
<1>2. /\ SlidLifetime(config, t) \in Int
      /\ config.absoluteLifetime > 0 /\ t.lifetime <= config.absoluteLifetime
             => SlidLifetime(config, t) <= config.absoluteLifetime
  BY <1>1 DEF SlidLifetime, Capped
<1> QED
  BY <1>2 DEF Slid, Token

\* A token starts with a lifetime within the absolute one.
LEMMA FirstLifetimeFacts ==
    ASSUME NEW config \in Settings
    PROVE  /\ FirstLifetime(config) \in Int
           /\ config.absoluteLifetime > 0
                  => FirstLifetime(config) <= config.absoluteLifetime
  BY DEF FirstLifetime, Capped, Settings

\* Queueing a handle makes it pending, and nothing else.
LEMMA PendingAfterAppend ==
    ASSUME queue \in Seq(Request), NEW h \in Request, queue' = Append(queue, h)
    PROVE  queue' \in Seq(Request) /\ Pending' = Pending \cup {h}
<1>1. /\ queue' \in Seq(Request)
      /\ DOMAIN queue = 1 .. Len(queue) /\ DOMAIN queue' = 1 .. Len(queue) + 1
      /\ Len(queue) \in Nat
      /\ queue'[Len(queue) + 1] = h
      /\ \A n \in 1 .. Len(queue) : queue'[n] = queue[n]
  OBVIOUS
<1> QED
  BY <1>1 DEF Pending

\* The worker takes a pending handle, and makes none pending.
LEMMA PendingAfterTail ==
    ASSUME queue \in Seq(Request), queue # <<>>, queue' = Tail(queue)
    PROVE  /\ queue' \in Seq(Request) /\ Head(queue) \in Request
           /\ Head(queue) \in Pending /\ Pending' \subseteq Pending
<1>1. /\ queue' \in Seq(Request) /\ Head(queue) \in Request
      /\ Len(queue) \in Nat /\ Len(queue) >= 1
      /\ DOMAIN queue = 1 .. Len(queue) /\ DOMAIN queue' = 1 .. Len(queue) - 1
      /\ Head(queue) = queue[1]
      /\ \A n \in 1 .. Len(queue) - 1 : queue'[n] = queue[n + 1]
  OBVIOUS
<1> QED
  BY <1>1 DEF Pending

LEMMA PendingIsHandles ==
    ASSUME queue \in Seq(Request)
    PROVE  Pending \subseteq Request
  BY DEF Pending

-----------------------------------------------------------------------------
(* Types, and the progress of a handler *)

LEMMA InitTypes == Init => TypeOK /\ Control
  BY MaxTimeType, NullIsFresh DEF Init, TypeOK, Control, Serving, Holding, Marked

LEMMA ConfigType == \A c \in Client : ClientConfig[c] \in Settings
  BY ClientConfigType

LEMMA NextTypes ==
    ASSUME TypeOK, Control, [Next]_vars
    PROVE  TypeOK' /\ Control'
<1> USE NullIsFresh DEF TypeOK, Control, Serving, Holding, Marked, Config
<1>1. ASSUME NEW i \in Request, NEW c \in Client, CreateRefreshToken(i, c)
      PROVE  TypeOK' /\ Control'
  <2>1. FirstLifetime(ClientConfig[c]) \in Int
    BY ConfigType, FirstLifetimeFacts
  <2>2. store'[i] \in Token /\ store' \in [Request -> Token \cup {Null}]
    BY <1>1, <2>1, MaxTimeType DEF CreateRefreshToken, Token, NotConsumed
  <2> QED
    BY <1>1, <2>2 DEF CreateRefreshToken, MayStart
<1>2. ASSUME NEW i \in Request, NEW h \in Request, NEW c \in Client, Present(i, h, c)
      PROVE  TypeOK' /\ Control'
  BY <1>2 DEF Present, MayStart, server, history
<1>3. ASSUME NEW i \in Request, Validate(i)
      PROVE  TypeOK' /\ Control'
  <2>1. pc[i] = "validate" /\ handle[i] \in Request /\ caller[i] \in Client
    BY <1>3 DEF Validate
  <2>2. UNCHANGED <<now, store, queue, handle, caller, answer, delivered, family,
                    born, revoked>>
    BY <1>3 DEF Validate, server, history
  <2>3. CASE Accepts(caller[i], store[handle[i]])
    <3>1. store[handle[i]] # Null /\ store[handle[i]].client = caller[i]
      BY <2>3 DEF Accepts
    <3>2. store[handle[i]] \in Token
      BY <2>1, <3>1
    <3>3. pc' = [pc EXCEPT ![i] = "update"] /\ token' = [token EXCEPT ![i] = store[handle[i]]]
      BY <1>3, <2>3 DEF Validate
    <3> QED
      BY <2>1, <2>2, <3>1, <3>2, <3>3
  <2>4. CASE ~Accepts(caller[i], store[handle[i]])
    <3>1. pc' = [pc EXCEPT ![i] = "refuse"] /\ token' = token
      BY <1>3, <2>4 DEF Validate
    <3> QED
      BY <2>1, <2>2, <3>1
  <2> QED
    BY <2>3, <2>4
<1>4. ASSUME NEW i \in Request, Refuse(i)
      PROVE  TypeOK' /\ Control'
  BY <1>4, PendingAfterAppend DEF Refuse, history
<1>5. ASSUME NEW i \in Request, Consume(i)
      PROVE  TypeOK' /\ Control'
  BY <1>5, ConsumedFacts DEF Consume, history
<1>6. ASSUME NEW i \in Request, MintChild(i)
      PROVE  TypeOK' /\ Control'
  <2>1. /\ Slid(Config(i), token[i]) \in Token
        /\ Slid(Config(i), token[i]).client = token[i].client
        /\ Slid(Config(i), token[i]).consumedTime = token[i].consumedTime
    BY <1>6, ConfigType, SlidFacts DEF MintChild
  <2>2. ChildOf(handle[i], Slid(Config(i), token[i])) \in Token
    BY <1>6, <2>1, ChildFacts DEF MintChild
  <2> QED
    BY <1>6, <2>1, <2>2 DEF MintChild
<1>7. ASSUME NEW i \in Request, LinkParent(i)
      PROVE  TypeOK' /\ Control'
  <2>1. Graceful(i) \in BOOLEAN
    BY <1>7, ConfigType DEF LinkParent, Graceful, Settings
  <2>2. ParentOf(i, token[i], Graceful(i)) \in Token
    BY <1>7, <2>1, ParentFacts DEF LinkParent
  <2> QED
    BY <1>7, <2>2 DEF LinkParent, history
<1>8. ASSUME NEW i \in Request, DropOldChild(i)
      PROVE  TypeOK' /\ Control'
  BY <1>8, PendingAfterAppend DEF DropOldChild, Enqueue, history, Token
<1>9. ASSUME NEW i \in Request, DropOldParent(i)
      PROVE  TypeOK' /\ Control'
  BY <1>9, PendingAfterAppend DEF DropOldParent, Enqueue, history, Token
<1>10. ASSUME NEW i \in Request, UpdateReusable(i)
       PROVE  TypeOK' /\ Control'
  <2>1. Slid(Config(i), token[i]) \in Token
    BY <1>10, ConfigType, SlidFacts DEF UpdateReusable
  <2> QED
    BY <1>10, <2>1 DEF UpdateReusable, history
<1>11. ASSUME NEW i \in Request, Reply(i)
       PROVE  TypeOK' /\ Control'
  BY <1>11 DEF Reply, server, history
<1>12. CASE Worker
  BY <1>12, PendingAfterTail
  DEF Worker, RemoveNext, WorkItemFails, request, history
<1>13. ASSUME NEW c \in Client, RevokeGrants(c)
       PROVE  TypeOK' /\ Control'
  BY <1>13 DEF RevokeGrants, request
<1>14. CASE Tick
  BY <1>14, MaxTimeType DEF Tick, server, request, history
<1>15. CASE UNCHANGED vars
  BY <1>15 DEF vars, server, request, history
<1> QED
  BY <1>1, <1>2, <1>3, <1>4, <1>5, <1>6, <1>7, <1>8, <1>9, <1>10, <1>11, <1>12,
     <1>13, <1>14, <1>15
  DEF Next, Serve, Quiescent

-----------------------------------------------------------------------------
(* What a step never undoes *)

\* What is known of request, or token, h from a step on.
Kept(h) ==
    /\ family[h] # Null => family'[h] = family[h] /\ born'[h] = born[h]
    /\ pc[h] # "idle" => /\ pc'[h] # "idle"
                         /\ caller'[h] = caller[h]
                         /\ handle'[h] = handle[h]
    /\ answer[h] # Null => answer'[h] = answer[h]
    /\ pc[h] = "done" => pc'[h] = "done" /\ answer'[h] = answer[h]
    /\ Linked(h) => Linked(h)'

LEMMA NextKeeps ==
    ASSUME TypeOK, Control, Lineage, [Next]_vars
    PROVE  (\A h \in Request : Kept(h)) /\ revoked \subseteq revoked'
<1> USE NullIsFresh DEF TypeOK, Kept, Linked
<1>0. \A h \in Request : family[h] # Null => answer[h] = h
  BY DEF Lineage
<1>a. \A h \in Request : pc[h] \in {"idle", "validate", "refuse", "update", "mint"} =>
                            answer[h] = Null
  BY DEF Control
<1>1. ASSUME NEW i \in Request, NEW c \in Client, CreateRefreshToken(i, c)
      PROVE  (\A h \in Request : Kept(h)) /\ revoked \subseteq revoked'
  BY <1>0, <1>a, <1>1 DEF CreateRefreshToken, MayStart
<1>2. ASSUME NEW i \in Request, NEW k \in Request, NEW c \in Client, Present(i, k, c)
      PROVE  (\A h \in Request : Kept(h)) /\ revoked \subseteq revoked'
  BY <1>0, <1>a, <1>2 DEF Present, MayStart, history
<1>3. ASSUME NEW i \in Request, Validate(i)
      PROVE  (\A h \in Request : Kept(h)) /\ revoked \subseteq revoked'
  BY <1>0, <1>a, <1>3 DEF Validate, server, history
<1>4. ASSUME NEW i \in Request, Refuse(i)
      PROVE  (\A h \in Request : Kept(h)) /\ revoked \subseteq revoked'
  BY <1>0, <1>a, <1>4 DEF Refuse, history
<1>5. ASSUME NEW i \in Request, Consume(i)
      PROVE  (\A h \in Request : Kept(h)) /\ revoked \subseteq revoked'
  BY <1>0, <1>a, <1>5 DEF Consume, history
<1>6. ASSUME NEW i \in Request, MintChild(i)
      PROVE  (\A h \in Request : Kept(h)) /\ revoked \subseteq revoked'
  BY <1>0, <1>a, <1>6 DEF MintChild
<1>7. ASSUME NEW i \in Request, LinkParent(i)
      PROVE  (\A h \in Request : Kept(h)) /\ revoked \subseteq revoked'
  BY <1>0, <1>a, <1>7 DEF LinkParent, history
<1>8. ASSUME NEW i \in Request, DropOldChild(i)
      PROVE  (\A h \in Request : Kept(h)) /\ revoked \subseteq revoked'
  BY <1>0, <1>a, <1>8 DEF DropOldChild, history
<1>9. ASSUME NEW i \in Request, DropOldParent(i)
      PROVE  (\A h \in Request : Kept(h)) /\ revoked \subseteq revoked'
  BY <1>0, <1>a, <1>9 DEF DropOldParent, history
<1>10. ASSUME NEW i \in Request, UpdateReusable(i)
      PROVE  (\A h \in Request : Kept(h)) /\ revoked \subseteq revoked'
  BY <1>0, <1>a, <1>10 DEF UpdateReusable, history
<1>11. ASSUME NEW i \in Request, Reply(i)
      PROVE  (\A h \in Request : Kept(h)) /\ revoked \subseteq revoked'
  BY <1>0, <1>a, <1>11 DEF Reply, server, history
<1>12. CASE Worker
  BY <1>12 DEF Worker, RemoveNext, WorkItemFails, request, history
<1>13. ASSUME NEW c \in Client, RevokeGrants(c)
       PROVE  (\A h \in Request : Kept(h)) /\ revoked \subseteq revoked'
  BY <1>13 DEF RevokeGrants, request
<1>14. CASE Tick
  BY <1>14 DEF Tick, server, request, history
<1>15. CASE UNCHANGED vars
  BY <1>15 DEF vars, server, request, history
<1> QED
  BY <1>1, <1>2, <1>3, <1>4, <1>5, <1>6, <1>7, <1>8, <1>9, <1>10, <1>11, <1>12,
     <1>13, <1>14, <1>15
  DEF Next, Serve, Quiescent

-----------------------------------------------------------------------------
(* Every handle in use was minted *)

LEMMA NextLineage ==
    ASSUME TypeOK, Control, Lineage, Genuine, [Next]_vars
    PROVE  Lineage'
<1> USE NullIsFresh DEF TypeOK, Lineage
<1>0. Pending \subseteq Request
  BY PendingIsHandles
<1>1. ASSUME NEW i \in Request, NEW c \in Client, CreateRefreshToken(i, c)
      PROVE  Lineage'
  <2>1. pc[i] = "idle" /\ answer[i] = Null /\ family[i] = Null /\ Pending' = Pending
    BY <1>1 DEF CreateRefreshToken, MayStart, Control, Pending
  <2> QED
    BY <1>0, <1>1, <2>1 DEF CreateRefreshToken
<1>2. ASSUME NEW i \in Request, NEW k \in Request, NEW c \in Client, Present(i, k, c)
      PROVE  Lineage'
  <2>1. pc[i] = "idle" /\ answer[i] = Null /\ family[i] = Null /\ Pending' = Pending
    BY <1>2 DEF Present, MayStart, Control, Pending, server
  <2>2. k # i /\ family[k] # Null
    BY <1>2, <2>1 DEF Present
  <2> QED
    BY <1>0, <1>2, <2>1, <2>2 DEF Present, server, history
<1>3. ASSUME NEW i \in Request, Validate(i)
      PROVE  Lineage'
  <2>1. Pending' = Pending
    BY <1>3 DEF Validate, Pending, server
  <2> QED
    BY <1>0, <1>3, <2>1 DEF Validate, server, history
<1>4. ASSUME NEW i \in Request, Refuse(i)
      PROVE  Lineage'
  <2>1. handle[i] \in Request
    BY <1>4 DEF Refuse, Control, Serving
  <2>2. Pending' = Pending \cup {handle[i]}
    BY <1>4, <2>1, PendingAfterAppend DEF Refuse
  <2> QED
    BY <1>0, <1>4, <2>1, <2>2 DEF Refuse, history
<1>5. ASSUME NEW i \in Request, Consume(i)
      PROVE  Lineage'
  <2>1. handle[i] \in Request /\ Pending' = Pending
    BY <1>5 DEF Consume, Control, Serving, Pending
  <2> QED
    BY <1>0, <1>5, <2>1 DEF Consume, history
<1>6. ASSUME NEW i \in Request, MintChild(i)
      PROVE  Lineage'
  <2>1. /\ handle[i] \in Request /\ answer[i] = Null /\ family[i] = Null
        /\ Pending' = Pending /\ caller[i] = caller[handle[i]]
    <3>1. pc[i] = "mint" /\ queue' = queue
      BY <1>6 DEF MintChild
    <3>2. handle[i] \in Request /\ answer[i] = Null /\ token[i].client = caller[i]
      BY <3>1 DEF Control, Serving, Holding
    <3>3. token[i].client = caller[handle[i]]
      BY <3>1 DEF Genuine, Holding, Describes
    <3> QED
      BY <3>1, <3>2, <3>3 DEF Pending
  <2>2. PICK f \in Request : f = family[handle[i]]
    BY <2>1
  <2>3. /\ family[f] = f /\ f # i /\ caller[f] = caller[i]
        /\ handle[i] # i /\ i \notin Pending \cup delivered
    BY <1>0, <2>1, <2>2
  <2>4. /\ family' = [family EXCEPT ![i] = f]
        /\ answer' = [answer EXCEPT ![i] = i]
        /\ UNCHANGED <<handle, caller, delivered>>
        /\ \A h \in Request \ {i} : store'[h] = store[h]
    BY <1>6, <2>1, <2>2 DEF MintChild
  <2> QED
    BY <1>0, <2>1, <2>3, <2>4
<1>7. ASSUME NEW i \in Request, LinkParent(i)
      PROVE  Lineage'
  <2>1. handle[i] \in Request /\ Pending' = Pending
    BY <1>7 DEF LinkParent, Control, Serving, Pending
  <2> QED
    BY <1>0, <1>7, <2>1 DEF LinkParent, history
<1>8. ASSUME NEW i \in Request, DropOldChild(i)
      PROVE  Lineage'
  <2>1. /\ token[i].child \in Request \cup {Null}
        /\ token[i].child # Null => family[token[i].child] # Null
    BY <1>8 DEF DropOldChild, Control, Holding, Genuine, Describes, Linked, Token
  <2>2. Pending' \subseteq Pending \cup ({token[i].child} \ {Null})
    BY <1>8, <2>1, PendingAfterAppend DEF DropOldChild, Enqueue, Pending
  <2> QED
    BY <1>0, <1>8, <2>1, <2>2 DEF DropOldChild, history
<1>9. ASSUME NEW i \in Request, DropOldParent(i)
      PROVE  Lineage'
  <2>1. /\ token[i].parent \in Request \cup {Null}
        /\ token[i].parent # Null => family[token[i].parent] # Null
    BY <1>9 DEF DropOldParent, Control, Serving, Holding, Genuine, Describes, Token
  <2>2. Pending' \subseteq Pending \cup ({token[i].parent} \ {Null})
    BY <1>9, <2>1, PendingAfterAppend DEF DropOldParent, Enqueue, Pending
  <2> QED
    BY <1>0, <1>9, <2>1, <2>2 DEF DropOldParent, history
<1>10. ASSUME NEW i \in Request, UpdateReusable(i)
       PROVE  Lineage'
  <2>1. /\ handle[i] \in Request /\ family[i] = Null /\ answer[i] = Null
        /\ Pending' = Pending
    BY <1>10 DEF UpdateReusable, Control, Serving, Pending
  <2> QED
    BY <1>0, <1>10, <2>1 DEF UpdateReusable, history
<1>11. ASSUME NEW i \in Request, Reply(i)
       PROVE  Lineage'
  <2>1. answer[i] # Null /\ Pending' = Pending
    BY <1>11 DEF Reply, Control, Pending, server
  <2> QED
    BY <1>0, <1>11, <2>1 DEF Reply, server, history
<1>12. CASE Worker
  <2>1. Head(queue) \in Request /\ Pending' \subseteq Pending
    BY <1>12, PendingAfterTail DEF Worker, RemoveNext, WorkItemFails
  <2> QED
    BY <1>0, <1>12, <2>1 DEF Worker, RemoveNext, WorkItemFails, request, history
<1>13. ASSUME NEW c \in Client, RevokeGrants(c)
       PROVE  Lineage'
  <2>1. Pending' = Pending
    BY <1>13 DEF RevokeGrants, Pending
  <2> QED
    BY <1>0, <1>13, <2>1 DEF RevokeGrants, request
<1>14. CASE Tick
  BY <1>0, <1>14 DEF Tick, server, request, history, Pending
<1>15. CASE UNCHANGED vars
  BY <1>0, <1>15 DEF vars, server, request, history, Pending
<1> QED
  BY <1>1, <1>2, <1>3, <1>4, <1>5, <1>6, <1>7, <1>8, <1>9, <1>10, <1>11, <1>12,
     <1>13, <1>14, <1>15
  DEF Next, Serve, Quiescent

-----------------------------------------------------------------------------
(* Stored tokens and handlers' copies are truthful *)

\* What describes a token goes on describing it.
LEMMA DescribesKept ==
    ASSUME TypeOK, Lineage, \A x \in Request : Kept(x),
           NEW h \in Request, family[h] # Null, pc[h] # "idle",
           NEW t \in Token, Describes(t, h)
    PROVE  Describes(t, h)'
<1>1. /\ family[h] \in Request /\ family[family[h]] # Null
      /\ t.child \in Request \cup {Null}
  BY NullIsFresh DEF TypeOK, Lineage, Token
<1>2. /\ caller'[h] = caller[h] /\ handle'[h] = handle[h]
      /\ born'[family'[h]] = born[family[h]]
  BY <1>1 DEF Kept
<1>3. ASSUME t.child # Null
      PROVE  Linked(t.child)' /\ handle'[t.child] = h
  <2>1. Linked(t.child) /\ handle[t.child] = h /\ t.child \in Request
    BY <1>1, <1>3 DEF Describes
  <2>2. pc[t.child] # "idle"
    BY <2>1 DEF Linked
  <2> QED
    BY <2>1, <2>2 DEF Kept
<1> QED
  BY <1>2, <1>3 DEF Describes

\* A token that was minted belongs to a request that was sent.
LEMMA MintedIsSent ==
    ASSUME TypeOK, Control, Lineage, NEW h \in Request, family[h] # Null
    PROVE  pc[h] # "idle" /\ answer[h] = h
  BY NullIsFresh DEF Control, Lineage

\* The tokens and the copies that a step leaves alone stay genuine.
LEMMA GenuineKept ==
    ASSUME TypeOK, Control, Lineage, Genuine, \A x \in Request : Kept(x)
    PROVE  /\ \A h \in Request :
                store[h] # Null /\ store'[h] = store[h] => Describes(store[h], h)'
           /\ \A j \in Request :
                pc[j] \in Holding /\ token'[j] = token[j] =>
                    Describes(token[j], handle[j])'
<1>1. ASSUME NEW h \in Request, store[h] # Null, store'[h] = store[h]
      PROVE  Describes(store[h], h)'
  <2>1. PICK t \in Token : t = store[h]
    BY <1>1 DEF TypeOK
  <2>2. family[h] # Null /\ pc[h] # "idle" /\ Describes(t, h)
    BY <1>1, <2>1, MintedIsSent DEF Lineage, Genuine
  <2>3. Describes(t, h)'
    BY <2>2, DescribesKept
  <2> QED
    BY <1>1, <2>1, <2>3 DEF Describes
<1>2. ASSUME NEW j \in Request, pc[j] \in Holding, token'[j] = token[j]
      PROVE  Describes(token[j], handle[j])'
  <2>1. PICK t \in Token : t = token[j]
    BY <1>2 DEF Control
  <2>2. PICK h \in Request : h = handle[j]
    BY <1>2 DEF Control, Holding, Serving
  <2>3. family[h] # Null /\ pc[h] # "idle" /\ Describes(t, h)
    BY <1>2, <2>1, <2>2, MintedIsSent, NullIsFresh DEF Lineage, Genuine
  <2>4. Describes(t, h)'
    BY <2>3, DescribesKept
  <2>5. handle'[j] = h
    BY <1>2, <2>2 DEF Kept, Holding
  <2> QED
    BY <1>2, <2>1, <2>4, <2>5 DEF Describes
<1> QED
  BY <1>1, <1>2

\* A handler at work: what is known of the copy it holds.
LEMMA HolderFacts ==
    ASSUME TypeOK, Control, Lineage, Genuine, NEW i \in Request, pc[i] \in Holding
    PROVE  /\ token[i] \in Token /\ handle[i] \in Request
           /\ family[handle[i]] # Null /\ pc[handle[i]] # "idle"
           /\ caller[i] \in Client /\ Config(i) \in Settings
           /\ token[i].client = caller[i] /\ caller[handle[i]] = caller[i]
           /\ Describes(token[i], handle[i])
<1>1. token[i] \in Token /\ token[i].client = caller[i] /\ handle[i] \in Request
  BY DEF Control, Holding, Serving
<1>2. caller[i] \in Client
  BY DEF Control, Holding
<1>3. Describes(token[i], handle[i])
  BY DEF Genuine
<1>4. family[handle[i]] # Null
  BY <1>1, NullIsFresh DEF Lineage
<1> QED
  BY <1>1, <1>2, <1>3, <1>4, MintedIsSent, ConfigType DEF Describes, Config

LEMMA NextGenuine ==
    ASSUME TypeOK, Control, Lineage, Genuine, [Next]_vars
    PROVE  Genuine'
<1>0. \A x \in Request : Kept(x)
  BY NextKeeps
<1>a. \A h \in Request : store[h] # Null /\ store'[h] = store[h] => Describes(store[h], h)'
  BY <1>0, GenuineKept
<1>b. \A j \in Request :
        pc[j] \in Holding /\ token'[j] = token[j] => Describes(token[j], handle[j])'
  BY <1>0, GenuineKept
\* A new state of a token that is described now is described later.
<1>c. ASSUME NEW h \in Request, NEW t \in Token, family[h] # Null, Describes(t, h)
      PROVE  Describes(t, h)'
  BY <1>0, <1>c, MintedIsSent, DescribesKept
<1>1. ASSUME NEW i \in Request, NEW c \in Client, CreateRefreshToken(i, c)
      PROVE  Genuine'
  <2>1. /\ pc[i] = "idle" /\ handle[i] = Null
        /\ ClientConfig[c].absoluteLifetime > 0 =>
              FirstLifetime(ClientConfig[c]) <= ClientConfig[c].absoluteLifetime
    BY <1>1, ConfigType, FirstLifetimeFacts DEF CreateRefreshToken, MayStart, Control
  <2>2. /\ store'[i].client = caller'[i] /\ store'[i].creationTime = born'[family'[i]]
        /\ store'[i].lifetime = FirstLifetime(ClientConfig[c]) /\ store'[i].client = c
        /\ store'[i].consumedTime = NotConsumed
        /\ store'[i].parent = Null /\ store'[i].child = Null
    BY <1>1 DEF CreateRefreshToken, TypeOK
  <2>3. Describes(store[i], i)'
    BY <2>1, <2>2 DEF Describes
  <2>4. /\ \A h \in Request \ {i} : store'[h] = store[h]
        /\ \A j \in Request : pc'[j] \in Holding => pc[j] \in Holding /\ token'[j] = token[j]
    BY <1>1 DEF CreateRefreshToken, TypeOK, Holding
  <2> QED
    BY <1>a, <1>b, <2>3, <2>4 DEF Genuine
<1>2. ASSUME NEW i \in Request, NEW k \in Request, NEW c \in Client, Present(i, k, c)
      PROVE  Genuine'
  <2>1. /\ store' = store
        /\ \A j \in Request : pc'[j] \in Holding => pc[j] \in Holding /\ token'[j] = token[j]
    BY <1>2 DEF Present, TypeOK, Holding, server
  <2> QED
    BY <1>a, <1>b, <2>1 DEF Genuine
<1>3. ASSUME NEW i \in Request, Validate(i)
      PROVE  Genuine'
  <2>1. /\ pc[i] = "validate" /\ handle[i] \in Request
        /\ store' = store /\ handle' = handle
        /\ \A j \in Request \ {i} :
              pc'[j] \in Holding => pc[j] \in Holding /\ token'[j] = token[j]
    BY <1>3 DEF Validate, TypeOK, Holding, Control, Serving, server
  <2>2. ASSUME pc'[i] \in Holding
        PROVE  Describes(token[i], handle[i])'
    <3>1. store[handle[i]] # Null /\ token' = [token EXCEPT ![i] = store[handle[i]]]
      BY <1>3, <2>1, <2>2 DEF Validate, Accepts, TypeOK, Holding
    <3>2. token'[i] = store'[handle'[i]]
      BY <2>1, <3>1 DEF TypeOK
    <3>3. Describes(store[handle[i]], handle[i])'
      BY <1>a, <2>1, <3>1 DEF Describes
    <3> QED
      BY <3>2, <3>3 DEF Describes
  <2> QED
    BY <1>a, <1>b, <2>1, <2>2 DEF Genuine
<1>4. ASSUME NEW i \in Request, Refuse(i)
      PROVE  Genuine'
  <2>1. /\ store' = store
        /\ \A j \in Request : pc'[j] \in Holding => pc[j] \in Holding /\ token'[j] = token[j]
    BY <1>4 DEF Refuse, TypeOK, Holding
  <2> QED
    BY <1>a, <1>b, <2>1 DEF Genuine
<1>5. ASSUME NEW i \in Request, Consume(i)
      PROVE  Genuine'
  <2>1. pc[i] \in Holding /\ Config(i).usage = "OneTimeOnly" /\ now \in 0 .. MaxTime
    BY <1>5 DEF Consume, Holding, TypeOK
  <2>2. PICK t \in Token : t = Consumed(token[i])
    BY <2>1, HolderFacts, ConsumedFacts
  <2>3. PICK h \in Request : h = handle[i]
    BY <2>1, HolderFacts
  <2>4. Describes(t, h) /\ family[h] # Null
    BY <2>1, <2>2, <2>3, HolderFacts, ConsumedFacts DEF Describes, Config
  <2>5. Describes(t, h)'
    BY <1>c, <2>4
  <2>6. /\ token'[i] = t /\ handle'[i] = h
        /\ store'[h] # Null => store'[h] = t \/ store'[h] = store[h]
        /\ \A x \in Request \ {h} : store'[x] = store[x]
        /\ \A j \in Request \ {i} :
              pc'[j] \in Holding => pc[j] \in Holding /\ token'[j] = token[j]
    BY <1>5, <2>2, <2>3 DEF Consume, TypeOK, Holding
  <2>7. Describes(token[i], handle[i])'
    BY <2>5, <2>6 DEF Describes
  <2>8. store'[h] # Null => Describes(store[h], h)'
    BY <1>a, <2>5, <2>6 DEF Describes
  <2> QED
    BY <1>a, <1>b, <2>6, <2>7, <2>8 DEF Genuine
<1>6. ASSUME NEW i \in Request, MintChild(i)
      PROVE  Genuine'
  <2>1. pc[i] = "mint" /\ pc[i] \in Holding /\ now \in 0 .. MaxTime /\ answer[i] = Null
    BY <1>6 DEF MintChild, Holding, TypeOK, Control
  <2>2. PICK t \in Token : t = Slid(Config(i), token[i])
    BY <2>1, HolderFacts, SlidFacts
  <2>3. PICK h \in Request : h = handle[i]
    BY <2>1, HolderFacts
  <2>4. Describes(t, h) /\ family[h] # Null
    BY <2>1, <2>2, <2>3, HolderFacts, SlidFacts DEF Describes, Config
  <2>5. Describes(t, h)'
    BY <1>c, <2>4
  <2>6. PICK u \in Token : u = ChildOf(h, t)
    BY ChildFacts
  <2>7. /\ token'[i] = t /\ handle'[i] = h /\ store'[i] = u
        /\ family'[i] = family[h] /\ caller' = caller
        /\ \A x \in Request \ {i} : store'[x] = store[x]
        /\ \A j \in Request \ {i} :
              pc'[j] \in Holding => pc[j] \in Holding /\ token'[j] = token[j]
    BY <1>6, <2>2, <2>3, <2>6 DEF MintChild, TypeOK, Holding
  <2>8. Describes(token[i], handle[i])'
    BY <2>5, <2>7 DEF Describes
  <2>9. family'[h] = family[h] /\ caller[h] = caller[i]
    BY <1>0, <2>1, <2>3, <2>4, HolderFacts DEF Kept
  <2>10. Describes(u, i)'
    BY <2>5, <2>6, <2>7, <2>9, ChildFacts DEF Describes
  <2>11. Describes(store[i], i)'
    BY <2>7, <2>10 DEF Describes
  <2> QED
    BY <1>a, <1>b, <2>7, <2>8, <2>11 DEF Genuine
<1>7. ASSUME NEW i \in Request, LinkParent(i)
      PROVE  Genuine'
  <2>1. pc[i] = "link" /\ pc[i] \in Holding /\ answer[i] = i
    BY <1>7 DEF LinkParent, Holding, Control
  <2>2. PICK h \in Request : h = handle[i]
    BY <2>1, HolderFacts
  <2>3. PICK t \in Token : t = token[i]
    BY <2>1, HolderFacts
  <2>4. Graceful(i) \in BOOLEAN
    BY <2>1, HolderFacts DEF Graceful, Settings
  <2>5. PICK u \in Token : u = ParentOf(i, t, Graceful(i))
    BY <2>4, ParentFacts
  <2>6. /\ store'[h] = u /\ handle' = handle /\ answer' = answer /\ token' = token
        /\ pc'[i] = IF Graceful(i) THEN "dropChild" ELSE "reply"
        /\ \A x \in Request \ {h} : store'[x] = store[x]
        /\ \A j \in Request : pc'[j] \in Holding => pc[j] \in Holding
    BY <1>7, <2>2, <2>3, <2>5 DEF LinkParent, TypeOK, Holding
  <2>7. Linked(i)'
    BY <2>1, <2>6 DEF Linked
  <2>8. Describes(t, h)' /\ t.client = caller[i]
    BY <1>c, <2>1, <2>2, <2>3, HolderFacts
  <2>9. Describes(u, h)'
    <3>1. /\ u.client = t.client /\ u.creationTime = t.creationTime
          /\ u.lifetime = t.lifetime /\ u.consumedTime = t.consumedTime
          /\ u.parent = Null /\ u.child = IF Graceful(i) THEN i ELSE Null
      BY <2>4, <2>5, ParentFacts
    <3>2. u.child # Null => /\ Graceful(i) /\ u.child = i
                            /\ ClientConfig[t.client].usage = "OneTimeOnly"
                            /\ ClientConfig[t.client].graceEnabled
      BY <2>8, <3>1 DEF Graceful, Config
    <3> QED
      BY <2>2, <2>6, <2>7, <2>8, <3>1, <3>2 DEF Describes, Linked
  <2>10. Describes(store[h], h)'
    BY <2>6, <2>9 DEF Describes
  <2> QED
    BY <1>a, <1>b, <2>6, <2>10 DEF Genuine
<1>8. ASSUME NEW i \in Request, DropOldChild(i)
      PROVE  Genuine'
  <2>1. /\ store' = store /\ token' = token
        /\ \A j \in Request : pc'[j] \in Holding => pc[j] \in Holding
    BY <1>8 DEF DropOldChild, TypeOK, Holding
  <2> QED
    BY <1>a, <1>b, <2>1 DEF Genuine
<1>9. ASSUME NEW i \in Request, DropOldParent(i)
      PROVE  Genuine'
  <2>1. /\ store' = store /\ token' = token
        /\ \A j \in Request : pc'[j] \in Holding => pc[j] \in Holding
    BY <1>9 DEF DropOldParent, TypeOK, Holding
  <2> QED
    BY <1>a, <1>b, <2>1 DEF Genuine
<1>10. ASSUME NEW i \in Request, UpdateReusable(i)
       PROVE  Genuine'
  <2>1. pc[i] \in Holding /\ now \in 0 .. MaxTime
    BY <1>10 DEF UpdateReusable, Holding, TypeOK
  <2>2. PICK t \in Token : t = Slid(Config(i), token[i])
    BY <2>1, HolderFacts, SlidFacts
  <2>3. PICK h \in Request : h = handle[i]
    BY <2>1, HolderFacts
  <2>4. Describes(t, h) /\ family[h] # Null
    BY <2>1, <2>2, <2>3, HolderFacts, SlidFacts DEF Describes, Config
  <2>5. Describes(t, h)'
    BY <1>c, <2>4
  <2>6. /\ store'[h] = t \/ store'[h] = store[h]
        /\ \A x \in Request \ {h} : store'[x] = store[x]
        /\ \A j \in Request : pc'[j] \in Holding => pc[j] \in Holding /\ token'[j] = token[j]
    BY <1>10, <2>2, <2>3 DEF UpdateReusable, TypeOK, Holding
  <2>7. store'[h] # Null => Describes(store[h], h)'
    BY <1>a, <2>5, <2>6 DEF Describes
  <2> QED
    BY <1>a, <1>b, <2>6, <2>7 DEF Genuine
<1>11. ASSUME NEW i \in Request, Reply(i)
       PROVE  Genuine'
  <2>1. /\ store' = store
        /\ \A j \in Request : pc'[j] \in Holding => pc[j] \in Holding /\ token'[j] = token[j]
    BY <1>11 DEF Reply, TypeOK, Holding, server
  <2> QED
    BY <1>a, <1>b, <2>1 DEF Genuine
<1>12. CASE Worker
  <2>1. /\ pc' = pc /\ token' = token
        /\ \A h \in Request : store'[h] # Null => store'[h] = store[h]
    BY <1>12, PendingAfterTail DEF Worker, RemoveNext, WorkItemFails, request, TypeOK
  <2> QED
    BY <1>a, <1>b, <2>1 DEF Genuine
<1>13. ASSUME NEW c \in Client, RevokeGrants(c)
       PROVE  Genuine'
  <2>1. /\ pc' = pc /\ token' = token
        /\ \A h \in Request : store'[h] # Null => store'[h] = store[h]
    BY <1>13 DEF RevokeGrants, request
  <2> QED
    BY <1>a, <1>b, <2>1 DEF Genuine
<1>14. CASE Tick \/ UNCHANGED vars
  <2>1. store' = store /\ pc' = pc /\ token' = token
    BY <1>14 DEF Tick, vars, server, request
  <2> QED
    BY <1>a, <1>b, <2>1 DEF Genuine
<1> QED
  BY <1>1, <1>2, <1>3, <1>4, <1>5, <1>6, <1>7, <1>8, <1>9, <1>10, <1>11, <1>12,
     <1>13, <1>14
  DEF Next, Serve, Quiescent

-----------------------------------------------------------------------------
(* Every removal has its reason *)

LEMMA ReasonKept ==
    ASSUME TypeOK, Control, Lineage, \A x \in Request : Kept(x),
           revoked \subseteq revoked',
           NEW h \in Request, family[h] # Null, RemovalReason(h)
    PROVE  RemovalReason(h)'
<1> USE NullIsFresh DEF TypeOK
<1>1. \A k, i \in Request : i \in Children(k) => handle'[i] = k /\ answer'[i] = i
  BY DEF Kept, Children, Control
<1>2. pc[h] # "idle" /\ handle'[h] = handle[h] /\ family'[h] = family[h]
  BY MintedIsSent DEF Kept
<1>3. CASE WasRefused(h)
  BY <1>3 DEF WasRefused, RemovalReason, Kept
<1>4. CASE handle[h] # Null /\ Children(handle[h]) \ {h} # {}
  <2>1. PICK k \in Request \ {h} : k \in Children(handle[h])
    BY <1>4 DEF Children
  <2>2. handle[h] \in Request
    BY <1>4
  <2>3. handle'[k] = handle'[h] /\ answer'[k] = k /\ handle'[h] # Null
    BY <1>1, <1>2, <1>4, <2>1, <2>2
  <2> QED
    BY <2>1, <2>3 DEF RemovalReason, Children
<1>5. CASE \E k \in Children(h) : Children(k) # {}
  <2>1. PICK k \in Request, i \in Request : k \in Children(h) /\ i \in Children(k)
    BY <1>5 DEF Children
  <2>2. handle'[k] = h /\ answer'[k] = k /\ handle'[i] = k /\ answer'[i] = i
    BY <1>1, <2>1
  <2> QED
    BY <2>2 DEF RemovalReason, Children
<1>6. CASE family[h] \in revoked
  BY <1>2, <1>6 DEF RemovalReason
<1> QED
  BY <1>3, <1>4, <1>5, <1>6 DEF RemovalReason

LEMMA NextRemovalJustified ==
    ASSUME TypeOK, Control, Lineage, Genuine, Superseded, RemovalJustified, [Next]_vars
    PROVE  RemovalJustified'
<1> DEFINE Gone(h) == store[h] = Null \/ h \in Pending
           New(h) == family[h] = Null \/ ~Gone(h)
<1>0. (\A x \in Request : Kept(x)) /\ revoked \subseteq revoked'
  BY NextKeeps
<1>a. Pending \subseteq Request
  BY PendingIsHandles DEF TypeOK
<1>b. SUFFICES ASSUME NEW h \in Request, family'[h] # Null, Gone(h)', New(h)
               PROVE  RemovalReason(h)'
  <2>1. ASSUME NEW h \in Request, family[h] # Null, Gone(h)
        PROVE  RemovalReason(h)'
    BY <1>0, <2>1, ReasonKept DEF RemovalJustified, Minted
  <2> QED
    BY <1>b, <2>1 DEF RemovalJustified, Minted
<1> USE NullIsFresh DEF TypeOK
<1>1. ASSUME NEW i \in Request, NEW c \in Client, CreateRefreshToken(i, c)
      PROVE  FALSE
  <2>1. family[i] = Null /\ i \notin Pending /\ Pending' = Pending /\ store'[i] # Null
    BY <1>1, MaxTimeType, ConfigType, FirstLifetimeFacts
    DEF CreateRefreshToken, MayStart, Lineage, Control, Pending, Token, NotConsumed
  <2> QED
    BY <1>b, <1>1, <2>1 DEF CreateRefreshToken
<1>2. ASSUME NEW i \in Request, NEW k \in Request, NEW c \in Client, Present(i, k, c)
      PROVE  FALSE
  BY <1>b, <1>2 DEF Present, server, history, Pending
<1>3. ASSUME NEW i \in Request, Validate(i)
      PROVE  FALSE
  BY <1>b, <1>3 DEF Validate, server, history, Pending
<1>4. ASSUME NEW i \in Request, Refuse(i)
      PROVE  RemovalReason(h)'
  <2>1. /\ handle[i] \in Request /\ answer'[i] = Null
        /\ pc'[i] = "done" /\ handle' = handle
    BY <1>4 DEF Refuse, Control, Serving
  <2>2. Pending' = Pending \cup {handle[i]} /\ store' = store /\ family' = family
    BY <1>4, <2>1, PendingAfterAppend DEF Refuse, history
  <2>3. h = handle[i]
    BY <1>b, <2>2
  <2> QED
    BY <2>1, <2>3 DEF RemovalReason, WasRefused
<1>5. ASSUME NEW i \in Request, Consume(i)
      PROVE  FALSE
  <2>1. Consumed(token[i]) # Null
    BY <1>5, HolderFacts, ConsumedFacts DEF Consume, Holding
  <2> QED
    BY <1>b, <1>5, <2>1 DEF Consume, history, Pending
<1>6. ASSUME NEW i \in Request, MintChild(i)
      PROVE  FALSE
  <2>1. family[i] = Null /\ i \notin Pending /\ Pending' = Pending
    BY <1>6 DEF MintChild, Lineage, Control, Pending
  <2>2. ChildOf(handle[i], Slid(Config(i), token[i])) # Null
    BY <1>6, HolderFacts, SlidFacts, ChildFacts DEF MintChild, Holding
  <2> QED
    BY <1>b, <1>6, <2>1, <2>2 DEF MintChild
<1>7. ASSUME NEW i \in Request, LinkParent(i)
      PROVE  FALSE
  <2>1. Graceful(i) \in BOOLEAN
    BY <1>7, HolderFacts DEF LinkParent, Holding, Graceful, Settings
  <2>2. ParentOf(i, token[i], Graceful(i)) # Null
    BY <1>7, <2>1, HolderFacts, ParentFacts DEF LinkParent, Holding
  <2> QED
    BY <1>b, <1>7, <2>2 DEF LinkParent, history, Pending
<1>8. ASSUME NEW i \in Request, DropOldChild(i)
      PROVE  RemovalReason(h)'
  <2>1. pc[i] = "dropChild" /\ pc[i] \in Holding /\ answer[i] = i
    BY <1>8 DEF DropOldChild, Holding, Control
  <2>2. token[i].child \in Request \cup {Null}
    BY <2>1, HolderFacts DEF Token
  <2>3. /\ Pending' \subseteq Pending \cup ({token[i].child} \ {Null})
        /\ store' = store /\ family' = family /\ handle' = handle /\ answer' = answer
    BY <1>8, <2>2, PendingAfterAppend DEF DropOldChild, Enqueue, Pending, history
  <2>4. h = token[i].child
    BY <1>b, <2>3
  <2>5. handle[h] = handle[i] /\ handle[i] \in Request
    BY <2>1, <2>4, HolderFacts DEF Describes
  <2>6. h # i
    BY <2>1, <2>4 DEF Superseded
  <2> QED
    BY <2>1, <2>3, <2>5, <2>6 DEF RemovalReason, Children
<1>9. ASSUME NEW i \in Request, DropOldParent(i)
      PROVE  RemovalReason(h)'
  <2>1. pc[i] = "dropParent" /\ pc[i] \in Holding /\ answer[i] = i
    BY <1>9 DEF DropOldParent, Holding, Control
  <2>2. token[i].parent \in Request \cup {Null}
    BY <2>1, HolderFacts DEF Token
  <2>3. /\ Pending' \subseteq Pending \cup ({token[i].parent} \ {Null})
        /\ store' = store /\ family' = family /\ handle' = handle /\ answer' = answer
    BY <1>9, <2>2, PendingAfterAppend DEF DropOldParent, Enqueue, Pending, history
  <2>4. h = token[i].parent
    BY <1>b, <2>3
  <2>5. handle[handle[i]] = h /\ handle[i] \in Request /\ family[handle[i]] # Null
    BY <2>1, <2>4, HolderFacts DEF Describes
  <2>6. answer[handle[i]] = handle[i]
    BY <2>5, MintedIsSent
  <2> QED
    BY <2>1, <2>3, <2>5, <2>6 DEF RemovalReason, Children
<1>10. ASSUME NEW i \in Request, UpdateReusable(i)
       PROVE  FALSE
  <2>1. Slid(Config(i), token[i]) # Null
    BY <1>10, HolderFacts, SlidFacts DEF UpdateReusable, Holding
  <2> QED
    BY <1>b, <1>10, <2>1 DEF UpdateReusable, history, Pending
<1>11. ASSUME NEW i \in Request, Reply(i)
       PROVE  FALSE
  BY <1>b, <1>11 DEF Reply, server, history, Pending
<1>12. CASE Worker
  <2>1. Head(queue) \in Pending /\ Pending' \subseteq Pending /\ family' = family
    BY <1>12, PendingAfterTail DEF Worker, RemoveNext, WorkItemFails, history
  <2>2. \A x \in Request : store'[x] = Null => store[x] = Null \/ x \in Pending
    BY <1>12, <2>1 DEF Worker, RemoveNext, WorkItemFails
  <2> QED
    BY <1>b, <2>1, <2>2
<1>13. ASSUME NEW c \in Client, RevokeGrants(c)
       PROVE  RemovalReason(h)'
  <2>1. Pending' = Pending /\ family' = family
    BY <1>13 DEF RevokeGrants, Pending
  <2>2. store[h] # Null /\ store[h].client = c
    BY <1>b, <1>13, <2>1 DEF RevokeGrants
  <2>3. /\ caller[h] = c /\ family[h] \in Request
        /\ family[family[h]] = family[h] /\ caller[family[h]] = caller[h]
    BY <2>2 DEF Genuine, Describes, Lineage
  <2> QED
    BY <1>13, <2>1, <2>3 DEF RevokeGrants, RemovalReason
<1>14. CASE Tick \/ UNCHANGED vars
  BY <1>b, <1>14 DEF Tick, vars, server, history, Pending
<1> QED
  BY <1>1, <1>2, <1>3, <1>4, <1>5, <1>6, <1>7, <1>8, <1>9, <1>10, <1>11, <1>12,
     <1>13, <1>14
  DEF Next, Serve, Quiescent

-----------------------------------------------------------------------------
(* The newest child is never lost *)

\* A step that writes a token leaves its child alone, clears it, or is the one
\* that links the new child.
LEMMA NewChild ==
    ASSUME TypeOK, Control, Lineage, Genuine, [Next]_vars,
           NEW h \in Request, store'[h] # Null
    PROVE  \/ store'[h] = store[h]
           \/ store'[h].child = Null
           \/ \E j \in Request : /\ pc[j] = "link" /\ LinkParent(j) /\ handle[j] = h
                                 /\ store'[h].child = j
<1> USE NullIsFresh DEF TypeOK
<1>1. ASSUME NEW i \in Request, NEW c \in Client, CreateRefreshToken(i, c),
             store'[h] # store[h]
      PROVE  store'[h].child = Null
  BY <1>1 DEF CreateRefreshToken
<1>2. ASSUME NEW i \in Request, Consume(i), store'[h] # store[h]
      PROVE  store'[h].child = Null
  <2>1. /\ pc[i] \in Holding /\ Config(i).usage = "OneTimeOnly"
        /\ ~Graceful(i) /\ store'[h] = Consumed(token[i])
    BY <1>2 DEF Consume, Holding
  <2>2. token[i].child = Null
    BY <2>1, HolderFacts DEF Graceful, Describes, Config
  <2> QED
    BY <2>1, <2>2, HolderFacts, ConsumedFacts
<1>3. ASSUME NEW i \in Request, MintChild(i), store'[h] # store[h]
      PROVE  store'[h].child = Null
  <2>1. pc[i] \in Holding /\ store'[h] = ChildOf(handle[i], Slid(Config(i), token[i]))
    BY <1>3 DEF MintChild, Holding
  <2> QED
    BY <2>1, HolderFacts, SlidFacts, ChildFacts
<1>4. ASSUME NEW i \in Request, LinkParent(i), store'[h] # store[h]
      PROVE  \/ store'[h].child = Null
             \/ pc[i] = "link" /\ handle[i] = h /\ store'[h].child = i
  <2>1. /\ pc[i] = "link" /\ pc[i] \in Holding /\ handle[i] = h
        /\ store'[h] = ParentOf(i, token[i], Graceful(i))
    BY <1>4 DEF LinkParent, Holding
  <2>2. Graceful(i) \in BOOLEAN
    BY <2>1, HolderFacts DEF Graceful, Settings
  <2> QED
    BY <2>1, <2>2, HolderFacts, ParentFacts
<1>5. ASSUME NEW i \in Request, UpdateReusable(i), store'[h] # store[h]
      PROVE  store'[h].child = Null
  <2>1. /\ pc[i] \in Holding /\ Config(i).usage = "ReUse"
        /\ store'[h] = Slid(Config(i), token[i])
    BY <1>5 DEF UpdateReusable, Holding
  <2>2. token[i].child = Null
    BY <2>1, HolderFacts DEF Describes, Config
  <2> QED
    BY <2>1, <2>2, HolderFacts, SlidFacts
<1>6. CASE Worker
  BY <1>6, PendingAfterTail DEF Worker, RemoveNext, WorkItemFails
<1>7. ASSUME NEW c \in Client, RevokeGrants(c)
      PROVE  store'[h] = store[h]
  BY <1>7 DEF RevokeGrants
<1>8. ASSUME NEW i \in Request,
             \/ \E k \in Request, c \in Client : Present(i, k, c)
             \/ Validate(i) \/ Refuse(i) \/ DropOldChild(i) \/ DropOldParent(i) \/ Reply(i)
      PROVE  store' = store
  BY <1>8 DEF Present, Validate, Refuse, DropOldChild, DropOldParent, Reply, server
<1>9. CASE Tick \/ UNCHANGED vars
  BY <1>9 DEF Tick, vars, server
<1> QED
  BY <1>1, <1>2, <1>3, <1>4, <1>5, <1>6, <1>7, <1>8, <1>9 DEF Next, Serve, Quiescent

\* Only the handler that drops the old child takes a token out of safety.
LEMMA SafeKept ==
    ASSUME TypeOK, Control, Lineage, Genuine, [Next]_vars,
           NEW k \in Request, family[k] # Null, Safe(k),
           \A i \in Request : ~(DropOldChild(i) /\ token[i].child = k)
    PROVE  Safe(k)'
<1>0. (\A x \in Request : Kept(x)) /\ revoked \subseteq revoked'
  BY NextKeeps
<1>a. WasPresented(k) => WasPresented(k)'
  <2>1. \A i \in Request : handle[i] = k => handle'[i] = k
    BY <1>0, NullIsFresh DEF Kept, Control
  <2> QED
    BY <2>1 DEF WasPresented
<1>b. family[k] \in revoked => family'[k] \in revoked'
  BY <1>0 DEF Kept
<1>c. SUFFICES ASSUME store[k] # Null, k \notin Pending, ~WasPresented(k)
               PROVE  Safe(k)'
  BY <1>a, <1>b DEF Safe
<1> USE NullIsFresh DEF TypeOK
<1>1. ASSUME NEW i \in Request, NEW c \in Client, CreateRefreshToken(i, c)
      PROVE  Safe(k)'
  <2>1. Pending' = Pending /\ i # k
    BY <1>1 DEF CreateRefreshToken, MayStart, Pending, Lineage, Control
  <2> QED
    BY <1>c, <1>1, <2>1 DEF CreateRefreshToken, Safe
<1>2. ASSUME NEW i \in Request, NEW h \in Request, NEW c \in Client, Present(i, h, c)
      PROVE  Safe(k)'
  BY <1>c, <1>2 DEF Present, server, Pending, Safe
<1>3. ASSUME NEW i \in Request, Validate(i) \/ Reply(i)
      PROVE  Safe(k)'
  BY <1>c, <1>3 DEF Validate, Reply, server, Pending, Safe
<1>4. ASSUME NEW i \in Request, Refuse(i)
      PROVE  Safe(k)'
  <2>1. handle[i] \in Request
    BY <1>4 DEF Refuse, Control, Serving
  <2>2. Pending' = Pending \cup {handle[i]} /\ store' = store
    BY <1>4, <2>1, PendingAfterAppend DEF Refuse
  <2> QED
    BY <1>c, <2>1, <2>2 DEF Safe, WasPresented
<1>5. ASSUME NEW i \in Request, Consume(i)
      PROVE  Safe(k)'
  <2>1. Consumed(token[i]) # Null
    BY <1>5, HolderFacts, ConsumedFacts DEF Consume, Holding
  <2> QED
    BY <1>c, <1>5, <2>1 DEF Consume, Pending, Safe
<1>6. ASSUME NEW i \in Request, MintChild(i)
      PROVE  Safe(k)'
  <2>1. i # k
    BY <1>6 DEF MintChild, Lineage, Control
  <2> QED
    BY <1>c, <1>6, <2>1 DEF MintChild, Pending, Safe
<1>7. ASSUME NEW i \in Request, LinkParent(i)
      PROVE  Safe(k)'
  <2>1. Graceful(i) \in BOOLEAN
    BY <1>7, HolderFacts DEF LinkParent, Holding, Graceful, Settings
  <2>2. ParentOf(i, token[i], Graceful(i)) # Null
    BY <1>7, <2>1, HolderFacts, ParentFacts DEF LinkParent, Holding
  <2> QED
    BY <1>c, <1>7, <2>2 DEF LinkParent, Pending, Safe
<1>8. ASSUME NEW i \in Request, DropOldChild(i)
      PROVE  Safe(k)'
  <2>1. token[i].child \in Request \cup {Null} /\ token[i].child # k
    BY <1>8, HolderFacts DEF DropOldChild, Holding, Token
  <2>2. Pending' \subseteq Pending \cup ({token[i].child} \ {Null}) /\ store' = store
    BY <1>8, <2>1, PendingAfterAppend DEF DropOldChild, Enqueue, Pending
  <2> QED
    BY <1>c, <2>1, <2>2 DEF Safe
<1>9. ASSUME NEW i \in Request, DropOldParent(i)
      PROVE  Safe(k)'
  <2>1. pc[i] \in Holding
    BY <1>9 DEF DropOldParent, Holding
  <2>2. token[i].parent \in Request \cup {Null} /\ handle[i] \in Request
    BY <2>1, HolderFacts DEF Token
  <2>3. token[i].parent # k
    BY <1>c, <2>1, <2>2, HolderFacts DEF Describes, WasPresented
  <2>4. Pending' \subseteq Pending \cup ({token[i].parent} \ {Null}) /\ store' = store
    BY <1>9, <2>2, PendingAfterAppend DEF DropOldParent, Enqueue, Pending
  <2> QED
    BY <1>c, <2>3, <2>4 DEF Safe
<1>10. ASSUME NEW i \in Request, UpdateReusable(i)
       PROVE  Safe(k)'
  <2>1. Slid(Config(i), token[i]) # Null
    BY <1>10, HolderFacts, SlidFacts DEF UpdateReusable, Holding
  <2> QED
    BY <1>c, <1>10, <2>1 DEF UpdateReusable, Pending, Safe
<1>11. CASE Worker
  <2>1. Head(queue) \in Pending /\ Pending' \subseteq Pending
    BY <1>11, PendingAfterTail DEF Worker, RemoveNext, WorkItemFails
  <2> QED
    BY <1>c, <1>11, <2>1 DEF Worker, RemoveNext, WorkItemFails, Safe
<1>12. ASSUME NEW c \in Client, RevokeGrants(c)
       PROVE  Safe(k)'
  <2>1. Pending' = Pending /\ family' = family
    BY <1>12 DEF RevokeGrants, Pending
  <2>2. store[k].client = caller[k] /\ family[k] \in Request
        /\ family[family[k]] = family[k] /\ caller[family[k]] = caller[k]
    BY <1>c DEF Genuine, Describes, Lineage
  <2> QED
    BY <1>c, <1>12, <2>1, <2>2 DEF RevokeGrants, Safe
<1>13. CASE Tick \/ UNCHANGED vars
  BY <1>c, <1>13 DEF Tick, vars, server, Pending, Safe
<1> QED
  BY <1>1, <1>2, <1>3, <1>4, <1>5, <1>6, <1>7, <1>8, <1>9, <1>10, <1>11, <1>12, <1>13
  DEF Next, Serve, Quiescent

\* A step changes the copy a handler holds only where the handler itself is.
LEMMA NextCopies ==
    ASSUME TypeOK, Control, [Next]_vars, NEW i \in Request
    PROVE  /\ pc'[i] = "dropChild" =>
                /\ token'[i] = token[i]
                /\ pc[i] = "dropChild" \/ (pc[i] = "link" /\ LinkParent(i) /\ Graceful(i))
           /\ pc'[i] = "link" => pc[i] = "link" \/ MintChild(i)
<1> USE DEF TypeOK
<1>1. ASSUME NEW j \in Request, \/ \E c \in Client : CreateRefreshToken(j, c)
                                \/ \E h \in Request, c \in Client : Present(j, h, c)
      PROVE  pc'[i] \in {pc[i], "reply", "validate"} /\ token' = token
  BY <1>1 DEF CreateRefreshToken, Present
<1>2. ASSUME NEW j \in Request, Serve(j), j # i
      PROVE  pc'[i] = pc[i] /\ token'[i] = token[i]
  BY <1>2 DEF Serve, Validate, Refuse, Consume, MintChild, LinkParent, DropOldChild,
              DropOldParent, UpdateReusable, Reply
<1>3. CASE LinkParent(i)
  BY <1>3 DEF LinkParent
<1>4. CASE MintChild(i)
  BY <1>4 DEF MintChild
<1>5. CASE Serve(i) /\ ~LinkParent(i) /\ ~MintChild(i)
  BY <1>5 DEF Serve, Validate, Refuse, Consume, DropOldChild, DropOldParent,
              UpdateReusable, Reply
<1>6. CASE Worker \/ Tick \/ UNCHANGED vars \/ \E c \in Client : RevokeGrants(c)
  BY <1>6 DEF Worker, RemoveNext, WorkItemFails, Tick, vars, RevokeGrants, request
<1> QED
  BY <1>1, <1>2, <1>3, <1>4, <1>5, <1>6 DEF Next, Quiescent

LEMMA NextSuperseded ==
    ASSUME TypeOK, Control, Lineage, Genuine, Superseded, [Next]_vars
    PROVE  Superseded'
<1> USE NullIsFresh
<1>1. SUFFICES ASSUME NEW i \in Request, pc'[i] = "dropChild"
               PROVE  /\ token'[i].child # i
                      /\ \/ token'[i].child = Null
                         \/ store'[handle'[i]] = Null
                         \/ store'[handle'[i]].child # token'[i].child
  BY DEF Superseded
<1>2. /\ token'[i] = token[i]
      /\ pc[i] = "dropChild" \/ (pc[i] = "link" /\ LinkParent(i) /\ Graceful(i))
  BY <1>1, NextCopies
<1>3. pc[i] \in Holding /\ handle'[i] = handle[i]
  BY <1>2, NextKeeps DEF Holding, Kept
<1>4. PICK h \in Request : h = handle[i]
  BY <1>3, HolderFacts
<1>5. token[i].child # Null => Linked(token[i].child)
  BY <1>3, HolderFacts DEF Describes
<1>6. CASE pc[i] = "dropChild"
  <2>1. SUFFICES ASSUME store'[h] # Null, token[i].child # Null,
                        store'[h].child = token[i].child
                 PROVE  FALSE
    BY <1>2, <1>3, <1>4, <1>6 DEF Superseded
  <2>2. store'[h] # store[h]
    BY <1>4, <1>6, <2>1 DEF Superseded
  <2>3. PICK j \in Request : pc[j] = "link" /\ token[i].child = j
    BY <2>1, <2>2, NewChild
  <2> QED
    BY <1>5, <2>1, <2>3 DEF Linked
<1>7. CASE pc[i] = "link" /\ LinkParent(i) /\ Graceful(i)
  <2>1. token[i] \in Token /\ token[i].child # i
    BY <1>3, <1>5, <1>7, HolderFacts DEF Linked
  <2>2. store'[h] = ParentOf(i, token[i], Graceful(i)) /\ Graceful(i) \in BOOLEAN
    BY <1>3, <1>4, <1>7, HolderFacts DEF LinkParent, TypeOK, Graceful, Settings
  <2>3. store'[h].child = IF Graceful(i) THEN i ELSE Null
    BY <2>1, <2>2, ParentFacts
  <2> QED
    BY <1>2, <1>3, <1>4, <1>7, <2>1, <2>3
<1> QED
  BY <1>2, <1>6, <1>7

LEMMA NextSafekeeping ==
    ASSUME TypeOK, Control, Lineage, Genuine, Safekeeping, [Next]_vars
    PROVE  Safekeeping'
<1> USE NullIsFresh
<1>1. SUFFICES ASSUME NEW i \in Request, pc'[i] = "link"
               PROVE  Safe(i)'
  BY DEF Safekeeping
<1>2. CASE pc[i] = "link"
  <2>1. Safe(i) /\ family[i] # Null
    BY <1>2 DEF Safekeeping, Control, Lineage
  <2>2. ASSUME NEW j \in Request, DropOldChild(j), token[j].child = i
        PROVE  FALSE
    <3>1. Linked(i)
      BY <2>2, HolderFacts DEF DropOldChild, Holding, Describes
    <3> QED
      BY <1>2, <3>1 DEF Linked
  <2> QED
    BY <2>1, <2>2, SafeKept
<1>3. CASE MintChild(i)
  <2>1. i \notin Pending'
    BY <1>3 DEF MintChild, Pending, Lineage, Control
  <2>3. ChildOf(handle[i], Slid(Config(i), token[i])) \in Token
    BY <1>3, HolderFacts, SlidFacts, ChildFacts DEF MintChild, Holding, TypeOK
  <2>2. store'[i] # Null
    BY <1>3, <2>3 DEF MintChild, TypeOK
  <2> QED
    BY <2>1, <2>2 DEF Safe
<1> QED
  BY <1>1, <1>2, <1>3, NextCopies

LEMMA NextLatestChildKept ==
    ASSUME TypeOK, Control, Lineage, Genuine, Superseded, Safekeeping,
           LatestChildKept, [Next]_vars
    PROVE  LatestChildKept'
<1> USE NullIsFresh
<1>1. SUFFICES ASSUME NEW h \in Request, store'[h] # Null, store'[h].child # Null
               PROVE  Safe(store[h].child)'
  BY DEF LatestChildKept
<1>2. CASE store'[h] = store[h]
  <2>1. PICK k \in Request : k = store[h].child
    BY <1>1, <1>2 DEF TypeOK, Token
  <2>2. Linked(k) /\ handle[k] = h /\ Safe(k)
    BY <1>1, <1>2, <2>1 DEF Genuine, Describes, LatestChildKept
  <2>3. family[k] # Null
    BY <2>2 DEF Linked, Lineage
  <2>4. ASSUME NEW j \in Request, DropOldChild(j), token[j].child = k
        PROVE  FALSE
    <3>1. pc[j] = "dropChild" /\ handle[k] = handle[j]
      BY <2>4, HolderFacts DEF DropOldChild, Holding, Describes
    <3> QED
      BY <1>1, <1>2, <2>1, <2>2, <2>4, <3>1 DEF Superseded
  <2>5. Safe(k)'
    BY <2>2, <2>3, <2>4, SafeKept
  <2> QED
    BY <1>2, <2>1, <2>5 DEF Safe, WasPresented, Pending
<1>3. CASE \E j \in Request : /\ pc[j] = "link" /\ LinkParent(j) /\ handle[j] = h
                              /\ store'[h].child = j
  <2>1. PICK k \in Request : pc[k] = "link" /\ LinkParent(k) /\ store'[h].child = k
    BY <1>3
  <2>2. Safe(k) /\ family[k] # Null
    BY <2>1 DEF Safekeeping, Control, Lineage
  <2>3. ASSUME NEW j \in Request, DropOldChild(j), token[j].child = k
        PROVE  FALSE
    <3>1. Linked(k)
      BY <2>3, HolderFacts DEF DropOldChild, Holding, Describes
    <3> QED
      BY <2>1, <3>1 DEF Linked
  <2>4. Safe(k)'
    BY <2>2, <2>3, SafeKept
  <2> QED
    BY <2>1, <2>4 DEF Safe, WasPresented, Pending
<1> QED
  BY <1>1, <1>2, <1>3, NewChild

-----------------------------------------------------------------------------
(* What is guaranteed *)

LEMMA InitInv == Init => Inv
<1> SUFFICES ASSUME Init PROVE Inv
  OBVIOUS
<1> USE NullIsFresh DEF Init
<1>1. TypeOK /\ Control
  BY InitTypes
<1>2. Pending = {}
  BY DEF Pending
<1>3. Lineage
  BY <1>2 DEF Lineage
<1>4. Genuine /\ Superseded /\ Safekeeping /\ LatestChildKept
  BY DEF Genuine, Superseded, Safekeeping, LatestChildKept, Holding
<1>5. RemovalJustified
  BY DEF RemovalJustified, Minted
<1> QED
  BY <1>1, <1>3, <1>4, <1>5 DEF Inv

LEMMA NextInv == Inv /\ [Next]_vars => Inv'
<1> SUFFICES ASSUME Inv, [Next]_vars PROVE Inv'
  OBVIOUS
<1>1. /\ TypeOK /\ Control /\ Lineage /\ Genuine /\ Superseded /\ Safekeeping
      /\ RemovalJustified /\ LatestChildKept
  BY DEF Inv
<1>2. TypeOK' /\ Control'
  BY <1>1, NextTypes
<1>3. Lineage'
  BY <1>1, NextLineage
<1>4. Genuine'
  BY <1>1, NextGenuine
<1>5. Superseded'
  BY <1>1, NextSuperseded
<1>6. Safekeeping'
  BY <1>1, NextSafekeeping
<1>7. RemovalJustified'
  BY <1>1, NextRemovalJustified
<1>8. LatestChildKept'
  BY <1>1, NextLatestChildKept
<1> QED
  BY <1>2, <1>3, <1>4, <1>5, <1>6, <1>7, <1>8 DEF Inv

LEMMA InvHolds == Spec => []Inv
  BY InitInv, NextInv, PTL DEF Spec

\* Every variable stays in its domain, for every number of requests and clients
\* (the records and handles that GraceRefreshTokenService works on).
THEOREM TypesHold == Spec => []TypeOK
<1>1. Inv => TypeOK
  BY DEF Inv
<1> QED
  BY <1>1, InvHolds, PTL

\* No token is removed, or queued for removal, without a reason, however
\* redemptions, removals and revocations overlap (UpdateRefreshTokenAsync and
\* ValidateRefreshTokenAsync).
THEOREM RemovalsAreJustified == Spec => []RemovalJustified
<1>1. Inv => RemovalJustified
  BY DEF Inv
<1> QED
  BY <1>1, InvHolds, PTL

\* The child that a stored token names is never lost before it is presented: the
\* grace does what it is for, for any number of overlapping requests
\* (UpdateRefreshTokenAsync).
THEOREM LatestChildIsKept == Spec => []LatestChildKept
<1>1. Inv => LatestChildKept
  BY DEF Inv
<1> QED
  BY <1>1, InvHolds, PTL

\* A request is admitted only for a stored token that is acceptable.
LEMMA AdmitsAcceptable ==
    ASSUME TypeOK, [Next]_vars, NEW i \in Request, Admits(i)
    PROVE  Accepts(caller[i], store[handle[i]])
<1> USE DEF TypeOK, Admits
<1>1. ASSUME NEW j \in Request, j # i,
             \/ \E c \in Client : CreateRefreshToken(j, c)
             \/ \E h \in Request, c \in Client : Present(j, h, c)
             \/ Serve(j)
      PROVE  FALSE
  BY <1>1 DEF CreateRefreshToken, Present, Serve, Validate, Refuse, Consume, MintChild,
              LinkParent, DropOldChild, DropOldParent, UpdateReusable, Reply
<1>2. CASE \/ \E c \in Client : CreateRefreshToken(i, c)
           \/ \E h \in Request, c \in Client : Present(i, h, c)
  BY <1>2 DEF CreateRefreshToken, Present, MayStart
<1>3. CASE Validate(i)
  BY <1>3 DEF Validate
<1>4. CASE Serve(i) /\ ~Validate(i)
  BY <1>4 DEF Serve, Refuse, Consume, MintChild, LinkParent, DropOldChild,
              DropOldParent, UpdateReusable, Reply
<1>5. CASE Worker \/ Tick \/ UNCHANGED vars \/ \E c \in Client : RevokeGrants(c)
  BY <1>5 DEF Worker, RemoveNext, WorkItemFails, Tick, vars, RevokeGrants, request
<1> QED
  BY <1>1, <1>2, <1>3, <1>4, <1>5 DEF Next, Quiescent

\* Rotation, sliding and stale write-backs never carry a sign-in past its
\* absolute lifetime, whatever the settings of its client (the capping of
\* lifetimes, and the creation time a child inherits).
THEOREM LifetimesAreNotExtended == Spec => LifetimeNotExtended
<1>1. ASSUME Inv, [Next]_vars, NEW i \in Request, Admits(i),
             Config(i).absoluteLifetime > 0
      PROVE  now <= born[family[handle[i]]] + Config(i).absoluteLifetime
  <2>1. PICK h \in Request : h = handle[i]
    BY <1>1 DEF Inv, Control, Serving, Admits
  <2>2. Accepts(caller[i], store[h])
    BY <1>1, <2>1, AdmitsAcceptable DEF Inv
  <2>3. /\ store[h] # Null /\ store[h].client = caller[i] /\ caller[i] \in Client
        /\ ~(now > store[h].creationTime + store[h].lifetime)
    BY <1>1, <2>2 DEF Accepts, HasExceeded, Inv, Control, Admits
  <2>4. /\ store[h].creationTime = born[family[h]]
        /\ store[h].lifetime <= Config(i).absoluteLifetime
    BY <1>1, <2>3 DEF Inv, Genuine, Describes, Config
  <2>5. /\ store[h].creationTime \in Int /\ store[h].lifetime \in Int
        /\ now \in Int /\ Config(i).absoluteLifetime \in Int
    BY <1>1, <2>3, ConfigType, MaxTimeType DEF Inv, TypeOK, Token, Settings, Config
  <2> QED
    BY <2>1, <2>3, <2>4, <2>5
<1>2. Inv /\ [Next]_vars =>
        [\A i \in Request :
            Admits(i) /\ Config(i).absoluteLifetime > 0 =>
              now <= born[family[handle[i]]] + Config(i).absoluteLifetime]_vars
  BY <1>1
<1> QED
  BY <1>2, InvHolds, PTL DEF Spec, LifetimeNotExtended

\* A consumed token is never taken for a fresh one again, whatever copies of it
\* are written back, and in whatever order (the save and restore of ConsumedTime
\* around the minting of the child).
THEOREM ConsumptionIsForGood == Spec => ConsumedForGood
<1>1. ASSUME Inv, [Next]_vars, NEW h \in Request, store[h] # Null, store'[h] # Null,
             store[h].consumedTime # NotConsumed, store'[h].consumedTime = NotConsumed
      PROVE  FALSE
  <2> USE DEF TypeOK
  <2>1. TypeOK /\ Control /\ Lineage /\ Genuine
    BY <1>1 DEF Inv
  <2>2. ASSUME NEW i \in Request,
               (\E c \in Client : CreateRefreshToken(i, c)) \/ MintChild(i)
        PROVE  FALSE
    <3>1. i # h
      BY <1>1, <2>1, <2>2, NullIsFresh
      DEF CreateRefreshToken, MayStart, MintChild, Lineage, Control
    <3> QED
      BY <1>1, <2>1, <2>2, <3>1 DEF CreateRefreshToken, MintChild
  <2>3. ASSUME NEW i \in Request, Consume(i)
        PROVE  FALSE
    BY <1>1, <2>1, <2>3, HolderFacts, ConsumedFacts DEF Consume, Holding
  <2>4. ASSUME NEW i \in Request, LinkParent(i)
        PROVE  FALSE
    <3>1. Graceful(i) \in BOOLEAN /\ token[i].consumedTime # NotConsumed
      BY <2>1, <2>4, HolderFacts
      DEF LinkParent, Holding, Graceful, Settings, Control, Marked
    <3> QED
      BY <1>1, <2>1, <2>4, <3>1, HolderFacts, ParentFacts DEF LinkParent, Holding
  <2>5. ASSUME NEW i \in Request, UpdateReusable(i)
        PROVE  FALSE
    <3>1. handle[i] = h
      BY <1>1, <2>1, <2>5 DEF UpdateReusable
    <3>2. Config(i).usage = "ReUse" /\ pc[i] \in Holding
      BY <2>5 DEF UpdateReusable, Holding
    <3>3. caller[h] = caller[i]
      BY <2>1, <3>1, <3>2, HolderFacts
    <3>4. Describes(store[h], h)
      BY <1>1, <2>1 DEF Genuine
    <3>5. ClientConfig[store[h].client].usage = "ReUse"
      BY <3>2, <3>3, <3>4 DEF Describes, Config
    <3> HIDE DEF TypeOK
    <3> QED
      BY <1>1, <3>4, <3>5 DEF Describes
  <2>6. CASE Worker
    BY <1>1, <2>1, <2>6, PendingAfterTail DEF Worker, RemoveNext, WorkItemFails
  <2>7. ASSUME NEW c \in Client, RevokeGrants(c)
        PROVE  FALSE
    BY <1>1, <2>7 DEF RevokeGrants
  <2>8. ASSUME NEW i \in Request,
               \/ \E k \in Request, c \in Client : Present(i, k, c)
               \/ Validate(i) \/ Refuse(i) \/ DropOldChild(i) \/ DropOldParent(i)
               \/ Reply(i)
        PROVE  FALSE
    BY <1>1, <2>8 DEF Present, Validate, Refuse, DropOldChild, DropOldParent, Reply, server
  <2>9. CASE Tick \/ UNCHANGED vars
    BY <1>1, <2>9 DEF Tick, vars, server
  <2> QED
    BY <1>1, <2>2, <2>3, <2>4, <2>5, <2>6, <2>7, <2>8, <2>9 DEF Next, Serve, Quiescent
<1>2. Inv /\ [Next]_vars =>
        [\A h \in Request :
            store[h] # Null /\ store'[h] # Null =>
              (store[h].consumedTime # NotConsumed =>
                  store'[h].consumedTime # NotConsumed)]_vars
  BY <1>1
<1> QED
  BY <1>2, InvHolds, PTL DEF Spec, ConsumedForGood
=============================================================================
