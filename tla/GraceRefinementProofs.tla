------------------------ MODULE GraceRefinementProofs ------------------------
(***************************************************************************)
(* What the grace promises to clients that send one request at a time.      *)
(*                                                                         *)
(* First: the number of redemptions of a token and the period for them are  *)
(* kept, for any number of requests, clients and settings, with failing     *)
(* removals and revocations.  The argument is that every stored token, and  *)
(* the copy in the one handler at work, tells at least how often the token  *)
(* was redeemed, and since when at the latest (Tally).  Overlapping         *)
(* requests lose this: each would count its own redemption in a copy of its *)
(* own.                                                                     *)
(*                                                                         *)
(* Then: GraceRefreshToken implements GraceRules when the worker keeps up   *)
(* with the requests, its removals succeed, nothing is revoked, and the one *)
(* client is configured with a grace.                                      *)
(***************************************************************************)
EXTENDS GraceRefinement, GraceRefreshTokenProofs, FiniteSetTheorems

Busy(i) == pc[i] \notin {"idle", "done"}

OneAtATime == \A i, j \in Request : Busy(i) /\ Busy(j) => i = j

\* Token t tells of all children, which were born as given, by the time given.
Tells(t, children, time, birth) ==
    /\ Cardinality(children) <= t.consumedAttempts
    /\ t.consumedTime <= time
    /\ \A k \in children : t.consumedTime # NotConsumed /\ t.consumedTime <= birth[k]

\* The child of h is stored, and h is not yet written back.
Linking(h) == \E i \in Request : pc[i] = "link" /\ handle[i] = h

\* A token is not redeemed more often than it may be.
Bounded(h) ==
    /\ IsFiniteSet(Children(h))
    /\ Children(h) # {} => Cardinality(Children(h)) <= MaxRedemptions(caller[h])

StoredTells(h) ==
    store[h] # Null /\ ~Linking(h) => Tells(store[h], Children(h), now, born)

\* The copy of a handler tells of all children, also of the one to be minted, for
\* which there is room.
CopyTells(i) ==
    /\ pc[i] \in {"update", "mint", "link"} =>
           Tells(token[i], Children(handle[i]), now, born)
    /\ pc[i] = "mint" => Cardinality(Children(handle[i])) < token[i].consumedAttempts
    /\ pc[i] \in {"update", "mint"} /\ Config(i).usage = "OneTimeOnly" =>
           Cardinality(Children(handle[i])) < MaxRedemptions(caller[i])

Tally ==
    /\ OneAtATime
    /\ \A h \in Request : Bounded(h) /\ StoredTells(h) /\ CopyTells(h)

-----------------------------------------------------------------------------
(* Facts about telling, and about children *)

LEMMA TellsKept ==
    ASSUME NEW t \in Token, NEW children, NEW time \in Int, NEW later \in Int,
           time <= later, NEW birth, NEW birthLater,
           \A k \in children : birthLater[k] = birth[k],
           Tells(t, children, time, birth)
    PROVE  Tells(t, children, later, birthLater)
<1>1. t.consumedTime \in Int
  BY MaxTimeType DEF Token, NotConsumed
<1> QED
  BY <1>1 DEF Tells

LEMMA FreshTells ==
    ASSUME NEW t \in Token, t.consumedTime = NotConsumed, NEW time \in Nat, NEW birth
    PROVE  Tells(t, {}, time, birth)
<1>1. t.consumedAttempts \in Nat /\ Cardinality({}) = 0
  BY FS_EmptySet DEF Token
<1> QED
  BY <1>1 DEF Tells, NotConsumed

\* Marking a copy as redeemed counts one more, and keeps the first time.
LEMMA ConsumedTells ==
    ASSUME NEW t \in Token, NEW children, now \in 0 .. MaxTime, NEW birth,
           IsFiniteSet(children), Tells(t, children, now, birth)
    PROVE  /\ Tells(Consumed(t), children, now, birth)
           /\ Cardinality(children) < Consumed(t).consumedAttempts
<1>1. /\ now \in Int
      /\ t.consumedTime \in {NotConsumed} \cup (0 .. MaxTime)
      /\ t.consumedAttempts \in Nat
      /\ Cardinality(children) \in Nat
  BY MaxTimeType, FS_CardinalityType DEF Token
<1> DEFINE time == IF t.consumedTime = NotConsumed THEN now ELSE t.consumedTime
           attempts == t.consumedAttempts + 1
<1>2. Consumed(t) = [t EXCEPT !.consumedTime = time, !.consumedAttempts = attempts]
  BY DEF Consumed
<1>3. /\ time <= now /\ time # NotConsumed
      /\ t.consumedTime # NotConsumed => time = t.consumedTime
  BY <1>1, MaxTimeType DEF NotConsumed, Tells
<1>4. Cardinality(children) < attempts
  BY <1>1 DEF Tells
<1> HIDE DEF time, attempts
<1>5. Consumed(t).consumedTime = time /\ Consumed(t).consumedAttempts = attempts
  BY <1>2 DEF Token
<1>6. attempts \in Nat
  BY <1>1 DEF attempts
<1> QED
  BY <1>1, <1>3, <1>4, <1>5, <1>6 DEF Tells

\* Sliding a lifetime leaves alone what was counted.
LEMMA SlidTells ==
    ASSUME NEW t \in Token, NEW config, NEW children, NEW time, NEW birth,
           Tells(t, children, time, birth)
    PROVE  Tells(Slid(config, t), children, time, birth)
<1>1. /\ Slid(config, t).consumedTime = t.consumedTime
      /\ Slid(config, t).consumedAttempts = t.consumedAttempts
  BY DEF Slid, Token
<1> QED
  BY <1>1 DEF Tells

\* Nobody has presented a token that was not minted.
LEMMA UnmintedHasNoChildren ==
    ASSUME Lineage, NEW h \in Request, family[h] = Null
    PROVE  Children(h) = {}
  BY NullIsFresh DEF Lineage, Children

\* Only the minting of a child changes who is whose child.
LEMMA ChildrenKept ==
    ASSUME Inv, NEW h \in Request,
           \/ \E i \in Request, c \in Client : CreateRefreshToken(i, c)
           \/ \E i, k \in Request, c \in Client : Present(i, k, c)
           \/ \E i \in Request : UpdateReusable(i)
           \/ UNCHANGED <<handle, answer>>
    PROVE  Children(h)' = Children(h)
<1> USE NullIsFresh DEF Inv, TypeOK, Children
<1>1. ASSUME NEW i \in Request, NEW c \in Client, CreateRefreshToken(i, c)
      PROVE  Children(h)' = Children(h)
  BY <1>1 DEF CreateRefreshToken, MayStart, Control
<1>2. ASSUME NEW i \in Request, NEW k \in Request, NEW c \in Client, Present(i, k, c)
      PROVE  Children(h)' = Children(h)
  BY <1>2 DEF Present, MayStart, Control
<1>3. ASSUME NEW i \in Request, UpdateReusable(i)
      PROVE  Children(h)' = Children(h)
  BY <1>3 DEF UpdateReusable, Control, Lineage
<1> QED
  BY <1>1, <1>2, <1>3

LEMMA ChildrenAfterMint ==
    ASSUME Inv, NEW i \in Request, MintChild(i), NEW h \in Request
    PROVE  /\ i \notin Children(h)
           /\ Children(h)' = IF h = handle[i] THEN Children(h) \cup {i} ELSE Children(h)
<1>1. answer[i] = Null /\ handle[i] \in Request
  BY DEF MintChild, Inv, Control, Serving
<1>2. answer' = [answer EXCEPT ![i] = i] /\ handle' = handle
  BY DEF MintChild
<1> QED
  BY <1>1, <1>2, NullIsFresh DEF Inv, TypeOK, Children

\* What is acceptable although it was redeemed has room for one more redemption.
LEMMA AcceptedHasRoom ==
    ASSUME NEW t \in Token, NEW children, IsFiniteSet(children), NEW c \in Client,
           NEW birth, Tells(t, children, now, birth), Accepts(c, t),
           ClientConfig[c].usage = "OneTimeOnly"
    PROVE  Cardinality(children) < MaxRedemptions(c)
<1>1. /\ Cardinality(children) \in Nat /\ t.consumedAttempts \in Nat
      /\ ClientConfig[c].graceMaxAttempts \in Nat
  BY FS_CardinalityType, ConfigType DEF Token, Settings
<1>2. CASE t.consumedTime = NotConsumed
  <2>1. Cardinality(children) = 0
    BY <1>2, FS_EmptySet DEF Tells
  <2> QED
    BY <1>1, <2>1 DEF MaxRedemptions
<1>3. CASE t.consumedTime # NotConsumed
  <2>1. /\ ClientConfig[c].graceEnabled
        /\ t.consumedAttempts < ClientConfig[c].graceMaxAttempts
    BY <1>3 DEF Accepts, AcceptConsumed
  <2> QED
    BY <1>1, <2>1 DEF MaxRedemptions, Tells
<1> QED
  BY <1>2, <1>3

-----------------------------------------------------------------------------
(* What a step leaves alone *)

LEMMA TimePasses ==
    ASSUME TypeOK, [Next]_vars
    PROVE  now \in Nat /\ now' \in Nat /\ now <= now'
<1>1. now \in Nat
  BY MaxTimeType DEF TypeOK
<1>2. now' = now \/ now' = now + 1
  BY DEF Next, CreateRefreshToken, Present, Serve, Validate, Refuse, Consume, MintChild,
         LinkParent, DropOldChild, DropOldParent, UpdateReusable, Reply, Worker,
         RemoveNext, WorkItemFails, RevokeGrants, Tick, Quiescent, vars
<1> QED
  BY <1>1, <1>2

\* Children are not born again, and their parent stays whose it is.
LEMMA BirthsKept ==
    ASSUME Inv, [Next]_vars, NEW h \in Request
    PROVE  /\ \A k \in Children(h) : born'[k] = born[k]
           /\ Children(h) # {} => caller'[h] = caller[h]
<1>1. \A x \in Request : Kept(x)
  BY NextKeeps DEF Inv
<1>2. \A k \in Children(h) : family[k] # Null /\ family[h] # Null
  BY NullIsFresh DEF Inv, Lineage, Children
<1>3. Children(h) \subseteq Request
  BY DEF Children
<1>4. family[h] # Null => pc[h] # "idle"
  BY MintedIsSent DEF Inv
<1> QED
  BY <1>1, <1>2, <1>3, <1>4 DEF Kept

LEMMA BoundedKept ==
    ASSUME Inv, [Next]_vars, NEW h \in Request, Children(h)' = Children(h), Bounded(h)
    PROVE  Bounded(h)'
  BY BirthsKept DEF Bounded, MaxRedemptions

LEMMA StoredKept ==
    ASSUME Inv, [Next]_vars, NEW h \in Request, Children(h)' = Children(h),
           StoredTells(h), store'[h] = store[h],
           \A i \in Request : pc[i] = "link" => pc'[i] = "link"
    PROVE  StoredTells(h)'
<1> SUFFICES ASSUME store[h] # Null, ~Linking(h)'
             PROVE  Tells(store[h], Children(h), now', born')
  BY DEF StoredTells
<1>1. ~Linking(h)
  <2>1. \A x \in Request : Kept(x)
    BY NextKeeps DEF Inv
  <2> QED
    BY <2>1 DEF Linking, Kept
<1>2. Tells(store[h], Children(h), now, born) /\ store[h] \in Token
  BY <1>1 DEF StoredTells, Inv, TypeOK
<1>3. now \in Int /\ now' \in Int /\ now <= now'
  BY TimePasses DEF Inv
<1> QED
  BY <1>2, <1>3, BirthsKept, TellsKept

LEMMA CopyKept ==
    ASSUME Inv, [Next]_vars, NEW i \in Request, CopyTells(i),
           pc'[i] \in {"update", "mint", "link"} =>
               /\ pc'[i] = pc[i] /\ token'[i] = token[i]
               /\ \A h \in Request : Children(h)' = Children(h)
    PROVE  CopyTells(i)'
<1> SUFFICES ASSUME pc'[i] \in {"update", "mint", "link"}
             PROVE  CopyTells(i)'
  BY DEF CopyTells
<1>1. pc[i] \in Holding /\ pc'[i] = pc[i] /\ token'[i] = token[i]
  BY DEF Holding
<1>2. PICK h \in Request : h = handle[i]
  BY <1>1, HolderFacts DEF Inv
<1>3. token[i] \in Token
  BY <1>1, HolderFacts DEF Inv
<1>4. handle'[i] = h /\ caller'[i] = caller[i]
  <2>1. Kept(i)
    BY NextKeeps DEF Inv
  <2> QED
    BY <1>1, <1>2, <2>1 DEF Kept, Holding
<1>5. Children(handle[i])' = Children(h)
  <2>1. Children(handle[i])' = Children(h)'
    BY <1>4 DEF Children
  <2> QED
    BY <2>1
<1>6. Tells(token[i], Children(h), now', born')
  <2>1. Tells(token[i], Children(h), now, born)
    BY <1>1, <1>2 DEF CopyTells
  <2>2. now \in Int /\ now' \in Int /\ now <= now'
    BY TimePasses DEF Inv
  <2> QED
    BY <1>3, <2>1, <2>2, BirthsKept, TellsKept
<1>7. Config(i)' = Config(i)
  BY <1>4 DEF Config
<1> QED
  BY <1>1, <1>2, <1>4, <1>5, <1>6, <1>7 DEF CopyTells

-----------------------------------------------------------------------------
(* One request at a time *)

LEMMA NextOneAtATime ==
    ASSUME Pacing # "concurrent", Inv, OneAtATime, [Next]_vars
    PROVE  OneAtATime'
<1> USE DEF OneAtATime, Busy, Inv, TypeOK
<1>1. ASSUME NEW i \in Request,
             \/ \E c \in Client : CreateRefreshToken(i, c)
             \/ \E h \in Request, c \in Client : Present(i, h, c)
      PROVE  OneAtATime'
  <2>1. /\ \A j \in Request : pc[j] \in {"idle", "done"}
        /\ \A j \in Request \ {i} : pc'[j] = pc[j]
    BY <1>1 DEF CreateRefreshToken, Present, MayStart
  <2> QED
    BY <2>1
<1>2. ASSUME NEW i \in Request, Serve(i)
      PROVE  OneAtATime'
  <2>1. Busy(i) /\ \A j \in Request \ {i} : pc'[j] = pc[j]
    BY <1>2 DEF Serve, Validate, Refuse, Consume, MintChild, LinkParent, DropOldChild,
                DropOldParent, UpdateReusable, Reply
  <2> QED
    BY <2>1
<1>3. CASE UNCHANGED pc
  BY <1>3
<1> HIDE DEF OneAtATime, Busy, Inv, TypeOK
<1>4. CASE Worker \/ Tick \/ UNCHANGED vars \/ \E c \in Client : RevokeGrants(c)
  BY <1>3, <1>4 DEF Worker, RemoveNext, WorkItemFails, RevokeGrants, Tick, vars, request
<1> QED
  BY <1>1, <1>2, <1>4 DEF Next, Quiescent

-----------------------------------------------------------------------------
(* The steps *)

\* A step that mints nothing, and leaves each stored token and each copy alone,
\* removes it, or keeps what it tells.
LEMMA TallyKept ==
    ASSUME Inv, Tally, [Next]_vars, OneAtATime',
           \A h \in Request : Children(h)' = Children(h),
           \A i \in Request : pc[i] = "link" => pc'[i] = "link",
           \A h \in Request :
               \/ store'[h] = store[h]
               \/ store'[h] = Null
               \/ Tells(store'[h], Children(h)', now', born'),
           \A i \in Request :
               \/ CopyTells(i)'
               \/ pc'[i] \in {"update", "mint", "link"} =>
                      pc'[i] = pc[i] /\ token'[i] = token[i]
    PROVE  Tally'
<1>1. ASSUME NEW h \in Request PROVE Bounded(h)'
  BY BoundedKept DEF Tally
<1>2. ASSUME NEW h \in Request PROVE StoredTells(h)'
  <2>1. CASE store'[h] = store[h]
    BY <2>1, StoredKept DEF Tally
  <2>2. CASE store'[h] = Null \/ Tells(store'[h], Children(h)', now', born')
    BY <2>2 DEF StoredTells
  <2> QED
    BY <2>1, <2>2
<1>3. ASSUME NEW i \in Request PROVE CopyTells(i)'
  BY CopyKept DEF Tally
<1> QED
  BY <1>1, <1>2, <1>3 DEF Tally

\* A token that was not minted tells, when it is, that it has no children.
LEMMA NewTells ==
    ASSUME Inv, [Next]_vars, NEW i \in Request, family[i] = Null,
           Children(i)' = Children(i),
           store'[i] \in Token, store'[i].consumedTime = NotConsumed
    PROVE  Tells(store'[i], Children(i)', now', born')
  BY UnmintedHasNoChildren, TimePasses, FreshTells DEF Inv

LEMMA ValidateKeepsTally ==
    ASSUME Inv, Tally, [Next]_vars, OneAtATime', NEW i \in Request, Validate(i)
    PROVE  Tally'
<1>1. PICK h \in Request : h = handle[i]
  BY DEF Validate, Inv, Control, Serving
<1>2. /\ pc[i] = "validate" /\ caller[i] \in Client
      /\ UNCHANGED <<now, store, handle, caller, answer, born>>
      /\ \A j \in Request \ {i} : pc'[j] = pc[j] /\ token'[j] = token[j]
  BY DEF Validate, Inv, TypeOK, Control, server, history
<1>3. \A x \in Request : Children(x)' = Children(x)
  BY <1>2, ChildrenKept
<1>4. CopyTells(i)' \/ pc'[i] \notin {"update", "mint", "link"}
  <2>1. CASE Accepts(caller[i], store[h])
    <3>1. store[h] \in Token
      BY <2>1 DEF Accepts, Inv, TypeOK
    <3>2. pc'[i] = "update" /\ token'[i] = store[h]
      BY <1>1, <2>1 DEF Validate, Inv, TypeOK
    <3>3. ~Linking(h)
      BY <1>2 DEF Linking, Tally, OneAtATime, Busy
    <3>4. Tells(store[h], Children(h), now, born) /\ IsFiniteSet(Children(h))
      BY <2>1, <3>3 DEF Tally, StoredTells, Bounded, Accepts
    <3>5. Config(i).usage = "OneTimeOnly" =>
              Cardinality(Children(h)) < MaxRedemptions(caller[i])
      BY <1>2, <2>1, <3>1, <3>4, AcceptedHasRoom DEF Config
    <3>6. Children(handle[i])' = Children(h)
      <4>1. Children(handle[i])' = Children(h)'
        BY <1>1, <1>2 DEF Children
      <4> QED
        BY <1>3, <4>1
    <3>7. Config(i)' = Config(i)
      BY <1>2 DEF Config
    <3> QED
      BY <1>2, <3>2, <3>4, <3>5, <3>6, <3>7 DEF CopyTells
  <2>2. CASE ~Accepts(caller[i], store[h])
    BY <1>1, <2>2 DEF Validate, Inv, TypeOK
  <2> QED
    BY <2>1, <2>2
<1>5. \A j \in Request : pc[j] = "link" => pc'[j] = "link"
  BY <1>2
<1> QED
  BY <1>2, <1>3, <1>4, <1>5, TallyKept

LEMMA ConsumeKeepsTally ==
    ASSUME Inv, Tally, [Next]_vars, OneAtATime', NEW i \in Request, Consume(i)
    PROVE  Tally'
<1>1. PICK h \in Request : h = handle[i]
  BY DEF Consume, Inv, Control, Serving
<1>2. /\ pc[i] = "update" /\ pc[i] \in Holding
      /\ Config(i).usage = "OneTimeOnly"
      /\ UNCHANGED <<now, handle, caller, answer, born>>
      /\ \A j \in Request \ {i} : pc'[j] = pc[j] /\ token'[j] = token[j]
      /\ pc'[i] = "mint" /\ token'[i] = Consumed(token[i])
      /\ \A x \in Request :
             store'[x] = store[x] \/ (x = h /\ store'[x] = Consumed(token[i]))
  BY <1>1 DEF Consume, Inv, TypeOK, history, Holding
<1>3. \A x \in Request : Children(x)' = Children(x)
  BY <1>2, ChildrenKept
<1>4. /\ token[i] \in Token /\ IsFiniteSet(Children(h))
      /\ Tells(token[i], Children(h), now, born)
      /\ Cardinality(Children(h)) < MaxRedemptions(caller[i])
  BY <1>1, <1>2, HolderFacts DEF Inv, Tally, CopyTells, Bounded
<1>5. /\ Tells(Consumed(token[i]), Children(h), now, born)
      /\ Cardinality(Children(h)) < Consumed(token[i]).consumedAttempts
  BY <1>4, ConsumedTells DEF Inv, TypeOK
<1>6. CopyTells(i)'
  <2>1. Children(handle[i])' = Children(h)
    <3>1. Children(handle[i])' = Children(h)'
      BY <1>1, <1>2 DEF Children
    <3> QED
      BY <1>3, <3>1
  <2> QED
    BY <1>2, <1>4, <1>5, <2>1 DEF CopyTells
<1>7. \A j \in Request : pc[j] = "link" => pc'[j] = "link"
  BY <1>2
<1>8. \A x \in Request :
          store'[x] = store[x] \/ Tells(store'[x], Children(x)', now', born')
  BY <1>2, <1>3, <1>5
<1> QED
  BY <1>2, <1>3, <1>6, <1>7, <1>8, TallyKept

LEMMA UpdateReusableKeepsTally ==
    ASSUME Inv, Tally, [Next]_vars, OneAtATime', NEW i \in Request, UpdateReusable(i)
    PROVE  Tally'
<1>1. PICK h \in Request : h = handle[i]
  BY DEF UpdateReusable, Inv, Control, Serving
<1>2. /\ pc[i] = "update" /\ pc[i] \in Holding
      /\ \A j \in Request \ {i} : pc'[j] = pc[j]
      /\ token' = token /\ pc'[i] = "reply"
      /\ \A x \in Request :
             store'[x] = store[x] \/ (x = h /\ store'[x] = Slid(Config(i), token[i]))
  BY <1>1 DEF UpdateReusable, Inv, TypeOK, history, Holding
<1>3. \A x \in Request : Children(x)' = Children(x)
  BY ChildrenKept
<1>4. token[i] \in Token /\ Tells(token[i], Children(h), now, born)
  BY <1>1, <1>2, HolderFacts DEF Inv, Tally, CopyTells
<1>5. Tells(token[i], Children(h), now', born')
  BY <1>4, TimePasses, BirthsKept, TellsKept DEF Inv
<1>6. Tells(Slid(Config(i), token[i]), Children(h), now', born')
  BY <1>4, <1>5, SlidTells
<1>7. \A x \in Request :
          store'[x] = store[x] \/ Tells(store'[x], Children(x)', now', born')
  BY <1>2, <1>3, <1>6
<1>8. \A j \in Request : pc[j] = "link" => pc'[j] = "link"
  BY <1>2
<1>9. \A j \in Request :
          pc'[j] \in {"update", "mint", "link"} => pc'[j] = pc[j] /\ token'[j] = token[j]
  BY <1>2
<1> QED
  BY <1>3, <1>7, <1>8, <1>9, TallyKept

\* The child is counted, and the copy had counted it already.
LEMMA MintKeepsTally ==
    ASSUME Inv, Tally, [Next]_vars, OneAtATime', NEW i \in Request, MintChild(i)
    PROVE  Tally'
<1>1. PICK h \in Request : h = handle[i]
  BY DEF MintChild, Inv, Control, Serving
<1>2. /\ pc[i] = "mint" /\ pc[i] \in Holding /\ answer[i] = Null
      /\ Config(i).usage = "OneTimeOnly" /\ token[i].consumedTime # NotConsumed
      /\ now \in 0 .. MaxTime
  BY DEF MintChild, Inv, TypeOK, Control, Holding, Marked
<1>3. /\ pc'[i] = "link" /\ handle' = handle /\ caller' = caller /\ now' = now
      /\ token'[i] = Slid(Config(i), token[i])
      /\ store'[i] = ChildOf(h, Slid(Config(i), token[i])) /\ born'[i] = now
      /\ \A x \in Request \ {i} : store'[x] = store[x] /\ pc'[x] = pc[x]
  BY <1>1 DEF MintChild, Inv, TypeOK
<1>4. /\ token[i] \in Token /\ Slid(Config(i), token[i]) \in Token
      /\ Slid(Config(i), token[i]).consumedTime = token[i].consumedTime
      /\ caller[h] = caller[i] /\ family[i] = Null /\ h # i
  BY <1>1, <1>2, HolderFacts, SlidFacts, NullIsFresh DEF Inv, TypeOK, Lineage
<1>5. /\ i \notin Children(h) /\ Children(h)' = Children(h) \cup {i}
      /\ \A x \in Request \ {h} : Children(x)' = Children(x)
  BY <1>1, ChildrenAfterMint
<1>6. /\ IsFiniteSet(Children(h)) /\ Cardinality(Children(h)) \in Nat
      /\ IsFiniteSet(Children(h)') 
      /\ Cardinality(Children(h)') = Cardinality(Children(h)) + 1
  BY <1>5, FS_AddElement, FS_CardinalityType DEF Tally, Bounded
<1>7. /\ Tells(token[i], Children(h), now, born)
      /\ Cardinality(Children(h)) < token[i].consumedAttempts
      /\ Cardinality(Children(h)) < MaxRedemptions(caller[i])
  BY <1>1, <1>2 DEF Tally, CopyTells
<1>8. token[i].consumedAttempts \in Nat /\ MaxRedemptions(caller[i]) \in Nat
  <2>1. caller[i] \in Client
    BY <1>2 DEF Inv, Control
  <2> QED
    BY <1>4, <2>1, ConfigType DEF Token, MaxRedemptions, Settings
<1>9. Tells(token[i], Children(h)', now', born')
  <2>1. Cardinality(Children(h)') <= token[i].consumedAttempts
    BY <1>6, <1>7, <1>8
  <2>2. token[i].consumedTime <= now
    BY <1>7 DEF Tells
  <2>3. \A k \in Children(h)' : token[i].consumedTime <= born'[k]
    BY <1>3, <1>5, <1>7, <2>2, BirthsKept DEF Tells
  <2> QED
    BY <1>2, <1>3, <2>1, <2>2, <2>3 DEF Tells
<1>10. Tells(token'[i], Children(h)', now', born')
  BY <1>3, <1>4, <1>9, SlidTells
<1>11. ASSUME NEW x \in Request PROVE Bounded(x)'
  <2>1. CASE x = h
    <3>1. Cardinality(Children(h)') <= MaxRedemptions(caller'[h])
      BY <1>3, <1>4, <1>6, <1>7, <1>8
    <3> QED
      BY <1>6, <2>1, <3>1 DEF Bounded, MaxRedemptions
  <2>2. CASE x # h
    BY <1>5, <2>2, BoundedKept DEF Tally
  <2> QED
    BY <2>1, <2>2
<1>12. ASSUME NEW x \in Request PROVE StoredTells(x)'
  <2>1. CASE x = h
    BY <1>1, <1>3, <2>1 DEF StoredTells, Linking
  <2>2. CASE x = i
    <3>1. store'[i] \in Token /\ store'[i].consumedTime = NotConsumed
      BY <1>1, <1>3, <1>4, ChildFacts
    <3>2. Tells(store'[i], Children(i)', now', born')
      BY <1>4, <1>5, <3>1, NewTells
    <3> QED
      BY <2>2, <3>2 DEF StoredTells
  <2>3. CASE x # h /\ x # i
    <3>1. \A j \in Request : pc[j] = "link" => pc'[j] = "link"
      BY <1>2, <1>3
    <3> QED
      BY <1>3, <1>5, <2>3, <3>1, StoredKept DEF Tally
  <2> QED
    BY <2>1, <2>2, <2>3
<1>13. ASSUME NEW x \in Request PROVE CopyTells(x)'
  <2>1. CASE x = i
    <3>1. Children(handle[i])' = Children(h)'
      BY <1>1, <1>3 DEF Children
    <3> QED
      BY <1>3, <1>10, <2>1, <3>1 DEF CopyTells
  <2>2. CASE x # i
    <3>1. pc'[x] \in {"idle", "done"}
      BY <1>3, <2>2 DEF OneAtATime, Busy
    <3> QED
      BY <3>1 DEF CopyTells
  <2> QED
    BY <2>1, <2>2
<1> QED
  BY <1>11, <1>12, <1>13 DEF Tally

LEMMA LinkKeepsTally ==
    ASSUME Inv, Tally, [Next]_vars, OneAtATime', NEW i \in Request, LinkParent(i)
    PROVE  Tally'
<1>1. PICK h \in Request : h = handle[i]
  BY DEF LinkParent, Inv, Control, Serving
<1>2. /\ pc[i] = "link" /\ pc[i] \in Holding
      /\ pc'[i] \in {"dropChild", "reply"}
      /\ UNCHANGED <<handle, answer>>
      /\ \A j \in Request \ {i} : pc'[j] = pc[j]
      /\ \A x \in Request \ {h} : store'[x] = store[x]
      /\ store'[h] = ParentOf(i, token[i], Graceful(i))
  BY <1>1 DEF LinkParent, Inv, TypeOK, Holding
<1>3. \A x \in Request : Children(x)' = Children(x)
  BY <1>2, ChildrenKept
<1>4. token[i] \in Token /\ Tells(token[i], Children(h), now, born)
  BY <1>1, <1>2, HolderFacts DEF Inv, Tally, CopyTells
<1>5. Tells(token[i], Children(h), now', born')
  BY <1>4, TimePasses, BirthsKept, TellsKept DEF Inv
<1>6. Tells(store'[h], Children(h)', now', born')
  <2>1. store'[h].consumedTime = token[i].consumedTime
        /\ store'[h].consumedAttempts = token[i].consumedAttempts
    BY <1>2, <1>4 DEF ParentOf, Token
  <2> QED
    BY <1>3, <1>5, <2>1 DEF Tells
\* Nothing else is being linked: every other token is as it was, linked or not.
<1>7. \A j \in Request \ {i} : pc[j] \in {"idle", "done"}
  BY <1>2 DEF Tally, OneAtATime, Busy
<1>8. ASSUME NEW x \in Request PROVE Bounded(x)'
  BY <1>3, BoundedKept DEF Tally
<1>9. ASSUME NEW x \in Request, x # h PROVE StoredTells(x)'
  <2>1. ~Linking(x)
    BY <1>1, <1>2, <1>7, <1>9 DEF Linking
  <2> SUFFICES ASSUME store[x] # Null
               PROVE  Tells(store[x], Children(x), now', born')
    BY <1>2, <1>3, <1>9 DEF StoredTells
  <2>2. store[x] \in Token /\ Tells(store[x], Children(x), now, born)
    BY <2>1 DEF Tally, StoredTells, Inv, TypeOK
  <2> QED
    BY <2>2, TimePasses, BirthsKept, TellsKept DEF Inv
<1>10. StoredTells(h)'
  BY <1>6 DEF StoredTells
<1>11. ASSUME NEW x \in Request PROVE CopyTells(x)'
  <2>1. pc'[x] \notin {"update", "mint", "link"}
    BY <1>2, <1>7
  <2> QED
    BY <2>1 DEF CopyTells
<1> QED
  BY <1>8, <1>9, <1>10, <1>11 DEF Tally

\* A sign-in, and a request that has only been sent.
LEMMA StartKeepsTally ==
    ASSUME Inv, Tally, [Next]_vars, OneAtATime', NEW i \in Request,
           \/ \E c \in Client : CreateRefreshToken(i, c)
           \/ \E h \in Request, c \in Client : Present(i, h, c)
    PROVE  Tally'
<1>1. \A x \in Request : Children(x)' = Children(x)
  BY ChildrenKept
<1>2. /\ pc[i] = "idle" /\ pc'[i] \in {"reply", "validate"}
      /\ token' = token
      /\ \A j \in Request \ {i} : pc'[j] = pc[j] /\ store'[j] = store[j]
  BY DEF CreateRefreshToken, Present, MayStart, Inv, TypeOK, server
<1>3. \/ store'[i] = store[i]
      \/ Tells(store'[i], Children(i)', now', born')
  <2>1. ASSUME NEW c \in Client, CreateRefreshToken(i, c)
        PROVE  Tells(store'[i], Children(i)', now', born')
    <3>1. family[i] = Null
      BY <1>2, MintedIsSent DEF Inv
    <3>2. TypeOK'
      BY NextTypes DEF Inv
    <3>3. store'[i].consumedTime = NotConsumed /\ store'[i] # Null
      <4> DEFINE t == [client |-> c, creationTime |-> now,
                       lifetime |-> FirstLifetime(ClientConfig[c]),
                       consumedTime |-> NotConsumed, consumedAttempts |-> 0,
                       parent |-> Null, child |-> Null]
      <4>1. store'[i] = t
        BY <2>1 DEF CreateRefreshToken, Inv, TypeOK
      <4>2. t \in Token
        BY MaxTimeType, ConfigType, FirstLifetimeFacts DEF Inv, TypeOK, Token, NotConsumed
      <4> QED
        BY <4>1, <4>2, NullIsFresh
    <3>4. store'[i] \in Token
      BY <3>2, <3>3 DEF TypeOK
    <3> QED
      BY <1>1, <3>1, <3>3, <3>4, NewTells
  <2>2. ASSUME NEW h \in Request, NEW c \in Client, Present(i, h, c)
        PROVE  store'[i] = store[i]
    BY <2>2 DEF Present, server
  <2> QED
    BY <2>1, <2>2
<1>4. \A j \in Request : pc[j] = "link" => pc'[j] = "link"
  BY <1>2
<1>5. \A x \in Request :
          store'[x] = store[x] \/ Tells(store'[x], Children(x)', now', born')
  BY <1>2, <1>3
<1>6. \A j \in Request :
          pc'[j] \in {"update", "mint", "link"} => pc'[j] = pc[j] /\ token'[j] = token[j]
  BY <1>2
<1> QED
  BY <1>1, <1>4, <1>5, <1>6, TallyKept

\* Refusals, removals, replies, revocations and the clock.
LEMMA OthersKeepTally ==
    ASSUME Inv, Tally, [Next]_vars, OneAtATime',
           \/ \E i \in Request : Refuse(i) \/ DropOldChild(i) \/ DropOldParent(i) \/ Reply(i)
           \/ Worker \/ Tick \/ UNCHANGED vars
           \/ \E c \in Client : RevokeGrants(c)
    PROVE  Tally'
<1>1. UNCHANGED <<handle, answer>>
  BY DEF Refuse, DropOldChild, DropOldParent, Reply, Worker, RemoveNext, WorkItemFails,
         Tick, vars, RevokeGrants, request
<1>2. \A x \in Request : Children(x)' = Children(x)
  BY <1>1, ChildrenKept
<1>3. \A x \in Request : store'[x] = store[x] \/ store'[x] = Null
  BY DEF Refuse, DropOldChild, DropOldParent, Reply, Worker, RemoveNext, WorkItemFails,
         Tick, vars, RevokeGrants, server, Inv, TypeOK
<1>4. \A j \in Request :
          \/ pc'[j] = pc[j] /\ token'[j] = token[j]
          \/ pc[j] # "link" /\ pc'[j] \notin {"update", "mint", "link"}
  BY DEF Refuse, DropOldChild, DropOldParent, Reply, Worker, RemoveNext, WorkItemFails,
         Tick, vars, RevokeGrants, request, Inv, TypeOK
<1> QED
  BY <1>2, <1>3, <1>4, TallyKept

LEMMA NextTally ==
    ASSUME Pacing # "concurrent", Inv, Tally, [Next]_vars
    PROVE  Tally'
<1>1. OneAtATime'
  BY NextOneAtATime DEF Tally
<1> QED
  BY <1>1, StartKeepsTally, ValidateKeepsTally, ConsumeKeepsTally, MintKeepsTally,
     LinkKeepsTally, UpdateReusableKeepsTally, OthersKeepTally
  DEF Next, Serve, Quiescent

LEMMA InitTally == Init => Tally
<1> SUFFICES ASSUME Init PROVE Tally
  OBVIOUS
<1>1. \A h \in Request : Children(h) = {}
  BY NullIsFresh DEF Init, Children
<1> QED
  BY <1>1, FS_EmptySet
  DEF Init, Tally, OneAtATime, Busy, Bounded, StoredTells, CopyTells

LEMMA TallyHolds ==
    ASSUME Pacing # "concurrent"
    PROVE  Spec => [](Inv /\ Tally)
<1>1. Init => Inv /\ Tally
  BY InitInv, InitTally
<1>2. Inv /\ Tally /\ [Next]_vars => (Inv /\ Tally)'
  BY NextInv, NextTally
<1> QED
  BY <1>1, <1>2, PTL DEF Spec

-----------------------------------------------------------------------------
(* The theorems *)

\* When requests are not sent at the same time, a token is redeemed at most as often
\* as its client is configured for, whatever removals fail and however it is written
\* back (ConsumedAttempts in AcceptConsumedTokenAsync and UpdateRefreshTokenAsync).
THEOREM AttemptsAreBounded ==
    ASSUME Pacing # "concurrent"
    PROVE  Spec => []AttemptsBound
<1>1. Inv /\ Tally => AttemptsBound
  <2> SUFFICES ASSUME Inv, Tally, NEW i \in Request, handle[i] # Null
               PROVE  Cardinality(Children(handle[i])) <= MaxRedemptions(caller[handle[i]])
    BY DEF AttemptsBound
  <2>1. PICK h \in Request : h = handle[i]
    BY DEF Inv, TypeOK
  <2>2. CASE Children(h) # {}
    BY <2>1, <2>2 DEF Tally, Bounded
  <2>3. CASE Children(h) = {}
    <3>1. caller[h] \in Client
      BY <2>1, NullIsFresh, MintedIsSent DEF Inv, Lineage, Control
    <3>2. MaxRedemptions(caller[h]) \in Nat
      BY <3>1, ConfigType DEF MaxRedemptions, Settings
    <3> QED
      BY <2>1, <2>3, <3>2, FS_EmptySet
  <2> QED
    BY <2>2, <2>3
<1> QED
  BY <1>1, TallyHolds, PTL

\* When requests are not sent at the same time, no token is accepted again after the
\* grace period of its first redemption (HasExceeded in AcceptConsumedTokenAsync).
THEOREM GracePeriodsEnd ==
    ASSUME Pacing # "concurrent"
    PROVE  Spec => GraceWindow
<1>1. ASSUME Inv, Tally, [Next]_vars, NEW i \in Request, Admits(i), Graceful(i),
             NEW k \in Children(handle[i])
      PROVE  now <= born[k] + Config(i).graceTTL
  <2>1. PICK h \in Request : h = handle[i]
    BY <1>1 DEF Inv, Control, Serving, Admits
  <2>2. Accepts(caller[i], store[h]) /\ store[h] \in Token /\ caller[i] \in Client
    BY <1>1, <2>1, AdmitsAcceptable DEF Inv, TypeOK, Accepts, Control, Admits
  <2>3. ~Linking(h)
    BY <1>1 DEF Linking, Admits, Tally, OneAtATime, Busy
  <2>4. store[h].consumedTime # NotConsumed /\ store[h].consumedTime <= born[k]
    BY <1>1, <2>1, <2>2, <2>3 DEF Tally, StoredTells, Tells, Accepts
  <2>5. ~(now > store[h].consumedTime + Config(i).graceTTL)
    BY <1>1, <2>2, <2>4 DEF Accepts, AcceptConsumed, HasExceeded, Graceful, Config
  <2>6. /\ now \in Int /\ store[h].consumedTime \in Int /\ Config(i).graceTTL \in Int
        /\ born[k] \in Int
    <3>1. k \in Request
      BY <1>1 DEF Children
    <3>2. Config(i) \in Settings
      BY <2>2, ConfigType DEF Config
    <3> QED
      BY <1>1, <2>2, <3>1, <3>2, MaxTimeType DEF Inv, TypeOK, Token, NotConsumed, Settings
  <2> QED
    BY <2>4, <2>5, <2>6
<1>2. Inv /\ Tally /\ [Next]_vars =>
        [\A i \in Request :
            Admits(i) /\ Graceful(i) =>
                \A k \in Children(handle[i]) :
                    now <= born[k] + Config(i).graceTTL]_vars
  BY <1>1
<1> QED
  BY <1>2, TallyHolds, PTL DEF Spec, GraceWindow

-----------------------------------------------------------------------------
(* The refinement *)

\* What the refinement is about.
OnlyGrace ==
    /\ Pacing = "drained"
    /\ ~StoreFaults /\ ~Revocation
    /\ Client = {Redeemer}
    /\ ClientConfig[Redeemer].usage = "OneTimeOnly"
    /\ ClientConfig[Redeemer].graceEnabled

\* A handler that has read the presented token finds it as it was when it writes it
\* back: the worker has nothing to do.
ParentSettled(i) ==
    /\ pc[i] \in {"validate", "refuse", "update", "mint", "link"} => queue = <<>>
    /\ pc[i] \in {"update", "mint", "link"} =>
           /\ store[handle[i]] # Null
           /\ store[handle[i]].child = token[i].child
           /\ store[handle[i]].parent = token[i].parent

\* The new token is as it was minted until its parent is written back, and nobody
\* has presented it.
ChildSettled(i) ==
    pc[i] = "link" =>
        /\ store[i] # Null /\ store[i].child = Null /\ store[i].parent = handle[i]
        /\ family[i] = family[handle[i]]
        /\ \A j \in Request : handle[j] # i

Settled == \A i \in Request : ParentSettled(i) /\ ChildSettled(i)

-----------------------------------------------------------------------------
(* The invariant *)

\* Where a handler that is not i stands says nothing: only one is at work.
LEMMA OthersSettled ==
    ASSUME OneAtATime', NEW i \in Request, Busy(i)',
           ParentSettled(i)', ChildSettled(i)'
    PROVE  Settled'
<1>1. \A j \in Request \ {i} : pc'[j] \in {"idle", "done"}
  BY DEF OneAtATime, Busy
<1> QED
  BY <1>1 DEF Settled, ParentSettled, ChildSettled

LEMMA NextSettled ==
    ASSUME OnlyGrace, Inv, OneAtATime, OneAtATime', Settled, [Next]_vars
    PROVE  Settled'
<1> USE DEF Inv, TypeOK
<1>1. ASSUME NEW i \in Request, NEW c \in Client, CreateRefreshToken(i, c)
      PROVE  Settled'
  <2>1. pc'[i] = "reply"
    BY <1>1 DEF CreateRefreshToken
  <2> QED
    BY <2>1, OthersSettled DEF Busy, ParentSettled, ChildSettled
<1>2. ASSUME NEW i \in Request, NEW h \in Request, NEW c \in Client, Present(i, h, c)
      PROVE  Settled'
  <2>1. pc'[i] = "validate" /\ queue' = <<>>
    BY <1>2 DEF Present, MayStart, OnlyGrace, server
  <2> QED
    BY <2>1, OthersSettled DEF Busy, ParentSettled, ChildSettled
<1>3. ASSUME NEW i \in Request, Validate(i)
      PROVE  Settled'
  <2>1. queue' = <<>> /\ handle' = handle /\ store' = store
    BY <1>3 DEF Validate, Settled, ParentSettled, server
  <2>2. CASE Accepts(caller[i], store[handle[i]])
    <3>1. /\ pc'[i] = "update" /\ token'[i] = store[handle[i]]
          /\ store[handle[i]] # Null
      BY <1>3, <2>2 DEF Validate, Accepts
    <3> QED
      BY <2>1, <3>1, OthersSettled DEF Busy, ParentSettled, ChildSettled
  <2>3. CASE ~Accepts(caller[i], store[handle[i]])
    <3>1. pc'[i] = "refuse"
      BY <1>3, <2>3 DEF Validate
    <3> QED
      BY <2>1, <3>1, OthersSettled DEF Busy, ParentSettled, ChildSettled
  <2> QED
    BY <2>2, <2>3
<1>4. ASSUME NEW i \in Request, Consume(i)
      PROVE  Settled'
  <2>1. pc[i] = "update" /\ pc[i] \in Holding /\ Graceful(i)
    <3>1. caller[i] = Redeemer
      BY <1>4 DEF Consume, OnlyGrace, Control
    <3> QED
      BY <1>4, <3>1 DEF Consume, Holding, Graceful, Config, OnlyGrace
  <2>2. /\ pc'[i] = "mint" /\ token'[i] = Consumed(token[i])
        /\ UNCHANGED <<store, queue, handle>>
    BY <1>4, <2>1 DEF Consume
  <2>3. token'[i].child = token[i].child /\ token'[i].parent = token[i].parent
    BY <2>1, <2>2, HolderFacts, ConsumedFacts
  <2>4. ParentSettled(i)' /\ ChildSettled(i)'
    BY <2>1, <2>2, <2>3 DEF Settled, ParentSettled, ChildSettled
  <2> QED
    BY <2>2, <2>4, OthersSettled DEF Busy
<1>5. ASSUME NEW i \in Request, MintChild(i)
      PROVE  Settled'
  <2>1. pc[i] = "mint" /\ pc[i] \in Holding /\ handle[i] # i
    BY <1>5 DEF MintChild, Holding, Lineage
  <2>2. PICK t \in Token : t = Slid(Config(i), token[i])
    BY <2>1, HolderFacts, SlidFacts
  <2>3. t.child = token[i].child /\ t.parent = token[i].parent
    BY <2>1, <2>2, HolderFacts, SlidFacts
  <2>4. PICK u \in Token : u = ChildOf(handle[i], t)
    BY <2>1, HolderFacts, ChildFacts
  <2>5. u.child = Null /\ u.parent = handle[i] /\ u # Null
    BY <2>1, <2>4, HolderFacts, ChildFacts, NullIsFresh
  <2>6. /\ pc'[i] = "link" /\ token'[i] = t /\ store'[i] = u
        /\ UNCHANGED <<queue, handle>>
        /\ store'[handle[i]] = store[handle[i]]
        /\ family'[i] = family[handle[i]] /\ family'[handle[i]] = family[handle[i]]
    BY <1>5, <2>1, <2>2, <2>4, HolderFacts DEF MintChild
  <2>8. \A j \in Request : handle'[j] # i
    BY <1>5, <2>1, <2>6, NullIsFresh DEF Control, Lineage
  <2>7. ParentSettled(i)' /\ ChildSettled(i)'
    BY <2>1, <2>3, <2>5, <2>6, <2>8 DEF Settled, ParentSettled, ChildSettled
  <2> QED
    BY <2>6, <2>7, OthersSettled DEF Busy
<1>6. ASSUME NEW i \in Request,
             \/ Refuse(i) \/ LinkParent(i) \/ DropOldChild(i) \/ DropOldParent(i)
             \/ UpdateReusable(i) \/ Reply(i)
      PROVE  Settled'
  <2>1. /\ \A j \in Request \ {i} : pc[j] \in {"idle", "done"}
        /\ \A j \in Request \ {i} : pc'[j] = pc[j]
        /\ pc'[i] \in {"dropChild", "dropParent", "reply", "done"}
    BY <1>6 DEF Refuse, LinkParent, DropOldChild, DropOldParent, UpdateReusable, Reply,
                OneAtATime, Busy
  <2> QED
    BY <2>1 DEF Settled, ParentSettled, ChildSettled
<1>7. CASE RemoveNext
  <2>1. queue # <<>> /\ pc' = pc
    BY <1>7 DEF RemoveNext, request
  <2> QED
    BY <2>1 DEF Settled, ParentSettled, ChildSettled
<1>8. CASE Tick \/ UNCHANGED vars
  <2>1. UNCHANGED <<pc, queue, store, handle, token, family>>
    BY <1>8 DEF Tick, vars, server, request, history
  <2> QED
    BY <2>1 DEF Settled, ParentSettled, ChildSettled
<1>9. ~WorkItemFails /\ \A c \in Client : ~RevokeGrants(c)
  BY DEF OnlyGrace, WorkItemFails, RevokeGrants
<1> HIDE DEF Inv, TypeOK
<1> QED
  BY <1>1, <1>2, <1>3, <1>4, <1>5, <1>6, <1>7, <1>8, <1>9
  DEF Next, Serve, Worker, Quiescent

Drained == Inv /\ Tally /\ Settled

LEMMA DrainedHolds ==
    ASSUME OnlyGrace
    PROVE  Spec => []Drained
<1>1. Pacing # "concurrent"
  BY DEF OnlyGrace
<1>2. Init => Settled
  BY DEF Init, Settled, ParentSettled, ChildSettled
<1>3. Inv /\ Tally /\ Settled /\ [Next]_vars => Settled'
  BY <1>1, NextSettled, NextOneAtATime DEF Tally
<1>4. Spec => [](Inv /\ Tally)
  BY <1>1, TallyHolds
<1> QED
  BY <1>2, <1>3, <1>4, PTL DEF Spec, Drained

-----------------------------------------------------------------------------
(* Steps and the rules *)

\* While one handler is at work nothing else is about to be dropped.
LEMMA OnlyDropper ==
    ASSUME OneAtATime, NEW i \in Request, Busy(i)
    PROVE  \A j \in Request \ {i}, h \in Request : pc[j] # "link" /\ ~WillDrop(j, h)
  BY DEF OneAtATime, Busy, WillDrop

\* What the rules see of a step that issues nothing.
LEMMA SameLinks ==
    ASSUME Inv, [Next]_vars,
           RulesIssued' = RulesIssued,
           RulesLive' \subseteq RulesLive,
           \A h \in RulesLive' : store'[h].child = store[h].child
                                 /\ store'[h].parent = store[h].parent,
           \A h \in Request : Children(h)' \cap RulesIssued' = Children(h) \cap RulesIssued
    PROVE  /\ RulesFamily' = RulesFamily
           /\ RulesUses' = RulesUses
           /\ RulesChild' = [h \in Request |-> IF h \in RulesLive \ RulesLive' THEN Null
                                               ELSE RulesChild[h]]
           /\ RulesParent' = [h \in Request |-> IF h \in RulesLive \ RulesLive' THEN Null
                                                ELSE RulesParent[h]]
<1>1. \A h \in RulesIssued : family'[h] = family[h]
  <2>1. \A h \in Request : Kept(h)
    BY NextKeeps DEF Inv
  <2> QED
    BY <2>1 DEF RulesIssued, Minted, Kept
<1>2. RulesFamily' = RulesFamily
  BY <1>1 DEF RulesFamily
<1>3. RulesUses' = RulesUses
  BY DEF RulesUses
<1>4. RulesChild' = [h \in Request |-> IF h \in RulesLive \ RulesLive' THEN Null
                                       ELSE RulesChild[h]]
  BY DEF RulesChild
<1>5. RulesParent' = [h \in Request |-> IF h \in RulesLive \ RulesLive' THEN Null
                                        ELSE RulesParent[h]]
  BY DEF RulesParent
<1> QED
  BY <1>2, <1>3, <1>4, <1>5

LEMMA Stutters ==
    ASSUME Inv, [Next]_vars,
           RulesIssued' = RulesIssued,
           RulesLive' = RulesLive,
           \A h \in RulesLive' : store'[h].child = store[h].child
                                 /\ store'[h].parent = store[h].parent,
           \A h \in Request : Children(h)' \cap RulesIssued' = Children(h) \cap RulesIssued
    PROVE  UNCHANGED Rules!vars
<1>1. RulesChild' = RulesChild
  BY SameLinks DEF RulesChild
<1>2. RulesParent' = RulesParent
  BY SameLinks DEF RulesParent
<1> QED
  BY <1>1, <1>2, SameLinks DEF Rules!vars

\* A token that stops being live, and nothing else, is refused.
LEMMA Refuses ==
    ASSUME Inv, [Next]_vars, NEW r \in RulesLive,
           RulesIssued' = RulesIssued,
           RulesLive' = RulesLive \ {r},
           \A h \in RulesLive' : store'[h].child = store[h].child
                                 /\ store'[h].parent = store[h].parent,
           \A h \in Request : Children(h)' \cap RulesIssued' = Children(h) \cap RulesIssued
    PROVE  Rules!Refuse(r)
<1>1. RulesLive \ RulesLive' = {r}
  OBVIOUS
<1>2. /\ RulesFamily' = RulesFamily /\ RulesUses' = RulesUses
      /\ RulesChild' = [h \in Request |-> IF h \in {r} THEN Null ELSE RulesChild[h]]
      /\ RulesParent' = [h \in Request |-> IF h \in {r} THEN Null ELSE RulesParent[h]]
  BY <1>1, SameLinks
<1> QED
  BY <1>2 DEF Rules!Refuse, Rules!Forget

LEMMA SignInFollowsRules ==
    ASSUME OnlyGrace, Drained, [Next]_vars, NEW i \in Request, NEW c \in Client,
           CreateRefreshToken(i, c)
    PROVE  Rules!SignIn(i)
<1> USE DEF Drained, Inv, TypeOK
<1>1. /\ pc[i] = "idle" /\ queue = <<>> /\ \A j \in Request : pc[j] \in {"idle", "done"}
      /\ family[i] = Null
  BY MintedIsSent DEF CreateRefreshToken, MayStart, OnlyGrace
<1>2. /\ \A j \in Request \ {i} : pc'[j] = pc[j] /\ store'[j] = store[j]
                                  /\ family'[j] = family[j]
      /\ pc'[i] = "reply" /\ family'[i] = i /\ queue' = queue
      /\ store'[i] # Null /\ store'[i].child = Null /\ store'[i].parent = Null
  <2> DEFINE t == [client |-> c, creationTime |-> now,
                   lifetime |-> FirstLifetime(ClientConfig[c]),
                   consumedTime |-> NotConsumed, consumedAttempts |-> 0,
                   parent |-> Null, child |-> Null]
  <2>1. t \in Token
    BY MaxTimeType, ConfigType, FirstLifetimeFacts DEF Token, NotConsumed
  <2>2. store'[i] = t
    BY DEF CreateRefreshToken
  <2>3. t # Null
    BY <2>1, NullIsFresh
  <2> QED
    BY <2>2, <2>3 DEF CreateRefreshToken
<1>3. Pending = {} /\ Pending' = {}
  BY <1>1, <1>2 DEF Pending
<1> HIDE DEF Drained, Inv, TypeOK
<1>4. i \notin RulesIssued /\ RulesIssued' = RulesIssued \cup {i}
  BY <1>1, <1>2, NullIsFresh DEF RulesIssued, Minted
<1>5. \A j \in Request, h \in Request : ~WillDrop(j, h) /\ ~WillDrop(j, h)'
  BY <1>1, <1>2 DEF WillDrop
<1>6. RulesLive' = RulesLive \cup {i} /\ i \notin RulesLive
  <2>1. RulesIssued \subseteq Request
    BY DEF RulesIssued, Minted
  <2>2. RulesLive = {h \in RulesIssued : store[h] # Null}
    BY <1>3, <1>5, <2>1 DEF RulesLive
  <2>3. RulesLive' = {h \in RulesIssued' : store'[h] # Null}
    BY <1>3, <1>4, <1>5, <2>1 DEF RulesLive
  <2> QED
    BY <1>2, <1>4, <2>1, <2>2, <2>3
<1>7. \A h \in Request : Children(h)' = Children(h) /\ i \notin Children(h)
  <2>1. handle[i] = Null
    BY <1>1 DEF Drained, Inv, Control
  <2> QED
    BY <2>1, ChildrenKept, NullIsFresh DEF Drained, Children
<1>8. RulesUses' = RulesUses
  <2>1. \A h \in Request : Children(h)' \cap RulesIssued' = Children(h) \cap RulesIssued
    BY <1>4, <1>7
  <2> QED
    BY <2>1 DEF RulesUses
<1>9. RulesFamily' = [RulesFamily EXCEPT ![i] = i]
  BY <1>2, <1>4 DEF RulesFamily
<1>10. RulesChild' = RulesChild /\ RulesParent' = RulesParent
  BY <1>2, <1>6 DEF RulesChild, RulesParent
<1> QED
  BY <1>4, <1>6, <1>8, <1>9, <1>10 DEF Rules!SignIn

\* Token h is queued for removal, or about to be.
Doomed(h) == h \in Pending \/ \E i \in Request : WillDrop(i, h)

LEMMA LiveTokens ==
    RulesLive = {h \in RulesIssued : store[h] # Null /\ ~Doomed(h)}
  BY DEF RulesLive, Doomed

\* A step that mints nothing and dooms nothing is no step of the rules.
LEMMA NothingHappens ==
    ASSUME Inv, [Next]_vars,
           RulesIssued' = RulesIssued,
           \A h \in RulesIssued :
               /\ (store'[h] # Null /\ ~Doomed(h)') <=> (store[h] # Null /\ ~Doomed(h))
               /\ store'[h] = store[h] \/ store'[h] = Null,
           \A h \in Request : Children(h)' \cap RulesIssued' = Children(h) \cap RulesIssued
    PROVE  UNCHANGED Rules!vars
<1>1. RulesLive' = {h \in RulesIssued' : store'[h] # Null /\ ~Doomed(h)'}
  BY DEF RulesLive, Doomed
<1>2. RulesLive' = RulesLive
  BY <1>1, LiveTokens
<1>3. \A h \in RulesLive' : store'[h] = store[h]
  BY <1>1
<1> QED
  BY <1>2, <1>3, Stutters

\* Only the handler at work moves.
LEMMA HandlerAlone ==
    ASSUME TypeOK, OneAtATime, NEW i \in Request, Serve(i)
    PROVE  \A j \in Request \ {i} : pc[j] \in {"idle", "done"} /\ pc'[j] = pc[j]
<1>1. Busy(i) /\ \A j \in Request \ {i} : pc'[j] = pc[j]
  BY DEF Serve, Validate, Refuse, Consume, MintChild, LinkParent, DropOldChild,
         DropOldParent, UpdateReusable, Reply, TypeOK, Busy
<1> QED
  BY <1>1 DEF OneAtATime, Busy

\* Requests under way that neither issue nor drop anything.
LEMMA QuietSteps ==
    ASSUME Drained, [Next]_vars, UNCHANGED <<queue, store, handle, answer, family>>,
           \A j \in Request :
               \/ pc'[j] = pc[j] /\ token'[j] = token[j]
               \/ /\ pc[j] \notin {"refuse", "link", "dropChild", "dropParent"}
                  /\ pc'[j] \notin {"refuse", "link", "dropChild", "dropParent"}
    PROVE  UNCHANGED Rules!vars
<1>1. \A j \in Request, h \in Request : WillDrop(j, h)' <=> WillDrop(j, h)
  BY DEF WillDrop
<1>2. \A h \in Request : Doomed(h)' <=> Doomed(h)
  BY <1>1 DEF Doomed, Pending
<1>3. RulesIssued' = RulesIssued
  BY DEF RulesIssued, Minted
<1>4. RulesIssued \subseteq Request
  BY DEF RulesIssued, Minted
<1>5. \A h \in Request : Children(h)' = Children(h)
  BY DEF Children
<1> QED
  BY <1>2, <1>3, <1>4, <1>5, NothingHappens DEF Drained

\* What was decided to be dropped is queued: it was doomed before.
LEMMA DropsAreNoSteps ==
    ASSUME Drained, [Next]_vars, NEW i \in Request,
           Refuse(i) \/ DropOldChild(i) \/ DropOldParent(i)
    PROVE  UNCHANGED Rules!vars
<1> USE DEF Drained
<1>1. \A j \in Request \ {i} : pc[j] \in {"idle", "done"} /\ pc'[j] = pc[j]
  BY HandlerAlone DEF Serve, Inv, Tally
<1>2. \A j \in Request \ {i}, h \in Request : ~WillDrop(j, h) /\ ~WillDrop(j, h)'
  BY <1>1 DEF WillDrop
<1>3. /\ UNCHANGED <<store, handle, token, answer, family>>
      /\ pc[i] # "link" /\ pc'[i] # "link" /\ queue \in Seq(Request)
      /\ handle[i] \in Request
      /\ \/ token[i].child \in Request \cup {Null} /\ token[i].parent \in Request \cup {Null}
         \/ pc[i] = "refuse"
  <2>1. pc[i] = "refuse" \/ pc[i] \in Holding
    BY DEF Refuse, DropOldChild, DropOldParent, Holding
  <2>2. pc[i] \in Holding => token[i] \in Token
    BY HolderFacts DEF Inv
  <2> QED
    BY <2>1, <2>2 DEF Refuse, DropOldChild, DropOldParent, Inv, TypeOK, Control, Serving,
                      history, Token
<1>4. \A h \in Request : Doomed(h)' <=> Doomed(h)
  <2>1. CASE Refuse(i)
    <3>1. Pending' = Pending \cup {handle[i]}
      BY <1>3, <2>1, PendingAfterAppend DEF Refuse
    <3>2. pc[i] = "refuse" /\ pc'[i] = "done"
      BY <2>1 DEF Refuse, Inv, TypeOK
    <3>3. \A h \in Request : (WillDrop(i, h) <=> h = handle[i]) /\ ~WillDrop(i, h)'
      BY <3>2 DEF WillDrop
    <3> QED
      BY <1>2, <3>1, <3>3 DEF Doomed
  <2>2. CASE DropOldChild(i)
    <3>1. /\ pc[i] = "dropChild" /\ pc'[i] = "dropParent"
          /\ token[i].child \in Request \cup {Null}
      BY <1>3, <2>2 DEF DropOldChild, Inv, TypeOK
    <3>2. \A h \in Request : h \in Pending' <=> (h \in Pending \/ h = token[i].child)
      <4>1. CASE token[i].child = Null
        BY <2>2, <4>1, NullIsFresh DEF DropOldChild, Enqueue, Pending
      <4>2. CASE token[i].child # Null
        <5>1. Pending' = Pending \cup {token[i].child}
          BY <1>3, <2>2, <3>1, <4>2, PendingAfterAppend DEF DropOldChild, Enqueue
        <5> QED
          BY <5>1
      <4> QED
        BY <4>1, <4>2
    <3>3. \A h \in Request :
              /\ WillDrop(i, h) <=> (h = token[i].child \/ h = token[i].parent)
              /\ WillDrop(i, h)' <=> h = token[i].parent
      BY <1>3, <3>1 DEF WillDrop
    <3> QED
      BY <1>2, <3>2, <3>3 DEF Doomed
  <2>3. CASE DropOldParent(i)
    <3>1. /\ pc[i] = "dropParent" /\ pc'[i] = "reply"
          /\ token[i].parent \in Request \cup {Null}
      BY <1>3, <2>3 DEF DropOldParent, Inv, TypeOK
    <3>2. \A h \in Request : h \in Pending' <=> (h \in Pending \/ h = token[i].parent)
      <4>1. CASE token[i].parent = Null
        BY <2>3, <4>1, NullIsFresh DEF DropOldParent, Enqueue, Pending
      <4>2. CASE token[i].parent # Null
        <5>1. Pending' = Pending \cup {token[i].parent}
          BY <1>3, <2>3, <3>1, <4>2, PendingAfterAppend DEF DropOldParent, Enqueue
        <5> QED
          BY <5>1
      <4> QED
        BY <4>1, <4>2
    <3>3. \A h \in Request :
              /\ WillDrop(i, h) <=> h = token[i].parent
              /\ ~WillDrop(i, h)'
      BY <1>3, <3>1 DEF WillDrop
    <3> QED
      BY <1>2, <3>2, <3>3 DEF Doomed
  <2> QED
    BY <2>1, <2>2, <2>3
<1>5. RulesIssued' = RulesIssued /\ RulesIssued \subseteq Request
  BY <1>1, <1>3 DEF RulesIssued, Minted
<1>6. \A h \in Request : Children(h)' = Children(h)
  BY <1>3 DEF Children
<1> QED
  BY <1>3, <1>4, <1>5, <1>6, NothingHappens

\* The worker removes what was doomed.
LEMMA RemovalIsNoStep ==
    ASSUME Drained, [Next]_vars, RemoveNext
    PROVE  UNCHANGED Rules!vars
<1>1. /\ queue \in Seq(Request) /\ queue # <<>> /\ queue' = Tail(queue)
      /\ UNCHANGED <<pc, handle, token, answer, family>>
      /\ store' = [store EXCEPT ![Head(queue)] = Null]
      /\ store \in [Request -> Token \cup {Null}]
  BY DEF RemoveNext, request, history, Drained, Inv, TypeOK
<1>2. /\ Head(queue) \in Pending /\ Head(queue) \in Request
      /\ Pending' \subseteq Pending /\ Pending \subseteq Pending' \cup {Head(queue)}
  <2>1. /\ Head(queue) \in Pending /\ Head(queue) \in Request /\ Pending' \subseteq Pending
    BY <1>1, PendingAfterTail
  <2>2. Pending \subseteq Pending' \cup {Head(queue)}
    <3> SUFFICES ASSUME NEW n \in DOMAIN queue, queue[n] # Head(queue)
                 PROVE  queue[n] \in Pending'
      BY DEF Pending
    <3>1. /\ Len(queue) \in Nat /\ DOMAIN queue = 1 .. Len(queue)
          /\ Head(queue) = queue[1]
          /\ DOMAIN Tail(queue) = 1 .. Len(queue) - 1
          /\ \A m \in 1 .. Len(queue) - 1 : Tail(queue)[m] = queue[m + 1]
      BY <1>1
    <3>2. n \in 2 .. Len(queue)
      BY <3>1
    <3>3. n - 1 \in DOMAIN queue' /\ queue'[n - 1] = queue[n]
      BY <1>1, <3>1, <3>2
    <3> QED
      BY <3>3 DEF Pending
  <2> QED
    BY <2>1, <2>2
<1>3. \A h \in Request :
          /\ (store'[h] # Null /\ ~Doomed(h)') <=> (store[h] # Null /\ ~Doomed(h))
          /\ store'[h] = store[h] \/ store'[h] = Null
  <2>1. \A j \in Request, h \in Request : WillDrop(j, h)' <=> WillDrop(j, h)
    BY <1>1 DEF WillDrop
  <2>2. Doomed(Head(queue))
    BY <1>2 DEF Doomed
  <2>3. \A h \in Request : h # Head(queue) => (Doomed(h)' <=> Doomed(h))
    BY <1>2, <2>1 DEF Doomed
  <2> QED
    BY <1>1, <1>2, <2>2, <2>3
<1>4. RulesIssued' = RulesIssued /\ RulesIssued \subseteq Request
  BY <1>1 DEF RulesIssued, Minted
<1>5. \A h \in Request : Children(h)' = Children(h)
  BY <1>1 DEF Children
<1> QED
  BY <1>3, <1>4, <1>5, NothingHappens DEF Drained

\* Minting stores a token that the rules do not see yet.
LEMMA MintIsNoStep ==
    ASSUME OnlyGrace, Drained, [Next]_vars, NEW i \in Request, MintChild(i)
    PROVE  UNCHANGED Rules!vars
<1> USE DEF Drained
<1>1. \A j \in Request \ {i} : pc[j] \in {"idle", "done"} /\ pc'[j] = pc[j]
  BY HandlerAlone DEF Serve, Inv, Tally
<1>2. /\ pc[i] = "mint" /\ pc'[i] = "link" /\ UNCHANGED <<queue, handle>>
      /\ \A h \in Request \ {i} : store'[h] = store[h] /\ family'[h] = family[h]
      /\ family[i] = Null
  BY NullIsFresh DEF MintChild, Inv, TypeOK, Control, Lineage
<1>3. \A j \in Request, h \in Request : ~WillDrop(j, h) /\ ~WillDrop(j, h)'
  BY <1>1, <1>2 DEF WillDrop
<1>4. i \notin RulesIssued /\ RulesIssued' = RulesIssued /\ RulesIssued \subseteq Request
  BY <1>1, <1>2 DEF RulesIssued, Minted
<1>5. \A h \in Request : Doomed(h)' <=> Doomed(h)
  BY <1>2, <1>3 DEF Doomed, Pending
<1>6. \A h \in Request : Children(h)' \cap RulesIssued' = Children(h) \cap RulesIssued
  BY <1>4, ChildrenAfterMint
<1> QED
  BY <1>2, <1>4, <1>5, <1>6, NothingHappens

\* A refusal takes effect at once, if the token was not on its way out already.
LEMMA RefusalFollowsRules ==
    ASSUME Drained, [Next]_vars, NEW i \in Request, Validate(i),
           pc'[i] = "refuse"
    PROVE  (\E r \in Request : Rules!Refuse(r)) \/ UNCHANGED Rules!vars
<1> USE DEF Drained
<1>1. \A j \in Request \ {i} : pc[j] \in {"idle", "done"} /\ pc'[j] = pc[j]
  BY HandlerAlone DEF Serve, Inv, Tally
<1>2. /\ pc[i] = "validate" /\ handle[i] \in Request
      /\ UNCHANGED <<queue, store, handle, answer, family>>
  BY DEF Validate, server, history, Inv, Control, Serving
<1>3. PICK r \in Request : r = handle[i]
  BY <1>2
<1>4. \A h \in Request : Doomed(h)' <=> Doomed(h) \/ h = r
  <2>1. \A h \in Request : \A j \in Request : ~WillDrop(j, h)
    BY <1>1, <1>2 DEF WillDrop
  <2>2. \A h \in Request : \A j \in Request : WillDrop(j, h)' <=> (j = i /\ h = r)
    BY <1>1, <1>2, <1>3 DEF WillDrop
  <2>3. Pending' = Pending
    BY <1>2 DEF Pending
  <2> QED
    BY <2>1, <2>2, <2>3 DEF Doomed
<1>5. RulesIssued' = RulesIssued /\ RulesIssued \subseteq Request
  BY <1>1, <1>2 DEF RulesIssued, Minted
<1>6. \A h \in Request : Children(h)' = Children(h)
  BY <1>2 DEF Children
<1>7. CASE r \in RulesLive
  <2>1. RulesLive' = {h \in RulesIssued' : store'[h] # Null /\ ~Doomed(h)'}
    BY DEF RulesLive, Doomed
  <2>2. RulesLive' = RulesLive \ {r}
    BY <1>2, <1>4, <1>5, <2>1, LiveTokens
  <2> QED
    BY <1>2, <1>5, <1>6, <1>7, <2>2, Refuses
<1>8. CASE r \notin RulesLive
  <2>1. \A h \in RulesIssued :
            (store'[h] # Null /\ ~Doomed(h)') <=> (store[h] # Null /\ ~Doomed(h))
    BY <1>2, <1>4, <1>5, <1>8, LiveTokens
  <2> QED
    BY <1>2, <1>5, <1>6, <2>1, NothingHappens
<1> QED
  BY <1>7, <1>8

\* A redemption takes effect when the presented token is written back.
LEMMA LinkFollowsRules ==
    ASSUME OnlyGrace, Drained, [Next]_vars, NEW i \in Request, LinkParent(i)
    PROVE  \E h \in Request : Rules!Redeem(h, i)
<1> USE DEF Drained
<1>1. \A j \in Request \ {i} : pc[j] \in {"idle", "done"} /\ pc'[j] = pc[j]
  BY HandlerAlone DEF Serve, Inv, Tally
<1>2. PICK h \in Request : h = handle[i]
  BY DEF LinkParent, Inv, Control, Serving
<1>3. /\ pc[i] = "link" /\ pc[i] \in Holding /\ queue = <<>> /\ h # i
      /\ caller[i] = Redeemer /\ Graceful(i) /\ token[i] \in Token
  <2>1. pc[i] = "link" /\ pc[i] \in Holding
    BY DEF LinkParent, Holding
  <2>2. caller[i] = Redeemer
    BY <2>1 DEF Inv, Control, OnlyGrace
  <2> QED
    BY <1>2, <2>1, <2>2, HolderFacts
    DEF Inv, Lineage, Graceful, Config, OnlyGrace, Settled, ParentSettled
<1>4. /\ store[h] # Null
      /\ store[h].child = token[i].child /\ store[h].parent = token[i].parent
      /\ store[i] # Null /\ store[i].child = Null /\ store[i].parent = h
      /\ family[i] = family[h] /\ family[h] # Null
  BY <1>2, <1>3, HolderFacts DEF Settled, ParentSettled, ChildSettled, Inv
<1>5. /\ pc'[i] = "dropChild" /\ UNCHANGED <<queue, handle, token, answer, family>>
      /\ \A x \in Request \ {h} : store'[x] = store[x]
      /\ store'[h] # Null /\ store'[h].child = i /\ store'[h].parent = Null
  <2>1. store'[h] = ParentOf(i, token[i], TRUE)
    BY <1>2, <1>3 DEF LinkParent, Inv, TypeOK, Graceful
  <2>2. /\ ParentOf(i, token[i], TRUE) \in Token
        /\ ParentOf(i, token[i], TRUE).child = i
        /\ ParentOf(i, token[i], TRUE).parent = Null
    BY <1>3, ParentFacts
  <2>3. store'[h] # Null
    BY <2>1, <2>2, NullIsFresh
  <2> QED
    BY <1>2, <1>3, <2>1, <2>2, <2>3 DEF LinkParent, Inv, TypeOK, history
<1>6. Pending = {} /\ Pending' = {}
  BY <1>3, <1>5 DEF Pending
<1>7. i \notin RulesIssued /\ h \in RulesIssued /\ RulesIssued \subseteq Request
  BY <1>1, <1>3, <1>4 DEF RulesIssued, Minted
<1>8. RulesIssued' = RulesIssued \cup {i}
  BY <1>1, <1>3, <1>4, <1>5 DEF RulesIssued, Minted
<1>9. \A x \in Request : ~Doomed(x)
  BY <1>1, <1>3, <1>6 DEF Doomed, WillDrop
<1>10. \A x \in Request : Doomed(x)' <=> x \in {token[i].child, token[i].parent}
  <2>1. \A x \in Request : \A j \in Request :
            WillDrop(j, x)' <=> (j = i /\ x \in {token[i].child, token[i].parent})
    BY <1>1, <1>5 DEF WillDrop
  <2> QED
    BY <1>6, <2>1 DEF Doomed
\* Neither the token nor its new child is among those that go.
<1>11. /\ token[i].child # h /\ token[i].parent # h
       /\ token[i].child # i /\ token[i].parent # i
  <2>1. Describes(token[i], h)
    BY <1>2, <1>3, HolderFacts DEF Inv
  <2>2. token[i].parent # Null => handle[h] = token[i].parent
    BY <2>1 DEF Describes
  <2>3. token[i].child # Null => handle[token[i].child] = h /\ Linked(token[i].child)
    BY <2>1 DEF Describes
  <2>4. token[i].child \in Request \cup {Null} /\ token[i].parent \in Request \cup {Null}
    BY <1>3 DEF Token
  <2>5. token[i].child # i
    BY <1>3, <2>3, NullIsFresh DEF Linked
  <2>6. handle[h] # i
    BY <1>3 DEF Settled, ChildSettled
  <2> QED
    BY <2>2, <2>3, <2>4, <2>5, <2>6, NullIsFresh DEF Inv, Lineage
<1>12. h \in RulesLive /\ i \notin RulesLive
  BY <1>4, <1>7, <1>9, LiveTokens
<1> DEFINE gone == {RulesChild[h], RulesParent[h]}
<1>13. gone = {token[i].child, token[i].parent}
  BY <1>4, <1>12 DEF RulesChild, RulesParent
<1>14. RulesLive' = (RulesLive \ gone) \cup {i}
  <2>1. RulesLive' = {x \in RulesIssued' : store'[x] # Null /\ ~Doomed(x)'}
    BY DEF RulesLive, Doomed
  <2> HIDE DEF gone
  <2>2. \A x \in RulesIssued : store'[x] # Null <=> store[x] # Null
    BY <1>4, <1>5, <1>7
  <2>3. store'[i] # Null
    BY <1>3, <1>4, <1>5
  <2> QED
    BY <1>7, <1>8, <1>9, <1>10, <1>11, <1>13, <2>1, <2>2, <2>3, LiveTokens
<1>15. RulesFamily' = [RulesFamily EXCEPT ![i] = RulesFamily[h]]
  BY <1>4, <1>5, <1>7, <1>8 DEF RulesFamily
<1>16. /\ RulesChild' = [Rules!Forget(RulesChild, gone) EXCEPT ![h] = i]
       /\ RulesParent' = [Rules!Forget(RulesParent, gone) EXCEPT ![h] = Null, ![i] = h]
  <2>1. h \notin gone /\ i \notin gone
    BY <1>11, <1>13
  <2> HIDE DEF gone
  <2>2. h \in RulesLive' /\ i \in RulesLive'
    BY <1>12, <1>14, <2>1
  <2>3. \A x \in Request \ {h, i} :
            (x \in RulesLive' <=> x \in RulesLive /\ x \notin gone)
    BY <1>14
  <2>4. RulesChild' = [Rules!Forget(RulesChild, gone) EXCEPT ![h] = i]
    BY <1>3, <1>4, <1>5, <1>12, <2>1, <2>2, <2>3 DEF RulesChild, Rules!Forget
  <2>5. RulesParent' = [Rules!Forget(RulesParent, gone) EXCEPT ![h] = Null, ![i] = h]
    BY <1>3, <1>4, <1>5, <1>12, <2>1, <2>2, <2>3 DEF RulesParent, Rules!Forget
  <2> QED
    BY <2>4, <2>5
\* The new child was minted, so that it is counted from now on.
<1>17. /\ RulesUses[h] < MaxRedemptions(Redeemer)
       /\ RulesUses' = [RulesUses EXCEPT ![h] = @ + 1]
  <2>1. \A x \in Request : Children(x)' = Children(x)
    BY <1>5 DEF Children
  <2>2. i \in Children(h) /\ \A x \in Request \ {h} : i \notin Children(x)
    BY <1>2, <1>3 DEF Children, Inv, Control
  <2>3. Children(h) \subseteq RulesIssued \cup {i}
    <3> SUFFICES ASSUME NEW k \in Children(h), k # i PROVE k \in RulesIssued
      OBVIOUS
    <3>1. k \in Request /\ answer[k] = k
      BY DEF Children
    <3>2. family[k] # Null /\ pc[k] # "link"
      BY <1>1, <3>1 DEF Inv, Lineage
    <3> QED
      BY <3>1, <3>2 DEF RulesIssued, Minted
  <2>4. /\ Children(h) \cap RulesIssued = Children(h) \ {i}
        /\ Children(h)' \cap RulesIssued' = Children(h)
        /\ \A x \in Request \ {h} :
               Children(x)' \cap RulesIssued' = Children(x) \cap RulesIssued
    BY <1>7, <1>8, <2>1, <2>2, <2>3
  <2>5. /\ IsFiniteSet(Children(h)) /\ Cardinality(Children(h)) \in Nat
        /\ Cardinality(Children(h) \ {i}) = Cardinality(Children(h)) - 1
    BY <2>2, FS_CardinalityType, FS_RemoveElement DEF Tally, Bounded
  <2>6. Cardinality(Children(h)) <= MaxRedemptions(Redeemer)
    <3>1. caller[h] = Redeemer
      BY <1>2, <1>3, HolderFacts DEF Inv
    <3> QED
      BY <2>2, <3>1 DEF Tally, Bounded
  <2>7. MaxRedemptions(Redeemer) \in Nat
    BY ConfigType DEF OnlyGrace, MaxRedemptions, Settings
  <2>8. RulesUses[h] = Cardinality(Children(h)) - 1
    BY <2>4, <2>5 DEF RulesUses
  <2>9. /\ RulesUses'[h] = Cardinality(Children(h))
        /\ \A x \in Request \ {h} : RulesUses'[x] = RulesUses[x]
    BY <2>4 DEF RulesUses
  <2>10. RulesUses' = [RulesUses EXCEPT ![h] = Cardinality(Children(h))]
    BY <2>9 DEF RulesUses
  <2>11. /\ Cardinality(Children(h)) - 1 < MaxRedemptions(Redeemer)
         /\ Cardinality(Children(h)) = RulesUses[h] + 1
    BY <2>5, <2>6, <2>7, <2>8
  <2> QED
    BY <2>8, <2>10, <2>11
<1> HIDE DEF gone
<1>18. Rules!Redeem(h, i)
  BY <1>7, <1>8, <1>12, <1>14, <1>15, <1>16, <1>17 DEF Rules!Redeem, gone
<1> QED
  BY <1>18

-----------------------------------------------------------------------------
(* The theorem *)

LEMMA InitFollowsRules == Init => Rules!Init
<1> SUFFICES ASSUME Init PROVE Rules!Init
  OBVIOUS
<1>1. RulesIssued = {}
  BY DEF Init, RulesIssued, Minted
<1>2. RulesLive = {}
  BY <1>1 DEF RulesLive
<1>3. \A h \in Request : RulesUses[h] = 0
  BY <1>1, FS_EmptySet DEF RulesUses
<1>4. RulesUses = [h \in Request |-> 0]
  BY <1>3 DEF RulesUses
<1> QED
  BY <1>1, <1>2, <1>4 DEF Rules!Init, RulesFamily, RulesChild, RulesParent

LEMMA NextFollowsRules ==
    ASSUME OnlyGrace, Drained, [Next]_vars
    PROVE  [Rules!Next]_(Rules!vars)
<1>1. ASSUME NEW i \in Request, NEW c \in Client, CreateRefreshToken(i, c)
      PROVE  Rules!Next
  BY <1>1, SignInFollowsRules DEF Rules!Next
<1>2. ASSUME NEW i \in Request, NEW h \in Request, NEW c \in Client, Present(i, h, c)
      PROVE  UNCHANGED Rules!vars
  <2>1. /\ UNCHANGED <<queue, store, token, answer, family>>
        /\ pc[i] = "idle" /\ handle[i] = Null /\ pc'[i] = "validate"
        /\ \A j \in Request \ {i} : pc'[j] = pc[j] /\ handle'[j] = handle[j]
    BY <1>2 DEF Present, MayStart, Drained, Inv, TypeOK, Control, server, history
  <2>2. \A j \in Request, x \in Request : WillDrop(j, x)' <=> WillDrop(j, x)
    BY <2>1 DEF WillDrop
  <2>3. \A x \in Request : Doomed(x)' <=> Doomed(x)
    BY <2>1, <2>2 DEF Doomed, Pending
  <2>4. RulesIssued' = RulesIssued /\ RulesIssued \subseteq Request
    BY <2>1 DEF RulesIssued, Minted
  <2>5. \A x \in Request : Children(x)' = Children(x)
    BY <1>2, ChildrenKept DEF Drained
  <2> QED
    BY <2>1, <2>3, <2>4, <2>5, NothingHappens DEF Drained
<1>3. ASSUME NEW i \in Request, Validate(i)
      PROVE  [Rules!Next]_(Rules!vars)
  <2>1. CASE pc'[i] = "refuse"
    BY <1>3, <2>1, RefusalFollowsRules DEF Rules!Next
  <2>2. CASE pc'[i] # "refuse"
    <3>1. /\ UNCHANGED <<queue, store, handle, answer, family>>
          /\ pc[i] = "validate" /\ pc'[i] = "update"
          /\ \A j \in Request \ {i} : pc'[j] = pc[j] /\ token'[j] = token[j]
      BY <1>3, <2>2 DEF Validate, Drained, Inv, TypeOK, server, history
    <3> QED
      BY <3>1, QuietSteps
  <2> QED
    BY <2>1, <2>2
<1>4. ASSUME NEW i \in Request, Consume(i)
      PROVE  UNCHANGED Rules!vars
  <2>1. Graceful(i)
    <3>1. caller[i] = Redeemer
      BY <1>4 DEF Consume, Drained, Inv, Control, OnlyGrace
    <3> QED
      BY <3>1 DEF Graceful, Config, OnlyGrace
  <2>2. /\ UNCHANGED <<queue, store, handle, answer, family>>
        /\ pc[i] = "update" /\ pc'[i] = "mint"
        /\ \A j \in Request \ {i} : pc'[j] = pc[j] /\ token'[j] = token[j]
    BY <1>4, <2>1 DEF Consume, Drained, Inv, TypeOK, history
  <2> QED
    BY <2>2, QuietSteps
<1>5. ASSUME NEW i \in Request, MintChild(i)
      PROVE  UNCHANGED Rules!vars
  BY <1>5, MintIsNoStep
<1>6. ASSUME NEW i \in Request, LinkParent(i)
      PROVE  Rules!Next
  BY <1>6, LinkFollowsRules DEF Rules!Next
<1>7. ASSUME NEW i \in Request, Refuse(i) \/ DropOldChild(i) \/ DropOldParent(i)
      PROVE  UNCHANGED Rules!vars
  BY <1>7, DropsAreNoSteps
<1>8. ASSUME NEW i \in Request, UpdateReusable(i)
      PROVE  FALSE
  BY <1>8 DEF UpdateReusable, Drained, Inv, Control, OnlyGrace, Config
<1>9. ASSUME NEW i \in Request, Reply(i)
      PROVE  UNCHANGED Rules!vars
  <2>1. /\ UNCHANGED <<queue, store, handle, answer, family>>
        /\ pc[i] = "reply" /\ pc'[i] = "done"
        /\ \A j \in Request \ {i} : pc'[j] = pc[j] /\ token'[j] = token[j]
    BY <1>9 DEF Reply, Drained, Inv, TypeOK, server, history
  <2> QED
    BY <2>1, QuietSteps
<1>10. CASE RemoveNext
  BY <1>10, RemovalIsNoStep
<1>11. CASE Tick \/ UNCHANGED vars
  <2>1. UNCHANGED <<queue, store, handle, answer, family, pc, token>>
    BY <1>11 DEF Tick, vars, server, request, history
  <2> QED
    BY <2>1, QuietSteps
<1>12. ~WorkItemFails /\ \A c \in Client : ~RevokeGrants(c)
  BY DEF OnlyGrace, WorkItemFails, RevokeGrants
<1> QED
  BY <1>1, <1>2, <1>3, <1>4, <1>5, <1>6, <1>7, <1>8, <1>9, <1>10, <1>11, <1>12
  DEF Next, Serve, Worker, Quiescent

\* As long as requests come one at a time and the worker keeps up, the service with a
\* grace does what its README promises, in atomic steps, for any number of requests
\* (GraceRefreshTokenService and MyDefaultRefreshTokenStore).
THEOREM ServiceFollowsRules ==
    ASSUME OnlyGrace
    PROVE  Spec => RulesFollowed
<1>1. Spec => []Drained
  BY DrainedHolds
<1>2. Drained /\ [Next]_vars => [Rules!Next]_(Rules!vars)
  BY NextFollowsRules
<1> QED
  BY <1>1, <1>2, InitFollowsRules, PTL DEF Spec, Rules!Spec, RulesFollowed

\* What is proved of the rules.
Proved == INSTANCE GraceRulesProofs
             WITH Handle <- Request, MaxUses <- MaxRedemptions(Redeemer),
                  issued <- RulesIssued, live <- RulesLive, family <- RulesFamily,
                  child <- RulesChild, parent <- RulesParent, uses <- RulesUses

\* A sign-in never has more than two tokens that can be used, a parent and its latest
\* child, for any number of requests that come one at a time (README, rules 2 and 4).
THEOREM CouplesAtMost ==
    ASSUME OnlyGrace
    PROVE  Spec => []AtMostACouple
<1>1. Rules!Init => Proved!Init
  BY DEF Rules!Init, Proved!Init
<1>2. [Rules!Next]_(Rules!vars) => [Proved!Next]_(Proved!vars)
  BY DEF Rules!Next, Proved!Next, Rules!vars, Proved!vars, Rules!SignIn, Proved!SignIn,
         Rules!Redeem, Proved!Redeem, Rules!Refuse, Proved!Refuse, Rules!Forget,
         Proved!Forget
<1>3. Proved!FamilyIsCouple => AtMostACouple
  BY DEF Proved!FamilyIsCouple, AtMostACouple, Rules!FamilyIsCouple, Proved!Couple,
         Rules!Couple
<1>4. Proved!Spec => []Proved!FamilyIsCouple
  BY Proved!RulesKeepACouple
<1>5. Spec => Rules!Spec
  BY ServiceFollowsRules DEF RulesFollowed
<1> QED
  BY <1>1, <1>2, <1>3, <1>4, <1>5, PTL DEF Proved!Spec, Rules!Spec
=============================================================================
