-------------------------- MODULE GraceRefreshToken --------------------------
(***************************************************************************)
(* Refresh tokens with a grace period: GraceRefreshTokenService over       *)
(* MyDefaultRefreshTokenStore, with the background queue that carries out   *)
(* every removal.                                                          *)
(*                                                                         *)
(* Token requests are handled concurrently by the web server.  A handler   *)
(* is split at each of its accesses to the shared store and to the queue:  *)
(* what it read earlier may be stale when it writes it back.  Removing a   *)
(* token only enqueues a work item; one background worker takes the items  *)
(* in order.                                                               *)
(*                                                                         *)
(* A request mints at most one token, so a handle is named by the request  *)
(* that minted it: `handle[i] = h' says that request i presented token h,  *)
(* `answer[i] = i' that it minted a token of its own.                      *)
(***************************************************************************)
EXTENDS Integers, Sequences, FiniteSets

CONSTANTS
    Request,        \* token requests, and the handles they mint
    Client,         \* the registered clients (ClientExtra)
    Null,           \* no handle, no record, no client
    ClientConfig,   \* the settings of each client
    MaxTime,        \* bound: the clock stops here
    Pacing,         \* how the environment spaces its requests, see MayStart
    StoreFaults,    \* may the removal run by the worker throw?
    Revocation      \* may the user revoke the grants of a client?

\* ConsumedTime is a nullable DateTime; clock readings are natural numbers.
NotConsumed == -1

Settings ==
    [usage            : {"OneTimeOnly", "ReUse"},
     expiration       : {"Absolute", "Sliding"},
     absoluteLifetime : Nat,
     slidingLifetime  : Nat,
     graceEnabled     : BOOLEAN,
     graceTTL         : Nat,
     graceMaxAttempts : Nat]

ASSUME ClientConfigType == ClientConfig \in [Client -> Settings]
ASSUME MaxTimeType == MaxTime \in Nat
ASSUME PacingType == Pacing \in {"concurrent", "sequential", "drained"}
ASSUME SwitchesType == StoreFaults \in BOOLEAN /\ Revocation \in BOOLEAN

\* RefreshTokenExtra.  Null is neither a handle nor a stored token.
Token ==
    [client           : Client,
     creationTime     : 0 .. MaxTime,
     lifetime         : Int,
     consumedTime     : {NotConsumed} \cup (0 .. MaxTime),
     consumedAttempts : Nat,
     parent           : Request \cup {Null},
     child            : Request \cup {Null}]

ASSUME NullIsFresh == Null \notin Request /\ Null \notin Client /\ Null \notin Token

VARIABLES
    now,        \* the clock, in seconds
    store,      \* the persisted grants: a token or Null for every handle
    queue,      \* handles whose removal waits for the background worker
    pc,         \* where the handler of each request is
    handle,     \* the handle a request presented
    caller,     \* the client that sent the request
    token,      \* the handler's own copy of the token it validated
    answer,     \* the handle the handler is to return, or Null
    delivered,  \* handles that reached a client
    \* History, read by no action:
    family,     \* the token issued at sign-in from which a token descends
    born,       \* when a token was minted
    revoked     \* families whose grants the user revoked

server  == <<store, queue>>
request == <<pc, handle, caller, token, answer, delivered>>
history == <<family, born, revoked>>
vars    == <<now, server, request, history>>

-----------------------------------------------------------------------------
(* Operators *)

Config(i) == ClientConfig[caller[i]]

Graceful(i) == Config(i).usage = "OneTimeOnly" /\ Config(i).graceEnabled

Pending == {queue[n] : n \in DOMAIN queue}

Answered(i) == pc[i] \in {"reply", "done"}

\* The clock is past a moment by more than a number of seconds.
HasExceeded(time, seconds) == now > time + seconds

\* The absolute lifetime caps every other one; zero leaves it unbounded.
Capped(config, lifetime) ==
    IF config.absoluteLifetime > 0 /\ lifetime > config.absoluteLifetime
    THEN config.absoluteLifetime
    ELSE lifetime

FirstLifetime(config) ==
    IF config.expiration = "Absolute"
    THEN config.absoluteLifetime
    ELSE Capped(config, config.slidingLifetime)

SlidLifetime(config, t) ==
    IF config.expiration = "Sliding"
    THEN Capped(config, (now - t.creationTime) + config.slidingLifetime)
    ELSE t.lifetime

Slid(config, t) == [t EXCEPT !.lifetime = SlidLifetime(config, t)]

\* Mutant: one attempt too many.
AcceptConsumedOffByOne(config, t) ==
    IF config.graceEnabled
    THEN /\ ~HasExceeded(t.consumedTime, config.graceTTL)
         /\ t.consumedAttempts <= config.graceMaxAttempts
    ELSE config.usage # "OneTimeOnly"

\* A token that is not consumed passes; a consumed one needs the grace.
AcceptConsumed(config, t) ==
    IF config.graceEnabled
    THEN /\ ~HasExceeded(t.consumedTime, config.graceTTL)
         /\ t.consumedAttempts < config.graceMaxAttempts
    ELSE config.usage # "OneTimeOnly"

Accepts(c, t) ==
    /\ t # Null
    /\ ~HasExceeded(t.creationTime, t.lifetime)
    /\ t.client = c
    /\ t.consumedTime # NotConsumed => AcceptConsumed(ClientConfig[c], t)

\* Mutant: every redemption restarts the grace period.
ConsumedAgain(t) ==
    [t EXCEPT !.consumedTime = now, !.consumedAttempts = @ + 1]

\* A handler's copy, marked as redeemed once more.
Consumed(t) ==
    [t EXCEPT !.consumedTime = IF @ = NotConsumed THEN now ELSE @,
              !.consumedAttempts = @ + 1]

\* Mutants: the lifetime starts again; the link to the presented token is lost; the
\* child keeps the child of its parent.
ChildOfRenewed(h, t) ==
    [t EXCEPT !.creationTime = now, !.consumedTime = NotConsumed,
              !.parent = h, !.child = Null]
ChildOfOrphaned(h, t) == [t EXCEPT !.consumedTime = NotConsumed, !.child = Null]
ChildOfWithChild(h, t) == [t EXCEPT !.consumedTime = NotConsumed, !.parent = h]

\* What is stored for the new token: the copy, unconsumed, below its parent.
ChildOf(h, t) ==
    [t EXCEPT !.consumedTime = NotConsumed, !.parent = h, !.child = Null]

\* Mutant: the saved ConsumedTime is not restored.
ParentOfUnconsumed(k, t, graceful) ==
    [t EXCEPT !.parent = Null, !.child = IF graceful THEN k ELSE Null,
              !.consumedTime = NotConsumed]

\* What is stored for the presented token once its child k exists.
ParentOf(k, t, graceful) ==
    [t EXCEPT !.parent = Null, !.child = IF graceful THEN k ELSE Null]

\* How far apart requests are sent: without regard to one another, one at a
\* time, or one at a time and after the worker has caught up.
MayStart(i) ==
    /\ pc[i] = "idle"
    /\ Pacing # "concurrent" => \A j \in Request : pc[j] \in {"idle", "done"}
    /\ Pacing = "drained" => queue = <<>>

-----------------------------------------------------------------------------
(* Sign-in *)

\* CreateRefreshTokenAsync, for the token request i of client c.
CreateRefreshToken(i, c) ==
    /\ MayStart(i)
    /\ store' = [store EXCEPT ![i] =
                    [client           |-> c,
                     creationTime     |-> now,
                     lifetime         |-> FirstLifetime(ClientConfig[c]),
                     consumedTime     |-> NotConsumed,
                     consumedAttempts |-> 0,
                     parent           |-> Null,
                     child            |-> Null]]
    /\ pc' = [pc EXCEPT ![i] = "reply"]
    /\ caller' = [caller EXCEPT ![i] = c]
    /\ answer' = [answer EXCEPT ![i] = i]
    /\ family' = [family EXCEPT ![i] = i]
    /\ born' = [born EXCEPT ![i] = now]
    /\ UNCHANGED <<now, queue, handle, token, delivered, revoked>>

-----------------------------------------------------------------------------
(* Redeeming a refresh token *)

\* Client c sends a handle that some client has received.
Present(i, h, c) ==
    /\ MayStart(i)
    /\ h \in delivered
    /\ pc' = [pc EXCEPT ![i] = "validate"]
    /\ handle' = [handle EXCEPT ![i] = h]
    /\ caller' = [caller EXCEPT ![i] = c]
    /\ UNCHANGED <<now, server, token, answer, delivered, history>>

\* ValidateRefreshTokenAsync: one read of the store decides.
Validate(i) ==
    LET t == store[handle[i]] IN
    /\ pc[i] = "validate"
    /\ IF Accepts(caller[i], t)
       THEN /\ pc' = [pc EXCEPT ![i] = "update"]
            /\ token' = [token EXCEPT ![i] = t]
       ELSE /\ pc' = [pc EXCEPT ![i] = "refuse"]
            /\ UNCHANGED token
    /\ UNCHANGED <<now, server, handle, caller, answer, delivered, history>>

\* A refused handle is removed, whatever the reason and whoever sent it.
Refuse(i) ==
    /\ pc[i] = "refuse"
    /\ queue' = Append(queue, handle[i])
    /\ pc' = [pc EXCEPT ![i] = "done"]
    /\ UNCHANGED <<now, store, handle, caller, token, answer, delivered, history>>

\* UpdateRefreshTokenAsync, a token that may be used once: the copy is marked,
\* and without grace it is also written back.
Consume(i) ==
    /\ pc[i] = "update"
    /\ Config(i).usage = "OneTimeOnly"
    /\ token' = [token EXCEPT ![i] = Consumed(@)]
    /\ store' = IF Graceful(i) THEN store
                ELSE [store EXCEPT ![handle[i]] = Consumed(token[i])]
    /\ pc' = [pc EXCEPT ![i] = "mint"]
    /\ UNCHANGED <<now, queue, handle, caller, answer, delivered, history>>

\* The child is stored under a fresh handle.
MintChild(i) ==
    /\ pc[i] = "mint"
    /\ token' = [token EXCEPT ![i] = Slid(Config(i), @)]
    /\ store' = [store EXCEPT ![i] = ChildOf(handle[i], Slid(Config(i), token[i]))]
    /\ answer' = [answer EXCEPT ![i] = i]
    /\ family' = [family EXCEPT ![i] = family[handle[i]]]
    /\ born' = [born EXCEPT ![i] = now]
    /\ pc' = [pc EXCEPT ![i] = "link"]
    /\ UNCHANGED <<now, queue, handle, caller, delivered, revoked>>

\* The presented token is written back, whether or not it is still there; the
\* copy keeps the child and the parent it was read with.
LinkParent(i) ==
    /\ pc[i] = "link"
    /\ store' = [store EXCEPT ![handle[i]] = ParentOf(i, token[i], Graceful(i))]
    /\ pc' = [pc EXCEPT ![i] = IF Graceful(i) THEN "dropChild" ELSE "reply"]
    /\ UNCHANGED <<now, queue, handle, caller, token, answer, delivered, history>>

\* Mutant: the handle is not checked.
EnqueueUnchecked(h) == queue' = Append(queue, h)

\* MyDefaultRefreshTokenStore.RemoveRefreshTokenAsync, when there is a handle.
Enqueue(h) == queue' = IF h = Null THEN queue ELSE Append(queue, h)

\* Mutants: ChildHandle is read after it was overwritten; the old child stays; the
\* handler dereferences a missing child.
DropNewChild(i) ==
    /\ pc[i] = "dropChild"
    /\ Enqueue(i)
    /\ pc' = [pc EXCEPT ![i] = "dropParent"]
    /\ UNCHANGED <<now, store, handle, caller, token, answer, delivered, history>>
KeepOldChild(i) ==
    /\ pc[i] = "dropChild"
    /\ pc' = [pc EXCEPT ![i] = "dropParent"]
    /\ UNCHANGED <<now, server, handle, caller, token, answer, delivered, history>>
DropChildOrHang(i) ==
    /\ pc[i] = "dropChild"
    /\ token[i].child # Null
    /\ Enqueue(token[i].child)
    /\ pc' = [pc EXCEPT ![i] = "dropParent"]
    /\ UNCHANGED <<now, store, handle, caller, token, answer, delivered, history>>

DropOldChild(i) ==
    /\ pc[i] = "dropChild"
    /\ Enqueue(token[i].child)
    /\ pc' = [pc EXCEPT ![i] = "dropParent"]
    /\ UNCHANGED <<now, store, handle, caller, token, answer, delivered, history>>

\* Mutant: the parent stays.
KeepOldParent(i) ==
    /\ pc[i] = "dropParent"
    /\ pc' = [pc EXCEPT ![i] = "reply"]
    /\ UNCHANGED <<now, server, handle, caller, token, answer, delivered, history>>

DropOldParent(i) ==
    /\ pc[i] = "dropParent"
    /\ Enqueue(token[i].parent)
    /\ pc' = [pc EXCEPT ![i] = "reply"]
    /\ UNCHANGED <<now, store, handle, caller, token, answer, delivered, history>>

\* UpdateRefreshTokenAsync, a token that may be used again: the same handle is
\* returned, and written back only when its lifetime slides.
UpdateReusable(i) ==
    /\ pc[i] = "update"
    /\ Config(i).usage = "ReUse"
    /\ store' = IF Config(i).expiration = "Sliding"
                THEN [store EXCEPT ![handle[i]] = Slid(Config(i), token[i])]
                ELSE store
    /\ answer' = [answer EXCEPT ![i] = handle[i]]
    /\ pc' = [pc EXCEPT ![i] = "reply"]
    /\ UNCHANGED <<now, queue, handle, caller, token, delivered, history>>

\* The response reaches the client, or is lost on the way.
Reply(i) ==
    /\ pc[i] = "reply"
    /\ pc' = [pc EXCEPT ![i] = "done"]
    /\ token' = [token EXCEPT ![i] = Null]
    /\ delivered' \in {delivered, delivered \cup {answer[i]}}
    /\ UNCHANGED <<now, server, handle, caller, answer, history>>

-----------------------------------------------------------------------------
(* The background worker, the user and the clock *)

\* The worker runs the oldest work item, which removes the grant if there is one.
RemoveNext ==
    /\ queue # <<>>
    /\ store' = [store EXCEPT ![Head(queue)] = Null]
    /\ queue' = Tail(queue)
    /\ UNCHANGED <<now, request, history>>

\* The work item throws: the worker logs the error and goes on to the next.
WorkItemFails ==
    /\ StoreFaults
    /\ queue # <<>>
    /\ queue' = Tail(queue)
    /\ UNCHANGED <<now, store, request, history>>

\* The user revokes what was granted to client c, once (bound).
RevokeGrants(c) ==
    /\ Revocation
    /\ revoked = {}
    /\ store' = [h \in Request |->
                    IF store[h] # Null /\ store[h].client = c THEN Null ELSE store[h]]
    /\ revoked' = {f \in Request : family[f] = f /\ caller[f] = c}
    /\ UNCHANGED <<now, queue, request, family, born>>

Tick ==
    /\ now < MaxTime
    /\ now' = now + 1
    /\ UNCHANGED <<server, request, history>>

\* Every request was served and the worker waits for work.
Quiescent ==
    /\ \A i \in Request : pc[i] = "done"
    /\ queue = <<>>
    /\ UNCHANGED vars

-----------------------------------------------------------------------------
Init ==
    /\ now = 0
    /\ store = [h \in Request |-> Null]
    /\ queue = <<>>
    /\ pc = [i \in Request |-> "idle"]
    /\ handle = [i \in Request |-> Null]
    /\ caller = [i \in Request |-> Null]
    /\ token = [i \in Request |-> Null]
    /\ answer = [i \in Request |-> Null]
    /\ delivered = {}
    /\ family = [h \in Request |-> Null]
    /\ born = [h \in Request |-> 0]
    /\ revoked = {}

Serve(i) ==
    \/ Validate(i)
    \/ Refuse(i)
    \/ Consume(i)
    \/ MintChild(i)
    \/ LinkParent(i)
    \/ DropOldChild(i)
    \/ DropOldParent(i)
    \/ UpdateReusable(i)
    \/ Reply(i)

Worker == RemoveNext \/ WorkItemFails

Next ==
    \/ \E i \in Request, c \in Client : CreateRefreshToken(i, c)
    \/ \E i, h \in Request, c \in Client : Present(i, h, c)
    \/ \E i \in Request : Serve(i)
    \/ Worker
    \/ \E c \in Client : RevokeGrants(c)
    \/ Tick
    \/ Quiescent

Spec == Init /\ [][Next]_vars

\* The web server schedules every handler and the host runs the worker; nothing
\* obliges clients to send requests, users to revoke, or the clock to tick.
Fairness == /\ \A i \in Request : WF_vars(Serve(i))
            /\ WF_vars(Worker)

FairSpec == Spec /\ Fairness
-----------------------------------------------------------------------------
(* Correctness *)

\* Every variable stays in its domain: a stored token is well formed, a handler
\* works on a token only between validating it and replying.
TypeOK ==
    /\ now \in 0 .. MaxTime
    /\ store \in [Request -> Token \cup {Null}]
    /\ queue \in Seq(Request)
    /\ pc \in [Request -> {"idle", "validate", "refuse", "update", "mint", "link",
                           "dropChild", "dropParent", "reply", "done"}]
    /\ handle \in [Request -> Request \cup {Null}]
    /\ caller \in [Request -> Client \cup {Null}]
    /\ token \in [Request -> Token \cup {Null}]
    /\ answer \in [Request -> Request \cup {Null}]
    /\ delivered \subseteq Request
    /\ family \in [Request -> Request \cup {Null}]
    /\ born \in [Request -> 0 .. MaxTime]
    /\ revoked \subseteq Request

Minted == {h \in Request : family[h] # Null}

\* The tokens minted by redeeming h, in whatever order.
Children(h) == {i \in Request : handle[i] = h /\ answer[i] = i}

WasPresented(h) == \E i \in Request : handle[i] = h

WasRefused(h) ==
    \E i \in Request : handle[i] = h /\ pc[i] = "done" /\ answer[i] = Null

RemovalReason(h) ==
    \/ WasRefused(h)
    \/ handle[h] # Null /\ Children(handle[h]) \ {h} # {}
    \/ \E k \in Children(h) : Children(k) # {}
    \/ family[h] \in revoked

\* A token is only ever removed, or queued for removal, because it was refused,
\* because its parent was redeemed again, because one of its children was
\* redeemed, or because the user revoked it.  However requests overlap, no token
\* is lost by mistake (the removals of UpdateRefreshTokenAsync and
\* ValidateRefreshTokenAsync).
RemovalJustified ==
    \A h \in Minted : store[h] = Null \/ h \in Pending => RemovalReason(h)

\* Token k is in the store and will stay there until somebody presents it.
Safe(k) ==
    \/ WasPresented(k)
    \/ family[k] \in revoked
    \/ store[k] # Null /\ k \notin Pending

\* The child that a stored token names is safe: a client that lost the response
\* and asks again with the parent always gets a token it can redeem.
LatestChildKept ==
    \A h \in Request :
        store[h] # Null /\ store[h].child # Null => Safe(store[h].child)

\* Request i is found acceptable in this step.
Admits(i) == pc[i] = "validate" /\ pc'[i] = "update"

\* However often a token is rotated, slid or written back from a stale copy, no
\* descendant is accepted once the absolute lifetime of the sign-in is over.
LifetimeNotExtended ==
    [][\A i \in Request :
          Admits(i) /\ Config(i).absoluteLifetime > 0 =>
              now <= born[family[handle[i]]] + Config(i).absoluteLifetime]_vars

\* A token marked as consumed never becomes a fresh one again, not even when an
\* older copy of it is written back (the save and restore of ConsumedTime).
ConsumedForGood ==
    [][\A h \in Request :
          store[h] # Null /\ store'[h] # Null =>
              (store[h].consumedTime # NotConsumed =>
                  store'[h].consumedTime # NotConsumed)]_vars

\* How often a token of client c may be redeemed: the first time, and while the
\* attempts counted so far are below the maximum of the grace.
MaxRedemptions(c) ==
    IF ClientConfig[c].graceEnabled /\ ClientConfig[c].graceMaxAttempts > 1
    THEN ClientConfig[c].graceMaxAttempts
    ELSE 1

\* A token is redeemed at most as often as its client is configured for.
AttemptsBound ==
    \A i \in Request :
        handle[i] # Null /\ Config(i).usage = "OneTimeOnly" =>
            Cardinality(Children(handle[i])) <= MaxRedemptions(caller[handle[i]])

\* A token is accepted again only within the grace period that its first
\* redemption started.
GraceWindow ==
    [][\A i \in Request :
          Admits(i) /\ Graceful(i) =>
              \A k \in Children(handle[i]) :
                  now <= born[k] + Config(i).graceTTL]_vars

\* Every request that was sent is answered, accepted or not.
RequestsServed == \A i \in Request : pc[i] # "idle" ~> pc[i] = "done"

\* A child of h was redeemed, with grace: the client received that child.
Retired(h) ==
    \E k \in Children(h), i \in Request :
        i \in Children(k) /\ Answered(i) /\ Graceful(i)

\* Once a child has been redeemed its parent leaves the store for good (while
\* the worker's removals succeed).
ParentGone == \A h \in Request : [](Retired(h) => <>[](store[h] = Null))

\* A token that was redeemed outlives the removal of the token it came from: the
\* client that holds its newest child can go on.
UpgradedChildKept ==
    \A h \in Request :
        Children(h) # {} /\ h \in Pending =>
            \/ WasRefused(h)
            \/ \E k \in Children(h) : Children(k) # {}

\* What the user revoked is gone: no token of that sign-in is stored any more.
RevocationIsFinal ==
    \A h \in Request : store[h] # Null => family[h] \notin revoked
=============================================================================
