------------------------- MODULE TokenEndpointProofs -------------------------
(***************************************************************************)
(* What holds of token requests for every number of requests, clients,     *)
(* settings and forms.                                                     *)
(***************************************************************************)
EXTENDS TokenEndpoint, FiniteSetTheorems, TLAPS

\* Requests that are past the identification of their client and still running.
Running == {"scopes", "password", "form", "lifetime", "override", "claims", "issue"}

\* Only a finished request has a token.
IssuedAtTheEnd == \A i \in Request : issued[i] # Null => pc[i] = "done"

\* The lifetimes that a token may be given.
AttachedInRange ==
    \A i \in Request :
        pc[i] \in Running \cup {"done"} => attached[i] \in 1 .. Config(i).lifetime

\* The override that is about to be written was compared with an object that never
\* exceeds its registration.
OverrideInRange ==
    \A i \in Request :
        pc[i] = "override" => form[i].lifetime \in 1 .. Config(i).lifetime

LifetimeInv ==
    TypeOK /\ IssuedAtTheEnd /\ AttachedInRange /\ OverrideInRange /\ LifetimesInRange

-----------------------------------------------------------------------------
(* Each step of a request, with what it leaves alone *)

\* A request of a known client is for a client with settings.
LEMMA KnownClient ==
    ASSUME TypeOK, NEW i \in Request, pc[i] \notin {"idle", "refused"}
    PROVE  /\ form[i] \in Forms /\ form[i] \in Form /\ form[i].client \in Client
           /\ Config(i) \in Settings /\ Config(i).lifetime \in Nat \ {0}
<1>1. form[i] \in Form /\ form[i].client # Null
  BY DEF TypeOK
<1>2. form[i] \in Forms
  BY <1>1, FormType
<1>3. form[i].client \in Client
  BY <1>1, <1>2 DEF Forms
<1>4. Config(i) \in Settings
  BY <1>3, ClientConfigType DEF Config
<1>5. Config(i).lifetime \in Nat \ {0}
  BY <1>4 DEF Settings
<1> QED
  BY <1>1, <1>2, <1>3, <1>4, <1>5

LEMMA InitTypes == Init => TypeOK
  BY ClientConfigType DEF Init, TypeOK, Settings

\* What the claims service returns is a set of claims.
LEMMA ClaimsAreClaims ==
    ASSUME TypeOK, NEW i \in Request
    PROVE  AccessTokenClaims(i) \subseteq BaseClaims(i) /\ BaseClaims(i) \subseteq Claim
<1>1. AccessTokenClaims(i) \subseteq BaseClaims(i)
  BY DEF AccessTokenClaims
<1>2. optionalClaims[i] \subseteq Claim
  BY DEF TypeOK
<1>3. {"amr", "client_id"} \subseteq ClaimType
  BY ClaimTypes
<1>4. {[type |-> t, by |-> Issuer] : t \in {"client_id", "amr"}} \subseteq Claim
  BY <1>3 DEF Claim
<1>5. [type |-> "amr", by |-> i] \in Claim
  BY <1>3 DEF Claim
<1> QED
  BY <1>1, <1>2, <1>4, <1>5 DEF BaseClaims

\* A step of one request, all but its token: the parts of the type invariant.
LEMMA NextTypes == TypeOK /\ [Next]_vars => TypeOK'
<1> SUFFICES ASSUME TypeOK, [Next]_vars PROVE TypeOK'
  OBVIOUS
<1> DEFINE Places == Finished \cup
                {"idle", "scopes", "password", "form", "lifetime", "override",
                 "claims", "issue"}
<1>1. ASSUME NEW i \in Request, NEW f \in Form, Authenticate(i, f) PROVE TypeOK'
  <2>1. form' = [form EXCEPT ![i] = f] /\ pc[i] = "idle"
        /\ UNCHANGED <<accessTokenLifetime, optionalClaims, issued>>
    BY <1>1 DEF Authenticate
  <2>2. CASE Authenticated(f)
    <3>1. /\ pc' = [pc EXCEPT ![i] = IF f.grant = "refresh_token"
                                     THEN "refresh" ELSE "scopes"]
          /\ attached' = [attached EXCEPT ![i] = accessTokenLifetime[f.client]]
          /\ f.client # Null
      BY <1>1, <2>2 DEF Authenticate, Authenticated, GoTo
    <3>2. f.client \in Client
      BY <3>1, FormType DEF Forms
    <3>3. accessTokenLifetime[f.client] \in Int
      BY <3>2 DEF TypeOK
    <3>4. pc' \in [Request -> Places] /\ attached' \in [Request -> Int]
      BY <3>1, <3>3 DEF TypeOK, Finished
    <3>5. f # Null
      BY FormType, NullIsFresh
    <3>6. form' \in [Request -> Form \cup {Null}]
      BY <2>1 DEF TypeOK
    <3>7. ASSUME NEW j \in Request, pc'[j] \notin {"idle", "refused"}
          PROVE  form'[j] # Null /\ form'[j].client # Null
      BY <2>1, <3>1, <3>5, <3>7 DEF TypeOK
    <3> QED
      BY <2>1, <3>4, <3>6, <3>7 DEF TypeOK
  <2>3. CASE ~Authenticated(f)
    <3>1. pc' = [pc EXCEPT ![i] = "refused"] /\ attached' = attached
      BY <1>1, <2>3 DEF Authenticate, GoTo
    <3> QED
      BY <2>1, <3>1 DEF TypeOK, Finished
  <2> QED
    BY <2>2, <2>3
<1>2. ASSUME NEW i \in Request,
             ValidateScopes(i) \/ CheckPassword(i) \/ ValidateForm(i) \/ CheckLifetime(i)
      PROVE  TypeOK'
  <2>1. /\ UNCHANGED <<accessTokenLifetime, form, attached, optionalClaims, issued>>
        /\ pc[i] \notin {"idle", "refused"}
    BY <1>2 DEF ValidateScopes, CheckPassword, ValidateForm, CheckLifetime
  <2>2. \E place \in Places : pc' = [pc EXCEPT ![i] = place]
    <3>1. CASE ValidateScopes(i)
      BY <3>1 DEF ValidateScopes, GoTo, Finished
    <3>2. CASE CheckPassword(i)
      BY <3>2 DEF CheckPassword, GoTo, Finished
    <3>3. CASE ValidateForm(i)
      BY <3>3 DEF ValidateForm, GoTo, Finished
    <3>4. CASE CheckLifetime(i)
      BY <3>4 DEF CheckLifetime, GoTo, Finished
    <3> QED
      BY <1>2, <3>1, <3>2, <3>3, <3>4
  <2> QED
    BY <2>1, <2>2 DEF TypeOK
<1>3. ASSUME NEW i \in Request, OverrideLifetime(i) PROVE TypeOK'
  <2>1. /\ pc[i] = "override" /\ pc' = [pc EXCEPT ![i] = "claims"]
        /\ accessTokenLifetime' =
               [accessTokenLifetime EXCEPT ![form[i].client] = form[i].lifetime]
        /\ UNCHANGED <<form, attached, optionalClaims, issued>>
    BY <1>3 DEF OverrideLifetime, GoTo
  <2>2. form[i].lifetime \in Int
    BY <2>1, KnownClient DEF Forms, NotAsked
  <2>3. accessTokenLifetime' \in [Client -> Int]
    BY <2>1, <2>2 DEF TypeOK
  <2>4. pc' \in [Request -> Places]
    BY <2>1 DEF TypeOK
  <2>5. ASSUME NEW j \in Request, pc'[j] \notin {"idle", "refused"}
        PROVE  form'[j] # Null /\ form'[j].client # Null
    BY <2>1, <2>5 DEF TypeOK
  <2> QED
    BY <2>1, <2>3, <2>4, <2>5 DEF TypeOK
<1>4. ASSUME NEW i \in Request, CollectClaims(i) PROVE TypeOK'
  <2>1. /\ pc[i] = "claims" /\ pc' = [pc EXCEPT ![i] = "issue"]
        /\ optionalClaims' = [optionalClaims EXCEPT ![i] = @ \cup Asked(i)]
        /\ UNCHANGED <<accessTokenLifetime, form, attached, issued>>
    BY <1>4 DEF CollectClaims, GoTo
  <2>2. form[i].claims \subseteq ClaimType /\ form[i].extras \subseteq ClaimType
    BY <2>1, KnownClient, ClaimTypes DEF Forms
  <2>3. Asked(i) \subseteq Claim
    BY <2>2 DEF Asked, Claim
  <2>4. optionalClaims' \in [Request -> SUBSET Claim]
    BY <2>1, <2>3 DEF TypeOK
  <2> QED
    BY <2>1, <2>4 DEF TypeOK
<1>5. ASSUME NEW i \in Request, Issue(i) PROVE TypeOK'
  <2>1. /\ pc[i] = "issue" /\ pc' = [pc EXCEPT ![i] = "done"]
        /\ UNCHANGED <<accessTokenLifetime, form, attached, optionalClaims>>
    BY <1>5 DEF Issue, GoTo
  <2>2. PICK lifetime \in {attached[i], accessTokenLifetime[form[i].client]} :
            issued' = [issued EXCEPT ![i] =
                          [lifetime |-> lifetime, claims |-> AccessTokenClaims(i)]]
    BY <1>5 DEF Issue
  <2>3. lifetime \in Int
    BY <2>1, KnownClient DEF TypeOK
  <2>4. AccessTokenClaims(i) \in SUBSET Claim
    BY ClaimsAreClaims
  <2>5. issued' \in [Request -> Token \cup {Null}]
    BY <2>2, <2>3, <2>4 DEF Token, TypeOK
  <2> QED
    BY <2>1, <2>5 DEF TypeOK, Finished
<1>6. CASE UNCHANGED vars
  BY <1>6 DEF vars, TypeOK
<1> QED
  BY <1>1, <1>2, <1>3, <1>4, <1>5, <1>6 DEF Next, Handle, Quiescent

-----------------------------------------------------------------------------
(* Lifetimes *)

LEMMA InitLifetimes == Init => LifetimeInv
<1> SUFFICES ASSUME Init PROVE LifetimeInv
  OBVIOUS
<1>1. \A c \in Client : ClientConfig[c].lifetime \in Nat \ {0}
  BY ClientConfigType DEF Settings
<1>2. LifetimesInRange
  BY <1>1 DEF Init, LifetimesInRange
<1> QED
  BY <1>2, InitTypes
     DEF Init, LifetimeInv, IssuedAtTheEnd, AttachedInRange, OverrideInRange, Running

LEMMA NextLifetimes == LifetimeInv /\ [Next]_vars => LifetimeInv'
<1> SUFFICES ASSUME LifetimeInv, [Next]_vars PROVE LifetimeInv'
  OBVIOUS
<1>0. /\ TypeOK /\ IssuedAtTheEnd /\ AttachedInRange /\ OverrideInRange
      /\ LifetimesInRange /\ TypeOK'
  BY NextTypes DEF LifetimeInv
<1> DEFINE Rest == (IssuedAtTheEnd /\ AttachedInRange /\ OverrideInRange
                      /\ LifetimesInRange)'
<1>1. ASSUME NEW i \in Request, NEW f \in Form, Authenticate(i, f) PROVE Rest
  <2>1. form' = [form EXCEPT ![i] = f] /\ pc[i] = "idle" /\ issued[i] = Null
        /\ UNCHANGED <<accessTokenLifetime, optionalClaims, issued>>
    BY <1>0, <1>1 DEF Authenticate, IssuedAtTheEnd
  <2>2. \A j \in Request \ {i} : pc'[j] = pc[j] /\ form'[j] = form[j]
                                /\ attached'[j] = attached[j]
    BY <1>0, <1>1, <2>1 DEF Authenticate, GoTo, TypeOK
  <2>3. /\ pc'[i] \in {"refresh", "scopes", "refused"}
        /\ form'[i] = f
        /\ pc'[i] \in {"refresh", "scopes"} =>
               f.client # Null /\ attached'[i] = accessTokenLifetime[f.client]
    <3>1. CASE Authenticated(f)
      <4>1. /\ pc' = [pc EXCEPT ![i] = IF f.grant = "refresh_token"
                                       THEN "refresh" ELSE "scopes"]
            /\ attached' = [attached EXCEPT ![i] = accessTokenLifetime[f.client]]
            /\ f.client # Null
        BY <1>1, <3>1 DEF Authenticate, Authenticated, GoTo
      <4> QED
        BY <1>0, <2>1, <4>1 DEF TypeOK
    <3>2. CASE ~Authenticated(f)
      <4>1. pc' = [pc EXCEPT ![i] = "refused"]
        BY <1>1, <3>2 DEF Authenticate, GoTo
      <4> QED
        BY <1>0, <2>1, <4>1 DEF TypeOK
    <3> QED
      BY <3>1, <3>2
  <2>4. IssuedAtTheEnd'
    BY <1>0, <2>1, <2>2 DEF IssuedAtTheEnd
  <2>5. AttachedInRange'
    <3>1. f.client # Null => f.client \in Client
      BY FormType DEF Forms
    <3>2. ASSUME NEW j \in Request, pc'[j] \in Running \cup {"done"}
          PROVE  attached'[j] \in 1 .. Config(j)'.lifetime
      <4>1. CASE j = i
        <5>1. pc'[i] \in {"refresh", "scopes"}
          BY <2>3, <3>2, <4>1 DEF Running
        <5> QED
          BY <1>0, <2>3, <3>1, <4>1, <5>1 DEF LifetimesInRange, Config
      <4>2. CASE j # i
        BY <1>0, <2>2, <3>2, <4>2 DEF AttachedInRange, Config
      <4> QED
        BY <4>1, <4>2
    <3> QED
      BY <3>2 DEF AttachedInRange
  <2>6. OverrideInRange'
    BY <1>0, <2>2, <2>3 DEF OverrideInRange, Config
  <2>7. LifetimesInRange'
    BY <1>0, <2>1, <2>2 DEF LifetimesInRange, Config
  <2> QED
    BY <2>4, <2>5, <2>6, <2>7
<1>2. ASSUME NEW i \in Request,
             \/ ValidateScopes(i) \/ CheckPassword(i) \/ ValidateForm(i)
             \/ CheckLifetime(i) \/ CollectClaims(i)
      PROVE  Rest
  <2>1. /\ UNCHANGED <<accessTokenLifetime, form, attached, issued>>
        /\ pc[i] \in Running
    BY <1>2 DEF ValidateScopes, CheckPassword, ValidateForm, CheckLifetime,
                CollectClaims, Running
  <2>2. PICK place : pc' = [pc EXCEPT ![i] = place]
    BY <1>2 DEF ValidateScopes, CheckPassword, ValidateForm, CheckLifetime,
                CollectClaims, GoTo
  <2>3. \A j \in Request \ {i} : pc'[j] = pc[j]
    BY <1>0, <2>2 DEF TypeOK
  <2>4. issued[i] = Null
    BY <1>0, <2>1 DEF IssuedAtTheEnd, Running
  <2>5. IssuedAtTheEnd'
    BY <1>0, <2>1, <2>3, <2>4 DEF IssuedAtTheEnd
  <2>6. AttachedInRange'
    BY <1>0, <2>1, <2>3 DEF AttachedInRange, Config
  <2>7. pc'[i] = "override" => form[i].lifetime \in 1 .. Config(i).lifetime
    <3>1. CASE CheckLifetime(i)
      <4>1. pc[i] = "lifetime"
            /\ pc' = [pc EXCEPT ![i] =
                         IF form[i].lifetime = NotAsked THEN "claims"
                         ELSE IF form[i].lifetime
                                     \in 1 .. accessTokenLifetime[form[i].client]
                         THEN "override" ELSE "refused"]
        BY <3>1 DEF CheckLifetime, GoTo
      <4>2. pc'[i] = "override" =>
                form[i].lifetime \in 1 .. accessTokenLifetime[form[i].client]
        BY <1>0, <4>1 DEF TypeOK
      <4>3. /\ form[i].client \in Client
            /\ accessTokenLifetime[form[i].client] \in 1 .. Config(i).lifetime
            /\ Config(i).lifetime \in Nat
            /\ form[i].lifetime \in Int
        BY <1>0, <4>1, KnownClient DEF LifetimesInRange, Config, Forms, NotAsked
      <4> QED
        BY <4>2, <4>3
    <3>2. CASE ~CheckLifetime(i)
      <4>1. \E there \in {"password", "form", "refused", "issue", "lifetime"} :
                pc' = [pc EXCEPT ![i] = there]
        BY <1>2, <3>2
           DEF ValidateScopes, CheckPassword, ValidateForm, CollectClaims, GoTo
      <4> QED
        BY <1>0, <4>1 DEF TypeOK
    <3> QED
      BY <3>1, <3>2
  <2>8. OverrideInRange'
    BY <1>0, <2>1, <2>3, <2>7 DEF OverrideInRange, Config
  <2>9. LifetimesInRange'
    BY <1>0, <2>1 DEF LifetimesInRange, Config
  <2> QED
    BY <2>5, <2>6, <2>8, <2>9
<1>3. ASSUME NEW i \in Request, OverrideLifetime(i) PROVE Rest
  <2>1. /\ pc[i] = "override" /\ pc' = [pc EXCEPT ![i] = "claims"]
        /\ accessTokenLifetime' =
               [accessTokenLifetime EXCEPT ![form[i].client] = form[i].lifetime]
        /\ UNCHANGED <<form, attached, optionalClaims, issued>>
    BY <1>3 DEF OverrideLifetime, GoTo
  <2>2. form[i].lifetime \in 1 .. ClientConfig[form[i].client].lifetime
    BY <1>0, <2>1 DEF OverrideInRange, Config
  <2>3. \A c \in Client : accessTokenLifetime'[c] \in 1 .. ClientConfig[c].lifetime
    BY <1>0, <2>1, <2>2 DEF LifetimesInRange, TypeOK
  <2>4. LifetimesInRange'
    BY <1>0, <2>1, <2>3 DEF LifetimesInRange, Config
  <2>5. \A j \in Request : pc'[j] = IF j = i THEN "claims" ELSE pc[j]
    BY <1>0, <2>1 DEF TypeOK
  <2>6. IssuedAtTheEnd'
    BY <1>0, <2>1, <2>5 DEF IssuedAtTheEnd
  <2>7. AttachedInRange' /\ OverrideInRange'
    BY <1>0, <2>1, <2>5 DEF AttachedInRange, OverrideInRange, Config, Running
  <2> QED
    BY <2>4, <2>6, <2>7
<1>4. ASSUME NEW i \in Request, Issue(i) PROVE Rest
  <2>1. /\ pc[i] = "issue" /\ pc' = [pc EXCEPT ![i] = "done"]
        /\ UNCHANGED <<accessTokenLifetime, form, attached, optionalClaims>>
    BY <1>4 DEF Issue, GoTo
  <2>2. PICK lifetime \in {attached[i], accessTokenLifetime[form[i].client]} :
            issued' = [issued EXCEPT ![i] =
                          [lifetime |-> lifetime, claims |-> AccessTokenClaims(i)]]
    BY <1>4 DEF Issue
  <2>3. form[i].client \in Client
    BY <1>0, <2>1, KnownClient
  <2>4. lifetime \in 1 .. Config(i).lifetime
    BY <1>0, <2>1, <2>2, <2>3 DEF LifetimesInRange, AttachedInRange, Config, Running
  <2>5. \A j \in Request : pc'[j] = IF j = i THEN "done" ELSE pc[j]
    BY <1>0, <2>1 DEF TypeOK
  <2>6. /\ issued'[i].lifetime = lifetime
        /\ \A j \in Request \ {i} : issued'[j] = issued[j]
    BY <1>0, <2>2 DEF TypeOK
  <2>7. LifetimesInRange'
    BY <1>0, <2>1, <2>4, <2>6 DEF LifetimesInRange, Config
  <2>8. IssuedAtTheEnd'
    BY <1>0, <2>5, <2>6 DEF IssuedAtTheEnd
  <2>9. AttachedInRange' /\ OverrideInRange'
    BY <1>0, <2>1, <2>5 DEF AttachedInRange, OverrideInRange, Config, Running
  <2> QED
    BY <2>7, <2>8, <2>9
<1>5. CASE UNCHANGED vars
  <2>1. UNCHANGED <<accessTokenLifetime, pc, form, attached, issued>>
    BY <1>5 DEF vars
  <2> QED
    BY <1>0, <2>1 DEF LifetimeInv, IssuedAtTheEnd, AttachedInRange, OverrideInRange,
                      LifetimesInRange, Config
<1> QED
  BY <1>0, <1>1, <1>2, <1>3, <1>4, <1>5 DEF Next, Handle, Quiescent, LifetimeInv

-----------------------------------------------------------------------------
(* Claims *)

\* The optional claims of a request come from that request.
CollectedAreOwn == \A i \in Request : \A claim \in optionalClaims[i] : claim.by = i

ClaimInv == TypeOK /\ CollectedAreOwn /\ ClaimsAreOwn

LEMMA NextClaims == ClaimInv /\ [Next]_vars => ClaimInv'
<1> SUFFICES ASSUME ClaimInv, [Next]_vars PROVE ClaimInv'
  OBVIOUS
<1>0. TypeOK /\ CollectedAreOwn /\ ClaimsAreOwn /\ TypeOK'
  BY NextTypes DEF ClaimInv
<1>1. ASSUME NEW i \in Request, CollectClaims(i)
      PROVE  CollectedAreOwn' /\ ClaimsAreOwn'
  <2>1. /\ optionalClaims' = [optionalClaims EXCEPT ![i] = @ \cup Asked(i)]
        /\ UNCHANGED issued
    BY <1>1 DEF CollectClaims
  <2>2. \A claim \in Asked(i) : claim.by = i
    BY DEF Asked
  <2>3. CollectedAreOwn'
    BY <1>0, <2>1, <2>2 DEF CollectedAreOwn, TypeOK
  <2> QED
    BY <1>0, <2>1, <2>3 DEF ClaimsAreOwn
<1>2. ASSUME NEW i \in Request, Issue(i) PROVE CollectedAreOwn' /\ ClaimsAreOwn'
  <2>1. PICK lifetime :
            issued' = [issued EXCEPT ![i] =
                          [lifetime |-> lifetime, claims |-> AccessTokenClaims(i)]]
    BY <1>2 DEF Issue
  <2>2. UNCHANGED optionalClaims
    BY <1>2 DEF Issue
  <2>3. \A claim \in BaseClaims(i) : claim.by \in {i, Issuer}
    BY <1>0 DEF BaseClaims, CollectedAreOwn
  <2>4. \A claim \in AccessTokenClaims(i) : claim.by \in {i, Issuer}
    BY <1>0, <2>3, ClaimsAreClaims
  <2>5. /\ issued'[i].claims = AccessTokenClaims(i)
        /\ \A j \in Request \ {i} : issued'[j] = issued[j]
    BY <1>0, <2>1 DEF TypeOK
  <2>6. ClaimsAreOwn'
    BY <1>0, <2>4, <2>5 DEF ClaimsAreOwn
  <2> QED
    BY <1>0, <2>2, <2>6 DEF CollectedAreOwn
<1>3. CASE UNCHANGED <<optionalClaims, issued>>
  BY <1>0, <1>3 DEF ClaimInv, CollectedAreOwn, ClaimsAreOwn
<1>4. ASSUME NEW i \in Request, Handle(i), ~CollectClaims(i), ~Issue(i)
      PROVE  UNCHANGED <<optionalClaims, issued>>
  BY <1>4 DEF Handle, Authenticate, ValidateScopes, CheckPassword, ValidateForm,
              CheckLifetime, OverrideLifetime
<1> QED
  BY <1>0, <1>1, <1>2, <1>3, <1>4 DEF Next, Quiescent, vars, ClaimInv

-----------------------------------------------------------------------------
(* Secrets *)

LEMMA NextSecrets == TypeOK /\ SecretChecked /\ [Next]_vars => SecretChecked'
<1> SUFFICES ASSUME TypeOK, SecretChecked, [Next]_vars PROVE SecretChecked'
  OBVIOUS
<1>1. ASSUME NEW i \in Request, NEW f \in Form, Authenticate(i, f)
      PROVE  SecretChecked'
  <2>1. form' = [form EXCEPT ![i] = f]
    BY <1>1 DEF Authenticate
  <2>2. form'[i] = f /\ \A j \in Request \ {i} : form'[j] = form[j]
    BY <2>1 DEF TypeOK
  <2>3. CASE Authenticated(f)
    <3>1. pc' = [pc EXCEPT ![i] = IF f.grant = "refresh_token"
                                  THEN "refresh" ELSE "scopes"]
      BY <1>1, <2>3 DEF Authenticate, GoTo
    <3>2. /\ pc'[i] = IF f.grant = "refresh_token" THEN "refresh" ELSE "scopes"
          /\ \A j \in Request \ {i} : pc'[j] = pc[j]
      BY <3>1 DEF TypeOK
    <3>3. Config(i)' = ClientConfig[f.client]
          /\ \A j \in Request \ {i} : Config(j)' = Config(j)
      BY <2>2 DEF Config
    <3> QED
      BY <2>2, <2>3, <3>2, <3>3 DEF SecretChecked, Authenticated
  <2>4. CASE ~Authenticated(f)
    <3>1. pc' = [pc EXCEPT ![i] = "refused"]
      BY <1>1, <2>4 DEF Authenticate, GoTo
    <3>2. pc'[i] = "refused" /\ \A j \in Request \ {i} : pc'[j] = pc[j]
      BY <3>1 DEF TypeOK
    <3> QED
      BY <2>2, <3>2 DEF SecretChecked, Config
  <2> QED
    BY <2>3, <2>4
<1>2. ASSUME NEW i \in Request, Handle(i), \A f \in Form : ~Authenticate(i, f)
      PROVE  SecretChecked'
  <2>1. UNCHANGED form /\ pc[i] \in Running
    BY <1>2 DEF Handle, ValidateScopes, CheckPassword, ValidateForm, CheckLifetime,
                OverrideLifetime, CollectClaims, Issue, Running
  <2>2. PICK place : pc' = [pc EXCEPT ![i] = place]
    BY <1>2 DEF Handle, ValidateScopes, CheckPassword, ValidateForm, CheckLifetime,
                OverrideLifetime, CollectClaims, Issue, GoTo
  <2>3. \A j \in Request \ {i} : pc'[j] = pc[j]
    BY <2>2 DEF TypeOK
  <2>4. ~(Config(i).requireSecret /\ ~form[i].secret)
    BY <2>1 DEF SecretChecked, Running
  <2> QED
    BY <2>1, <2>3, <2>4 DEF SecretChecked, Config
<1>3. CASE UNCHANGED vars
  BY <1>3 DEF vars, SecretChecked, Config
<1> QED
  BY <1>1, <1>2, <1>3 DEF Next, Handle, Quiescent

-----------------------------------------------------------------------------
(* Protected claims, and the amr that was asked for *)

\* A request states protected claims through their own parameters only.
CollectedAsAllowed ==
    \A i \in Request : \A claim \in optionalClaims[i] :
        claim.type \in Protected => claim.type \in form[i].extras

\* Past ValidateForm, arbitrary_claims names nothing protected.
Examined ==
    \A i \in Request :
        pc[i] \in {"lifetime", "override", "claims"} => form[i].claims \cap Protected = {}

\* A request that has not begun has left nothing behind.
IdleIsClean ==
    \A i \in Request : pc[i] = "idle" => optionalClaims[i] = {} /\ issued[i] = Null

AskInv ==
    /\ ClaimInv
    /\ CollectedAsAllowed /\ Examined /\ IdleIsClean
    /\ ProtectedClaimsKept /\ RequestedAmrKept

\* The one amr that may be dropped is the framework's: with a requested one there
\* are two.
LEMMA RequestedAmrStays ==
    ASSUME TypeOK, CollectedAreOwn, NEW i \in Request, AsksAmr(i)
    PROVE  [type |-> "amr", by |-> i] \in AccessTokenClaims(i)
<1> DEFINE own == [type |-> "amr", by |-> i]
           framework == [type |-> "amr", by |-> Issuer]
           claims == BaseClaims(i)
           amrs == OfType(claims, "amr")
<1>1. own \in claims /\ framework \in claims
  BY DEF BaseClaims
<1>2. own \in amrs /\ framework \in amrs
  BY <1>1 DEF OfType
<1>3. own # framework
  BY NullIsFresh
<1>4. amrs \subseteq {own, framework}
  <2> SUFFICES ASSUME NEW claim \in amrs PROVE claim \in {own, framework}
    OBVIOUS
  <2>1. claim \in claims /\ claim.type = "amr"
    BY DEF OfType
  <2>2. claim \in Claim
    BY <2>1, ClaimsAreClaims
  <2>3. claim.by \in {i, Issuer}
    BY <2>1 DEF BaseClaims, CollectedAreOwn
  <2>4. claim = [type |-> claim.type, by |-> claim.by]
    BY <2>2 DEF Claim
  <2> QED
    BY <2>1, <2>3, <2>4
<1> HIDE DEF own, framework, claims, amrs
<1>5. Cardinality(amrs) # 1
  <2>1. amrs = {own, framework}
    BY <1>2, <1>4
  <2>2. IsFiniteSet({own}) /\ Cardinality({own}) = 1
    BY FS_Singleton
  <2>3. {own, framework} = {own} \cup {framework}
    OBVIOUS
  <2>4. Cardinality({own} \cup {framework}) = Cardinality({own}) + 1
    BY <1>3, <2>2, FS_AddElement
  <2> QED
    BY <2>1, <2>2, <2>3, <2>4
<1>6. own \notin OfType(claims, "client_id")
  BY DEF OfType, own
<1>7. AccessTokenClaims(i) =
        IF Config(i).includeClientId THEN claims
        ELSE claims \ (OfType(claims, "client_id") \cup
                       IF ~Config(i).includeAmr /\ Cardinality(amrs) = 1
                       THEN amrs ELSE {})
  BY DEF AccessTokenClaims, claims, amrs
<1> QED
  BY <1>1, <1>5, <1>6, <1>7 DEF own

LEMMA NextAsks == AskInv /\ [Next]_vars => AskInv'
<1> SUFFICES ASSUME AskInv, [Next]_vars PROVE AskInv'
  OBVIOUS
<1> DEFINE Rest == (CollectedAsAllowed /\ Examined /\ IdleIsClean
                      /\ ProtectedClaimsKept /\ RequestedAmrKept)'
<1>0. /\ TypeOK /\ CollectedAreOwn /\ CollectedAsAllowed /\ Examined /\ IdleIsClean
      /\ ProtectedClaimsKept /\ RequestedAmrKept /\ ClaimInv'
  BY NextClaims DEF AskInv, ClaimInv
<1>1. ASSUME NEW i \in Request, NEW f \in Form, Authenticate(i, f) PROVE Rest
  <2>1. /\ form' = [form EXCEPT ![i] = f] /\ pc[i] = "idle"
        /\ UNCHANGED <<optionalClaims, issued>>
    BY <1>1 DEF Authenticate
  <2>2. \E place \in {"refresh", "scopes", "refused"} : pc' = [pc EXCEPT ![i] = place]
    BY <1>1 DEF Authenticate, GoTo
  <2>3. /\ pc'[i] \in {"refresh", "scopes", "refused"}
        /\ optionalClaims[i] = {} /\ issued[i] = Null
        /\ \A j \in Request \ {i} : pc'[j] = pc[j] /\ form'[j] = form[j]
    BY <1>0, <2>1, <2>2 DEF TypeOK, IdleIsClean
  <2>4. (CollectedAsAllowed /\ Examined /\ IdleIsClean)'
    BY <1>0, <2>1, <2>3 DEF CollectedAsAllowed, Examined, IdleIsClean
  <2>5. (ProtectedClaimsKept /\ RequestedAmrKept)'
    BY <1>0, <2>1, <2>3 DEF ProtectedClaimsKept, RequestedAmrKept, AsksAmr
  <2> QED
    BY <2>4, <2>5
<1>2. ASSUME NEW i \in Request,
             \/ ValidateScopes(i) \/ CheckPassword(i) \/ ValidateForm(i)
             \/ CheckLifetime(i) \/ OverrideLifetime(i)
      PROVE  Rest
  <2>1. UNCHANGED <<form, optionalClaims, issued>> /\ pc[i] # "idle"
    BY <1>2 DEF ValidateScopes, CheckPassword, ValidateForm, CheckLifetime, OverrideLifetime
  <2>2. PICK place \in Running \cup {"refused"} : pc' = [pc EXCEPT ![i] = place]
    BY <1>2 DEF ValidateScopes, CheckPassword, ValidateForm, CheckLifetime,
                OverrideLifetime, GoTo, Running
  <2>3. pc'[i] = place /\ \A j \in Request \ {i} : pc'[j] = pc[j]
    BY <1>0, <2>2 DEF TypeOK
  <2>4. pc'[i] \in {"lifetime", "override", "claims"} => form[i].claims \cap Protected = {}
    <3>1. CASE ValidateForm(i)
      <4>1. pc' = [pc EXCEPT ![i] =
                     IF form[i].wellFormed /\ form[i].claims \cap Protected = {}
                     THEN "lifetime" ELSE "refused"]
        BY <3>1 DEF ValidateForm, GoTo
      <4> QED
        BY <1>0, <4>1 DEF TypeOK
    <3>2. CASE CheckLifetime(i) \/ OverrideLifetime(i)
      BY <1>0, <3>2 DEF CheckLifetime, OverrideLifetime, Examined
    <3>3. CASE ValidateScopes(i) \/ CheckPassword(i)
      <4>1. \E there \in {"password", "form", "refused", "issue"} :
                pc' = [pc EXCEPT ![i] = there]
        BY <3>3 DEF ValidateScopes, CheckPassword, GoTo
      <4> QED
        BY <1>0, <4>1 DEF TypeOK
    <3> QED
      BY <1>2, <3>1, <3>2, <3>3
  <2>5. (CollectedAsAllowed /\ Examined /\ IdleIsClean)'
    BY <1>0, <2>1, <2>2, <2>3, <2>4
       DEF CollectedAsAllowed, Examined, IdleIsClean, Running
  <2>6. (ProtectedClaimsKept /\ RequestedAmrKept)'
    BY <1>0, <2>1 DEF ProtectedClaimsKept, RequestedAmrKept, AsksAmr
  <2> QED
    BY <2>5, <2>6
<1>3. ASSUME NEW i \in Request, CollectClaims(i) PROVE Rest
  <2>1. /\ pc[i] = "claims" /\ pc' = [pc EXCEPT ![i] = "issue"]
        /\ optionalClaims' = [optionalClaims EXCEPT ![i] = @ \cup Asked(i)]
        /\ UNCHANGED <<form, issued>>
    BY <1>3 DEF CollectClaims, GoTo
  <2>2. \A claim \in Asked(i) : claim.type \in Protected => claim.type \in form[i].extras
    BY <1>0, <2>1 DEF Asked, Examined
  <2>3. /\ optionalClaims'[i] = optionalClaims[i] \cup Asked(i)
        /\ \A j \in Request \ {i} : optionalClaims'[j] = optionalClaims[j]
        /\ \A j \in Request : pc'[j] = IF j = i THEN "issue" ELSE pc[j]
    BY <1>0, <2>1 DEF TypeOK
  <2>4. CollectedAsAllowed'
    BY <1>0, <2>1, <2>2, <2>3 DEF CollectedAsAllowed
  <2>5. (Examined /\ IdleIsClean)'
    BY <1>0, <2>1, <2>3 DEF Examined, IdleIsClean
  <2>6. (ProtectedClaimsKept /\ RequestedAmrKept)'
    BY <1>0, <2>1 DEF ProtectedClaimsKept, RequestedAmrKept, AsksAmr
  <2> QED
    BY <2>4, <2>5, <2>6
<1>4. ASSUME NEW i \in Request, Issue(i) PROVE Rest
  <2>1. /\ pc[i] = "issue" /\ pc' = [pc EXCEPT ![i] = "done"]
        /\ UNCHANGED <<form, optionalClaims>>
    BY <1>4 DEF Issue, GoTo
  <2>2. PICK lifetime :
            issued' = [issued EXCEPT ![i] =
                          [lifetime |-> lifetime, claims |-> AccessTokenClaims(i)]]
    BY <1>4 DEF Issue
  <2>3. /\ issued'[i].claims = AccessTokenClaims(i)
        /\ \A j \in Request \ {i} : issued'[j] = issued[j]
        /\ \A j \in Request : pc'[j] = IF j = i THEN "done" ELSE pc[j]
    BY <1>0, <2>1, <2>2 DEF TypeOK
  <2>4. (CollectedAsAllowed /\ Examined /\ IdleIsClean)'
    BY <1>0, <2>1, <2>3 DEF CollectedAsAllowed, Examined, IdleIsClean
  <2>5. \A claim \in AccessTokenClaims(i) :
            claim.by = i /\ claim.type \in Protected =>
                claim.type \in form[i].extras \/ (claim.type = "amr" /\ AsksAmr(i))
    <3> SUFFICES ASSUME NEW claim \in AccessTokenClaims(i), claim.by = i,
                        claim.type \in Protected
                 PROVE  claim.type \in form[i].extras \/ (claim.type = "amr" /\ AsksAmr(i))
      OBVIOUS
    <3>1. claim \in BaseClaims(i)
      BY <1>0, ClaimsAreClaims
    <3>2. Issuer # i
      BY NullIsFresh
    <3>3. \/ claim \in optionalClaims[i]
          \/ claim \in {[type |-> t, by |-> Issuer] : t \in {"client_id", "amr"}}
          \/ AsksAmr(i) /\ claim = [type |-> "amr", by |-> i]
      <4>1. CASE AsksAmr(i)
        BY <3>1, <4>1 DEF BaseClaims
      <4>2. CASE ~AsksAmr(i)
        BY <3>1, <4>2 DEF BaseClaims
      <4> QED
        BY <4>1, <4>2
    <3>4. CASE claim \in optionalClaims[i]
      BY <1>0, <3>4 DEF CollectedAsAllowed
    <3>5. CASE claim \in {[type |-> t, by |-> Issuer] : t \in {"client_id", "amr"}}
      BY <3>2, <3>5
    <3>6. CASE AsksAmr(i) /\ claim = [type |-> "amr", by |-> i]
      BY <3>6
    <3> QED
      BY <3>3, <3>4, <3>5, <3>6
  <2>6. ProtectedClaimsKept'
    BY <1>0, <2>1, <2>3, <2>5 DEF ProtectedClaimsKept, AsksAmr
  <2>7. AsksAmr(i) => [type |-> "amr", by |-> i] \in AccessTokenClaims(i)
    BY <1>0, RequestedAmrStays
  <2>8. RequestedAmrKept'
    BY <1>0, <2>1, <2>3, <2>7 DEF RequestedAmrKept, AsksAmr
  <2> QED
    BY <2>4, <2>6, <2>8
<1>5. CASE UNCHANGED vars
  <2>1. UNCHANGED <<pc, form, optionalClaims, issued>>
    BY <1>5 DEF vars
  <2> QED
    BY <1>0, <2>1 DEF AskInv, CollectedAsAllowed, Examined, IdleIsClean,
                      ProtectedClaimsKept, RequestedAmrKept, AsksAmr
<1> QED
  BY <1>0, <1>1, <1>2, <1>3, <1>4, <1>5 DEF Next, Handle, Quiescent, AskInv

-----------------------------------------------------------------------------
(* Theorems *)

\* Type correctness of the token endpoint.
THEOREM TypesHold == Spec => []TypeOK
  BY InitTypes, NextTypes, PTL DEF Spec

\* However many requests override the lifetime of their tokens at the same time,
\* the shared client object and every issued token stay between one second and
\* the registered lifetime (the check and the assignment in
\* ArbitraryResourceOwnerGrantValidator.ValidateAsync).
THEOREM LifetimesStayInRange == Spec => []LifetimesInRange
<1>1. LifetimeInv => LifetimesInRange
  BY DEF LifetimeInv
<1> QED
  BY InitLifetimes, NextLifetimes, <1>1, PTL DEF Spec

\* No token carries what another request asked for (the scope of OptionalClaims).
THEOREM ClaimsStayOwn == Spec => []ClaimsAreOwn
<1>1. Init => ClaimInv
  BY InitTypes DEF Init, ClaimInv, CollectedAreOwn, ClaimsAreOwn
<1>2. ClaimInv => ClaimsAreOwn
  BY DEF ClaimInv
<1> QED
  BY <1>1, <1>2, NextClaims, PTL DEF Spec

\* A confidential client that shows no secret only ever gets to the refresh of a
\* token, if its registration allows that (MyClientSecretValidator).
THEOREM SecretsAreChecked == Spec => []SecretChecked
<1>1. Init => TypeOK /\ SecretChecked
  BY InitTypes DEF Init, SecretChecked
<1>2. TypeOK /\ SecretChecked /\ [Next]_vars => (TypeOK /\ SecretChecked)'
  BY NextTypes, NextSecrets
<1> QED
  BY <1>1, <1>2, PTL DEF Spec

LEMMA AskInvHolds == Spec => []AskInv
<1>1. Init => AskInv
  BY InitTypes DEF Init, AskInv, ClaimInv, CollectedAreOwn, ClaimsAreOwn,
                   CollectedAsAllowed, Examined, IdleIsClean, ProtectedClaimsKept,
                   RequestedAmrKept
<1> QED
  BY <1>1, NextAsks, PTL DEF Spec

\* A request states no protected claim but through the parameter made for it
\* (NotAllowedArbitraryClaims).
THEOREM ProtectedClaimsAreKept == Spec => []ProtectedClaimsKept
<1>1. AskInv => ProtectedClaimsKept
  BY DEF AskInv
<1> QED
  BY <1>1, AskInvHolds, PTL

\* An amr that was asked for is in the token, whatever else the request carries
\* (GetAccessTokenClaimsAsync).
THEOREM RequestedAmrIsKept == Spec => []RequestedAmrKept
<1>1. AskInv => RequestedAmrKept
  BY DEF AskInv
<1> QED
  BY <1>1, AskInvHolds, PTL
=============================================================================
