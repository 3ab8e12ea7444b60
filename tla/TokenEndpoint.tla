---------------------------- MODULE TokenEndpoint ----------------------------
(***************************************************************************)
(* Token requests on their way through the validators of this host:        *)
(* MyClientSecretValidator, MyDefaultResourceValidator, the extension       *)
(* grant ArbitraryResourceOwnerGrantValidator and MyDefaultClaimsService.   *)
(*                                                                         *)
(* Requests are handled concurrently.  The client object is the one that   *)
(* was registered, shared by all of them; OptionalClaims is a service of    *)
(* the scope of one request.  What the framework does between the           *)
(* validators is marked external.                                          *)
(***************************************************************************)
EXTENDS Integers, FiniteSets

CONSTANTS
    Request,        \* token requests
    Client,         \* the registered clients (ClientExtra)
    Null,           \* no client, no form, no token
    Issuer,         \* the server itself, as the source of a claim
    ClientConfig,   \* the settings of each client, as registered
    Scope,          \* names of scopes, "offline_access" among them
    ClaimType,      \* types of claims
    Protected,      \* NotAllowedArbitraryClaims
    Form            \* the form posts that clients send

\* No access_token_lifetime in the form.  Zero stands for any other value that is
\* not a positive number.
NotAsked == -1

Settings ==
    [requireSecret        : BOOLEAN,
     requireRefreshSecret : BOOLEAN,
     lifetime             : Nat \ {0},
     scopes               : SUBSET Scope,
     offlineAccess        : BOOLEAN,
     includeClientId      : BOOLEAN,
     includeAmr           : BOOLEAN]

Forms ==
    [client     : Client \cup {Null},   \* Null: no client id, or an unknown one
     secret     : BOOLEAN,              \* are the credentials the client's?
     grant      : {"password", "refresh_token", "arbitrary_resource_owner"},
     scopes     : SUBSET Scope,
     wellFormed : BOOLEAN,              \* there is a subject, and the JSON parses
     claims     : SUBSET ClaimType,     \* the types in arbitrary_claims
     amrs       : BOOLEAN,              \* is there anything in arbitrary_amrs?
     extras     : SUBSET {"aud", "custom_payload"},  \* parameters of their own
     lifetime   : Nat \cup {NotAsked}]

\* A claim is of a type, and states what a request asked for or the server knows.
Claim == [type : ClaimType, by : Request \cup {Issuer}]

Token == [lifetime : Int, claims : SUBSET Claim]

ASSUME ClientConfigType == ClientConfig \in [Client -> Settings]
ASSUME FormType == Form \subseteq Forms
ASSUME ClaimTypes ==
    {"amr", "client_id", "aud", "custom_payload"} \subseteq Protected
    /\ Protected \subseteq ClaimType
ASSUME NullIsFresh ==
    /\ Null \notin Client /\ Null \notin Forms /\ Null \notin Token
    /\ Issuer \notin Request

VARIABLES
    accessTokenLifetime,    \* the property of each shared client object
    pc,                     \* where each request is
    form,                   \* what it posted
    attached,               \* the lifetime of its client when it was identified
    optionalClaims,         \* OptionalClaims.Claims in the scope of the request
    issued                  \* the access token it was given, or Null

vars == <<accessTokenLifetime, pc, form, attached, optionalClaims, issued>>

Config(i) == ClientConfig[form[i].client]

GoTo(i, place) == pc' = [pc EXCEPT ![i] = place]

-----------------------------------------------------------------------------
(* MyClientSecretValidator *)

\* Mutant: without RequireRefreshClientSecret, no grant needs the secret.
AuthenticatedForAnyGrant(f) ==
    /\ f.client # Null
    /\ \/ ~ClientConfig[f.client].requireSecret
       \/ ~ClientConfig[f.client].requireRefreshSecret
       \/ f.secret

\* The client is known, and public, excused for this grant or in possession of
\* its secret.
Authenticated(f) ==
    /\ f.client # Null
    /\ \/ ~ClientConfig[f.client].requireSecret
       \/ ~ClientConfig[f.client].requireRefreshSecret /\ f.grant = "refresh_token"
       \/ f.secret

\* Mutant: a client that was not found does not end the request.
AuthenticateUnknown(i, f) ==
    /\ pc[i] = "idle"
    /\ form' = [form EXCEPT ![i] = f]
    /\ GoTo(i, IF f.grant = "refresh_token" THEN "refresh" ELSE "scopes")
    /\ attached' = IF f.client = Null THEN attached
                   ELSE [attached EXCEPT ![i] = accessTokenLifetime[f.client]]
    /\ UNCHANGED <<accessTokenLifetime, optionalClaims, issued>>

\* A refresh token is then GraceRefreshToken's business.
Authenticate(i, f) ==
    /\ pc[i] = "idle"
    /\ form' = [form EXCEPT ![i] = f]
    /\ IF Authenticated(f)
       THEN /\ GoTo(i, IF f.grant = "refresh_token" THEN "refresh" ELSE "scopes")
            /\ attached' = [attached EXCEPT ![i] = accessTokenLifetime[f.client]]
       ELSE GoTo(i, "refused") /\ UNCHANGED attached
    /\ UNCHANGED <<accessTokenLifetime, optionalClaims, issued>>

-----------------------------------------------------------------------------
(* MyDefaultResourceValidator *)

\* The extension grant may name any scope but the one for refresh tokens, which
\* the client must be allowed; other grants keep to the scopes of the client.
ScopeValid(f, scope) ==
    IF scope = "offline_access"
    THEN ClientConfig[f.client].offlineAccess
    ELSE \/ f.grant = "arbitrary_resource_owner"
         \/ scope \in ClientConfig[f.client].scopes

ValidateScopes(i) ==
    /\ pc[i] = "scopes"
    /\ GoTo(i, IF \E scope \in form[i].scopes : ~ScopeValid(form[i], scope)
               THEN "refused"
               ELSE IF form[i].grant = "password" THEN "password" ELSE "form")
    /\ UNCHANGED <<accessTokenLifetime, form, attached, optionalClaims, issued>>

\* External: the name and password are checked, with either result.
CheckPassword(i) ==
    /\ pc[i] = "password"
    /\ \E place \in {"issue", "refused"} : GoTo(i, place)
    /\ UNCHANGED <<accessTokenLifetime, form, attached, optionalClaims, issued>>

-----------------------------------------------------------------------------
(* ArbitraryResourceOwnerGrantValidator *)

\* Mutant: arbitrary_claims is parsed and not examined.
ValidateFormat(i) ==
    /\ pc[i] = "form"
    /\ GoTo(i, IF form[i].wellFormed THEN "lifetime" ELSE "refused")
    /\ UNCHANGED <<accessTokenLifetime, form, attached, optionalClaims, issued>>

ValidateForm(i) ==
    /\ pc[i] = "form"
    /\ GoTo(i, IF form[i].wellFormed /\ form[i].claims \cap Protected = {}
               THEN "lifetime"
               ELSE "refused")
    /\ UNCHANGED <<accessTokenLifetime, form, attached, optionalClaims, issued>>

\* Mutant: the upper limit is forgotten.
CheckPositive(i) ==
    /\ pc[i] = "lifetime"
    /\ GoTo(i, IF form[i].lifetime = NotAsked THEN "claims"
               ELSE IF form[i].lifetime > 0 THEN "override" ELSE "refused")
    /\ UNCHANGED <<accessTokenLifetime, form, attached, optionalClaims, issued>>

\* The limit is what the client object says now.
CheckLifetime(i) ==
    /\ pc[i] = "lifetime"
    /\ GoTo(i, IF form[i].lifetime = NotAsked THEN "claims"
               ELSE IF form[i].lifetime \in 1 .. accessTokenLifetime[form[i].client]
               THEN "override" ELSE "refused")
    /\ UNCHANGED <<accessTokenLifetime, form, attached, optionalClaims, issued>>

\* The override is written into the shared client object.
OverrideLifetime(i) ==
    /\ pc[i] = "override"
    /\ accessTokenLifetime' =
           [accessTokenLifetime EXCEPT ![form[i].client] = form[i].lifetime]
    /\ GoTo(i, "claims")
    /\ UNCHANGED <<form, attached, optionalClaims, issued>>

Asked(i) == {[type |-> t, by |-> i] : t \in form[i].claims \cup form[i].extras}

\* Mutant: OptionalClaims is one object for all requests.
CollectSharedClaims(i) ==
    /\ pc[i] = "claims"
    /\ optionalClaims' = [j \in Request |-> optionalClaims[j] \cup Asked(i)]
    /\ GoTo(i, "issue")
    /\ UNCHANGED <<accessTokenLifetime, form, attached, issued>>

CollectClaims(i) ==
    /\ pc[i] = "claims"
    /\ optionalClaims' = [optionalClaims EXCEPT ![i] = @ \cup Asked(i)]
    /\ GoTo(i, "issue")
    /\ UNCHANGED <<accessTokenLifetime, form, attached, issued>>

-----------------------------------------------------------------------------
(* MyDefaultClaimsService *)

OfType(claims, type) == {claim \in claims : claim.type = type}

\* arbitrary_amrs only means something to the extension grant.
AsksAmr(i) == form[i].grant = "arbitrary_resource_owner" /\ form[i].amrs

\* What the base class returns (external): the client, how the subject was
\* authenticated, and the optional claims.
BaseClaims(i) ==
    optionalClaims[i]
      \cup {[type |-> t, by |-> Issuer] : t \in {"client_id", "amr"}}
      \cup IF AsksAmr(i) THEN {[type |-> "amr", by |-> i]} ELSE {}

\* Mutant: every amr is dropped.
AccessTokenClaimsWithoutAmr(i) ==
    LET claims == BaseClaims(i)
    IN  IF Config(i).includeClientId THEN claims
        ELSE claims \ (OfType(claims, "client_id") \cup
                       IF ~Config(i).includeAmr THEN OfType(claims, "amr") ELSE {})

\* The amr goes when it is the only one, and only along with the client's id.
AccessTokenClaims(i) ==
    LET claims == BaseClaims(i)
        amrs == OfType(claims, "amr")
    IN  IF Config(i).includeClientId THEN claims
        ELSE claims \ (OfType(claims, "client_id") \cup
                       IF ~Config(i).includeAmr /\ Cardinality(amrs) = 1
                       THEN amrs ELSE {})

\* The framework takes the lifetime from the client object, when it attaches the
\* client to the request or when it creates the token: both are allowed here.
Issue(i) ==
    /\ pc[i] = "issue"
    /\ \E lifetime \in {attached[i], accessTokenLifetime[form[i].client]} :
           issued' = [issued EXCEPT ![i] =
                         [lifetime |-> lifetime, claims |-> AccessTokenClaims(i)]]
    /\ GoTo(i, "done")
    /\ UNCHANGED <<accessTokenLifetime, form, attached, optionalClaims>>

-----------------------------------------------------------------------------
Finished == {"done", "refused", "refresh"}

Quiescent ==
    /\ \A i \in Request : pc[i] \in Finished
    /\ UNCHANGED vars

Init ==
    /\ accessTokenLifetime = [c \in Client |-> ClientConfig[c].lifetime]
    /\ pc = [i \in Request |-> "idle"]
    /\ form = [i \in Request |-> Null]
    /\ attached = [i \in Request |-> 0]
    /\ optionalClaims = [i \in Request |-> {}]
    /\ issued = [i \in Request |-> Null]

Handle(i) ==
    \/ \E f \in Form : Authenticate(i, f)
    \/ ValidateScopes(i)
    \/ CheckPassword(i)
    \/ ValidateForm(i)
    \/ CheckLifetime(i)
    \/ OverrideLifetime(i)
    \/ CollectClaims(i)
    \/ Issue(i)

Next == (\E i \in Request : Handle(i)) \/ Quiescent

Spec == Init /\ [][Next]_vars

-----------------------------------------------------------------------------
(* Correctness *)

\* Every variable stays in its domain; only an identified client is validated.
TypeOK ==
    /\ accessTokenLifetime \in [Client -> Int]
    /\ pc \in [Request -> Finished \cup
                   {"idle", "scopes", "password", "form", "lifetime", "override",
                    "claims", "issue"}]
    /\ form \in [Request -> Form \cup {Null}]
    /\ \A i \in Request : pc[i] \notin {"idle", "refused"} =>
           form[i] # Null /\ form[i].client # Null
    /\ attached \in [Request -> Int]
    /\ optionalClaims \in [Request -> SUBSET Claim]
    /\ issued \in [Request -> Token \cup {Null}]

\* Requests may override the lifetime of their tokens, and all write to the same
\* client object: however they interleave, neither the object nor a token ever
\* has more than the lifetime the client was registered with, nor none at all.
LifetimesInRange ==
    /\ \A c \in Client : accessTokenLifetime[c] \in 1 .. ClientConfig[c].lifetime
    /\ \A i \in Request :
           issued[i] # Null => issued[i].lifetime \in 1 .. Config(i).lifetime

\* A token states what its own request asked for and what the server knows, never
\* what another request asked for.
ClaimsAreOwn ==
    \A i \in Request : issued[i] # Null =>
        \A claim \in issued[i].claims : claim.by \in {i, Issuer}

\* A request has a say in a protected claim only through the parameter made for
\* it: arbitrary_amrs, arbitrary_audiences and custom_payload.
ProtectedClaimsKept ==
    \A i \in Request : issued[i] # Null =>
        \A claim \in issued[i].claims :
            claim.by = i /\ claim.type \in Protected =>
                \/ claim.type \in form[i].extras
                \/ claim.type = "amr" /\ AsksAmr(i)

\* The amr the framework adds is dropped on its own, never one that was asked for
\* ("only meant to remove the single one that IDS4 added").
RequestedAmrKept ==
    \A i \in Request : issued[i] # Null /\ AsksAmr(i) =>
        [type |-> "amr", by |-> i] \in issued[i].claims

\* Without its secret, a confidential client gets no further than the refresh of
\* a token, and that only when it is registered for it.
SecretChecked ==
    \A i \in Request :
        pc[i] \notin {"idle", "refused"} /\ Config(i).requireSecret /\ ~form[i].secret =>
            pc[i] = "refresh" /\ ~Config(i).requireRefreshSecret

\* An override between one and the configured lifetime is accepted.
OverrideHonoured ==
    [][\A i \in Request :
          pc[i] = "lifetime" /\ pc'[i] = "refused" =>
              form[i].lifetime \notin 1 .. Config(i).lifetime]_vars
=============================================================================
