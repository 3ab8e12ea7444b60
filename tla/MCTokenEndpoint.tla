--------------------------- MODULE MCTokenEndpoint ---------------------------
(***************************************************************************)
(* Three overlapping token requests for three clients: roclient of         *)
(* Config.cs, a client with the default settings of ClientExtra, and one    *)
(* that leaves its id out of tokens and keeps the amr.                     *)
(***************************************************************************)
EXTENDS TokenEndpoint, TLC

CONSTANTS r1, r2, r3, roclient, default, anonymous

Symmetry == Permutations(Request)

Types == {"role", "amr", "client_id", "aud", "custom_payload"}
NotAllowed == Types \ {"role"}
Scopes == {"api1", "geo", "offline_access"}

Clients ==
    roclient  :> [requireSecret |-> TRUE, requireRefreshSecret |-> FALSE,
                  lifetime |-> 3, scopes |-> {"api1"}, offlineAccess |-> TRUE,
                  includeClientId |-> FALSE, includeAmr |-> FALSE]
    @@
    default   :> [requireSecret |-> TRUE, requireRefreshSecret |-> TRUE,
                  lifetime |-> 2, scopes |-> {"api1"}, offlineAccess |-> FALSE,
                  includeClientId |-> TRUE, includeAmr |-> TRUE]
    @@
    anonymous :> [requireSecret |-> FALSE, requireRefreshSecret |-> TRUE,
                  lifetime |-> 2, scopes |-> {"api1"}, offlineAccess |-> FALSE,
                  includeClientId |-> FALSE, includeAmr |-> TRUE]

Registered == [c \in Client |-> Clients[c]]

\* The example of the README, and what can be different from it.
Post ==
    [client |-> roclient, secret |-> TRUE, grant |-> "arbitrary_resource_owner",
     scopes |-> {"geo", "offline_access"}, wellFormed |-> TRUE, claims |-> {"role"},
     amrs |-> TRUE, extras |-> {"aud", "custom_payload"}, lifetime |-> 3]

Posts ==
    {Post, [Post EXCEPT !.client = Null]}
    \cup [client : {roclient}, secret : {TRUE}, grant : {"arbitrary_resource_owner"},
          scopes : {{"api1"}}, wellFormed : {TRUE}, claims : {{}}, amrs : {FALSE},
          extras : {{}}, lifetime : {NotAsked, 0, 1, 2, 3, 4}]
    \cup [client : {default, anonymous}, secret : {TRUE, FALSE},
          grant : {"arbitrary_resource_owner", "password"},
          scopes : {{"api1"}, {"geo"}}, wellFormed : {TRUE}, claims : {{"role"}},
          amrs : {TRUE}, extras : {{}}, lifetime : {NotAsked}]
    \cup [client : {roclient, default}, secret : {FALSE},
          grant : {"refresh_token", "password", "arbitrary_resource_owner"},
          scopes : {{}}, wellFormed : {TRUE, FALSE}, claims : {{}}, amrs : {FALSE},
          extras : {{}}, lifetime : {NotAsked}]
    \cup {[Post EXCEPT !.claims = {"aud"}, !.extras = {}], [Post EXCEPT !.wellFormed = FALSE],
          [Post EXCEPT !.grant = "password"], [Post EXCEPT !.client = default]}
=============================================================================
