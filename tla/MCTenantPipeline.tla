--------------------------- MODULE MCTenantPipeline ---------------------------
(***************************************************************************)
(* An instance of TenantPipeline with some of the paths of the host.        *)
(***************************************************************************)
EXTENDS TenantPipeline, TLC

CONSTANTS home, login, consent, authorize, token

Segments == {"", "tenant", "nobody", "Account", "Login", "Consent", "connect",
             "authorize", "token", "favicon.ico"}

Files == {<<"favicon.ico">>}

\* {controller=Home}/{action=Index}/{id?}
PageRoutes ==
    home    :> {<<"">>} @@
    login   :> {<<"Account", "Login">>} @@
    consent :> {<<"Consent">>}

EndpointPaths ==
    authorize :> <<"connect", "authorize">> @@
    token     :> <<"connect", "token">>

Sends ==
    authorize :> {login, consent} @@ token :> {} @@
    home :> {} @@ login :> {} @@ consent :> {login}

Links ==
    home    :> <<"">> @@
    login   :> <<"Account", "Login">> @@
    consent :> <<"Consent">>

\* A resolver that knows one tenant, and lets an empty one pass.
KnownTenants == {"", "tenant"}
=============================================================================
