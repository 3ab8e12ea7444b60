---------------------------- MODULE TenantPipeline ----------------------------
(***************************************************************************)
(* The way of a request through the middleware of the host (Startup) and    *)
(* TenantMiddleware, which takes the tenant off the path.                   *)
(*                                                                         *)
(* A path is the sequence of its segments: "/" has one, which is empty, and *)
(* so does every other slash at the end or before another one.  Static      *)
(* files, routing and IdentityServer are external: they look the path up in *)
(* what they serve, each at its own place in the pipeline.                  *)
(***************************************************************************)
EXTENDS Sequences, Integers

CONSTANTS
    Segment,        \* what stands between slashes
    Empty,          \* the empty segment, as in "/"
    MaxSegments,    \* bound: the longest path
    File,           \* paths of static files
    Page, Routes,   \* the actions of controllers, and the paths routed to each
    Endpoint, PathOf,   \* IdentityServer's endpoints, and the path of each
    SendsTo,        \* the pages to which an endpoint, or the authorization of a
                    \* page, sends the user's browser
    LinkTo,         \* the path by which IdentityServer knows a page
    ValidTenant,    \* what ITenantResolver accepts
    Null

Path == UNION {[1 .. n -> Segment] : n \in 1 .. MaxSegments}

ASSUME LookupTypes ==
    /\ Routes \in [Page -> SUBSET Path]
    /\ PathOf \in [Endpoint -> Path]
    /\ LinkTo \in [Page -> Path]
    /\ SendsTo \in [Endpoint \cup Page -> SUBSET Page]
    /\ ValidTenant \subseteq Segment
ASSUME NullIsFresh == Null \notin Segment \cup Page \cup Endpoint \cup Path

\* "/" is a path; the bound leaves room for the tenant before a link; none of
\* IdentityServer's endpoints is at "/"; and an answer tells who gave it.
ASSUME PathsAssumption ==
    /\ MaxSegments \in Nat \ {0}
    /\ Empty \in Segment
    /\ \A page \in Page : Len(LinkTo[page]) < MaxSegments
    /\ \A e \in Endpoint : PathOf[e] # <<Empty>>
    /\ Endpoint \cap (Page \cup Path) = {}
    /\ File \subseteq Path

VARIABLES
    stage,      \* the middleware that is next, or "done"
    url,        \* the path the browser asked for
    path,       \* HttpRequest.Path
    base,       \* HttpRequest.PathBase, of one segment at most
    tenantId,   \* the ITenantData of the request
    routed,     \* the page that routing selected, or Null
    served,     \* what answered the request, or Null: not found
    location,   \* where the answer sends the browser, or Null
    sender      \* history: the tenant of the answer that sent the browser here, or Null

vars == <<stage, url, path, base, tenantId, routed, served, location, sender>>

\* A request arrives; the scoped ITenantData is new.
Arrive(p, from) ==
    /\ stage' = "files"
    /\ url' = p
    /\ path' = p
    /\ base' = <<>>
    /\ tenantId' = Null /\ routed' = Null /\ served' = Null /\ location' = Null
    /\ sender' = from

Request(p) == stage = "done" /\ Arrive(p, Null)

\* The browser goes where it was sent.
Follow == stage = "done" /\ location # Null /\ Arrive(location, tenantId)

\* app.UseStaticFiles()
StaticFiles ==
    /\ stage = "files"
    /\ IF path \in File THEN stage' = "done" /\ served' = path
                        ELSE stage' = "routing" /\ UNCHANGED served
    /\ UNCHANGED <<url, path, base, tenantId, routed, location, sender>>

\* app.UseRouting(): by the path as it is here.
Routing ==
    /\ stage = "routing"
    /\ stage' = "tenant"
    /\ IF \E page \in Page : path \in Routes[page]
       THEN routed' \in {page \in Page : path \in Routes[page]}
       ELSE UNCHANGED routed
    /\ UNCHANGED <<url, path, base, tenantId, served, location, sender>>

\* Mutant: the slash is only written before a segment.
RestWithoutSlash(p) == Tail(p)

\* The path without its first segment, "/" if there is no other.
Rest(p) == IF Len(p) > 1 THEN Tail(p) ELSE <<Empty>>

\* Mutant: links are made without the tenant.
TenantForgotten ==
    /\ stage = "tenant"
    /\ tenantId' = Head(path)
    /\ IF Head(path) \in ValidTenant
       THEN path' = Rest(path) /\ stage' = "identityserver" /\ UNCHANGED base
       ELSE stage' = "done" /\ UNCHANGED <<path, base>>
    /\ UNCHANGED <<url, routed, served, location, sender>>
\* Mutant: an unknown tenant is let through.
TenantUnchecked ==
    /\ stage = "tenant"
    /\ tenantId' = Head(path)
    /\ path' = Rest(path) /\ base' = <<Head(path)>> /\ stage' = "identityserver"
    /\ UNCHANGED <<url, routed, served, location, sender>>

\* TenantMiddleware.Invoke
Tenant ==
    /\ stage = "tenant"
    /\ tenantId' = Head(path)
    /\ IF Head(path) \in ValidTenant
       THEN path' = Rest(path) /\ base' = <<Head(path)>> /\ stage' = "identityserver"
       ELSE stage' = "done" /\ UNCHANGED <<path, base>>
    /\ UNCHANGED <<url, routed, served, location, sender>>

\* A link to a page below the base; the base of an empty tenant is "/", which links
\* do without.
Link(page) == (IF base = <<Empty>> THEN <<>> ELSE base) \o LinkTo[page]

\* app.UseIdentityServer(): an endpoint answers, or sends the browser to a page.
IdentityServer ==
    /\ stage = "identityserver"
    /\ IF \E e \in Endpoint : PathOf[e] = path
       THEN \E e \in Endpoint :
                /\ PathOf[e] = path
                /\ served' = e
                /\ location' \in {Null} \cup {Link(page) : page \in SendsTo[e]}
                /\ stage' = "done"
       ELSE stage' = "endpoints" /\ UNCHANGED <<served, location>>
    /\ UNCHANGED <<url, path, base, tenantId, routed, sender>>

\* app.UseAuthorization() and app.UseEndpoints(...): the page that was selected, which
\* may want a user first, or nothing.
Endpoints ==
    /\ stage = "endpoints"
    /\ stage' = "done"
    /\ served' = routed
    /\ location' \in {Null} \cup {Link(page) : page \in IF routed = Null THEN {} ELSE SendsTo[routed]}
    /\ UNCHANGED <<url, path, base, tenantId, routed, sender>>

Init ==
    /\ stage = "done"
    /\ url = <<Empty>> /\ path = <<Empty>> /\ base = <<>>
    /\ tenantId = Null /\ routed = Null /\ served = Null /\ location = Null
    /\ sender = Null

Next ==
    \/ \E p \in Path : Request(p)
    \/ Follow
    \/ StaticFiles
    \/ Routing
    \/ Tenant
    \/ IdentityServer
    \/ Endpoints

Spec == Init /\ [][Next]_vars

-----------------------------------------------------------------------------
(* Correctness *)

\* Every variable stays in its domain; whatever the slashes, a path is left.
TypeOK ==
    /\ stage \in {"files", "routing", "tenant", "identityserver", "endpoints", "done"}
    /\ url \in Path
    /\ path \in Path
    /\ base \in {<<>>} \cup [1 .. 1 -> Segment]
    /\ tenantId \in Segment \cup {Null}
    /\ routed \in Page \cup {Null}
    /\ served \in File \cup Endpoint \cup Page \cup {Null}
    /\ location \in Path \cup {Null}
    /\ sender \in Segment \cup {Null}

\* Where an answer sends the browser the request is of the same tenant again: the
\* links are made from a base and a path that the middleware changed, and taken apart
\* by another run of it.  (The empty tenant, of a doubled slash, is lost.)
TenantKept ==
    sender \notin {Null, Empty} /\ tenantId # Null => tenantId = sender

\* An endpoint of IdentityServer only answers below a tenant that was accepted ("it
\* locks you into an url that is {identityServerBase}/{tenantId}/{endpoints}").
EndpointsNeedTenant ==
    served \in Endpoint =>
        url = <<tenantId>> \o PathOf[served] /\ tenantId \in ValidTenant
=============================================================================
