------------------------ MODULE TenantPipelineProofs ------------------------
(***************************************************************************)
(* For paths of any length over any segments, and for any pages, endpoints  *)
(* and tenants: an endpoint of IdentityServer only answers below a tenant,  *)
(* and the browser stays with the tenant when it is sent on.                *)
(*                                                                         *)
(* The argument follows the path of a request through the pipeline (Way):   *)
(* up to TenantMiddleware it is what the browser asked for; behind it, the  *)
(* base is the first segment of that and the path is the rest.              *)
(***************************************************************************)
EXTENDS TenantPipeline, TLAPS

\* Where the request is, the path and the base are what they should be.
Way ==
    /\ stage \in {"files", "routing", "tenant"} =>
           /\ path = url
           /\ tenantId = Null /\ served = Null /\ location = Null
    /\ stage \in {"identityserver", "endpoints"} =>
           /\ path = Rest(url)
           /\ tenantId \in ValidTenant
           /\ base = <<tenantId>>
           /\ served = Null /\ location = Null

\* The tenant, if it is known yet, is the first segment of what was asked for, and
\* so is the tenant of the answer that sent the browser here.
Named ==
    /\ tenantId # Null => tenantId = Head(url)
    /\ sender \notin {Null, Empty} => sender = Head(url)

\* The browser is sent to a path of the same tenant.
Sending ==
    location # Null =>
        /\ tenantId # Null
        /\ tenantId # Empty => Head(location) = tenantId

Inv == TypeOK /\ Way /\ Named /\ Sending /\ EndpointsNeedTenant

-----------------------------------------------------------------------------
(* Paths *)

LEMMA Paths ==
    ASSUME NEW p
    PROVE  p \in Path <=> p \in Seq(Segment) /\ Len(p) \in 1 .. MaxSegments
<1> USE PathsAssumption DEF Path
<1>1. ASSUME p \in Path PROVE p \in Seq(Segment) /\ Len(p) \in 1 .. MaxSegments
  <2>1. PICK n \in 1 .. MaxSegments : p \in [1 .. n -> Segment]
    BY <1>1
  <2>2. n \in Nat
    BY <2>1
  <2>3. p \in Seq(Segment) /\ Len(p) = n
    BY <2>1, <2>2
  <2> QED
    BY <2>1, <2>3
<1>2. ASSUME p \in Seq(Segment), Len(p) \in 1 .. MaxSegments PROVE p \in Path
  <2>1. p \in [1 .. Len(p) -> Segment]
    BY <1>2
  <2> QED
    BY <1>2, <2>1
<1> QED
  BY <1>1, <1>2

\* A path has a first segment, and without it a path is left.
LEMMA Parts ==
    ASSUME NEW p \in Path
    PROVE  Head(p) \in Segment /\ Rest(p) \in Path
<1>1. p \in Seq(Segment) /\ Len(p) \in 1 .. MaxSegments
  BY Paths
<1>2. Head(p) \in Segment
  BY <1>1, PathsAssumption
<1>3. CASE Len(p) > 1
  <2>1. Tail(p) \in Seq(Segment) /\ Len(Tail(p)) = Len(p) - 1
    BY <1>1, PathsAssumption
  <2>2. Len(Tail(p)) \in 1 .. MaxSegments
    BY <1>1, <1>3, <2>1, PathsAssumption
  <2>3. Tail(p) \in Path
    BY <2>1, <2>2, Paths
  <2> QED
    BY <1>2, <1>3, <2>3 DEF Rest
<1>4. CASE ~ (Len(p) > 1)
  <2>1. <<Empty>> \in Seq(Segment) /\ Len(<<Empty>>) = 1
    BY PathsAssumption
  <2> QED
    BY <1>2, <1>4, <2>1, Paths, PathsAssumption DEF Rest
<1> QED
  BY <1>3, <1>4

\* Unless nothing is left of it, a path is its first segment and the rest.
LEMMA Whole ==
    ASSUME NEW p \in Path, Rest(p) # <<Empty>>
    PROVE  p = <<Head(p)>> \o Rest(p)
<1>1. p \in Seq(Segment) /\ Len(p) \in 1 .. MaxSegments
  BY Paths
<1>2. Rest(p) = Tail(p) /\ Len(p) > 1
  BY DEF Rest
<1> QED
  BY <1>1, <1>2, PathsAssumption

\* A link stays with the tenant, unless that is empty.
LEMMA Links ==
    ASSUME NEW page \in Page, NEW t \in Segment, base = <<t>>
    PROVE  Link(page) \in Path /\ (t # Empty => Head(Link(page)) = t)
<1>1. LinkTo[page] \in Path
  BY LookupTypes
<1>2. LinkTo[page] \in Seq(Segment) /\ Len(LinkTo[page]) \in 1 .. MaxSegments - 1
  BY <1>1, Paths, PathsAssumption
<1>3. CASE t = Empty
  <2>1. Link(page) = <<>> \o LinkTo[page]
    BY <1>3 DEF Link
  <2>2. Link(page) = LinkTo[page]
    BY <1>2, <2>1
  <2> QED
    BY <1>1, <1>3, <2>2
<1>4. CASE t # Empty
  <2>1. base # <<Empty>>
    BY <1>4
  <2>2. Link(page) = <<t>> \o LinkTo[page]
    BY <2>1 DEF Link
  <2>3. /\ Link(page) \in Seq(Segment)
        /\ Len(Link(page)) = 1 + Len(LinkTo[page])
    BY <1>2, <2>2
  <2>4. Len(Link(page)) \in 1 .. MaxSegments
    BY <1>2, <2>3, PathsAssumption
  <2>5. Link(page) \in Path
    BY <2>3, <2>4, Paths
  <2>6. Head(Link(page)) = t
    BY <1>2, <2>2
  <2> QED
    BY <2>5, <2>6
<1> QED
  BY <1>3, <1>4

-----------------------------------------------------------------------------
(* Every step *)

LEMMA InitInv == Init => Inv
<1>1. <<Empty>> \in Seq(Segment) /\ Len(<<Empty>>) \in 1 .. MaxSegments
  BY PathsAssumption
<1>2. <<Empty>> \in Path
  BY <1>1, Paths
<1> QED
  BY <1>2, NullIsFresh
     DEF Init, Inv, TypeOK, Way, Named, Sending, EndpointsNeedTenant

LEMMA ArriveInv ==
    ASSUME Inv, NEW p \in Path, NEW t \in Segment \cup {Null}, Arrive(p, t),
           t \notin {Null, Empty} => t = Head(p)
    PROVE  Inv'
BY NullIsFresh
   DEF Arrive, Inv, TypeOK, Way, Named, Sending, EndpointsNeedTenant

LEMMA StaticFilesInv == Inv /\ StaticFiles => Inv'
<1> SUFFICES ASSUME Inv, StaticFiles PROVE Inv'
  OBVIOUS
<1> USE DEF StaticFiles, Inv
<1>1. TypeOK'
  BY DEF TypeOK
<1>2. Way'
  BY DEF Way
<1>3. Named' /\ Sending'
  BY DEF Named, Sending
<1>4. EndpointsNeedTenant'
  BY PathsAssumption, NullIsFresh DEF EndpointsNeedTenant, TypeOK, Way
<1> QED
  BY <1>1, <1>2, <1>3, <1>4

LEMMA RoutingInv == Inv /\ Routing => Inv'
<1> SUFFICES ASSUME Inv, Routing PROVE Inv'
  OBVIOUS
<1> USE DEF Routing, Inv
<1>1. TypeOK'
  BY DEF TypeOK
<1>2. Way'
  BY DEF Way
<1>3. Named' /\ Sending' /\ EndpointsNeedTenant'
  BY DEF Named, Sending, EndpointsNeedTenant
<1> QED
  BY <1>1, <1>2, <1>3

LEMMA TenantInv == Inv /\ Tenant => Inv'
<1> SUFFICES ASSUME Inv, Tenant PROVE Inv'
  OBVIOUS
<1> USE DEF Tenant, Inv
<1>1. path = url /\ served = Null /\ location = Null
  BY DEF Way
<1>2. Head(path) \in Segment /\ Rest(path) \in Path
  BY Parts DEF TypeOK
<1>3. TypeOK'
  BY <1>2 DEF TypeOK
<1>4. Way'
  BY <1>1 DEF Way
<1>5. Named' /\ Sending'
  BY <1>1 DEF Named, Sending
<1>6. EndpointsNeedTenant'
  BY <1>1, NullIsFresh DEF EndpointsNeedTenant
<1> QED
  BY <1>3, <1>4, <1>5, <1>6

LEMMA IdentityServerInv == Inv /\ IdentityServer => Inv'
<1> SUFFICES ASSUME Inv, IdentityServer PROVE Inv'
  OBVIOUS
<1> USE DEF IdentityServer, Inv
<1>1. /\ path = Rest(url) /\ tenantId \in ValidTenant /\ base = <<tenantId>>
      /\ served = Null /\ location = Null
  BY DEF Way
<1>2. tenantId \in Segment /\ tenantId # Null
  BY <1>1, LookupTypes, NullIsFresh
<1>3. UNCHANGED <<url, path, base, tenantId, routed, sender>>
  OBVIOUS
<1>4. CASE \E e \in Endpoint : PathOf[e] = path
  <2>1. PICK e \in Endpoint :
            /\ PathOf[e] = path /\ served' = e /\ stage' = "done"
            /\ location' \in {Null} \cup {Link(page) : page \in SendsTo[e]}
    BY <1>4
  <2>2. SendsTo[e] \subseteq Page
    BY LookupTypes
  <2>3. /\ location' \in Path \cup {Null}
        /\ location' # Null /\ tenantId # Empty => Head(location') = tenantId
    BY <1>1, <1>2, <2>1, <2>2, Links
  <2>4. TypeOK'
    BY <1>3, <2>1, <2>3 DEF TypeOK
  <2>5. Way' /\ Named' /\ Sending'
    BY <1>2, <1>3, <2>1, <2>3 DEF Way, Named, Sending
  <2>6. url = <<tenantId>> \o PathOf[e]
    BY <1>1, <1>2, <2>1, Whole, PathsAssumption DEF TypeOK, Named
  <2> QED
    BY <1>1, <1>3, <2>1, <2>4, <2>5, <2>6 DEF EndpointsNeedTenant
<1>5. CASE ~ \E e \in Endpoint : PathOf[e] = path
  <2>1. stage' = "endpoints" /\ UNCHANGED <<served, location>>
    BY <1>5
  <2> QED
    BY <1>3, <2>1, <1>1 DEF TypeOK, Way, Named, Sending, EndpointsNeedTenant
<1> QED
  BY <1>4, <1>5

LEMMA EndpointsInv == Inv /\ Endpoints => Inv'
<1> SUFFICES ASSUME Inv, Endpoints PROVE Inv'
  OBVIOUS
<1> USE DEF Endpoints, Inv
<1>1. /\ tenantId \in ValidTenant /\ base = <<tenantId>>
  BY DEF Way
<1>2. tenantId \in Segment /\ tenantId # Null
  BY <1>1, LookupTypes, NullIsFresh
<1>3. (IF routed = Null THEN {} ELSE SendsTo[routed]) \subseteq Page
  BY LookupTypes DEF TypeOK
<1>4. /\ location' \in Path \cup {Null}
      /\ location' # Null /\ tenantId # Empty => Head(location') = tenantId
  BY <1>1, <1>2, <1>3, Links
<1>5. TypeOK'
  BY <1>4 DEF TypeOK
<1>6. Way' /\ Named' /\ Sending'
  BY <1>2, <1>4 DEF Way, Named, Sending
<1>7. EndpointsNeedTenant'
  BY PathsAssumption, NullIsFresh DEF EndpointsNeedTenant, TypeOK
<1> QED
  BY <1>5, <1>6, <1>7

LEMMA NextInv == Inv /\ [Next]_vars => Inv'
<1> SUFFICES ASSUME Inv, [Next]_vars PROVE Inv'
  OBVIOUS
<1>1. CASE \E p \in Path : Request(p)
  BY <1>1, ArriveInv DEF Request
<1>2. CASE Follow
  <2>1. location \in Path /\ tenantId \in Segment \cup {Null}
    BY <1>2 DEF Follow, Inv, TypeOK
  <2>2. tenantId \notin {Null, Empty} => tenantId = Head(location)
    BY <1>2 DEF Follow, Inv, Sending
  <2> QED
    BY <1>2, <2>1, <2>2, ArriveInv DEF Follow
<1>3. CASE StaticFiles
  BY <1>3, StaticFilesInv
<1>4. CASE Routing
  BY <1>4, RoutingInv
<1>5. CASE Tenant
  BY <1>5, TenantInv
<1>6. CASE IdentityServer
  BY <1>6, IdentityServerInv
<1>7. CASE Endpoints
  BY <1>7, EndpointsInv
<1>8. CASE UNCHANGED vars
  BY <1>8 DEF vars, Inv, TypeOK, Way, Named, Sending, EndpointsNeedTenant
<1> QED
  BY <1>1, <1>2, <1>3, <1>4, <1>5, <1>6, <1>7, <1>8 DEF Next

LEMMA Invariance == Spec => []Inv
BY InitInv, NextInv, PTL DEF Spec

-----------------------------------------------------------------------------
(* The results *)

\* Every variable stays in its domain: whatever the slashes of a url, TenantMiddleware
\* leaves a path, and a link that IdentityServer makes is one.
THEOREM TypesHold == Spec => []TypeOK
<1>1. Inv => TypeOK
  BY DEF Inv
<1> QED
  BY <1>1, Invariance, PTL

\* A browser that follows an answer stays with the tenant of that answer, however
\* often it is sent on, unless that tenant is empty.  (TenantMiddleware.Invoke)
THEOREM TenantsAreKept == Spec => []TenantKept
<1>1. Inv => TenantKept
  BY DEF Inv, Named, TenantKept
<1> QED
  BY <1>1, Invariance, PTL

\* No endpoint of IdentityServer answers a request that does not name a tenant which
\* ITenantResolver accepts, before the path of the endpoint and nothing else.
\* (TenantMiddleware.Invoke, Startup.Configure)
THEOREM EndpointsNeedATenant == Spec => []EndpointsNeedTenant
<1>1. Inv => EndpointsNeedTenant
  BY DEF Inv
<1> QED
  BY <1>1, Invariance, PTL
=============================================================================
