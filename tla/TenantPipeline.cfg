\* Every path of up to three of ten segments, and a resolver that refuses some.
SPECIFICATION Spec
CONSTANTS
    home = home
    login = login
    consent = consent
    authorize = authorize
    token = token
    Null = Null
    Empty = ""
    Segment <- Segments
    MaxSegments = 3
    File <- Files
    Page = {home, login, consent}
    Routes <- PageRoutes
    Endpoint = {authorize, token}
    PathOf <- EndpointPaths
    SendsTo <- Sends
    LinkTo <- Links
    ValidTenant <- KnownTenants
INVARIANTS
    TypeOK
    TenantKept
    EndpointsNeedTenant
