\* Three overlapping requests, one of which shortens the lifetime of its token.
SPECIFICATION Spec
CONSTANTS
    r1 = r1
    r2 = r2
    r3 = r3
    roclient = roclient
    default = default
    anonymous = anonymous
    Null = Null
    Issuer = Issuer
    Request = {r1, r2, r3}
    Client = {roclient, default, anonymous}
    ClientConfig <- Registered
    Scope <- Scopes
    ClaimType <- Types
    Protected <- NotAllowed
    Form <- Posts
SYMMETRY Symmetry
PROPERTY
    OverrideHonoured
