\* Four overlapping requests of three clients, with lost replies, failing removals
\* and a revocation.
SPECIFICATION Spec
CONSTANTS
    r1 = r1
    r2 = r2
    r3 = r3
    r4 = r4
    r5 = r5
    graceful = graceful
    sliding = sliding
    strict = strict
    reusable = reusable
    Null = Null
    Redeemer = graceful
    Request = {r1, r2, r3, r4}
    Client = {sliding, strict, reusable}
    ClientConfig <- Brief
    MaxTime = 2
    Pacing = "concurrent"
    StoreFaults = TRUE
    Revocation = TRUE
SYMMETRY Symmetry
INVARIANTS
    TypeOK
    RemovalJustified
    
PROPERTIES
    LifetimeNotExtended
    ConsumedForGood
