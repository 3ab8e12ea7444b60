\* A revocation while redemptions are being handled.
SPECIFICATION Spec
CONSTANTS
    r1 = r1
    r2 = r2
    r3 = r3
    r4 = r4
    r5 = r5
    graceful = graceful
    sliding = sliding
    strict = strict
    reusable = reusable
    Null = Null
    Redeemer = graceful
    Request = {r1, r2, r3}
    Client = {graceful}
    ClientConfig <- Configured
    MaxTime = 0
    Pacing = "concurrent"
    StoreFaults = FALSE
    Revocation = TRUE
SYMMETRY Symmetry
INVARIANT
    RevocationIsFinal
