\* Overlapping redemptions of one token: each counts from the same number.
SPECIFICATION Spec
CONSTANTS
    r1 = r1
    r2 = r2
    r3 = r3
    r4 = r4
    r5 = r5
    graceful = graceful
    sliding = sliding
    strict = strict
    reusable = reusable
    Null = Null
    Redeemer = graceful
    Request = {r1, r2, r3, r4}
    Client = {graceful}
    ClientConfig <- Configured
    MaxTime = 0
    Pacing = "concurrent"
    StoreFaults = FALSE
    Revocation = FALSE
SYMMETRY Symmetry
INVARIANT
    AttemptsBound
