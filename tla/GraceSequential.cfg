\* Four requests of four clients, one at a time, while the worker runs at its own
\* pace.
SPECIFICATION Spec
CONSTANTS
    r1 = r1
    r2 = r2
    r3 = r3
    r4 = r4
    r5 = r5
    graceful = graceful
    sliding = sliding
    strict = strict
    reusable = reusable
    Null = Null
    Redeemer = graceful
    Request = {r1, r2, r3, r4}
    Client = {graceful, sliding, strict, reusable}
    ClientConfig <- Configured
    MaxTime = 3
    Pacing = "sequential"
    StoreFaults = TRUE
    Revocation = FALSE
SYMMETRY Symmetry
INVARIANTS
    AttemptsBound
PROPERTIES
    GraceWindow
