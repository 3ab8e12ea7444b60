\* Requests one at a time, each after the worker has caught up: the service
\* keeps the rules, serves every request and drops every superseded parent.
SPECIFICATION FairSpec
CONSTANTS
    r1 = r1
    r2 = r2
    r3 = r3
    r4 = r4
    r5 = r5
    graceful = graceful
    sliding = sliding
    strict = strict
    reusable = reusable
    Null = Null
    Redeemer = graceful
    Request = {r1, r2, r3, r4}
    Client = {graceful}
    ClientConfig <- Configured
    MaxTime = 2
    Pacing = "drained"
    StoreFaults = FALSE
    Revocation = FALSE
INVARIANT
    AtMostACouple
PROPERTIES
    RulesFollowed
    RequestsServed
    ParentGone
