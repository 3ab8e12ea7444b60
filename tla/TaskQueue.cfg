\* Four items, one worker, failing items, and a host that may stop at any time.
SPECIFICATION FairSpec
CONSTANTS
    p1 = p1
    p2 = p2
    p3 = p3
    p4 = p4
    None = None
    Producer = {p1, p2, p3, p4}
INVARIANTS
    TypeOK
    PermitsMatchItems
    DequeueFindsItem
PROPERTIES
    RunsInOrder
    ItemsRun
