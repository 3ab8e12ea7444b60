SPECIFICATION Spec
CONSTANTS
    none = none
    short = short
    long = long
    Empty = none
    Ticked = short
    Unchecked = long
    None = None
    Fields <- MCFields
    Checkable <- MCCheckable
    Values = {none, short, long}
    Facts <- MCFacts
    Pages <- MCPages
    MaxEdits = 2
    MaxLost = 1
INVARIANTS
    TypeOK
    PendingCounted
    
    AcceptedAsAnswered
    ErrorsShown
PROPERTIES
    
    SubmissionsDecided
