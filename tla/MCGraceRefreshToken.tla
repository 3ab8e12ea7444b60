------------------------ MODULE MCGraceRefreshToken ------------------------
(***************************************************************************)
(* Small instances of GraceRefreshToken.                                   *)
(***************************************************************************)
EXTENDS GraceRefinement, TLC

CONSTANTS r1, r2, r3, r4, r5,
          graceful, sliding, strict, reusable

Symmetry == Permutations(Request)

\* The settings of Config.cs, scaled: absolute lifetime, grace of one second and
\* two attempts; a sliding variant; one-time tokens without grace; and tokens
\* that may be used again.
AllClients ==
    graceful :> [usage |-> "OneTimeOnly", expiration |-> "Absolute",
                 absoluteLifetime |-> 2, slidingLifetime |-> 1,
                 graceEnabled |-> TRUE, graceTTL |-> 1, graceMaxAttempts |-> 2]
    @@
    sliding  :> [usage |-> "OneTimeOnly", expiration |-> "Sliding",
                 absoluteLifetime |-> 2, slidingLifetime |-> 1,
                 graceEnabled |-> TRUE, graceTTL |-> 1, graceMaxAttempts |-> 3]
    @@
    strict   :> [usage |-> "OneTimeOnly", expiration |-> "Sliding",
                 absoluteLifetime |-> 2, slidingLifetime |-> 1,
                 graceEnabled |-> FALSE, graceTTL |-> 0, graceMaxAttempts |-> 0]
    @@
    reusable :> [usage |-> "ReUse", expiration |-> "Sliding",
                 absoluteLifetime |-> 2, slidingLifetime |-> 1,
                 graceEnabled |-> FALSE, graceTTL |-> 0, graceMaxAttempts |-> 0]

Configured == [c \in Client |-> AllClients[c]]

\* The same with an absolute lifetime of one second: a token expires, renewed or
\* not, while the clock makes two steps.
Brief == [c \in Client |-> [AllClients[c] EXCEPT !.absoluteLifetime = 1]]
=============================================================================
