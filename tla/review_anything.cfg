\* Two replicas and one card: every verdict and failure, and a human who accepts
\* the card, reopens it or sends it back.
CONSTANTS
    c1 = c1
    c2 = c2
    r1 = r1
    r2 = r2
    Cards = {c1}
    Replicas = {r1, r2}
    MaxConcurrent = 1
    Faults = {"crash", "throw", "config", "error", "read"}
    MaxFaults = 2
    Moves = {"accept", "reopen", "rework"}
    MaxMoves = 2
SPECIFICATION FairSpec
INVARIANTS
    TypeOK
    OneReviewer
    ReviewsCounted
    ApprovedAsIs
PROPERTIES
    ReviewConcludes
CHECK_DEADLOCK FALSE
