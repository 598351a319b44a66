\* A task and its dependent on two replicas with one slot each: a crash, or a failure before the post.
CONSTANTS
    r1 = r1
    r2 = r2
    t1 = t1
    t2 = t2
    t3 = t3
    Tasks = {t1, t2}
    Replicas = {r1, r2}
    Sweepers = {r1}
    Releasers = {r1}
    Slots = {1}
    Deps <- Chain
    Reviewed = {}
    MaxConcurrent = 1
    MaxRetries = 1
    Faults = {"crash", "route"}
    MaxFaults = 1
    Moves = {}
    MaxMoves = 0
SPECIFICATION FairSpec
INVARIANTS
    OneOwner
    DeferredIsWoken
PROPERTIES
    TasksSettle
CHECK_DEADLOCK FALSE
