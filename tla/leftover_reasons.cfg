\* A run that could not be followed to its end, after one without evidence.
CONSTANTS
    r1 = r1
    r2 = r2
    t1 = t1
    t2 = t2
    t3 = t3
    Tasks = {t1}
    Replicas = {r1}
    Sweepers = {r1}
    Releasers = {r1}
    Slots = {1}
    Deps <- NoDeps
    Reviewed = {}
    MaxConcurrent = 1
    MaxRetries = 2
    Faults = {"poll"}
    MaxFaults = 1
    Moves = {}
    MaxMoves = 0
SPECIFICATION Spec
INVARIANTS
    OneLiveRun
CHECK_DEADLOCK FALSE
