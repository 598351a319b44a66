\* One replica and one reviewed task: crashes, shutdowns, lost and broken answers, runs that
\* cannot be followed, stalls; and two outside writes.
CONSTANTS
    r1 = r1
    r2 = r2
    t1 = t1
    t2 = t2
    t3 = t3
    Tasks = {t1}
    Replicas = {r1}
    Sweepers = {r1}
    Releasers = {}
    Slots = {1}
    Deps <- NoDeps
    Reviewed = {t1}
    MaxConcurrent = 1
    MaxRetries = 1
    Faults = {"crash", "shutdown", "lost", "cut", "poll", "stall"}
    MaxFaults = 2
    Moves = {"requeue", "closeout", "evidence", "review"}
    MaxMoves = 2
SPECIFICATION Spec
INVARIANTS
    TypeOK
    LoadCountsCalls
    OneLiveRun
PROPERTIES
    DoneIsProven
CHECK_DEADLOCK FALSE
