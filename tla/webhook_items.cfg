\* Two items of one webhook and two overlapping cron runs, with a failure or a
\* move of the administrator.
CONSTANTS
    i1 = i1
    i2 = i2
    i3 = i3
    w = w
    Items = {i1, i2}
    NoItem = NoItem
    Hooks = {w}
    HookOf <- OneHook
    Runs = {1, 2}
    MaxBatch = 2
    MaxRetries = 1
    Threshold = 2
    Faults = {"crash", "claim", "write"}
    Moves = {"enable", "disable", "delete", "requeue", "cancel", "test"}
    MaxEvents = 1
SPECIFICATION FairSpec
INVARIANTS
    TypeOK
    OneHandler
    AcceptedOnce
    GivenUpAfterRetries
PROPERTIES
    DisabledForCause
    EndedIsLeft
    ItemsEnd
CHECK_DEADLOCK FALSE
