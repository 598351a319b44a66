\* Two turns, of which the goal loop may start one, a client and the cron that
\* finalize them at once, and every failure and control.
CONSTANTS
    user = user
    poller = poller
    cron = cron
    MaxTurns = 2
    MaxSent = 1
    Users = {user}
    Pollers = {poller}
    Cron = cron
    Budget = 2
    Outcomes = {"continue", "approval"}
    Faults = {"crash", "unreachable", "forget", "refuse", "unanswered"}
    Moves = {"send", "set", "paused", "stop", "poll"}
    MaxEvents = 2
SPECIFICATION FairSpec
INVARIANTS
    TypeOK
    FailsForCause
PROPERTIES
    PendingConcludes
CHECK_DEADLOCK FALSE
