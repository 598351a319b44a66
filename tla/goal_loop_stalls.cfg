\* A goal whose agent asks to go on, one cron and no failure.
CONSTANTS
    user = user
    poller = poller
    cron = cron
    MaxTurns = 3
    MaxSent = 1
    Users = {user}
    Pollers = {}
    Cron = cron
    Budget = 3
    Outcomes = {"continue"}
    Faults = {}
    Moves = {"set"}
    MaxEvents = 0
SPECIFICATION Spec
INVARIANTS
    GoalGoesOn
CHECK_DEADLOCK FALSE
