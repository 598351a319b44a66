\* Three runs of one profile that leases one at a time and may be reserved for a
\* credential restart, in a queue that holds two: claims, lapses, reclaims, crashes,
\* cancellations, refusals, expiries and every change of authority against each other.
CONSTANTS
    j1 = j1
    j2 = j2
    j3 = j3
    pip = pip
    theo = theo
    Jobs = {j1, j2, j3}
    Agents = {pip}
    AgentOf <- SameAgent
    Lease = 1
    MaintLease = 2
    TTL = 2
    StartDeadline = 2
    Cap = 1
    ScanLimit = 2
    QueueLimit = 2
    MaxRecoveries = 1
    Delay = 0
    MaxClock = 3
    MaxFaults = 1
    Memory = 0
    Posts = {"accepted", "progress"}
    Faults = {"maintain", "unbind", "rotate", "resend", "pause", "outage", "cancel", "crash", "loss"}
SPECIFICATION Spec
INVARIANTS
    LiveJobsQueued
    LeasesWithinCap
    MaintenanceAlone
    WithinQueueLimit
PROPERTIES
    EmptyClaimMeansNoWork
    ExpiresForCause
SYMMETRY JobSymmetry
