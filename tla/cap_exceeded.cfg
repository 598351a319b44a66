\* Three runs of a profile with two slots, with claims that commit later than they
\* read the clock.
CONSTANTS
    j1 = j1
    j2 = j2
    j3 = j3
    pip = pip
    theo = theo
    Jobs = {j1, j2, j3}
    Agents = {pip}
    AgentOf <- SameAgent
    Lease = 2
    MaintLease = 1
    TTL = 4
    StartDeadline = 4
    Cap = 2
    ScanLimit = 3
    QueueLimit = 3
    MaxRecoveries = 0
    Delay = 1
    MaxClock = 4
    MaxFaults = 1
    Memory = 0
    Posts = {"queued"}
    Faults = {"crash"}
SPECIFICATION Spec
INVARIANTS
    LeasesWithinCap
SYMMETRY JobSymmetry
