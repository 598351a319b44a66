\* A queue longer than the window a claim scans, and a saturated profile in front.
CONSTANTS
    j1 = j1
    j2 = j2
    j3 = j3
    pip = pip
    theo = theo
    Jobs = {j1, j2, j3}
    Agents = {pip, theo}
    AgentOf <- LastForTheo
    Lease = 1
    MaintLease = 2
    TTL = 2
    StartDeadline = 2
    Cap = 1
    ScanLimit = 2
    QueueLimit = 3
    MaxRecoveries = 1
    Delay = 0
    MaxClock = 2
    MaxFaults = 1
    Memory = 0
    Posts = {"queued", "recoverable"}
    Faults = {}
SPECIFICATION Spec
PROPERTIES
    HealthyProfileContinues
SYMMETRY PipSymmetry
