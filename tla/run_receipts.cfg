\* One run and what the network and the owner do to it: receipts that are late, out
\* of order, repeated or lost, across attempts and recoveries; the run cancelled or
\* unbound, the device revoked and cleaned up, its workers hung. And it ends. A
\* revoked device stops for good, so the system may.
CONSTANTS
    j1 = j1
    j2 = j2
    j3 = j3
    pip = pip
    theo = theo
    Jobs = {j1}
    Agents = {pip}
    AgentOf <- SameAgent
    Lease = 2
    MaintLease = 1
    TTL = 3
    StartDeadline = 2
    Cap = 4
    ScanLimit = 2
    QueueLimit = 2
    MaxRecoveries = 1
    Delay = 1
    MaxClock = 4
    MaxFaults = 1
    Memory = 1
    Posts = {"queued", "accepted", "completed", "recoverable"}
    Faults = {"crash", "cancel", "unbind", "resend", "revoke"}
SPECIFICATION FairSpec
INVARIANTS
    TypeOK
    DocumentsAgree
    ResultOfLastAttempt
    LedgerIsLiveLeases
PROPERTIES
    FinalIsFinal
    ImplementsContract
    RunsEnd
CHECK_DEADLOCK FALSE
