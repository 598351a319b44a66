\* Two computers that send each other a message, with a crash, a lost answer, a
\* request that arrives late, or a failing Hermes.
CONSTANTS
    m1 = m1
    m2 = m2
    a = a
    b = b
    Messages = {m1, m2}
    NoMessage = NoMessage
    Devices = {a, b}
    From <- BothWaysFrom
    To <- BothWaysTo
    Lease = 1
    TTL = 2
    QueueLimit = 1
    MaxClock = 3
    Faults = {"timeout", "lost", "rpc", "crash", "refuse"}
    MaxFaults = 1
SPECIFICATION FairSpec
INVARIANTS
    TypeOK
    EnvelopesQueued
    ReplyOfLastAttempt
PROPERTIES
    ImplementsContract
    EnvelopesEnd
CHECK_DEADLOCK FALSE
