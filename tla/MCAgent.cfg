SPECIFICATION AgentSpec
CONSTANTS
    Receivers = {r1, r2}
    Threads = {t1, t2}
    Functions = {f1}
    MaxRequests = 2
    NoFunction = none
    Garbage = garbage
    Callers = {c1, c2, c3}
    MaxCalls = 2
    MaxLives = 2
    NoSocket = nosocket
    Pieces = {"{", "}", "1", "2", "4"}
    Documents <- Texts
    Sendable <- Sent
    Taken <- ActedOn
    Fatal <- Failing
    Capacity = 5
    Unwritten = "?"
    MaxWrites = 3
    MaxConnects = 2
    MaxFinishes = 1
    MaxPackets = 1
    Descriptors = {3, 4}
    Modules <- TwoModules
    Addresses <- Branches
    HashMask = 3
    ExclusiveOr <- BitwiseXor
    CountSize = 3
    MaxBlocks = 4
INVARIANTS
    QueriesExact
    ListenersKnown
    SharedUnlessOverlap
    HeardUnlessShorter
    MadeOfPackets
    LateAtMostOne
    BlocksApart
PROPERTIES
    ForeignKept
    WaitEnds
CHECK_DEADLOCK FALSE
