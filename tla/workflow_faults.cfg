\* One engine that may stop between any two round trips, workers that may
\* answer twice or answer "pending" first.
SPECIFICATION FaultySpec
CONSTANTS
    p = p
    c = c
    aw = aw
    w1 = w1
    w2 = w2
    a1 = a1
    NoNode = NoNode
    NoJob = NoJob
    Job = {p, c}
    Node = {aw, w1, w2, a1}
    Engine = {e1}
    Client = {k1}
    Roots = {p}
    FixedId = {p, c}
    Unconditional = {aw}
    Answers = {"success", "pending"}
    MaxThreads = 2
    Mortal = {e1, k1}
    MaxFaults = 2
    Owner <- MCOwner
    Kind <- MCKind
    Children <- MCChildren
    Spawns <- MCSpawns
INVARIANTS
    SemaphoreCounts
    LegsCloseOnce
    ConcludedOnce
PROPERTIES
    NoReseed
\* Activities whose entry was lost with a handler leave the quorum idle.
CHECK_DEADLOCK FALSE
