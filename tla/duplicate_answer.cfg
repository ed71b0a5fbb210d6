\* Two engines that never stop; one worker answers a request twice.
SPECIFICATION FaultySpec
CONSTANTS
    p = p
    c = c
    aw = aw
    w1 = w1
    w2 = w2
    a1 = a1
    NoNode = NoNode
    NoJob = NoJob
    Job = {p}
    Node = {w1, w2, aw}
    Engine = {e1, e2}
    Client = {k1}
    Roots = {p}
    FixedId = {p}
    Unconditional = {w1, w2}
    Answers = {"success"}
    MaxThreads = 2
    Mortal = {}
    MaxFaults = 1
    Owner <- PairOwner
    Kind <- PairKind
    Children <- PairChildren
    Spawns <- NoSpawns
INVARIANTS
    ConcludedOnce
CHECK_DEADLOCK FALSE
