\* Two engines, every entry delivered once; a worker answers "pending" first.
SPECIFICATION FaultySpec
CONSTANTS
    p = p
    c = c
    aw = aw
    w1 = w1
    w2 = w2
    a1 = a1
    NoNode = NoNode
    NoJob = NoJob
    Job = {p}
    Node = {w1, w2, aw}
    Engine = {e1, e2}
    Client = {k1}
    Roots = {p}
    FixedId = {p}
    Unconditional = {w1, w2}
    Answers = {"success", "pending"}
    MaxThreads = 2
    Mortal = {}
    MaxFaults = 0
    Owner <- PairOwner
    Kind <- PairKind
    Children <- PairChildren
    Spawns <- NoSpawns
PROPERTIES
    NoReseed
CHECK_DEADLOCK FALSE
