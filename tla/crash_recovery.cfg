\* One plain activity, one engine that stops once and is restarted.
SPECIFICATION FaultyFairSpec
CONSTANTS
    p = p
    c = c
    aw = aw
    w1 = w1
    w2 = w2
    a1 = a1
    NoNode = NoNode
    NoJob = NoJob
    Job = {p}
    Node = {a1}
    Engine = {e1}
    Client = {k1}
    Roots = {p}
    FixedId = {p}
    Unconditional = {a1}
    Answers = {"success"}
    MaxThreads = 2
    Mortal = {e1}
    MaxFaults = 1
    Owner <- LoneOwner
    Kind <- LoneKind
    Children <- LoneChildren
    Spawns <- NoSpawns
PROPERTIES
    ActivitiesComplete
CHECK_DEADLOCK FALSE
