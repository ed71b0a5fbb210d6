\* Two engines, entries delivered once, a client and an await racing for job c.
SPECIFICATION FairSpec
CONSTANTS
    p = p
    c = c
    aw = aw
    w1 = w1
    w2 = w2
    a1 = a1
    NoNode = NoNode
    NoJob = NoJob
    Job = {p, c}
    Node = {aw, w1, w2, a1}
    Engine = {e1, e2}
    Client = {k1}
    Roots = {p, c}
    FixedId = {p, c}
    Unconditional = {aw}
    Answers = {"success", "error"}
    MaxThreads = 2
    Owner <- MCOwner
    Kind <- MCKind
    Children <- MCChildren
    Spawns <- MCSpawns
INVARIANTS
    TypeOK
    SemaphoreCounts
    CustodyExclusive
    CustodyKept
    ConcludedOnce
PROPERTIES
    ImplementsPromise
    JobsConclude
\* A quorum whose jobs are all concluded has nothing left to do.
CHECK_DEADLOCK FALSE
