CONSTANTS
    Engines = {e1, e2}
    Manifest <- MCManifest
    Values <- MCValues
    MetaPaths <- MCMetaPaths
    Samples <- MCSamples
    Slots = 2
    RangeSize = 6
    Rounds = 2
    MaxReads = 1
    MaxStops = 1
    FreshDeploys = 2
    Budgets <- MCBudgets
SPECIFICATION Spec
SYMMETRY Symmetry
CHECK_DEADLOCK FALSE
INVARIANTS
    RangesDisjoint
    SymbolsDistinct
    CopiesOnlyLag
    VersionsComplete
    StateReadsBack
    TopicsResolve
    ActivationReachesAll
PROPERTIES
    ValuesKept
