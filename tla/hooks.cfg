CONSTANTS
    Engines = {e1, e2}
    Jobs = {j1, j2}
    Fidelity = 2
    Durations = {1, 2}
    MaxNow = 2
    MaxStops = 1
    Granularity = 5
    Zone = 60
    Facets = {red}
    Minutes <- MCMinutes
    Queries <- MCQueries
    MaxHookAlls = 1
SPECIFICATION Spec
CHECK_DEADLOCK FALSE
INVARIANTS
    HookNotEarly
    TakenOnce
    StatsAgree
    IndexKept
    NoLateResume
PROPERTIES
    SleepersWake
    TargetsHooked
