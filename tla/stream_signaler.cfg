\* Two consumers; a request that may fail, and is retried once,
\* or be dealt with without an answer; three disturbances.
SPECIFICATION FairSpec
CONSTANTS
    Request = {r1}
    Consumer = {c1, c2}
    Outcomes = {"answer", "nothing", "retryable"}
    PolicyRetries = 0
    MaxRetries = 4
    ReclaimCount = 1
    MaxDelays = 1
    MaxBreaks = 2
INVARIANTS
    TypeOK
    RequestKept
    RepeatsAreClaims
    CallsBounded
PROPERTIES
    RequestsConclude
\* Consumers with nothing to read block.
CHECK_DEADLOCK FALSE
