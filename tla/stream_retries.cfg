\* A request whose every try fails with a code the policy retries 3 times.
SPECIFICATION Spec
CONSTANTS
    Request = {r1}
    Consumer = {c1}
    Outcomes = {"retryable"}
    PolicyRetries = 3
    MaxRetries = 4
    ReclaimCount = 3
    MaxDelays = 0
    MaxBreaks = 0
INVARIANTS
    RetriesWithinPolicy
\* Consumers with nothing to read block.
CHECK_DEADLOCK FALSE
