\* The decimal ledger below the overflow of its thread counters.
SPECIFICATION Spec
CONSTANTS
    CounterWidth = 2
    MaxDeliveries = 5
    MaxReentries = 7
PROPERTIES
    ImplementsCalls
    ClosedStaysClosed
INVARIANTS
    ThreadsDistinct
    EntryOnce
    NoAnswerBeforeExit
\* The bounds on deliveries and re-entries are reached in the end.
CHECK_DEADLOCK FALSE
