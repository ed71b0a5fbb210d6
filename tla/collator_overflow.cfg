\* One call more than a thread counter holds.
SPECIFICATION Spec
CONSTANTS
    CounterWidth = 1
    MaxDeliveries = 1
    MaxReentries = 10
PROPERTIES
    ClosedStaysClosed
\* The bounds on deliveries and re-entries are reached in the end.
CHECK_DEADLOCK FALSE
