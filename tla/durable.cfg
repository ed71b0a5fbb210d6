CONSTANTS
    Starts = {s1, s2}
    Workers = {k1, k2}
    MaxRefusals = 1
    Script <- MCScript
    StartOf <- MCStartOf
    Serves <- MCServes
    MaxMishaps = 1
    MaxClaims = 1
SPECIFICATION Spec
CHECK_DEADLOCK FALSE
INVARIANTS
    ReplaysStray
    NotForgotten
PROPERTIES
    Settles
    ResultArrives
