\* One chunk of the response is an error.
CONSTANTS
    Tool = {s1}
    Serial = {s1}
    MaxIterations = 2
    MaxRetries = 1
    MaxFaults = 1
    FaultKinds = {"chunk"}
SPECIFICATION Spec
CHECK_DEADLOCK FALSE
INVARIANT
    ErrorReplacesComplete
