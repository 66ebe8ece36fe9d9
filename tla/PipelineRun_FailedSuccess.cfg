SPECIFICATION Spec
CONSTANTS
    MaxRetries = 1
    TopK = 2
    MaxDegraded = 2
INVARIANT FailedRunIsNotASuccess
CHECK_DEADLOCK FALSE
