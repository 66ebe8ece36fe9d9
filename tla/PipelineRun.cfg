SPECIFICATION Spec
CONSTANTS
    MaxRetries = 2
    TopK = 2
    MaxDegraded = 2
INVARIANTS
    TypeOK
    ErrorsAccounted
    SuccessIsVerified
    MemoryCredit
PROPERTIES
    EveryRunEnds
    ContractSpec
CHECK_DEADLOCK FALSE
