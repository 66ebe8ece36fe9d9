SPECIFICATION ReuseSpec
CONSTANTS
    Tasks <- AllTasks
    Workloads <- Together
    Value <- Values_
    None = None
    Compute <- Total
    Strategies = {guard, logging}
    Fixes <- Repairs
    Semantic <- Closeness
    Lexical <- Keywords
    SearchK = 2
    TopK = 2
    MaxRetries = 1
    MaxFaults = 2
    Content <- Contents
    Sig <- Identity
    Sim <- Similarity
    Qualities = {4, 18}
    MaxRecords <- NumContents
    Rated <- AllRecords
    divide = divide
    modulo = modulo
    process_a = process_a
    process_b = process_b
    test = test
    guard = guard
    logging = logging
INVARIANT SameSubproblemIsReused
