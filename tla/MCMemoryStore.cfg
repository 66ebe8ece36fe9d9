SPECIFICATION Spec
CONSTANTS
    Content <- Contents
    Sig <- Signature
    Sim <- Similarity
    Qualities = {4, 18}
    MaxRecords = 3
    Rated = {1}
INVARIANTS
    IndexMatchesDb
    VersionsFormChains
    StoredOnce
    HarmIsolates
