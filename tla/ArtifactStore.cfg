SPECIFICATION Spec
CONSTANTS
    Content = {c1, c2}
    MaxCount = 3
INVARIANTS
    TypeOK
    TablesAgree
    RefcountMatchesHolders
    HeldIsAvailable
