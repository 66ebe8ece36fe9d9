SPECIFICATION Spec
CONSTANTS
    About = {s0}
    Keys = {k1}
    Short = {a}
    Long = {l1, l2}
    Digest = digest
    Talkative = l1
    Summary <- SameSummary
    Said <- SomeTalk
    None = None
    Empty = Empty
    Exchange = {x1, x2}
    MaxRelays = 3
SYMMETRY Symmetry
INVARIANTS
    TypeOK
    CoreSurvives
    StructuredKeepsReferences
    AnswersOwnRequest
    ComputedOnce
CHECK_DEADLOCK FALSE
