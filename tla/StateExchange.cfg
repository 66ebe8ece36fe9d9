SPECIFICATION Spec
CONSTANTS
    Plan = {p1, p2}
    Text = {t1}
    MaxSegments = 5
INVARIANTS
    TypeOK
    PlansAreComplete
    SegmentsAreAccounted
    LabelIsTrue
