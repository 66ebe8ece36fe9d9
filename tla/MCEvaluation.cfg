SPECIFICATION Spec
CONSTANTS
    Experiments = {e1, e2}
    Suites = {"main", "ablation"}
    Configs <- ConfigsOf
    UsesMemory = {"D"}
    Repeat = 2
    TaskCount = 2
    Seconds = {1}
    None = None
INVARIANTS
    TypeOK
    ReportMeansComplete
    FinishedIsIntact
    RepeatsAgree
SYMMETRY Symmetry
CHECK_DEADLOCK FALSE
