SPECIFICATION Spec
CONSTANT None = None
INVARIANTS
    TypeOK
    NothingRunsOn
    WorkdirIsRemoved
PROPERTY Returns
CHECK_DEADLOCK FALSE
