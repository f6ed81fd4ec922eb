SPECIFICATION Spec
CONSTANTS
    Test = {1, 2, 3}
    BaseOf <- MCBaseOf
    Configs <- MCConfigs
    MAX_SESSIONS = 2
INVARIANTS
    TypeOK
    PassedIsReal
    SameMachine
    FailuresContained
PROPERTIES
    SessionEnds
CHECK_DEADLOCK FALSE
