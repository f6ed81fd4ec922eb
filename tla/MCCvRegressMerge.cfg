SPECIFICATION Spec
CONSTANTS
    CommandLines <- MCCommandLines
    None = None
    Text = {"main", "clic", "same", "spare", "gone", "default", "clic_default", "no_bitmanip", "alt", "pma", "short", "YES", "NO"}
    MAX_SESSIONS = 3
INVARIANTS
    EveryRunIsBuilt
CHECK_DEADLOCK FALSE
