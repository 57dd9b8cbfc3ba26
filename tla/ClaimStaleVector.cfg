CONSTANTS
    Notes = {n1}
    Texts = {"long", "short", "odd", "empty"}
    EmptyBody = {"empty"}
    NoTokens = {"odd"}
    Long = {"long"}
    NULL = NULL
    Absent = Absent
    Passes = {p1}
    PureGo = FALSE
    Legacy = {"never"}
    WriteLimit = 1
    MaxRuns = 1
    MaxWrites = 1
SPECIFICATION Spec
SYMMETRY Symmetry
INVARIANTS VectorsMatchText
CHECK_DEADLOCK FALSE
