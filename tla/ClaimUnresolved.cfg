CONSTANTS
    Paths = {1, 2}
    Ids <- MCIds
    Raws <- MCRaws
    Contents = {"x1", "x2", "y1", "plain", "bad"}
    Accesses = {}
    NoId = NoId
    NULL = NULL
    PathId <- MCPathId
    DeclaredId <- MCDeclaredId
    NamesOf <- MCNamesOf
    LinksOf <- MCLinksOf
    StemOf <- MCStemOf
    Unparsable = {"bad"}
    Unencodable = {}
    Absent = Absent
    Unread = Unread
    NoTx = NoTx
    NoTime = NoTime
    Modes = {"rebuild", "incremental"}
    Callers = {}
    Flaky = {}
    SameSecond = FALSE
    Born <- MCBorn
    FirstClock = 2
    MaxClock = 4
    MaxEdits = 2
SPECIFICATION Spec
INVARIANTS UnmatchedStaysUnresolved
CHECK_DEADLOCK FALSE
