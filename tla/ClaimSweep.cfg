CONSTANTS
    Paths = {1, 2}
    Ids <- MCIds
    Raws <- MCRaws
    Contents = {"x1", "y1"}
    Accesses = {}
    NoId = NoId
    NULL = NULL
    PathId <- MCPathId
    DeclaredId <- MCDeclaredId
    NamesOf <- MCNamesOf
    LinksOf <- MCLinksOf
    StemOf <- MCStemOf
    Unparsable = {}
    Unencodable = {}
    Absent = Absent
    Unread = Unread
    NoTx = NoTx
    NoTime = NoTime
    Modes = {"rebuild"}
    Callers = {k1}
    Flaky = {}
    SameSecond = FALSE
    Born <- MCBorn
    FirstClock = 2
    MaxClock = 4
    MaxEdits = 1
SPECIFICATION Spec
PROPERTIES SweptIsGone
CHECK_DEADLOCK FALSE
