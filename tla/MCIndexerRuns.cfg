CONSTANTS
    Paths = {1, 2}
    Ids <- MCIds
    Raws <- MCRaws
    Contents = {"x1", "y1", "plain", "xbad"}
    Accesses = {a1}
    NoId = NoId
    NULL = NULL
    PathId <- MCPathId
    DeclaredId <- MCDeclaredId
    NamesOf <- MCNamesOf
    LinksOf <- MCLinksOf
    StemOf <- MCStemOf
    Unparsable = {}
    Unencodable = {"xbad"}
    Absent = Absent
    Unread = Unread
    NoTx = NoTx
    NoTime = NoTime
    Modes = {"rebuild", "incremental"}
    k1 = k1
    Callers = {}
    Flaky = {1}
    SameSecond = FALSE
    Born <- MCBorn
    FirstClock = 2
    MaxClock = 4
    MaxEdits = 2
SPECIFICATION RunsSpec
INVARIANTS IndexSound NoFileLost
PROPERTIES NoNoteWiped HistoryKept
CHECK_DEADLOCK FALSE
