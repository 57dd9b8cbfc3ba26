CONSTANTS
    Notes = {n1, n2}
    Texts = {"long", "short", "odd", "empty"}
    EmptyBody = {"empty"}
    NoTokens = {"odd"}
    Long = {"long"}
    NULL = NULL
    Absent = Absent
    p1 = p1
    p2 = p2
    Passes = {p1}
    PureGo = TRUE
    Legacy = {"never", "minilm", "bge-m3", "bge-m3 clean"}
    WriteLimit = 1
    MaxRuns = 2
    MaxWrites = 1
    a1 = a1
    a2 = a2
    None = None
    Asks = {a1, a2}
    Vaults <- MCVaults
    Questions <- MCQuestions
    Modes <- MCModes
    PackModes <- MCPackModes
    Window = 1
    Retention = 2
    Opaque = {"x"}
    MaxNow = 3
    MaxChanges = 1
SPECIFICATION EmbedAskSpec
SYMMETRY RunsSymmetry
INVARIANTS OneModelInTurn PassagesMatchText StampsTrue SentOnce DeliveryTold StaleIsTold
PROPERTIES FullFailsLoud PackSound
CHECK_DEADLOCK FALSE
