CONSTANTS
    Clients = {c1}
    Servers = {s1, s2}
    Inodes = {1, 2}
    ReuseInodes = FALSE
    None = None
    IdleTime = 1
    QueueTime = 1
    AnswerTime = 1
SPECIFICATION Spec
INVARIANTS AtMostOneCopy
PROPERTIES ReplacementKept EveryAskEnds WedgedLetsGo QueueMoves
CHECK_DEADLOCK FALSE
