CONSTANTS
    n1 = n1
    n1c = n1c
    n2 = n2
    copy = copy
    away = away
    Docs = {1, 2}
    Texts <- MCTexts
    Names = {n1, n1c, n2, copy, away}
    Mine = {n1, n1c, n2, copy}
    Temps = {copy}
    NameOf <- MCNameOf
    Fold <- MCFold
    Slug <- MCSlug
    Importers = {watcher}
    Watch = watcher
    OthersId = OthersId
    Hand = Hand
    NoFile = NoFile
    MaxEdits = 1
    TextsAtStart <- MCTextsAtStart
    NotesAtStart <- MCNotesAtStart
    MaxHands = 1
    MaxRuns = 2
    a = a
    b = b
    idKey = idKey
    titleKey = titleKey
    nameKey = nameKey
    v = v
    w = w
    p1 = p1
    c1 = c1
    NONE = NONE
    ABSENT = ABSENT
    Files <- MCFiles
    Keys <- MCKeys
    Values <- MCValues
    RequiredRoles <- MCRequiredRoles
    FilesAtStart <- MCFilesAtStart
    Immutable = {idKey}
    Allowed = {idKey, titleKey, nameKey}
    Executors = {p1}
    Commands = {c1}
    Plans <- AnyPlans
    Mutations <- MCMutations
    GitAtStart <- MCGitAtStart
    MaxUser = 1
SPECIFICATION PlanImportSpec
CONSTRAINT PlanExplored
INVARIANTS RolledBack OutcomeAgrees WriteLosesNothing LiveNotesKept RerunSettles WatchInStep
PROPERTIES HandEditsKept HandWorkKept IdsStayApart
CHECK_DEADLOCK FALSE
