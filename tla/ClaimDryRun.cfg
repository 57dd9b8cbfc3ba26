CONSTANTS
    a = a
    b = b
    idKey = idKey
    titleKey = titleKey
    nameKey = nameKey
    v = v
    w = w
    p1 = p1
    c1 = c1
    NONE = NONE
    ABSENT = ABSENT
    Files <- MCFiles
    Keys <- MCKeys
    Values <- MCValues
    RequiredRoles <- MCRequiredRoles
    FilesAtStart <- MCFilesAtStart
    Immutable = {idKey}
    Allowed = {idKey, titleKey, nameKey}
    Executors = {p1}
    Commands = {}
    Plans <- LongPlans
    Mutations <- MCMutations
    GitAtStart <- InRoot
    MaxUser = 0
SPECIFICATION Spec
INVARIANT DryRunWritesNothing
CHECK_DEADLOCK FALSE
