CONSTANTS
    Canonical <- MCCanonical
    Knowledge = {"health"}
    CodexRuns = {"persona", "health"}
    CursorRuns = {"persona", "health"}
    Wide = Wide
    Narrow = Narrow
    Installs <- MCInstalls
    MaxRuns = 3
    MaxEdits = 1
SPECIFICATION Spec
INVARIANT HooksWork
PROPERTIES WiredOnce HandHooksKept PositionsKept
ACTION_CONSTRAINT MCEditsMeet
CHECK_DEADLOCK FALSE
