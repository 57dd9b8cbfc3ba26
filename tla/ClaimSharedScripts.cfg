CONSTANTS
    Canonical <- MCCanonical
    Knowledge = {"health"}
    CodexRuns = {"persona", "health"}
    CursorRuns = {"persona", "health"}
    Wide = Wide
    Narrow = Narrow
    Installs <- MCInstalls
    MaxRuns = 3
    MaxEdits = 0
SPECIFICATION Spec
INVARIANT OtherAgentKeepsScripts
ACTION_CONSTRAINT MCEditsMeet
CHECK_DEADLOCK FALSE
