CONSTANTS
    Calls = {c1, c2}
    Requests <- MCRequests
    Grants <- MCGrants
    Revokes <- MCRevokes
    Policies <- MCPolicies
    MaxAge = 1
    MaxSkew = 2
    MaxStall = 1
    NoCall = NoCall
    None = None
    MaxClock = 4
    Slugs = {"a", "b", "h"}
    Enrollments <- MCEnrollments
    Relays = {"relay"}
    Ours = "ours"
    Other = "other"
    Updaters = {u1}
    Enrollers = {e1}
    FirstRegistries <- MCFirstRegistries
    Validities = {1}
    Fraction = 2
    Day = 2
    MaxStaleness = 2
    NoAgeLimit = 100
    MaxSafeEpoch = 3
    Junk = Junk
    NoFile = NoFile
    MaxInstant = 4
SYMMETRY MCSymmetry
SPECIFICATION IdentitySpec
INVARIANTS AcceptedOnce AcknowledgedIsDurable RevokedStaysDown CopyFollowsPin FreshnessForeseen
PROPERTIES RevocationHolds KeepsLedger
