SPECIFICATION Spec
CONSTANTS
    Party = {p1, p2, p3}
    Evidence = {e1}
    Unrouted = {}
    MaxIssues = 4
    MaxText = 1
    MaxSeals = 2
SYMMETRY Symmetry
INVARIANTS
    OnePendingRecordPerParty
    PendingPartiesAllAsked
    SealMatchesStatus
PROPERTIES
    NoSealLost
    KeepsContract
CHECK_DEADLOCK FALSE
