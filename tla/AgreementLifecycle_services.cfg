SPECIFICATION Spec
CONSTANTS
    Party = {p1, p2}
    Evidence = {e1}
    Unrouted = {"close_agreement", "cancel_reopen", "reopen_agreement"}
    MaxIssues = 3
    MaxText = 1
    MaxSeals = 2
PROPERTIES
    PendingSealFreshConsent
    ActivatedByEveryone
    ReopenedByEveryone
CHECK_DEADLOCK FALSE
