SPECIFICATION Spec
CONSTANTS
    Requests = {r1, r2}
    MaxSessions = 2
INVARIANTS
    NoSelfRefusal
PROPERTIES
    RequestsSettle
    SignedOutReachesSignIn
