SPECIFICATION ScreensLive
CONSTANTS
    plus = plus
    protect = protect
    Basic = basic
    First = plus
    Plans = {plus, protect}
    Kinds = {"mobile", "web"}
    MaxCheckouts = 2
    MaxRenewals = 1
    MaxFaults = 1
    MaxRunning = 1
    MaxVisits = 1
    MaxTurns = 2
INVARIANTS
    PlanWasPaid
    OneRowPerCharge
    SuccessIsPaid
PROPERTIES
    KeepsAccount
    PaidIsActivated
    NoDeadEnd
CHECK_DEADLOCK FALSE
