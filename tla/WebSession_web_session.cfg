SPECIFICATION Spec
CONSTANTS
    Tabs = {t1, t2}
    MaxSessions = 3
INVARIANTS
    TabsAgree
PROPERTIES
    RecoveryEnds
