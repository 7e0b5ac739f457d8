SPECIFICATION FairSpec
CONSTANTS
    Job = {j1, j2}
    MaxRetries = 1
    MaxSeals = 2
    MaxLosses = 2
INVARIANTS
    KeyIsAnObject
PROPERTY
    GeneratingEnds
