SPECIFICATION LiveSpec
CONSTANTS
    NoFile = NoFile
    NoType = NoType
    front = front
    good = good
    bad = bad
    odd = odd
    doc = doc
    Types = {front}
    Photos = {good, bad, odd}
    WebFiles = {doc}
    Required = {front}
    MinPhotos = 1
    Unsupported = {odd}
    Altered = {bad}
    MaxUploads = 2
    MaxFaults = 1
    MaxMounts = 1
INVARIANTS
    ProceedHasConfirmed
    LossIsRecovered
PROPERTIES
    ProgressEnds
CHECK_DEADLOCK FALSE
