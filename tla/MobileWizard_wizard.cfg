SPECIFICATION LiveSpec
CONSTANTS
    Agreements = {a1, a2}
    NoAgreement = none
    MaxVisits = 2
    MaxPending = 2
    MaxRows = 3
    MaxDepth = 2
PROPERTIES
    RowsKeepTheirAgreement
    DraftReachesDisk
