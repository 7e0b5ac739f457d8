SPECIFICATION LiveSpec
CONSTANTS
    a = a
    b = b
    Parties = {a, b}
    Creator = a
    Setups <- MCSetups
    MaxTurns = 1
PROPERTIES
    ReopenedByBoth
    KeepsContract
    PdfShown
    ReopenEnds
