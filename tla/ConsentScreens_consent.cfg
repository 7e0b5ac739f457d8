SPECIFICATION ReturningSpec
CONSTANTS
    a = a
    b = b
    a1 = a1
    b1 = b1
    Parties <- MCParties
    Creator = a
    Screens = {a1, b1}
    Owner <- MCOwner
    Kinds <- MCKinds
    MaxRounds = 2
    MaxWrong = 1
    MaxFaults = 1
INVARIANTS
    ShownGrantsAreReal
PROPERTIES
    SealedByAll
    KeepsContract
    ConsentEndsInSeal
