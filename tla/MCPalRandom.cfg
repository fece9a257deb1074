SPECIFICATION Spec
CONSTANTS
    AppSeeds <- MCSeeds
    MaxDraws = 10000
INVARIANTS
    TypeOK
    IntermediatesFit
    SeedInRange
    TableShared
    MinimalStandard
PROPERTIES
    DrawIsLehmer
