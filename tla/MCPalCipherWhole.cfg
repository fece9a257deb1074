SPECIFICATION Spec
CONSTANTS
    Bits <- MCBits
    Cap = 4
    LutLen = 6
    Tables <- MCTables
CHECK_DEADLOCK FALSE
INVARIANTS
    RoundTrip
