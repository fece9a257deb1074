SPECIFICATION Spec
CONSTANTS
    Seconds <- MCSeconds
    PerSecond = 2
    Wrap = 8
    Horizon = 16
INVARIANTS
    SilenceBounded
    OnePingWithoutInterval
