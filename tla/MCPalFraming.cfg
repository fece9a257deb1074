SPECIFICATION Spec
CONSTANTS
    PayloadLens <- MCPayloadLens
    AnyLens <- MCAnyLens
    MaxMessages = 3
INVARIANTS
    TypeOK
    AloneHandled
    HandledExactly
PROPERTIES
    HarmNeedsSplit
    ShortDispatchFollowsDrop
