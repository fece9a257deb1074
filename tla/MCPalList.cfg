SPECIFICATION Spec
CONSTANTS
    Items = {x1, x2, x3, x4}
    Null = Null
    Lists = {rooms, other}
    RoomList = rooms
    MaxIndex = 2
    MaxRooms = 2
    SizeMod = 2
CHECK_DEADLOCK FALSE
SYMMETRY Symmetry
INVARIANTS
    TypeOK
PROPERTIES
    CallsAsSequences
    SoundUntilRemoval
    HarmOnSoundLists
    LostOnlyBy
