SPECIFICATION Spec
CONSTANTS
    Workers = {w1, w2, w3}
    Spawners = {}
    Task = {x1, x2, x3}
    Null = null
    Capacity = 2
    MayPush <- OneOwnerPushes
SYMMETRY TaskSymmetry
INVARIANTS
    TypeOK
    AtMostOnce
    NoTaskLost
    WithinCapacity
    InductiveInvariant
PROPERTIES
    DropsOnlyWhenFull
    PopFailsOnlyWhenEmpty
    ImplementsDeque
