CONSTANTS
    i1 = i1
    i2 = i2
    i3 = i3
    Picker = {p1, p2}
    NoPicker = NoPicker
    Image = {i1, i2, i3}
    NoImage = NoImage
    Results <- MCResults
SPECIFICATION Spec
CHECK_DEADLOCK FALSE
INVARIANTS
    TypeOK
    ListsOwnRows
    EndComesLast
    SingletonIsAlive
    OnlyOrphansCrash
PROPERTY EverythingListed
