SPECIFICATION Spec
CONSTANTS
    Absent = Absent
    NotANumber = NotANumber
    Unreadable = Unreadable
    Null = Null
    photoA = photoA
    photoB = photoB
    noPath = noPath
    Path <- MCPath
    NoPath <- noPath
    Commands <- MCCommands
    MaxInits = 2
    MaxPaths = 3
    MaxOutputs = 2
    MaxEffects = 3
INVARIANTS HeapTypeOK FreedOnce SurvivorsKnown PixelsLostPerPath
CHECK_DEADLOCK FALSE
