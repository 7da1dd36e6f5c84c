CONSTANTS
    Absent = Absent
    NotANumber = NotANumber
    Unreadable = Unreadable
    Null = Null
    NoCommand = NoCommand
    Commands <- MCCommands
    Beginnings <- MCBeginnings
SPECIFICATION Spec
CHECK_DEADLOCK FALSE
INVARIANTS TypeOK ValidDecodesLast
PROPERTY RefusedLeavesParams
