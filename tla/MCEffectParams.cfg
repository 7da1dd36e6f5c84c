CONSTANTS
    Absent = Absent
    NotANumber = NotANumber
    Unreadable = Unreadable
    Null = Null
    NoCommand = NoCommand
    Commands <- AppCommands
    Beginnings <- AppBeginnings
SPECIFICATION Spec
CHECK_DEADLOCK FALSE
INVARIANTS ParamsStayAllocated
