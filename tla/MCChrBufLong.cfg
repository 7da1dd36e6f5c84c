CONSTANTS
    Capacities <- MCCapacities
    Lengths <- MCLengths
    Reserves = {}
    MaxUsed <- MCUsed
SPECIFICATION Spec
CHECK_DEADLOCK FALSE
INVARIANT TextInBlock
