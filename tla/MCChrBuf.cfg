CONSTANTS
    Capacities <- MCCapacities
    Lengths <- MCLengths
    Reserves <- MCReserves
    MaxUsed <- MCUsed
SPECIFICATION Spec
CHECK_DEADLOCK FALSE
INVARIANTS
    TypeOK
    CapabilityBacked
    OverrunIsTheTerminator
PROPERTY EnsureGivesRoom
