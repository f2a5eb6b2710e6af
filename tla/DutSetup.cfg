SPECIFICATION Spec
CONSTANTS
    p1 = p1
    p2 = p2
    p3 = p3
    Ports <- ThreePorts
    Plans <- AllPlans
INVARIANTS UsersCloseFirst NothingLeft OccupiedIsHeld FoundPortsAreFree LogsAreDistinct ClassesFit
