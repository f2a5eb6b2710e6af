SPECIFICATION Spec
CONSTANTS
    a1 = a1
    a2 = a2
    a3 = a3
    Port = {p1, p2}
    App = {a1, a2, a3}
    Kind <- ThreeKinds
    Option <- Options
    Other = Other
    None = None
INVARIANTS TypeOK CacheTruthful StartsWithOwnApp ErasedIsFlashed
