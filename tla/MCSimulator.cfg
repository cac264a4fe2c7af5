SPECIFICATION Spec
CONSTANTS
    Names <- Names3
    Cones <- ConesUpTo3
    Orders <- TwoOrders
    MaxIter = 2
    CheckerFails = FALSE
INVARIANTS
    TypeOK
    NoPropertyLost
    UnatenessExact
    SymmetryExact
    InputsInOnePlace
    NoSVSymmetryLost
