SPECIFICATION Spec
CONSTANTS
    Names <- Names3
    Cones <- ConesUpTo3
    Orders <- TwoOrders
    MaxIter = 1
    CheckerFails = FALSE
INVARIANTS
    NeverThrows
