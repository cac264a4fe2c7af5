SPECIFICATION Spec
CONSTANTS
    Names <- Names3
    Cones <- FewCones
    Orders <- TwoOrders
    MaxIter = 1
    CheckerFails = TRUE
INVARIANTS
    UnateIsConfirmed
