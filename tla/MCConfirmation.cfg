SPECIFICATION SignSpec
CONSTANTS
    Slots = {"cir", "cofactor1", "cofactor2", "miter"}
    subject = "cir"
    Designs <- ConfirmedDesigns
    WholeDesigns <- ThreeGates
    MaxGates = 12
    ReuseNames = FALSE
    Kinds = {"PosUnate", "NegUnate", "NESymmetry", "SVSymmetry"}
INVARIANTS
    VerdictRight
    SupportIsOfCone
PROPERTIES
    ImplementsFunctions
    SupportTerminates
