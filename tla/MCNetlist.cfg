SPECIFICATION Spec
CONSTANTS
    Slots = {s1}
    Designs <- AllDesigns
    MaxGates = 5
    ReuseNames = FALSE
INVARIANTS
    NamesMatchPointers
    ReadersListed
PROPERTIES
    ImplementsFunctions
