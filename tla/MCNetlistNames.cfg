SPECIFICATION Spec
CONSTANTS
    Slots = {s1}
    Designs <- NameTakenOnly
    MaxGates = 5
    ReuseNames = TRUE
INVARIANTS
    PrintedIsEvaluated
