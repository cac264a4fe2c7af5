SPECIFICATION Spec
CONSTANTS
    Names <- Names3
    Instances <- TwinOutputs
    MaxIt = 2
    WordBits = 16
INVARIANTS
    AllMatchingsCounted
