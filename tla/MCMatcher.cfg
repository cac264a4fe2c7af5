SPECIFICATION Spec
CONSTANTS
    Names <- Names3
    Instances <- SomeInstances
    MaxIt = 2
    WordBits = 16
INVARIANTS
    TypeOK
    InputsPartitioned
    SymmetricTogether
    SignaturesCurrent
    SignaturesTruthful
    MatchesKept
    MatchesCounted
PROPERTIES
    OnlyRefines
    SplitIsProgress
    Terminates
