SPECIFICATION Spec
CONSTANTS
    Names <- Names5
    Instances <- SwappedClasses
    MaxIt = 2
    WordBits = 16
INVARIANTS
    MatchesCounted
