SPECIFICATION Spec
CONSTANTS
    Texts <- ShortTexts
    Statements <- SomeStatements
    NoCircuit = NoCircuit
    MaxStatements = 6
    MaxGates = 2
INVARIANTS
    CommentsDeleted
    ReturnedAsWritten
CHECK_DEADLOCK FALSE
