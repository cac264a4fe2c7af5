SPECIFICATION Spec
CONSTANTS
    NoMiter = NoMiter
    Faults <- AnyFault
    StaleFiles <- NoMiterFile
    MaxCalls = 4
INVARIANTS
    DescriptorsRestored
    StdoutRestored
PROPERTIES
    AnswersRight
    CallsReturn
