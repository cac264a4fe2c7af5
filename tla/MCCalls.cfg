SPECIFICATION CallsSpec
CONSTANTS
    MaxCount = 12
    Widths = {4, 5, 6, 7, 8, 12, 16}
    Designs <- ThreeGates
    Constant0 = "0"
    OldNames <- Renamed
    NewNames <- Fresh
    Names <- Names3
    Circuits <- OneOutput
    Cones <- SomeCones
    Partitions <- SomePartitions
    MaxIt = 2
    Supports <- AllSupports
    CharBits = 8
    Inputs1 = {1, 2}
    Inputs2 = {1, 2, 3}
    Outputs1 = {1, 2}
    Outputs2 = {1, 2, 3}
INVARIANTS
    NeverOvercounted
    PrintedSame
    EquivalentStayValid
    RenamingsKept
    Refined
    ClustersFiled
    SignaturesDescribe
    ClustersCorrespond
PROPERTIES
    SortsTopologically
    GetResultReturns
CHECK_DEADLOCK FALSE
