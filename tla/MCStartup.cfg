SPECIFICATION Spec
CONSTANTS
    CommandLines <- MCCommandLines
    MaxPort = 4
    TopTable <- MCTopTable
    V4Bits = 4
    V6Bits = 2
    OctetBits = 2
    MaxPermits = 4000
INVARIANTS
    TypeOK
    EngineAssumptionsMet
    PortsDenoted
    TargetsDenoted
    AsTyped
    HigherIsFaster
