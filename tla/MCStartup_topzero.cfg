SPECIFICATION Spec
CONSTANTS
    CommandLines <- MCFewLines
    MaxPort = 4
    TopTable <- MCTopTable
    V4Bits = 4
    V6Bits = 2
    OctetBits = 2
    MaxPermits = 4000
INVARIANT
    TopPortsDenoted
