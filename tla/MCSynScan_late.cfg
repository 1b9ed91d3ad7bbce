SPECIFICATION Spec
CONSTANTS
    Ports = {22, 80}
    SrcPorts = {40000, 40001}
    Timeout = 4
    Floor = 2
    Lag = 1
    Truth <- MCTruth
    NoiseFlags <- MCNoiseFlags
    NoiseMax = 1
    Source <- MCSource
    Target <- MCTarget
    Stranger <- MCStranger
    SeqNumbers <- MCSeqNumbers
    Payloads <- MCPayloads
INVARIANTS
    NoAnswerPassedOver
