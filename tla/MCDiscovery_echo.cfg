SPECIFICATION Spec
CONSTANTS
    NumTargets = 3
    PingPorts = 2
    V6Targets <- MCV6Targets
    Truth <- MCTruth
    Alive <- MCFirstAlive
    StrangeMax = 0
INVARIANTS
    EchoUpMeansAlive
