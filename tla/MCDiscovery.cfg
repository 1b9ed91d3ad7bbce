SPECIFICATION FairSpec
CONSTANTS
    NumTargets = 3
    PingPorts = 2
    V6Targets <- MCV6Targets
    Truth <- MCTruth
    Alive <- MCAlive
    StrangeMax = 2
INVARIANTS
    TypeOK
    TcpPingTellsTruth
    QuietPingHears
PROPERTIES
    EveryTargetJudged
