SPECIFICATION FairSpec
CONSTANTS
    PortChoices = {22, 25, 80, 143, 443, 3306}
    ConnectTimeout = 2
    ReadTimeout = 2
    LongerWait = 3
INVARIANTS
    TypeOK
    BannerHeard
    NeverInterrupts
    DetectOnTime
    
PROPERTIES
    Returns
