SPECIFICATION Spec
CONSTANTS
    PortChoices = {25, 3306}
    ConnectTimeout = 1
    ReadTimeout = 1
    LongerWait = 1
INVARIANTS
    BannersIdentify
