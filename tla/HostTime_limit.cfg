SPECIFICATION Spec
CONSTANTS
    NumPorts = 3
    Limit = 2
    Threads = 1
    ConnectTimeout = 2
    ReadTimeout = 1
    MaxRetries = 2
    SleepStep = 1
    Floor = 1
    LongerWait = 2
    HostTimeout = 9
INVARIANTS
    HostTimeoutHonoured
