\* Interfaces, the main loop, the statistics, zorpctl and the chainers, over every order of what happens around them.
CONSTANTS
    IfConfs <- MCIfConfs
    IfMax = 2
    IfAddrMax = 2
    LoopConfs <- MCLoopConfs
    MaxPolicies = 4
    MaxVersions = 2
    LoopSessions = {s1}
    SzigConfs <- MCSzigConfs
    SzigInterval = 1
    SzigQueued = 2
    CtlConfs <- MCCtlConfs
    MaxPids = 3
    ChainConfs <- MCChainConfs
    NatThreshold = 1
SPECIFICATION ControlSpec
INVARIANTS ListenersFollow PolicyHeld ReloadAnswered SzigAgrees CtlHonest AllTried NatFaithful
CHECK_DEADLOCK FALSE
