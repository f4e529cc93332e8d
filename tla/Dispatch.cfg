\* Two policies and a proxy, on one address or on two.
CONSTANTS
    Listeners <- TwoPolicies
    Related <- OneProxy
    Keys <- Address
    Layouts <- BothLayouts
    Wildcard <- AnyPort
    Prio <- Priorities
    Threaded = {"l1"}
    AcceptOne = {"l2"}
    Transparent = {"l1"}
    Conns = {"c1"}
    MaxChains = 3
    Faults = {"thread_fails", "bind_fails", "accept_fails"}
SPECIFICATION ClosingSpec
INVARIANTS ChainsSound NoLateCallback
PROPERTIES HandOver DispatchSettles ChainsFreed
CHECK_DEADLOCK FALSE
