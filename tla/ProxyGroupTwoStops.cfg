\* Two stop requests in one group.
CONSTANTS
    Proxies = {p1, p2}
    MaxGroups = 2
    Services <- TwoStops
SPECIFICATION FairSpec
PROPERTIES StopHonoured
CHECK_DEADLOCK FALSE
