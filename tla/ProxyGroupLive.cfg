\* Two sessions that last, end or are asked to stop.
CONSTANTS
    Proxies = {p1, p2}
    MaxGroups = 3
    Services <- LiveServices
SPECIFICATION FairSpec
PROPERTIES Started GroupSettles StopHonoured
CHECK_DEADLOCK FALSE
