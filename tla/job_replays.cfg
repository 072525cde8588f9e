SPECIFICATION Spec
CONSTANTS
    ci = ci
    desk = desk
    Machines = {desk}
    Runners = {}
    Replayers = {desk}
    AllowRerun = {TRUE, FALSE}
    Sessions = 2
    MaxRuns = 3
    Lookback = 1
    MaxGeneration = 1
CHECK_DEADLOCK FALSE
INVARIANTS
    GapsAreExact
