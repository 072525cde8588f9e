SPECIFICATION Spec
CONSTANTS
    ci = ci
    desk = desk
    Machines = {ci, desk}
    Runners = {ci}
    Replayers = {}
    AllowRerun = {FALSE}
    Sessions = 1
    MaxRuns = 2
    Lookback = 1
    MaxGeneration = 3
CHECK_DEADLOCK FALSE
INVARIANTS
    GreenIsPublished
    OneSuccessPerSession
