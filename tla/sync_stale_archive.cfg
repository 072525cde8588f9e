SPECIFICATION Spec
CONSTANTS
    laptop = laptop
    desk = desk
    ci = ci
    Machines = {laptop, desk}
    Runners = {}
    DataKeys = {1}
    ReportKeys = {2, 3, 4}
    UnshapedKeys = {}
    RunDate <- Dates
    PullWindows <- AnyWindow
    CrashSteps = {}
    Exclusive = TRUE
    Discardable = {}
    Seed = {1, 2, 3}
    MaxEdits = 3
    MaxGeneration = 3
PROPERTIES
    NoWriteReverted
