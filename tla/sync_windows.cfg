SPECIFICATION Spec
CONSTANTS
    laptop = laptop
    desk = desk
    ci = ci
    Machines = {laptop, desk}
    Runners = {}
    DataKeys = {1}
    ReportKeys = {2, 3, 4}
    UnshapedKeys = {4}
    RunDate <- Dates
    PullWindows <- AnyWindow
    CrashSteps <- AfterCommit
    Exclusive = TRUE
    Discardable = {2, 3}
    Seed = {}
    MaxEdits = 2
    MaxGeneration = 3
INVARIANTS
    GenerationComplete
\* A user may delete the last file when no edit is left: nothing can happen then.
CHECK_DEADLOCK FALSE
