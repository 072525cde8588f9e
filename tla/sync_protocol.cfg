SPECIFICATION Spec
CONSTANTS
    laptop = laptop
    desk = desk
    ci = ci
    Machines = {laptop, ci}
    Runners = {ci}
    DataKeys = {1}
    ReportKeys = {2, 3, 4}
    UnshapedKeys = {}
    RunDate <- Dates
    PullWindows <- ProtocolWindows
    CrashSteps <- AllSteps
    Exclusive = TRUE
    Discardable = {}
    Seed = {1, 2, 3}
    MaxEdits = 3
    MaxGeneration = 3
INVARIANTS
    TypeOK
    ReferencedExist
    PulledTreeIsOneGeneration
    InSyncHasNothingToPush
    GarbageCollected
PROPERTIES
    NoEditLost
    ImplementsRegister
