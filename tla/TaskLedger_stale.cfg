SPECIFICATION Spec
CONSTANTS
    Turns = {t1}
    Clients = {}
    Runs = {r1, r2}
    Notifying = {}
    Noted = {}
    LastStep = 2
    None = None
    MaxTasks = 1
    MaxRevision = 2
    MaxCrashes = 0
INVARIANT StaleMeansNotShown
CHECK_DEADLOCK FALSE
