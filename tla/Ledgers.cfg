SPECIFICATION MCSpec
CONSTANTS
    r1 = r1
    Turns = {t1}
    Clients = {c1}
    Runs = {r1, r2}
    Notifying = {r2}
    Noted = {r2}
    LastStep = 2
    None = None
    MaxTasks = 2
    MaxRevision = 1
    MaxCrashes = 1
    Nodes = {n1, n2}
    Users = {u1, u2}
    MaxPlans = 2
    MaxCalls = 2
    MaxPlanCrashes = 1
    Unset = Unset
CHECK_DEADLOCK FALSE
INVARIANTS LedgerInv SeenIsCurrent OnePlanAwaitsOneCall
PROPERTIES CancelledRunEnds

