SPECIFICATION Spec
CONSTANTS
    LocalProfiles = {local, other}
    SshProfiles = {host}
    Default = local
    DefaultTarget = t1
    AutoConnect = {other}
    Targets = {t1, t2}
    Instances = {i1, i2}
    Requests = {r}
    ReversePort = TRUE
    None = None
    MaxUsed = 2
    MaxOps = 3
    MaxLeases = 2
    MaxChanges = 1
CHECK_DEADLOCK FALSE
INVARIANTS LeaseIsCurrent ReadyIsWanted
PROPERTIES IdentityIsPinned CloseEnds

