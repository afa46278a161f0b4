\* A finished run without target, and the deletion of another branch.
SPECIFICATION Spec
CONSTANTS
    Turns = {t1}
    None = None
    LastNode = 2
INVARIANT OutsideRunsKept
CHECK_DEADLOCK FALSE
