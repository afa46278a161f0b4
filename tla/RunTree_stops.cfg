\* Turns, agents, a workflow and commands, two users who stop runs, a shutdown.
SPECIFICATION MCSpec
CONSTANTS
    b = b  d = d  v = v
    Chats = {m}
    Agents = {a, b}
    Workflows = {w}
    Commands = {c, d}
    Stoppers = {u, v}
    MaxParallel = 1
    None = None
INVARIANTS DrainedIsEmpty
PROPERTIES WholeTreeAsked StoppedCommandDies
\* every run may be over
CHECK_DEADLOCK FALSE
