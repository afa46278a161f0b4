\* The start-up order of main.py after a crash.
SPECIFICATION Spec
CONSTANTS
    Runs = {r1}
    Clients = {}
    Outcomes = {"completed"}
    Replays = FALSE
    InterruptsFirst = TRUE
    MaxEvents = 4
    MaxFaults = 0
    MaxCrashes = 1
INVARIANT ResultKept
\* all runs may be finished and the clients gone
CHECK_DEADLOCK FALSE
