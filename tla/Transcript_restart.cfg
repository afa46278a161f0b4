\* A page follows a turn while the server restarts.
SPECIFICATION TranscriptSpec
CONSTANTS
    Pages = {p1}
    MaxRuns = 1
    Kinds = {"text", "call"}
    MaxEvents = 2
    MaxWire = 1
    MaxAsked = 1
    MaxBumps = 0
    Faults = {"restart"}
PROPERTIES EndNoticedAfterRestart
CHECK_DEADLOCK FALSE
