\* Two turns, a command, a prune summary and deletions in a tree of three nodes;
\* the transcript of a node with up to two runs and two pages;
\* what models are told in trees of four nodes.
SPECIFICATION MCSpec
CONSTANTS
    Turns = {t1, t2}
    None = None
    LastNode = 2
    p1 = p1
    p2 = p2
    Pages = {p1, p2}
    MaxRuns = 2
    Kinds = {"text", "call", "usage"}
    MaxEvents = 1
    MaxWire = 1
    MaxAsked = 2
    MaxBumps = 1
    LastContext = 3
    MaxParts = 4
    MaxPrunes = 1
    Faults = {"tab", "late", "lost", "ahead", "restart"}
SYMMETRY Symmetry
INVARIANTS SavedBeforeDone SettledViewIsExact ToldWhole
PROPERTIES EndIsNoticed
\* a conversation that was deleted stays so; a read transcript too
CHECK_DEADLOCK FALSE
