\* One run under faults, repeated starts and a crash; two subscriptions of a run;
\* two runs, one of which may create the other, and a crash.
SPECIFICATION MCSpec
CONSTANTS
    r1 = r1  r2 = r2  c1 = c1  c2 = c2
    Runs = {r1, r2}
    Clients = {c1, c2}
    Outcomes = {"completed"}
    Replays = TRUE
    InterruptsFirst = TRUE
    MaxEvents = 4
    MaxFaults = 2
    MaxCrashes = 1
INVARIANTS ToldTheTruth SubscriberExact EndedKeepsResult OnlyFaultsFail
PROPERTIES FinishedIsFinal StopNeverResumes RecoveryComplete SubscriberEnds
\* all runs may be finished and the clients gone
CHECK_DEADLOCK FALSE
