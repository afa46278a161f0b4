\* Three requests for one key, one of them different, a run that a producer
\* starts or continues in, two I/O errors; two servers over one home, one start,
\* two runs and two mutations; a sub-agent with a round of two calls.
SPECIFICATION MCSpec
CONSTANTS
    k1 = k1  o1 = o1  q1 = q1  q2 = q2  q3 = q3
    KeyRuns = {k1}
    OtherRuns = {o1}
    Requests = {q1, q2, q3}
    KeyOf <- OneKey
    FingerprintOf <- Fingerprints
    Continues = TRUE
    MaxFaults = 2
    Servers = {s1, s2}
    Starters = {c1}
    Mutations = {m1, m2}
    Work = {w1, w2}
    Asking = {a1, a2}
    MaxToolRounds = 1
    MaxTurns = 2
INVARIANTS NoOrphan CleanShutdown OneProducer NothingCutOff
PROPERTIES AnswerIsTrue RequestsAnswered RunsEnd StoppedAgentEnds
\* the server may be closed and every request answered
CHECK_DEADLOCK FALSE
