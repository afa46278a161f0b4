\* A chat turn with three waves and a sub-agent on its node; a turn of two tool
\* rounds and a reminder of the plan with the run that continues it; one answer of
\* each protocol with two retries.
SPECIFICATION MCSpec
CONSTANTS
    chat = chat  agent = agent  a = a  b = b  c = c  d = d  e = e
    reader = reader  shell = shell  node = node
    Rounds = {chat, agent}
    Calls = {a, b, c, d, e}
    Tools = {reader, shell}
    CallsOf <- MCCallsOf
    RoundOf <- MCRoundOf
    Parallel = {a, b}
    ToolOf <- MCToolOf
    Permission <- MCPermission
    Kind <- MCKind
    NodeOf <- MCNodeOf
    MaxToolRounds = 2
    MaxNudges = 1
    MaxText = 1
    Protocols = {"chat", "responses", "anthropic", "gemini"}
    BaseUrl = {"chat"}
    MaxRetries = 2
    MaxPieces = 3
INVARIANTS RequestIsAwaited RunsOnlyPermitted DecisionIsKept FailureIsTold
PROPERTIES AcceptedWhileAsking StopEnds NoRoundAfterStop AskedRunsEnd OneAnswer
\* every round may be over, the turn ended, the answer given
CHECK_DEADLOCK FALSE
