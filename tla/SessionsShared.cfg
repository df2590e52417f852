\* One session, replayed or started by hand, two people answering its requests
\* and one talking to it; one fault: a lost answer, a failing INSERT, a death of the
\* dashboard, or a loss of the session by eve.
SPECIFICATION Spec
CONSTANTS
    q1 = q1
    q2 = q2
    a1 = a1
    a2 = a2
    m1 = m1
    None = None
    Requests = {q1, q2}
    Tools = {q1}
    Approvers = {a1, a2}
    Senders = {m1}
    Lookback = 3
    MaxMessages = 4
    MaxTurns = 3
    MaxFaults = 1
INVARIANTS TypeOK ApproverIsToldTheTruth BoardIsHonest ForkReportIsHonest OnlyOthersCutItShort
PROPERTIES ImplementsDecisionLog ReplayWaitsForPeople ReplayEnds
CHECK_DEADLOCK FALSE
