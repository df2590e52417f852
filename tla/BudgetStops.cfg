\* Two sessions, every mode, one restart and one failing statement.
SPECIFICATION Spec
CONSTANTS
    s1 = s1
    s2 = s2
    alice = alice
    bob = bob
    Sessions = {s1, s2}
    Principals = {alice}
    CallersOf <- Alone
    Configs <- PassConfigs
    Prices = {1}
    MaxTurns <- TwoAndOne
    MaxSteps = 2
    MaxDay = 2
    MaxFaults = 1
CHECK_DEADLOCK FALSE
INVARIANTS TypeOK NeverBilledTwice StopIsEarned OneStepOver
PROPERTIES SessionStaysRefused FailedAgain RaisedCapHeals
