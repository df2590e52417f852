\* Cancel mode; one cancel request fails.
SPECIFICATION Spec
CONSTANTS
    s1 = s1
    s2 = s2
    alice = alice
    bob = bob
    Sessions = {s1, s2}
    Principals = {alice}
    CallersOf <- Alone
    Configs <- CancelConfigs
    Prices = {1}
    MaxTurns <- TwoEach
    MaxSteps = 2
    MaxDay = 1
    MaxFaults = 1
CHECK_DEADLOCK FALSE
PROPERTY StoppedAgain
