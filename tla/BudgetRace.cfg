\* Two sessions of one principal under the daily cap alone; nothing fails.
SPECIFICATION Spec
CONSTANTS
    s1 = s1
    s2 = s2
    alice = alice
    bob = bob
    Sessions = {s1, s2}
    Principals = {alice}
    CallersOf <- Alone
    Configs <- DailyConfigs
    Prices = {1}
    MaxTurns <- TwoEach
    MaxSteps = 2
    MaxDay = 1
    MaxFaults = 0
CHECK_DEADLOCK FALSE
PROPERTY StaysRefused
