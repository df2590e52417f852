\* Two workers, a firing every minute, one crash, one failing
\* statement, one turn of the pause switch.
SPECIFICATION Spec
CONSTANTS
    c1 = c1
    c2 = c2
    w1 = w1
    w2 = w2
    Workers = {w1, w2}
    Calls = {c1, c2}
    WorkerOf <- OneEach
    Cron = {1, 2, 3, 4}
    CatchUp = TRUE
    Limit = 2
    Window = 3
    MaxMinute = 4
    MaxCrashes = 1
    MaxFailures = 1
    MaxToggles = 1
INVARIANTS TypeOK AtMostOncePerTick SkippedNeverRan OneOwner RunningHasARunner
PROPERTIES StoreNeverStops
