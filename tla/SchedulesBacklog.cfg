\* One worker that was down for two ticks and replays one at a time.
SPECIFICATION Spec
CONSTANTS
    c1 = c1
    c2 = c2
    w1 = w1
    w2 = w2
    Workers = {w1}
    Calls = {c1}
    WorkerOf <- OneWorker
    Cron = {1, 2, 3, 4, 5}
    CatchUp = TRUE
    Limit = 1
    Window = 5
    MaxMinute = 5
    MaxCrashes = 1
    MaxFailures = 0
    MaxToggles = 0
INVARIANT DeferredStillDue
