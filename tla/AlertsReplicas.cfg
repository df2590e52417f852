\* Two dashboards share one database; answers are lost and ticks cut short.
SPECIFICATION Spec
CONSTANTS
    timer = timer
    timer2 = timer2
    curl = curl
    m1 = m1
    m2 = m2
    d1 = d1
    d2 = d2
    Alerts = {m1}
    Page = {m1}
    NumSinks = 1
    Calls = {timer, timer2}
    ProcOf <- TwoDashboards
    Forced = {}
    Renotify = FALSE
    MaxFaults = 1
INVARIANTS AcknowledgedWasTold NoAllClearUnpaged
