\* One dashboard; one answer of a sink is lost, or one tick cut short.
SPECIFICATION FairSpec
CONSTANTS
    timer = timer
    timer2 = timer2
    curl = curl
    m1 = m1
    m2 = m2
    d1 = d1
    d2 = d2
    Alerts = {m1}
    Page = {m1}
    NumSinks = 1
    Calls = {timer, curl}
    ProcOf <- OneDashboard
    Forced = {curl}
    Renotify = FALSE
    MaxFaults = 1

PROPERTY FiringIsHeard
