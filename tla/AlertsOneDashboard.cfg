\* One dashboard, one paging monitor, two sinks, no answer lost.
SPECIFICATION FairSpec
CONSTANTS
    timer = timer
    timer2 = timer2
    curl = curl
    m1 = m1
    m2 = m2
    d1 = d1
    d2 = d2
    Alerts = {m1}
    Page = {m1}
    NumSinks = 2
    Calls = {timer, curl}
    ProcOf <- OneDashboard
    Forced = {curl}
    Renotify = TRUE
    MaxFaults = 0
INVARIANTS TypeOK RecordIsWhatWasHeard ToldOnce ErrorMeansRetry PanelMeansEverySink
PROPERTIES ImplementsChannel FiringIsHeard CoverageLossIsHeard
