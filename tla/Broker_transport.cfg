SPECIFICATION FairSpec
CONSTANTS
    d1 = d1
    d2 = d2
    c1 = c1
    c2 = c2
    Target = {d1}
    Due <- MCDueOne
    Polled = {}
    ClearReq = {}
    Asked <- EveryRequest
    Retries = 2
    ClearDbOnStartup = FALSE
    Faults = {"transport"}
PROPERTY
    FinishedTaskIsRecorded
