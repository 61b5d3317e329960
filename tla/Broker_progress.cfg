SPECIFICATION FairSpec
CONSTANTS
    d1 = d1
    d2 = d2
    c1 = c1
    c2 = c2
    Target = {d1, d2}
    Due <- MCDue
    Polled = {}
    ClearReq = {c1}
    Asked <- EveryRequest
    Retries = 2
    ClearDbOnStartup = FALSE
    Faults = {"node", "transport", "statement"}
PROPERTIES
    EveryTargetSettles
    ClearAnswered
