SPECIFICATION Spec
CONSTANTS
    d1 = d1
    d2 = d2
    c1 = c1
    c2 = c2
    Target = {d1}
    Due <- MCDueOne
    Polled = {}
    ClearReq = {c1, c2}
    Asked <- EveryRequest
    Retries = 2
    ClearDbOnStartup = TRUE
    Faults = {"node", "transport", "statement", "insert", "restart"}
CONSTRAINT
    JobsBounded
INVARIANTS
    HibernateIsExclusive
    ClearLeavesNoTask
    ControlInv
PROPERTY
    StartOnlyEligible
