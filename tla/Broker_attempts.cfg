SPECIFICATION Spec
CONSTANTS
    d1 = d1
    d2 = d2
    c1 = c1
    c2 = c2
    Target = {d1, d2}
    Due <- MCDue
    Polled = {d1}
    ClearReq = {c1}
    Asked <- MainRequests
    Retries = 2
    ClearDbOnStartup = FALSE
    Faults = {"node", "transport", "statement", "restart"}
INVARIANTS
    TypeOK
    EveryAttemptRecordedOnce
    RetryBound
    LedgerInv
PROPERTIES
    SuccessStaysCollectable
    LedgerSpec
