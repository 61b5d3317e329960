SPECIFICATION FairSpec
CONSTANTS
    i1 = i1
    i2 = i2
    b1 = b1
    b2 = b2
    b3 = b3
    g1 = g1
    g2 = g2
    k1 = k1
    k2 = k2
    Id = {i1, i2}
    Creation = {b1, b2}
    Wants <- WantsOwn
    Get = {g1, g2}
    Asks <- AsksFirst
    ApiKill = {i1, i2}
    Terminator = {k1, k2}
    MaxInstances = 1
    NoBrowser = NoBrowser
PROPERTIES
    GetAnswered
    TerminateAnswered
    UpdateDropsExpired
