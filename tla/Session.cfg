SPECIFICATION FairSpec
CONSTANTS
    g1 = g1
    g2 = g2
    g3 = g3
    Get = {g1, g2, g3}
    Lazy = {g1}
    TheId = TheId
    TheBrowser = TheBrowser
    NoBrowser = NoBrowser
CHECK_DEADLOCK FALSE
INVARIANTS
    TypeOK
    TabIsExclusive
    RecordIsHonest
PROPERTIES
    RestsBetweenPages
    KillStartsNoPage
    KillEnds
    ProcessesEnd
    ImplementsRegistry
