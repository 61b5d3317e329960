SPECIFICATION FairSpec
CONSTANTS
    n1 = n1
    n2 = n2
    i1 = i1
    r1 = r1
    r2 = r2
    Node = {n1, n2}
    Names <- OneEach
    Request = {r1}
    MaxInstances = 1
PROPERTY
    BrowserIsFound
