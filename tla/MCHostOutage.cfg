CONSTANTS
    p1 = p1
    p2 = p2
    Clients = {p1, p2}
    Troubles = {"crash", "cut", "fatal", "reload", "unlisted", "storeFails"}
    MaxTrouble = 3
    MergeWindow = 1
SPECIFICATION FairSpec
CHECK_DEADLOCK FALSE
INVARIANTS
    TypeOK
    NeverStuck
PROPERTIES
    Settles
