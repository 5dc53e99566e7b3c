CONSTANTS
    Troubles <- Adversity
    Lonely = {}
    Races = {"drop"}
    MaxTrouble = 2
    MaxAttempts = 2
SPECIFICATION Spec
CHECK_DEADLOCK FALSE
INVARIANTS
    TypeOK
    OneOpenRow
PROPERTIES
    RecoveredIsUp
