CONSTANTS
    Troubles <- SoftLoss
    Lonely = {}
    Races = {"drop"}
    MaxTrouble = 1
    MaxAttempts = 2
SPECIFICATION FairSpec
CHECK_DEADLOCK FALSE
PROPERTIES
    Restores
