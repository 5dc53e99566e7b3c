CONSTANTS
    Troubles <- AnyLoss
    Lonely <- SoftLoss
    Races = {}
    MaxTrouble = 2
    MaxAttempts = 2
SPECIFICATION FairSpec
CHECK_DEADLOCK FALSE
PROPERTIES
    Converges
