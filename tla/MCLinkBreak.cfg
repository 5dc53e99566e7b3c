CONSTANTS
    Troubles <- TwoConnecting
    Lonely = {}
    Races = {"join", "drop"}
    MaxTrouble = 2
    MaxAttempts = 2
SPECIFICATION Spec
CHECK_DEADLOCK FALSE
INVARIANTS
    RecoveredOnce
PROPERTIES
    OneWay
