CONSTANTS
    b1 = b1
    c1 = c1
    w1 = w1
    w2 = w2
    Breaks <- MCBreaks
    Crashes <- MCCrashes
    Callers <- MCCallers
    Retries = 2
    MaxCalls = 4
    MaxFaults = 0
    MaxCrashes = 0
SPECIFICATION Spec
SYMMETRY Callers2
CHECK_DEADLOCK FALSE
PROPERTIES
    EscalationKept
