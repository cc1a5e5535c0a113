CONSTANTS
    f1 = f1
    f2 = f2
    c1 = c1
    c2 = c2
    c3 = c3
    w1 = w1
    Items = {f1, f2}
    Contents = {c1, c2, c3}
    Drives <- TwoSites
    Tasks = {w1}
    NoItem = NoItem
    FirstContent = c1
    Racing = TRUE
    Reverting = FALSE
    Faults = TRUE
    MaxTries = 2
    MaxClock = 5
    MaxKindClock <- Clocks
SPECIFICATION MCSpec
CHECK_DEADLOCK FALSE
PROPERTY FailureKeepsLinksSafe
