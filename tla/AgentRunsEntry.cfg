CONSTANTS
    Runs = {r1}
    Documents = {d1}
    Percents = {0, 80}
    Threshold = 60
    MaxRetries = 1
    PerSource = 1
    EvidenceCap = 1
    LiveMinCount = 1
    LiveConnectors = 1
    Invented = Invented
    NoRow = NoRow
SPECIFICATION AgentsSpec
\* Runs end.
CHECK_DEADLOCK FALSE
INVARIANT EntryIsBestEffort
