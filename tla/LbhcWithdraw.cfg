SPECIFICATION MCFairSpec
CONSTANTS
    Endpoints = {e1}
    e1 = e1
    Rising = TRUE
    Faulty = FALSE
    Prompt = FALSE
    MaxLag = 1
    MaxEvents = 1
    MaxFaults = 2
INVARIANTS SyncTypeOK
PROPERTIES DownIsWithdrawn
