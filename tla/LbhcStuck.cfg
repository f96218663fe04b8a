SPECIFICATION SyncFairSpec
CONSTANTS
    Endpoints = {e1, e2}
    e1 = e1
    e2 = e2
    Rising = FALSE
    Faulty = FALSE
    Prompt = TRUE
    MaxLag = 1
    MaxEvents = 1
    MaxFaults = 0
PROPERTIES NoDownMarkRemains
