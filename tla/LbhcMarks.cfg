SPECIFICATION MCSpec
CONSTANTS
    Endpoints = {e1, e2}
    e1 = e1
    e2 = e2
    Rising = TRUE
    Faulty = FALSE
    Prompt = TRUE
    MaxLag = 1
    MaxEvents = 0
    MaxFaults = 0
SYMMETRY Symmetry
PROPERTIES DownMarkSurvives MarkedUpOnlyAfterSuccess
