SPECIFICATION PageSpec
CONSTANTS
    Http = 2
    Stream = 2
    Filter = "down"
    MaxFlips = 2
INVARIANTS PageSound PageComplete PageWellFormed
