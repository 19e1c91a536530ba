SPECIFICATION SearchFairSpec
CONSTANTS
    Servers <- MCServers
    Version <- MCVersion
    Mine = "0.1.5"
    Silent = "missing"
    Timeout = 10
    Retries = 3
    Interval = 10
    MaxSearches = 2
    MaxOther = 5
    MaxAnswers = 3
    Room = 3
INVARIANT SearchTypeOK
INVARIANT OtherVersionRefused
PROPERTY SearchKept
CHECK_DEADLOCK FALSE
