SPECIFICATION Spec
CONSTANTS
    Calls <- SliceCalls
    Published <- MCPublished
    Tickers <- MCTickers
    Calendar <- OneDay
    Seeds = {{}}
    Docs <- MCDocs
    Facts <- MCFacts
    MaxCalls = 2
    MaxFaults = 0
PROPERTY NewSliceTakesEffect
CHECK_DEADLOCK FALSE
