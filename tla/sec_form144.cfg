SPECIFICATION Spec
CONSTANTS
    Calls <- NoticeCalls
    Published <- MCPublished
    Tickers <- MCTickers
    Calendar <- OneDay
    Seeds = {{}}
    Docs <- MCDocs
    Facts <- MCFacts
    MaxCalls = 1
    MaxFaults = 0
PROPERTY NoticesExtracted
CHECK_DEADLOCK FALSE
