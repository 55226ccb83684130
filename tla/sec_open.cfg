SPECIFICATION Spec
CONSTANTS
    Calls <- MCCalls
    Published <- MCPublished
    Tickers <- MCTickers
    Calendar <- MCCalendar
    Seeds <- MCSeeds
    Docs <- MCDocs
    Facts <- MCFacts
    MaxCalls = 3
    MaxFaults = 1
INVARIANTS TypeOK FactsAnchored
PROPERTIES BuiltFresh RepeatCompletes CallReturns
CHECK_DEADLOCK FALSE
