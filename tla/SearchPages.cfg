SPECIFICATION PagesSpec
CONSTANTS
    NoTotal = NoTotal
    NoStatus = NoStatus
    Nothing = Nothing
    PerPage = 2
    Hits <- MCHits
    PageInputs <- MCInputs
    Setups <- MCSetups
    Tellings <- MCTellings
    Faults <- AllFaults
INVARIANTS InPageOrder HaltJustified
CHECK_DEADLOCK FALSE
