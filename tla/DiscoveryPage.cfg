SPECIFICATION FairSpec
CONSTANTS
    Views = {"away", "up"}
    EmptyView = "away"
    RoutesOf <- MCRoutesOf
    Cleaned <- MCCleaned
    Tickers = {"poll", "stale"}
    FaultKinds = {}
    MaxFaults = 0
PROPERTIES PageConverges
