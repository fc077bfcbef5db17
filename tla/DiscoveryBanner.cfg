SPECIFICATION FairSpec
CONSTANTS
    Views = {"away", "up"}
    EmptyView = "away"
    RoutesOf <- MCRoutesOf
    Cleaned <- MCCleaned
    Tickers = {"poll", "stale"}
    FaultKinds = {"stream"}
    MaxFaults = 1
PROPERTIES StreamErrorShown
