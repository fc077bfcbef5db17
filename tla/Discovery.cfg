SPECIFICATION FairSpec
CONSTANTS
    Views = {"away", "up"}
    EmptyView = "away"
    RoutesOf <- MCRoutesOf
    Cleaned <- MCCleaned
    Tickers = {"poll", "stale"}
    FaultKinds = {"stream", "refuse", "hosts"}
    MaxFaults = 1
INVARIANTS TypeOK OneApply
PROPERTIES  HostsConverge
