SPECIFICATION FairSpec
CONSTANTS
    Views = {"away", "up"}
    EmptyView = "away"
    RoutesOf <- MCRoutesOf
    Cleaned <- MCCleaned
    Tickers = {"poll"}
    FaultKinds = {"list", "refuse", "partial", "artifacts"}
    MaxFaults = 2
 
PROPERTIES  BannerClears
