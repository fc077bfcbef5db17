SPECIFICATION OneSpec
CONSTANTS
    Containers = {"web", "db", "api", "bad", "hidden"}
    Attr <- MCAttr
    Port <- MCPort
    Domain <- MCDomain
    Standalone = FALSE
    Probing = TRUE
    StaleTTL = 1
    Refreshers = {"watch", "poll"}
INVARIANTS TypeOK StoppedHasClock TargetsFollowDocker RoutedIsResolvable
PROPERTIES StopTimeSticky KeptUntilTTL OnlyRefreshReroutes EventuallyMirrors EventuallyForgotten
