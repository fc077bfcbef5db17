SPECIFICATION FairSpec
CONSTANTS
    Containers = {"web"}
    Attr <- MCAttr
    Port <- MCPort
    Domain <- MCDomain
    Standalone = TRUE
    Probing = TRUE
    StaleTTL = 1
    Refreshers = {"poll"}
PROPERTIES StoppedForgotten
