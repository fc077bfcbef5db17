SPECIFICATION Spec
CONSTANTS
    Containers = {"db"}
    Attr <- MCAttr
    Port <- MCPort
    Domain <- MCDomain
    Standalone = FALSE
    Probing = TRUE
    StaleTTL = 1
    Refreshers = {"poll"}
INVARIANTS HostsMatchProxy
