SPECIFICATION TwoSpec
CONSTANTS
    Containers = {"dashed", "dotted", "replica", "dev", "custom"}
    Label <- MCLabel
    Tld <- MCTld
    Order <- MCOrder
    Attr <- MCAttr
    Port <- MCPort
    Domain <- MCDomain
    Standalone = FALSE
    Probing = TRUE
    StaleTTL = 0
    Refreshers = {"main"}
INVARIANTS LinksAreRoutes ChipIsTarget LinksServed
