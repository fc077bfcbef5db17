SPECIFICATION MCSpec
CONSTANTS
    Files <- MCFiles
    Extension <- MCExtension
    TLDs = {"dev.local", "test"}
    Port = {80, 443, 8080, 8443, 9000}
    Names = {"app.dev.local"}
CHECK_DEADLOCK FALSE
INVARIANTS TypeOK StrongestWord OptedOut HostsLast PortsHonored UserConfigIntact
