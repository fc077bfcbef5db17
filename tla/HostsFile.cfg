SPECIFICATION FairSpec
CONSTANTS
    Tld = "dev.local"
    Alias = "dev.localhost"
    Alphabet <- MCAlphabet
    Wants <- MCWants
    UserLines <- MCUserLines
    Contents <- MCContents
    Additions = {"nas"}
    Others = {"hosts"}
    MaxOthers = 1
    MaxFaults = 1
INVARIANTS ForeignKept Settles
PROPERTIES HostsSettle AtomicSpec
