SPECIFICATION Spec
CONSTANTS
    Hosts = {1, 2, 3, 4}
    RouteIds = {1, 2}
    IdOf <- MCIdOf
    Upstreams = {"a"}
    UserPolicies <- MCUserPolicies
    UserAdds <- MCUserAdds
    Duplicates = {"reject"}
    MaxFaults = 1
    MaxEdits = 0
    MaxCopies = 2
    MaxTries = 3
PROPERTIES CommitMeansLive
CHECK_DEADLOCK FALSE
