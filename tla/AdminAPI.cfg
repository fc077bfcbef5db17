SPECIFICATION Spec
CONSTANTS
    Hosts = {1, 2, 3, 4}
    RouteIds = {1, 2}
    IdOf <- MCIdOf
    Upstreams = {"a"}
    UserPolicies <- MCUserPolicies
    UserAdds <- MCUserAdds
    Duplicates = {"accept", "reject"}
    MaxFaults = 2
    MaxEdits = 1
    MaxCopies = 2
    MaxTries = 3
INVARIANTS TypeOK DriftConfined ZeroDowntime PoliciesIntact PolicyFollowsHosts
PROPERTY RollingSpec
CHECK_DEADLOCK FALSE
