SPECIFICATION MCSpec
CONSTANTS
    Domains = {e1, e2, e3, e4}
    PoolSize = 4
    Capacity = 2
    Callers = {g1, g2}
    None = None
    Names = {d1, d2}
    MaxAnswers = 2
    Askers = {p1, p2}
    Options <- MCOptions
    MaxExpiries = 1
    N = 4
    Policies = {1, 2, 3}
    Apps = {"dispatcher", "outbound", "router", "observatory", "fakedns", "dns"}
    Essentials <- MCEssentials
    Resolutions <- MCResolutions
    Deps <- MCDeps
    Optional = {"fakeDNSOfDispatcher"}
    Fallible = {"routerInit", "dnsClient"}
    Requires <- MCRequires
INVARIANTS
    TwoWay
    KeepsRecent
    NoFreshAnswerLost
    
    FirstGroupWins
    ResolvedOnce

    
CHECK_DEADLOCK FALSE
