SPECIFICATION Spec
CONSTANTS
    Links = {e0, e1}
    Names = {eth0, eth1, vlo, gone}
    LoNames = {vlo}
    Addrs = {a1, a2, b1, gwa}
    Dests = {A, B, G, default}
    Subnet <- MCSubnet
    IfaceRequests <- MCIfaceRequests
    RouteRequests <- MCRouteRequests
    InitName <- MCInitName
    InitAddrs <- MCInitAddrs
    MaxCalls = 3
    MaxStrays = 2
    MaxMeddles = 1
    NoGw = NoGw
    NoLink = NoLink
    e0 = e0
    e1 = e1
    eth0 = eth0
    eth1 = eth1
    vlo = vlo
    gone = gone
    a1 = a1
    a2 = a2
    b1 = b1
    gwa = gwa
    A = A
    B = B
    G = G
    default = default
CHECK_DEADLOCK FALSE
INVARIANTS OwnAnswers InterfaceReplaced RoutesReplaced ConsistentSucceeds
