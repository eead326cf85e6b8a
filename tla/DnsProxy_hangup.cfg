SPECIFICATION Spec
CONSTANTS
    NULL = NULL
    u1 = u1
    t1 = t1
    t2 = t2
    s1 = s1
    s2 = s2
    UdpReqs <- NoReqs
    TcpReqs <- TwoTcp
    Servers <- TwoServers
    DomainServers <- NoReqs
    MaxMsgs = 2
PROPERTIES
    NoEarlyFailure
CHECK_DEADLOCK FALSE
