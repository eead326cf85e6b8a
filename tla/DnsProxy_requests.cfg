SPECIFICATION Spec
CONSTANTS
    NULL = NULL
    u1 = u1
    t1 = t1
    t2 = t2
    s1 = s1
    s2 = s2
    UdpReqs <- OneUdp
    TcpReqs <- OneTcp
    Servers <- TwoServers
    DomainServers <- OneDomain
    MaxMsgs = 2
INVARIANTS
    TypeOK
    TimersOwned
    AnsweredOnce
    BestReplyForwarded
PROPERTIES
    ServiceSpec
