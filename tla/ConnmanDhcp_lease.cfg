SPECIFICATION FairSpec
CONSTANTS
    NULL = NULL
    NoIp = NoIp
    eth0 = eth0
    wlan0 = wlan0
    a1 = a1
    a2 = a2
    ll1 = ll1
    Ifaces <- OneIface
    Ips <- TwoIps
    LinkLocal <- LinkLocalIps
    LeaseTimes <- LongLease
    SocketOk <- Works
    WatchOk <- Works
    IfaceUp <- Works
    AddressOk <- MayFail
    MaxStarts = 1
    DISCOVER_RETRIES = 2
    REQUEST_RETRIES = 1
    PROBE_NUM = 1
    ANNOUNCE_NUM = 1
    MAX_CONFLICTS = 2
    MIN_RETRANSMIT = 60
    UINT8 = 4
INVARIANT
    TypeOK
    BoundInUse
    LinkLocalWatched
    RequestNamesAddress
    NeverStuck
    NoLeaseCleared
    ListensForAnswer
PROPERTY
    GetsAddress
CHECK_DEADLOCK FALSE
