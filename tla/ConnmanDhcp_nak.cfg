SPECIFICATION Spec
CONSTANTS
    NULL = NULL
    NoIp = NoIp
    eth0 = eth0
    wlan0 = wlan0
    a1 = a1
    a2 = a2
    ll1 = ll1
    Ifaces <- OneIface
    Ips <- OneIp
    LinkLocal <- LinkLocalIps
    LeaseTimes <- ShortLease
    SocketOk <- Works
    WatchOk <- MayFail
    IfaceUp <- Works
    AddressOk <- Works
    MaxStarts = 1
    DISCOVER_RETRIES = 3
    REQUEST_RETRIES = 1
    PROBE_NUM = 2
    ANNOUNCE_NUM = 1
    MAX_CONFLICTS = 2
    MIN_RETRANSMIT = 60
    UINT8 = 5
INVARIANT AddressLeased
CHECK_DEADLOCK FALSE
