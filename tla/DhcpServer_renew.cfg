SPECIFICATION Spec
CONSTANTS
    m1 = m1  m2 = m2  m3 = m3  bcast = bcast
    p1 = p1  p2 = p2  p3 = p3
    NULL = NULL
    Macs = {m1, m2, m3}
    BadMacs = {bcast}
    Pointers = {p1, p2, p3}
    BYTE = 16
    StartIp <- FirstIp
    EndIp <- LastIp
    LittleEndian = TRUE
    IntMax = 1000
    LeaseSeconds = 1
    OFFER_TIME = 1
    BootTime = 2
    ReqIps <- InPool
    CiAddrs <- Others
    MaxTime = 4
    MaxServers = 2
SYMMETRY Symmetry
INVARIANT RenewAnswered
