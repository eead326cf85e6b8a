SPECIFICATION FairSpec
CONSTANTS
    NULL = NULL
    t1 = t1
    t2 = t2
    p1 = p1
    eth = eth
    vpn = vpn
    block_24_bits = 0
    last_24_bits = 0
    block_20_bits = 1
    last_20_bits = 1
    block_16_bits = 2
    last_16_bits = 2
    Technologies = {t1, t2}
    PrivateNetworks = {p1}
    ExtAddrs <- AllAddrs
    MaxBridges = 3
    MaxEvents = 2
    TetherRange = 1
    PrivateRange = 0
PROPERTY
    SearchEnds
