SPECIFICATION Spec
CONSTANTS
    NULL = NULL
    a1 = a1
    a2 = a2
    b1 = b1
    f1 = f1
    f2 = f2
    wlan = wlan
    vpn = vpn
    Servers <- ThreeServers
    Fallbacks <- TwoFallbacks
    Indexes <- TwoIndexes
    IndexOf <- Placement
    SplitIndexes <- VpnOnly
    MayFail = FALSE
    MaxFixed = 2
INVARIANT
    FallbackUsed
