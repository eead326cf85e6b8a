SPECIFICATION Spec
SYMMETRY NameSymmetry
CONSTANTS
    NULL = NULL
    n1 = n1
    n2 = n2
    Names <- TwoNames
    Ttls <- FewTtls
    Instants <- FewInstants
    MIN_CACHE_TTL = 30
    MAX_CACHE_TTL = 1800
    MAX_CACHE_SIZE = 2
    RefreshHits = 0
    KeepHits = 1
    RefreshDelay = 30
    MaxHits = 4
    MaxRefs = 2
INVARIANTS
    TypeOK
    CacheAccounted
    ServedFresh
    ServedCurrent
    FullCacheYields
