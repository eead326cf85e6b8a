------------------------------ MODULE DnsCache ------------------------------
(***************************************************************************)
(* The answer cache of the DNS proxy (src/dnsproxy.c).  An entry holds, for *)
(* one name, an A and an AAAA answer that expire separately, a hit count    *)
(* that decides what survives when the cache is full, and a mark that asks  *)
(* for a refresh.  The table is created on demand and given up by a timer   *)
(* when its reference count says that nobody uses it.  A step is one        *)
(* handler of dnsproxy.c as far as it touches the cache; time(NULL) is read *)
(* once per handler.                                                        *)
(***************************************************************************)
EXTENDS Integers, FiniteSets, FiniteSetsExt, Functions

CONSTANTS
    NULL,            \* the null pointer
    Names,           \* names asked for
    Ttls,            \* TTLs of answers, 0 among them
    Instants,        \* values of time(NULL), in seconds
    MIN_CACHE_TTL,   \* 30
    MAX_CACHE_TTL,   \* 60 * 30
    MAX_CACHE_SIZE,  \* 256
    RefreshHits,     \* 2: an entry with more hits is worth a refresh
    KeepHits,        \* 4: a full cache drops entries with fewer hits
    RefreshDelay,    \* 30 seconds between refreshes
    MaxHits,         \* bound: hits of an entry
    MaxRefs          \* bound: references held on the cache

ASSUME CacheAssumption ==
    /\ IsFiniteSet(Names)
    /\ Ttls \subseteq Nat /\ Instants \subseteq Nat /\ Instants # {}
    /\ {RefreshHits, KeepHits, RefreshDelay, MaxHits} \subseteq Nat
    /\ {MAX_CACHE_SIZE, MaxRefs} \subseteq Nat \ {0}

\* A lifetime is at least 30 seconds, so rounding never takes all of it.
ASSUME TtlAssumption ==
    /\ MIN_CACHE_TTL \in Nat /\ MIN_CACHE_TTL >= 30
    /\ MAX_CACHE_TTL \in Nat /\ MAX_CACHE_TTL >= MIN_CACHE_TTL

VARIABLES
    cache,           \* name -> struct cache_entry, or NULL
    cache_size,
    cache_refcount,
    cache_timer,     \* try_remove_cache is pending
    max_timeout,     \* the static variable of cache_cleanup
    next_refresh,
    changed,         \* history: when the cache was last invalidated
    now              \* time(NULL)

table == <<cache, cache_size>>
vars == <<table, cache_refcount, cache_timer, max_timeout, next_refresh, changed, now>>

Types == {"A", "AAAA"}
RRTypes == Types \cup {"CNAME"}    \* types the parser lets through
CacheData == [inserted : Nat, valid_until : Nat, cache_until : Nat]
CacheEntry == [want_refresh : BOOLEAN, hits : 0 .. MaxHits,
               ipv4 : CacheData \cup {NULL}, ipv6 : CacheData \cup {NULL}]

ASSUME NullAssumption ==
    /\ NULL \notin CacheData
    /\ \A D \in SUBSET Names : NULL \notin [D -> CacheEntry]

Slot(type) == IF type = "A" THEN "ipv4" ELSE "ipv6"
Entries == IF cache = NULL THEN {} ELSE DOMAIN cache
Decreased(n, by) == IF n < by THEN 0 ELSE n - by

-----------------------------------------------------------------------------
(***************************************************************************)
(* Entries.                                                                 *)
(***************************************************************************)
\* (Fault: lifetimes are rounded to the next boundary.)
round_up_ttl(end_time, ttl) ==
    IF ttl < 15 THEN end_time
    ELSE IF ttl < 300 THEN ((end_time + 9) \div 10) * 10
    ELSE ((end_time + 29) \div 30) * 30

round_down_ttl(end_time, ttl) ==
    IF ttl < 15 THEN end_time
    ELSE IF ttl < 300 THEN (end_time \div 10) * 10
    ELSE (end_time \div 30) * 30

cache_check_is_valid(data) == data # NULL /\ data.cache_until >= now

Valid(data) == IF cache_check_is_valid(data) THEN data ELSE NULL

cache_enforce_validity(entry) ==
    [entry EXCEPT !.ipv4 = Valid(@), !.ipv6 = Valid(@)]

\* What cache_update stores for an answer with this TTL.
NewData(ttl) ==
    LET raised == IF ttl < MIN_CACHE_TTL THEN MIN_CACHE_TTL ELSE ttl
        capped == IF raised > MAX_CACHE_TTL THEN MAX_CACHE_TTL ELSE raised
    IN  [inserted |-> now, valid_until |-> now + raised,
         cache_until |-> round_down_ttl(now + capped, capped)]

\* (Fault: the hit count may age below zero.)
refresh_dns_entry_unclamped(entry) ==
    LET age == IF NULL \in {entry.ipv4, entry.ipv6} THEN 4 ELSE 1
    IN  [entry EXCEPT !.want_refresh = FALSE, !.hits = @ - age]

\* Lookups are sent for the answers that are missing; the hit count ages.
refresh_dns_entry(entry) ==
    LET age == IF NULL \in {entry.ipv4, entry.ipv6} THEN 4 ELSE 1
    IN  [entry EXCEPT !.want_refresh = FALSE, !.hits = Decreased(@, age)]

cache_refresh_entry(entry) ==
    LET e == cache_enforce_validity(entry)
        popular == e.hits > RefreshHits /\ NULL \in {e.ipv4, e.ipv6}
    IN  IF e.want_refresh \/ popular THEN refresh_dns_entry(e) ELSE e

\* (Fault: the answers of an entry that is kept survive.)
invalidated_unwiped(entry) ==
    LET e == cache_enforce_validity(entry)
    IN  [e EXCEPT !.want_refresh = @ \/ (e.hits > 0 /\ {e.ipv4, e.ipv6} # {NULL})]

\* cache_invalidate_entry, which keeps the entry iff it is marked afterwards.
invalidated(entry) ==
    LET e == cache_enforce_validity(entry)
    IN  [e EXCEPT !.ipv4 = NULL, !.ipv6 = NULL,
                  !.want_refresh = @ \/ (e.hits > 0 /\ {e.ipv4, e.ipv6} # {NULL})]

-----------------------------------------------------------------------------
(***************************************************************************)
(* The table.  Removing an element runs cache_element_destroy, which counts *)
(* it off; cache_size is never negative.                                    *)
(***************************************************************************)
Without(c, names) == Restrict(c, DOMAIN c \ names)
SizeWithout(names) == Decreased(cache_size, Cardinality(names))

create_cache(c) == IF cache_refcount = 0 THEN [n \in {} |-> n] ELSE c

cache_refresh(c) == [n \in DOMAIN c |-> cache_refresh_entry(c[n])]

cache_invalidate(c) ==
    LET wiped == [n \in DOMAIN c |-> invalidated(c[n])]
    IN  Restrict(wiped, {n \in DOMAIN c : wiped[n].want_refresh})

Expired(entry) ==
    \E data \in {entry.ipv4, entry.ipv6} : data # NULL /\ data.cache_until < now

\* cache_check_entry over the whole table: age every entry, drop the expired
\* ones and, trying harder, the ones with few hits.
Swept(c, try_harder) ==
    LET aged == [n \in DOMAIN c |-> [c[n] EXCEPT !.hits = @ \div 2]]
    IN  Restrict(aged, {n \in DOMAIN c :
            ~Expired(c[n]) /\ ~(try_harder /\ aged[n].hits < KeepHits)})

\* (Fault: the second pass is left out.)
cache_cleanup_once(c) == IF max_timeout <= now THEN Swept(c, FALSE) ELSE c

cache_cleanup(c) ==
    LET first == IF max_timeout <= now THEN Swept(c, FALSE) ELSE c
    IN  IF DOMAIN first # DOMAIN c THEN first ELSE Swept(first, TRUE)

\* max_timeout after a cleanup that left c: the last expiry if it was in vain.
NextTimeout(c) ==
    IF DOMAIN c # DOMAIN cache THEN 0
    ELSE Max({0} \cup {data.cache_until : data \in UNION
             {{c[n].ipv4, c[n].ipv6} \ {NULL} : n \in DOMAIN c}})

-----------------------------------------------------------------------------
(***************************************************************************)
(* A query is looked up: cache_check, and the hit that ns_resolv and        *)
(* read_tcp_data count when they answer from the cache.                     *)
(***************************************************************************)
\* What a lookup answers with, NULL for a miss.
Answer(name, type) ==
    IF name \notin Entries THEN NULL ELSE Valid(cache[name][Slot(type)])

Lookup(name, type) ==
    /\ \/ /\ cache = NULL
          /\ cache' = create_cache(cache) /\ cache_refcount' = cache_refcount + 1
          /\ UNCHANGED cache_size
       \/ /\ cache # NULL /\ name \notin DOMAIN cache
          /\ UNCHANGED <<table, cache_refcount>>
       \/ /\ name \in Entries /\ Answer(name, type) # NULL
          /\ cache[name].hits < MaxHits
          /\ cache' = [cache EXCEPT ![name] =
                         [cache_enforce_validity(cache[name]) EXCEPT !.hits = @ + 1]]
          /\ UNCHANGED <<cache_size, cache_refcount>>
       \/ /\ name \in Entries /\ Answer(name, type) = NULL
          /\ LET e == cache_enforce_validity(cache[name])
                 want_refresh == e.hits > RefreshHits
             IN  IF {e.ipv4, e.ipv6} = {NULL} /\ ~want_refresh
                 THEN /\ cache' = Without(cache, {name})
                      /\ cache_size' = SizeWithout({name})
                 ELSE /\ cache' = [cache EXCEPT ![name] =
                             [e EXCEPT !.want_refresh = @ \/ want_refresh]]
                      /\ UNCHANGED cache_size
          /\ UNCHANGED cache_refcount
    /\ UNCHANGED <<cache_timer, max_timeout, next_refresh, changed, now>>

-----------------------------------------------------------------------------
(***************************************************************************)
(* A reply is stored: cache_update.                                         *)
(***************************************************************************)
\* A reply as cache_update sees it: the code, what parse_response made of it
\* ("ok": records of the type asked for, "none": no such record, or too many,
\* "bad": malformed), the type asked for, and the TTL and the type of the last
\* record that was parsed, whichever record that is.
Reply(rcode, outcome, qtype, ttl, type) ==
    [rcode |-> rcode, outcome |-> outcome, qtype |-> qtype, ttl |-> ttl, type |-> type]
Replies ==
    {Reply("noerror", "ok", "A", ttl, type) : ttl \in Ttls, type \in RRTypes}
    \cup {Reply("noerror", "none", qtype, 0, qtype) : qtype \in Types}
    \cup {Reply(rcode, "bad", "A", 0, "A") : rcode \in {"noerror", "error"}}

\* The table after the answers of the reply were stored.
Stored(c, name, r) ==
    CASE r.outcome = "none" /\ r.qtype = "AAAA" /\ name \in DOMAIN c ->
           IF c[name].ipv4 # NULL /\ c[name].ipv6 = NULL
           THEN [c EXCEPT ![name].ipv6 = c[name].ipv4, ![name].hits = Decreased(@, 1)]
           ELSE c
      [] r.outcome = "ok" /\ r.ttl > 0 /\ name \notin DOMAIN c ->
           [n \in DOMAIN c \cup {name} |->
              IF n # name THEN c[n]
              ELSE [want_refresh |-> FALSE, hits |-> 0,
                    ipv4 |-> IF r.type = "A" THEN NewData(r.ttl) ELSE NULL,
                    ipv6 |-> IF r.type = "A" THEN NULL ELSE NewData(r.ttl)]]
      [] r.outcome = "ok" /\ r.ttl > 0 /\ name \in DOMAIN c ->
           IF r.type \in Types /\ c[name][Slot(r.type)] # NULL THEN c
           ELSE [c EXCEPT ![name] = [c[name] EXCEPT ![Slot(r.type)] = NewData(r.ttl),
                                                    !.hits = Decreased(@, 1)]]
      [] OTHER -> c

\* cache_update after the cleanup left c and size; c is NULL before first use.
Updated(c, size, name, r) ==
    LET refreshes == next_refresh < now
        creates == c = NULL /\ r.rcode = "noerror"
        c1 == IF creates THEN create_cache(c)
              ELSE IF c # NULL /\ refreshes THEN cache_refresh(c) ELSE c
        c2 == IF r.rcode = "noerror" THEN Stored(c1, name, r)
              ELSE c1
        new == c2 # NULL /\ name \in DOMAIN c2 /\ name \notin DOMAIN c1
    IN  /\ cache' = c2
        /\ cache_size' = IF new THEN size + 1 ELSE size
        /\ cache_refcount' = IF creates THEN cache_refcount + 1 ELSE cache_refcount
        /\ next_refresh' = IF refreshes THEN now + RefreshDelay ELSE next_refresh

cache_update(name, r) ==
    \/ /\ cache_size < MAX_CACHE_SIZE
       /\ Updated(cache, cache_size, name, r)
       /\ UNCHANGED max_timeout
    \/ /\ cache_size >= MAX_CACHE_SIZE
       /\ \E c \in {cache_cleanup(cache)} :
            LET size == SizeWithout(DOMAIN cache \ DOMAIN c)
            IN  /\ max_timeout' = NextTimeout(c)
                /\ \/ /\ size < MAX_CACHE_SIZE
                      /\ Updated(c, size, name, r)
                   \/ /\ size >= MAX_CACHE_SIZE
                      /\ cache' = c /\ cache_size' = size
                      /\ UNCHANGED <<cache_refcount, next_refresh>>

\* forward_dns_reply hands the reply to a query to cache_update.
Update(name, r) ==
    /\ cache_update(name, r)
    /\ UNCHANGED <<cache_timer, changed, now>>

-----------------------------------------------------------------------------
(***************************************************************************)
(* References, the landscape and time.                                      *)
(***************************************************************************)
\* server_create_socket succeeds: every socket takes a reference.
ServerSocket ==
    /\ cache_refcount < MaxRefs
    /\ cache' = create_cache(cache) /\ cache_refcount' = cache_refcount + 1
    /\ UNCHANGED <<cache_size, cache_timer, max_timeout, next_refresh, changed, now>>

\* destroy_server, for a server that never had a socket too.
DestroyServer ==
    /\ cache # NULL /\ ~cache_timer
    /\ cache_timer' = TRUE
    /\ UNCHANGED <<table, cache_refcount, max_timeout, next_refresh, changed, now>>

\* (Fault: the size outlives the table.)
try_remove_uncounted ==
    /\ cache_timer /\ cache_timer' = FALSE
    /\ cache_refcount' = cache_refcount - 1
    /\ cache' = IF cache_refcount = 1 THEN NULL ELSE cache
    /\ UNCHANGED <<cache_size, max_timeout, next_refresh, changed, now>>

try_remove_cache ==
    /\ cache_timer /\ cache_timer' = FALSE
    /\ cache_refcount' = cache_refcount - 1
    /\ \/ /\ cache_refcount = 1
          /\ cache' = NULL /\ cache_size' = SizeWithout(DOMAIN cache)
       \/ /\ cache_refcount # 1
          /\ UNCHANGED table
    /\ UNCHANGED <<max_timeout, next_refresh, changed, now>>

\* dnsproxy_default_changed and dnsproxy_offline_mode wipe the cache, some of
\* them look the kept names up again; a second server repeats both.
LandscapeChanged(refresh, again) ==
    /\ cache # NULL
    /\ \E c1 \in {cache_invalidate(cache)} :
       \E c2 \in {IF refresh THEN cache_refresh(c1) ELSE c1} :
       \E c3 \in {IF again THEN cache_invalidate(c2) ELSE c2} :
       \E c4 \in {IF again /\ refresh THEN cache_refresh(c3) ELSE c3} :
            cache' = c4 /\ cache_size' = SizeWithout(DOMAIN cache \ DOMAIN c4)
    /\ changed' = now
    /\ UNCHANGED <<cache_refcount, cache_timer, max_timeout, next_refresh, now>>

Tick ==
    /\ \E t \in Instants : t > now /\ now' = t
    /\ UNCHANGED <<table, cache_refcount, cache_timer, max_timeout, next_refresh, changed>>

-----------------------------------------------------------------------------
Init ==
    /\ cache = NULL /\ cache_size = 0 /\ cache_refcount = 0 /\ cache_timer = FALSE
    /\ max_timeout = 0 /\ next_refresh = 0 /\ changed = 0
    /\ now = Min(Instants)

Next ==
    \/ \E name \in Names, type \in Types : Lookup(name, type)
    \/ \E name \in Names, r \in Replies : Update(name, r)
    \/ ServerSocket \/ DestroyServer \/ try_remove_cache
    \/ \E refresh, again \in BOOLEAN : LandscapeChanged(refresh, again)
    \/ Tick

Spec == Init /\ [][Next]_vars

-----------------------------------------------------------------------------
(***************************************************************************)
(* Properties.                                                              *)
(***************************************************************************)
\* Every entry is a well-formed cache_entry; times and counters are naturals.
TypeOK ==
    /\ cache = NULL \/ /\ DOMAIN cache \subseteq Names
                       /\ \A n \in DOMAIN cache : cache[n] \in CacheEntry
    /\ {cache_size, max_timeout, next_refresh, changed, now} \subseteq Nat
    /\ cache_refcount \in 0 .. MaxRefs /\ cache_timer \in BOOLEAN

\* cache_size, which cache_update and cache_element_destroy count apart, is the
\* number of entries, within the limit, and the table exists iff it is
\* referenced: a reply never meets a full count without a table to clean up.
CacheAccounted ==
    /\ cache_size = Cardinality(Entries) /\ cache_size <= MAX_CACHE_SIZE
    /\ cache = NULL <=> cache_refcount = 0

\* An answer given from the cache has not outlived its own lifetime, nor the
\* limit of MAX_CACHE_TTL, although a negative answer borrows the times of the
\* positive one and the lifetimes are raised, capped and rounded.
ServedFresh ==
    \A n \in Names, type \in Types : Answer(n, type) # NULL =>
        /\ now <= Answer(n, type).valid_until
        /\ now <= Answer(n, type).inserted + MAX_CACHE_TTL

\* After the default service or the offline mode changed nothing learnt before
\* is served again, marked entries included.
ServedCurrent ==
    \A n \in Names, type \in Types :
        Answer(n, type) # NULL => Answer(n, type).inserted >= changed

\* A reply that finds the cache full makes room if any answer has expired or
\* any name has fallen out of favour, and ages the names it keeps: popular once
\* never means cached for good.  For this cache_cleanup traverses the cache at
\* every such reply: max_timeout only keeps the first pass from running, against
\* what is said where it is set (CleanupWaits).
FullCacheYields ==
    cache_size >= MAX_CACHE_SIZE =>
        LET c == cache_cleanup(cache)
        IN  /\ \A n \in DOMAIN c : c[n].hits <= cache[n].hits \div 2
            /\ (\E n \in Entries : Expired(cache[n]) \/ cache[n].hits < 2 * KeepHits)
                 => DOMAIN c # Entries

\* What the comment in cache_cleanup says: after a clean-up in vain, "remember what
\* is the max timeout and do nothing if we have not yet reached it.  This will
\* prevent constant traversal of the cache if it is full".
CleanupWaits ==
    cache_size >= MAX_CACHE_SIZE /\ now < max_timeout => cache_cleanup(cache) = cache
=============================================================================
