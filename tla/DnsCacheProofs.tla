--------------------------- MODULE DnsCacheProofs ---------------------------
(***************************************************************************)
(* Proofs about DnsCache, for any finite set of names, any TTLs and times,  *)
(* and any limits.                                                          *)
(***************************************************************************)
EXTENDS DnsCache, FiniteSetTheorems, NaturalsInduction, TLAPS

-----------------------------------------------------------------------------
(***************************************************************************)
(* The inductive invariant.                                                 *)
(***************************************************************************)
\* Data that is neither kept longer than it is valid, nor than MAX_CACHE_TTL, and
\* that was learnt after the last change of the landscape.
Fresh == {data \in CacheData : /\ data.cache_until <= data.valid_until
                               /\ data.cache_until <= data.inserted + MAX_CACHE_TTL
                               /\ changed <= data.inserted}

\* Entries with answers from D.
Entry(D) == [want_refresh : BOOLEAN, hits : 0 .. MaxHits,
             ipv4 : D \cup {NULL}, ipv6 : D \cup {NULL}]

Table(c, D) == DOMAIN c \in SUBSET Names /\ c \in [DOMAIN c -> Entry(D)]

TableOK ==
    /\ cache # NULL => Table(cache, Fresh)
    /\ cache_size = Cardinality(Entries) /\ cache_size <= MAX_CACHE_SIZE

CountsOK ==
    /\ cache = NULL <=> cache_refcount = 0
    /\ cache_timer => cache # NULL
    /\ {cache_size, max_timeout, next_refresh, changed, now} \subseteq Nat /\ changed <= now
    /\ cache_refcount \in 0 .. MaxRefs /\ cache_timer \in BOOLEAN

IInv == TableOK /\ CountsOK

-----------------------------------------------------------------------------
(***************************************************************************)
(* Sets of naturals.                                                        *)
(***************************************************************************)
LEMMA LeastInstant ==
  ASSUME NEW S, S \subseteq Nat, S # {}
  PROVE  Min(S) \in S
<1> DEFINE R == {ss \in Nat \X Nat : ss[1] < ss[2]}
<1>1. PICK i \in S : \A j \in S : <<j, i>> \notin R
  <2>1. IsWellFoundedOn(R, Nat)
    BY NatLessThanWellFounded DEF OpToRel
  <2> HIDE DEF R
  <2> QED BY <2>1, WFMin
<1>2. ASSUME NEW j \in S
      PROVE  i <= j
  <2>1. i \in Nat /\ j \in Nat /\ ~ j < i
    BY <1>1
  <2> QED BY <2>1
<1> QED BY <1>2 DEF Min

\* A finite set of naturals has a greatest element: a smallest counterexample with
\* one element less is none.
LEMMA GreatestOfFinite ==
  ASSUME NEW S, IsFiniteSet(S), S \subseteq Nat, S # {}
  PROVE  Max(S) \in S
<1> DEFINE Greatest(m, U) == m \in U /\ \A y \in U : m >= y
           Bad == {U \in SUBSET S : U # {} /\ ~ \E m \in U : Greatest(m, U)}
<1>1. ASSUME Bad # {}
      PROVE  FALSE
  <2>1. IsWellFoundedOn(StrictSubsetOrdering(S), SUBSET S)
    BY FS_StrictSubsetOrderingWellFounded, FS_FiniteSubsetsOfFinite
  <2>2. PICK U \in Bad : \A V \in Bad : <<V, U>> \notin StrictSubsetOrdering(S)
    <3>1. Bad \subseteq SUBSET S
      OBVIOUS
    <3> HIDE DEF Bad
    <3> QED BY <1>1, <2>1, <3>1, WFMin
  <2>3. PICK x \in U : TRUE
    OBVIOUS
  <2> DEFINE V == U \ {x}
  <2>4. V \in SUBSET S /\ V \notin Bad
    BY <2>2, <2>3 DEF StrictSubsetOrdering
  <2>5. x \in Nat /\ \A y \in U : y \in Nat
    BY <2>3
  <2>6. CASE V = {}
    <3>1. Greatest(x, U)
      BY <2>3, <2>5, <2>6
    <3> QED BY <2>3, <3>1
  <2>7. CASE V # {}
    <3>1. PICK m \in V : Greatest(m, V)
      BY <2>4, <2>7
    <3>2. Greatest(x, U) \/ Greatest(m, U)
      BY <2>3, <2>5, <3>1
    <3> QED BY <2>3, <3>1, <3>2
  <2> QED BY <2>6, <2>7
<1>2. PICK m \in S : \A y \in S : m >= y
  BY <1>1
<1> QED BY <1>2 DEF Max

-----------------------------------------------------------------------------
(***************************************************************************)
(* Entries keep answers of the same sort, whatever is done to them.         *)
(***************************************************************************)
LEMMA ValidKeeps ==
  ASSUME NEW D, NEW data \in D \cup {NULL}
  PROVE  Valid(data) \in D \cup {NULL}
BY DEF Valid

LEMMA EnforceKeeps ==
  ASSUME NEW D, NEW e \in Entry(D)
  PROVE  /\ cache_enforce_validity(e) \in Entry(D)
         /\ cache_enforce_validity(e).hits = e.hits
         /\ cache_enforce_validity(e).want_refresh = e.want_refresh
<1> DEFINE v4 == Valid(e.ipv4)
           v6 == Valid(e.ipv6)
<1>1. v4 \in D \cup {NULL} /\ v6 \in D \cup {NULL}
  BY ValidKeeps DEF Entry
<1>2. cache_enforce_validity(e) = [e EXCEPT !.ipv4 = v4, !.ipv6 = v6]
  BY DEF cache_enforce_validity
<1> HIDE DEF v4, v6
<1> QED BY <1>1, <1>2 DEF Entry

LEMMA DecreasedBounds ==
  ASSUME NEW n \in 0 .. MaxHits, NEW by \in Nat
  PROVE  Decreased(n, by) \in 0 .. MaxHits
BY CacheAssumption DEF Decreased

LEMMA RefreshKeeps ==
  ASSUME NEW D, NEW e \in Entry(D)
  PROVE  cache_refresh_entry(e) \in Entry(D)
<1> DEFINE f == cache_enforce_validity(e)
           age == IF NULL \in {f.ipv4, f.ipv6} THEN 4 ELSE 1
           n == Decreased(f.hits, age)
<1>1. f \in Entry(D)
  BY EnforceKeeps
<1> HIDE DEF f
<1>2. n \in 0 .. MaxHits
  BY <1>1, DecreasedBounds DEF Entry
<1>3. refresh_dns_entry(f) = [f EXCEPT !.want_refresh = FALSE, !.hits = n]
  BY DEF refresh_dns_entry
<1> HIDE DEF n
<1>4. refresh_dns_entry(f) \in Entry(D)
  BY <1>1, <1>2, <1>3 DEF Entry
<1> QED BY <1>1, <1>4 DEF cache_refresh_entry, f

\* Invalidation leaves no answer at all.
LEMMA InvalidatedWipes ==
  ASSUME NEW D, NEW e \in Entry(D)
  PROVE  invalidated(e) \in Entry({})
<1> DEFINE f == cache_enforce_validity(e)
           want == f.want_refresh \/ (f.hits > 0 /\ {f.ipv4, f.ipv6} # {NULL})
<1>1. f \in Entry(D)
  BY EnforceKeeps
<1> HIDE DEF f
<1>2. want \in BOOLEAN
  OBVIOUS
<1>3. invalidated(e) = [f EXCEPT !.ipv4 = NULL, !.ipv6 = NULL, !.want_refresh = want]
  BY DEF invalidated, f
<1> HIDE DEF want
<1> QED BY <1>1, <1>2, <1>3 DEF Entry

LEMMA RestrictKeeps ==
  ASSUME NEW D, NEW c, Table(c, D), NEW S \in SUBSET DOMAIN c
  PROVE  Table(Restrict(c, S), D) /\ DOMAIN Restrict(c, S) = S
BY DEF Table, Restrict

LEMMA RefreshTableKeeps ==
  ASSUME NEW D, NEW c, Table(c, D)
  PROVE  Table(cache_refresh(c), D) /\ DOMAIN cache_refresh(c) = DOMAIN c
BY RefreshKeeps DEF Table, cache_refresh

LEMMA InvalidateWipes ==
  ASSUME NEW D, NEW c, Table(c, D)
  PROVE  Table(cache_invalidate(c), {}) /\ DOMAIN cache_invalidate(c) \subseteq DOMAIN c
<1> DEFINE wiped == [n \in DOMAIN c |-> invalidated(c[n])]
           S == {n \in DOMAIN c : wiped[n].want_refresh}
<1>1. Table(wiped, {}) /\ DOMAIN wiped = DOMAIN c
  BY InvalidatedWipes DEF Table
<1>2. cache_invalidate(c) = Restrict(wiped, S)
  BY DEF cache_invalidate
<1>3. S \in SUBSET DOMAIN wiped
  BY <1>1
<1> HIDE DEF wiped, S
<1> QED BY <1>1, <1>2, <1>3, RestrictKeeps

-----------------------------------------------------------------------------
(***************************************************************************)
(* Making room.                                                             *)
(***************************************************************************)
LEMMA HalfBounds ==
  ASSUME NEW n \in 0 .. MaxHits
  PROVE  n \div 2 \in 0 .. MaxHits /\ n \div 2 <= n
BY CacheAssumption

\* s is what a sweep of c leaves: the hits are halved, the answers kept, and exactly
\* the entries that are to go are gone.
Sweep(s, c, D, hard) ==
    /\ Table(s, D) /\ DOMAIN s \subseteq DOMAIN c
    /\ \A n \in DOMAIN s : /\ s[n].hits = c[n].hits \div 2
                          /\ s[n].ipv4 = c[n].ipv4 /\ s[n].ipv6 = c[n].ipv6
    /\ \A n \in DOMAIN c : n \in DOMAIN s <=>
          ~Expired(c[n]) /\ ~(hard /\ c[n].hits \div 2 < KeepHits)

LEMMA SweptProperties ==
  ASSUME NEW D, NEW c, Table(c, D), NEW hard
  PROVE  Sweep(Swept(c, hard), c, D, hard)
<1> DEFINE half(n) == c[n].hits \div 2
           aged == [n \in DOMAIN c |-> [c[n] EXCEPT !.hits = half(n)]]
           S == {n \in DOMAIN c : ~Expired(c[n]) /\ ~(hard /\ aged[n].hits < KeepHits)}
<1>1. ASSUME NEW n \in DOMAIN c
      PROVE  /\ aged[n] \in Entry(D) /\ aged[n].hits = half(n)
             /\ aged[n].ipv4 = c[n].ipv4 /\ aged[n].ipv6 = c[n].ipv6
  <2>1. c[n] \in Entry(D)
    BY DEF Table
  <2>2. half(n) \in 0 .. MaxHits
    BY <2>1, HalfBounds DEF Entry
  <2>3. aged[n] = [c[n] EXCEPT !.hits = half(n)]
    OBVIOUS
  <2> HIDE DEF half, aged
  <2> QED BY <2>1, <2>2, <2>3 DEF Entry
<1>2. Table(aged, D) /\ DOMAIN aged = DOMAIN c
  BY <1>1 DEF Table
<1>3. Swept(c, hard) = Restrict(aged, S)
  BY DEF Swept
<1>4. S \in SUBSET DOMAIN aged
  BY <1>2
<1> HIDE DEF aged
<1>5. Table(Swept(c, hard), D) /\ DOMAIN Swept(c, hard) = S
  BY <1>2, <1>3, <1>4, RestrictKeeps
<1>6. \A n \in S : Swept(c, hard)[n] = aged[n]
  BY <1>3 DEF Restrict
<1> QED BY <1>1, <1>5, <1>6 DEF Sweep

\* A cleanup ages every entry it keeps, and drops one if any has expired or has
\* fewer than twice KeepHits hits.
LEMMA CleanupProperties ==
  ASSUME NEW D, NEW c, Table(c, D)
  PROVE  /\ Table(cache_cleanup(c), D) /\ DOMAIN cache_cleanup(c) \subseteq DOMAIN c
         /\ \A n \in DOMAIN cache_cleanup(c) : cache_cleanup(c)[n].hits <= c[n].hits \div 2
         /\ (\E n \in DOMAIN c : Expired(c[n]) \/ c[n].hits < 2 * KeepHits)
              => DOMAIN cache_cleanup(c) # DOMAIN c
<1> DEFINE first == IF max_timeout <= now THEN Swept(c, FALSE) ELSE c
<1>1. Sweep(Swept(c, FALSE), c, D, FALSE)
  BY SweptProperties, Zenon
<1>2. \A n \in DOMAIN c : /\ c[n].hits \in 0 .. MaxHits
                          /\ c[n].hits \div 2 \in 0 .. MaxHits /\ c[n].hits \div 2 <= c[n].hits
  BY HalfBounds DEF Table, Entry
<1>3. /\ Table(first, D) /\ DOMAIN first \subseteq DOMAIN c
      /\ \A n \in DOMAIN first : /\ first[n].hits <= c[n].hits
                                /\ first[n].ipv4 = c[n].ipv4 /\ first[n].ipv6 = c[n].ipv6
  <2>1. CASE max_timeout <= now
    <3>1. first = Swept(c, FALSE)
      BY <2>1
    <3> HIDE DEF first
    <3> QED BY <1>1, <1>2, <3>1 DEF Sweep
  <2>2. CASE ~ max_timeout <= now
    <3>1. first = c
      BY <2>2
    <3> HIDE DEF first
    <3> QED BY <1>2, <3>1 DEF Table
  <2> QED BY <2>1, <2>2
<1>4. cache_cleanup(c) = IF DOMAIN first # DOMAIN c THEN first ELSE Swept(first, TRUE)
  BY DEF cache_cleanup
<1>5. DOMAIN first # DOMAIN c => first = Swept(c, FALSE)
  OBVIOUS
<1> HIDE DEF first
<1>6. CASE DOMAIN first # DOMAIN c
  <2>1. cache_cleanup(c) = first /\ Sweep(first, c, D, FALSE)
    BY <1>1, <1>4, <1>5, <1>6
  <2>2. \A n \in DOMAIN first : first[n].hits <= c[n].hits \div 2
    BY <1>2, <2>1 DEF Sweep
  <2> QED BY <1>3, <1>6, <2>1, <2>2
<1>7. CASE DOMAIN first = DOMAIN c
  <2> DEFINE d == Swept(first, TRUE)
  <2>1. Sweep(d, first, D, TRUE)
    BY <1>3, SweptProperties, Zenon
  <2> HIDE DEF d
  <2>2. ASSUME NEW n \in DOMAIN c
        PROVE  /\ first[n].hits \div 2 <= c[n].hits \div 2
               /\ c[n].hits < 2 * KeepHits => first[n].hits \div 2 < KeepHits
               /\ Expired(c[n]) <=> Expired(first[n])
    <3>1. /\ c[n].hits \in Nat /\ first[n].hits \in Nat /\ first[n].hits <= c[n].hits
          /\ KeepHits \in Nat
      BY <1>2, <1>3, <1>7, CacheAssumption DEF Table, Entry
    <3>2. Expired(c[n]) <=> Expired(first[n])
      BY <1>3, <1>7 DEF Expired
    <3> QED BY <3>1, <3>2
  <2>3. cache_cleanup(c) = d
    BY <1>4, <1>7 DEF d
  <2> QED BY <1>7, <2>1, <2>2, <2>3 DEF Sweep
<1> QED BY <1>6, <1>7

\* FS_Image, for a function.
LEMMA FiniteImage ==
  ASSUME NEW S, IsFiniteSet(S), NEW f, DOMAIN f = S, f = [x \in S |-> f[x]]
  PROVE  IsFiniteSet({f[x] : x \in S})
<1> DEFINE T == {f[x] : x \in S}
<1>1. f \in Surjection(S, T)
  BY DEF Surjection
<1> HIDE DEF T
<1> QED BY <1>1, FS_Surjection DEF T

\* A finite table has a last expiry.
LEMMA TimeoutType ==
  ASSUME NEW c, Table(c, Fresh)
  PROVE  NextTimeout(c) \in Nat
<1> DEFINE Datas(n) == {c[n].ipv4, c[n].ipv6} \ {NULL}
           all == UNION {Datas(n) : n \in DOMAIN c}
           untils == {data.cache_until : data \in all}
<1>1. IsFiniteSet(DOMAIN c)
  BY CacheAssumption, FS_Subset DEF Table
<1>2. IsFiniteSet({Datas(n) : n \in DOMAIN c})
  <2> DEFINE f == [n \in DOMAIN c |-> Datas(n)]
  <2>1. IsFiniteSet({f[n] : n \in DOMAIN c})
    <3>1. DOMAIN f = DOMAIN c /\ f = [n \in DOMAIN c |-> f[n]]
      OBVIOUS
    <3> HIDE DEF f
    <3> QED BY <1>1, <3>1, FiniteImage
  <2>2. {f[n] : n \in DOMAIN c} = {Datas(n) : n \in DOMAIN c}
    <3> HIDE DEF Datas
    <3> QED OBVIOUS
  <2> QED BY <2>1, <2>2
<1>3. ASSUME NEW n
      PROVE  IsFiniteSet(Datas(n))
  <2>1. IsFiniteSet({c[n].ipv4} \cup {c[n].ipv6})
    BY FS_Singleton, FS_AddElement
  <2> QED BY <2>1, FS_Subset, Datas(n) \in SUBSET ({c[n].ipv4} \cup {c[n].ipv6})
<1>4. IsFiniteSet(all)
  <2>1. \A T \in {Datas(n) : n \in DOMAIN c} : IsFiniteSet(T)
    BY <1>3
  <2> HIDE DEF Datas
  <2> QED BY <1>2, <2>1, FS_UNION
<1>5. all \subseteq CacheData
  BY DEF Table, Entry, Fresh
<1> HIDE DEF all
<1>6. untils \subseteq Nat
  BY <1>5 DEF CacheData
<1>7. IsFiniteSet(untils)
  <2> DEFINE f == [data \in all |-> data.cache_until]
  <2>1. IsFiniteSet({f[data] : data \in all})
    <3>1. DOMAIN f = all /\ f = [data \in all |-> f[data]]
      OBVIOUS
    <3> HIDE DEF f
    <3> QED BY <1>4, <3>1, FiniteImage
  <2>2. {f[data] : data \in all} = untils
    OBVIOUS
  <2> QED BY <2>1, <2>2
<1> HIDE DEF untils
<1>8. IsFiniteSet({0} \cup untils)
  BY <1>7, FS_Singleton, FS_Union
<1>9. Max({0} \cup untils) \in Nat
  <2> DEFINE S == {0} \cup untils
  <2>1. S \subseteq Nat /\ S # {} /\ IsFiniteSet(S)
    BY <1>6, <1>8
  <2> HIDE DEF S
  <2>2. Max(S) \in Nat
    BY <2>1, GreatestOfFinite
  <2> QED BY <2>2 DEF S
<1> QED BY <1>9 DEF NextTimeout, untils, all

-----------------------------------------------------------------------------
(***************************************************************************)
(* Storing an answer.                                                       *)
(***************************************************************************)
\* Rounding only shortens a lifetime.
LEMMA RoundedDown ==
  ASSUME NEW end_time \in Nat, NEW ttl \in Nat
  PROVE  round_down_ttl(end_time, ttl) \in Nat /\ round_down_ttl(end_time, ttl) <= end_time
BY DEF round_down_ttl

LEMMA NewDataFresh ==
  ASSUME CountsOK, NEW ttl \in Nat
  PROVE  NewData(ttl) \in Fresh
<1> DEFINE raised == IF ttl < MIN_CACHE_TTL THEN MIN_CACHE_TTL ELSE ttl
           capped == IF raised > MAX_CACHE_TTL THEN MAX_CACHE_TTL ELSE raised
           until == round_down_ttl(now + capped, capped)
<1>1. raised \in Nat /\ capped \in Nat /\ capped <= raised /\ capped <= MAX_CACHE_TTL
  BY TtlAssumption
<1>2. NewData(ttl) = [inserted |-> now, valid_until |-> now + raised, cache_until |-> until]
  BY DEF NewData
<1>3. now \in Nat /\ changed \in Nat /\ changed <= now /\ MAX_CACHE_TTL \in Nat
  BY TtlAssumption DEF CountsOK
<1> HIDE DEF raised, capped
<1>4. until \in Nat /\ until <= now + capped
  BY <1>1, <1>3, RoundedDown
<1> HIDE DEF until
<1>5. until <= now + raised /\ until <= now + MAX_CACHE_TTL /\ now + raised \in Nat
  BY <1>1, <1>3, <1>4
<1> QED BY <1>2, <1>3, <1>4, <1>5 DEF Fresh, CacheData

LEMMA RepliesTyped ==
  ASSUME NEW r \in Replies
  PROVE  r.ttl \in Nat /\ r.type \in RRTypes
<1>1. \A rcode, outcome, qtype, ttl, type :
        /\ Reply(rcode, outcome, qtype, ttl, type).ttl = ttl
        /\ Reply(rcode, outcome, qtype, ttl, type).type = type
  BY DEF Reply
<1> QED BY <1>1, CacheAssumption DEF Replies, RRTypes, Types

LEMMA StoredKeeps ==
  ASSUME CountsOK, NEW c, Table(c, Fresh), NEW name \in Names, NEW r \in Replies
  PROVE  /\ Table(Stored(c, name, r), Fresh)
         /\ DOMAIN Stored(c, name, r) \in {DOMAIN c, DOMAIN c \cup {name}}
<1>1. r.ttl \in Nat /\ r.type \in RRTypes
  BY RepliesTyped
<1>2. NewData(r.ttl) \in Fresh
  BY <1>1, NewDataFresh
<1> DEFINE new == NewData(r.ttl)
<1> HIDE DEF new
<1>3. ASSUME NEW e \in Entry(Fresh), name \in DOMAIN c
      PROVE  /\ Table([c EXCEPT ![name] = e], Fresh)
             /\ DOMAIN [c EXCEPT ![name] = e] = DOMAIN c
  BY <1>3 DEF Table
<1>4. ASSUME name \in DOMAIN c
      PROVE  c[name] \in Entry(Fresh) /\ Decreased(c[name].hits, 1) \in 0 .. MaxHits
  BY <1>4, DecreasedBounds DEF Table, Entry
<1>5. CASE r.outcome = "none" /\ r.qtype = "AAAA" /\ name \in DOMAIN c
  <2> DEFINE n == Decreased(c[name].hits, 1)
             d == c[name].ipv4
             e == [c[name] EXCEPT !.ipv6 = d, !.hits = n]
  <2>1. d \in Fresh \cup {NULL} /\ n \in 0 .. MaxHits /\ c[name] \in Entry(Fresh)
    BY <1>4, <1>5 DEF Entry
  <2>2. Stored(c, name, r) \in {c, [c EXCEPT ![name] = e]}
    BY <1>5 DEF Stored
  <2> HIDE DEF n, d
  <2>3. e \in Entry(Fresh)
    BY <2>1 DEF Entry
  <2> HIDE DEF e
  <2> QED BY <1>3, <1>5, <2>2, <2>3
<1>6. CASE r.outcome = "ok" /\ r.ttl > 0 /\ name \notin DOMAIN c
  <2> DEFINE v4 == IF r.type = "A" THEN new ELSE NULL
             v6 == IF r.type = "A" THEN NULL ELSE new
             e == [want_refresh |-> FALSE, hits |-> 0, ipv4 |-> v4, ipv6 |-> v6]
  <2>1. v4 \in Fresh \cup {NULL} /\ v6 \in Fresh \cup {NULL} /\ 0 \in 0 .. MaxHits
    BY <1>2, CacheAssumption DEF new
  <2>2. Stored(c, name, r) = [n \in DOMAIN c \cup {name} |-> IF n # name THEN c[n] ELSE e]
    BY <1>6 DEF Stored, new
  <2> HIDE DEF v4, v6
  <2>3. e \in Entry(Fresh)
    BY <2>1 DEF Entry
  <2> HIDE DEF e
  <2> QED BY <1>6, <2>2, <2>3 DEF Table
<1>7. CASE r.outcome = "ok" /\ r.ttl > 0 /\ name \in DOMAIN c
  <2> DEFINE n == Decreased(c[name].hits, 1)
             e == [c[name] EXCEPT ![Slot(r.type)] = new, !.hits = n]
  <2>1. n \in 0 .. MaxHits /\ c[name] \in Entry(Fresh) /\ new \in Fresh \cup {NULL}
    BY <1>2, <1>4, <1>7 DEF new
  <2>2. Stored(c, name, r) \in {c, [c EXCEPT ![name] = e]}
    BY <1>7 DEF Stored, new
  <2> HIDE DEF n
  <2>3. e \in Entry(Fresh)
    BY <2>1 DEF Entry, Slot
  <2> HIDE DEF e
  <2> QED BY <1>3, <1>7, <2>2, <2>3
<1>8. CASE Stored(c, name, r) = c
  BY <1>8
<1> QED BY <1>5, <1>6, <1>7, <1>8 DEF Stored

-----------------------------------------------------------------------------
(***************************************************************************)
(* Tables and their sizes.                                                  *)
(***************************************************************************)
LEMMA TableNotNull ==
  ASSUME NEW c, Table(c, Fresh)
  PROVE  c # NULL
<1>1. Entry(Fresh) \subseteq CacheEntry
  BY DEF Entry, Fresh, CacheEntry
<1>2. DOMAIN c \in SUBSET Names /\ c \in [DOMAIN c -> CacheEntry]
  BY <1>1 DEF Table
<1> QED BY <1>2, NullAssumption

LEMMA EmptyTable ==
  ASSUME NEW D
  PROVE  Table([n \in {} |-> n], D) /\ DOMAIN [n \in {} |-> n] = {}
BY DEF Table

\* A wiped table has no answer of any sort.
LEMMA WipedTable ==
  ASSUME NEW c, Table(c, {}), NEW D
  PROVE  Table(c, D)
<1>1. Entry({}) \subseteq Entry(D)
  BY DEF Entry
<1> QED BY <1>1 DEF Table

LEMMA FiniteTable ==
  ASSUME NEW c, NEW D, Table(c, D)
  PROVE  IsFiniteSet(DOMAIN c) /\ Cardinality(DOMAIN c) \in Nat
BY CacheAssumption, FS_Subset, FS_CardinalityType DEF Table

\* cache_size after all entries but those of S went.
LEMMA SizeShrinks ==
  ASSUME TableOK, cache # NULL, NEW S \in SUBSET DOMAIN cache
  PROVE  /\ SizeWithout(DOMAIN cache \ S) = Cardinality(S)
         /\ Cardinality(S) \in Nat /\ Cardinality(S) <= MAX_CACHE_SIZE
<1> DEFINE G == DOMAIN cache \ S
<1>1. IsFiniteSet(DOMAIN cache) /\ cache_size = Cardinality(DOMAIN cache)
  BY FiniteTable DEF TableOK, Entries
<1>2. /\ IsFiniteSet(S) /\ IsFiniteSet(G)
      /\ Cardinality(S) \in Nat /\ Cardinality(G) \in Nat /\ cache_size \in Nat
  BY <1>1, FS_Subset, FS_CardinalityType, G \in SUBSET DOMAIN cache
<1>3. Cardinality(G) = cache_size - Cardinality(S)
  <2>1. DOMAIN cache \cap S = S
    OBVIOUS
  <2> QED BY <1>1, <2>1, FS_Difference
<1> HIDE DEF G
<1>4. Decreased(cache_size, Cardinality(G)) = Cardinality(S)
  BY <1>2, <1>3 DEF Decreased
<1>5. cache_size <= MAX_CACHE_SIZE /\ MAX_CACHE_SIZE \in Nat
  BY CacheAssumption DEF TableOK
<1> QED BY <1>2, <1>3, <1>4, <1>5 DEF SizeWithout, G

\* The table was replaced by one with some of its names.
LEMMA Replaced ==
  ASSUME TableOK, cache # NULL, Table(cache', Fresh'), DOMAIN cache' \subseteq DOMAIN cache,
         cache_size' = SizeWithout(DOMAIN cache \ DOMAIN cache')
  PROVE  TableOK' /\ cache_size' \in Nat
<1>1. Table(cache, Fresh)'
  BY DEF Table
<1>2. cache' # NULL
  <2>1. ASSUME NEW c, Table(c, Fresh')
        PROVE  c # NULL
    <3>1. Entry(Fresh') \subseteq CacheEntry
      BY DEF Entry, Fresh, CacheEntry
    <3>2. DOMAIN c \in SUBSET Names /\ c \in [DOMAIN c -> CacheEntry]
      BY <2>1, <3>1 DEF Table
    <3> QED BY <3>2, NullAssumption
  <2> QED BY <2>1
<1>3. /\ cache_size' = Cardinality(DOMAIN cache') /\ cache_size' \in Nat
      /\ cache_size' <= MAX_CACHE_SIZE
  BY SizeShrinks
<1> QED BY <1>1, <1>2, <1>3 DEF TableOK, Entries

\* The same, when nothing was counted off.
LEMMA SameNames ==
  ASSUME TableOK, cache # NULL, changed' = changed, Table(cache', Fresh),
         DOMAIN cache' = DOMAIN cache, cache_size' = cache_size
  PROVE  TableOK' /\ cache' # NULL
<1>1. Fresh' = Fresh
  BY DEF Fresh
<1>2. cache' # NULL
  BY TableNotNull
<1> QED BY <1>1, <1>2 DEF TableOK, Entries, Table

-----------------------------------------------------------------------------
(***************************************************************************)
(* The actions.                                                             *)
(***************************************************************************)
LEMMA Untouched ==
  ASSUME TableOK, UNCHANGED <<table, changed>>
  PROVE  TableOK'
BY DEF TableOK, table, Table, Fresh, Entries

\* The table is created.
LEMMA Created ==
  ASSUME IInv, cache = NULL, cache' = [n \in {} |-> n], UNCHANGED <<cache_size, changed>>
  PROVE  TableOK' /\ cache' # NULL
<1>1. Fresh' = Fresh
  BY DEF Fresh
<1>2. Table(cache', Fresh) /\ DOMAIN cache' = {}
  BY EmptyTable
<1>3. cache' # NULL
  BY <1>2, TableNotNull
<1>4. Cardinality({}) = cache_size /\ cache_size <= MAX_CACHE_SIZE
  BY DEF IInv, TableOK, Entries
<1> QED BY <1>1, <1>2, <1>3, <1>4 DEF TableOK, Entries, Table

LEMMA LookupStep ==
  ASSUME IInv, NEW name \in Names, NEW type \in Types, Lookup(name, type)
  PROVE  IInv'
<1>1. UNCHANGED <<cache_timer, max_timeout, next_refresh, changed, now>>
  BY DEF Lookup
<1>2. ASSUME TableOK', cache # NULL, cache' # NULL, cache_refcount' = cache_refcount,
             cache_size' \in Nat
      PROVE  IInv'
  BY <1>1, <1>2 DEF IInv, CountsOK
<1>3. CASE /\ cache = NULL
           /\ cache' = create_cache(cache) /\ cache_refcount' = cache_refcount + 1
           /\ UNCHANGED cache_size
  <2>1. cache_refcount = 0
    BY <1>3 DEF IInv, CountsOK
  <2>2. TableOK' /\ cache' # NULL
    BY <1>1, <1>3, <2>1, Created DEF create_cache
  <2> QED BY <1>1, <1>3, <2>1, <2>2, CacheAssumption DEF IInv, CountsOK
<1>4. CASE UNCHANGED <<table, cache_refcount>>
  <2>1. TableOK'
    BY <1>1, <1>4, Untouched DEF IInv
  <2> QED BY <1>1, <1>4, <2>1 DEF IInv, CountsOK, table
<1>5. ASSUME name \in Entries
      PROVE  /\ cache # NULL /\ name \in DOMAIN cache /\ Table(cache, Fresh)
             /\ cache_enforce_validity(cache[name]) \in Entry(Fresh)
             /\ cache_size \in Nat
  <2>1. cache # NULL /\ name \in DOMAIN cache /\ Table(cache, Fresh) /\ cache_size \in Nat
    BY <1>5 DEF Entries, IInv, TableOK, CountsOK
  <2> QED BY <2>1, EnforceKeeps DEF Table
<1>6. ASSUME name \in Entries, NEW e \in Entry(Fresh), cache' = [cache EXCEPT ![name] = e],
             UNCHANGED <<cache_size, cache_refcount>>
      PROVE  IInv'
  <2>1. Table(cache', Fresh) /\ DOMAIN cache' = DOMAIN cache
    BY <1>5, <1>6 DEF Table
  <2>2. TableOK' /\ cache' # NULL
    BY <1>1, <1>5, <1>6, <2>1, SameNames DEF IInv
  <2> QED BY <1>2, <1>5, <1>6, <2>2
<1>7. CASE /\ name \in Entries /\ cache[name].hits < MaxHits
           /\ cache' = [cache EXCEPT ![name] =
                          [cache_enforce_validity(cache[name]) EXCEPT !.hits = @ + 1]]
           /\ UNCHANGED <<cache_size, cache_refcount>>
  <2> DEFINE f == cache_enforce_validity(cache[name])
             n == f.hits + 1
             e == [f EXCEPT !.hits = n]
  <2>1. f \in Entry(Fresh) /\ f.hits = cache[name].hits
    BY <1>5, <1>7, EnforceKeeps DEF Table
  <2>2. n \in 0 .. MaxHits
    BY <1>7, <2>1, CacheAssumption DEF Entry
  <2>3. cache' = [cache EXCEPT ![name] = e]
    BY <1>7
  <2> HIDE DEF f, n
  <2>4. e \in Entry(Fresh)
    BY <2>1, <2>2 DEF Entry
  <2> QED BY <1>6, <1>7, <2>3, <2>4
<1>8. CASE /\ name \in Entries
           /\ LET e == cache_enforce_validity(cache[name])
                  want_refresh == e.hits > RefreshHits
              IN  IF {e.ipv4, e.ipv6} = {NULL} /\ ~want_refresh
                  THEN /\ cache' = Without(cache, {name})
                       /\ cache_size' = SizeWithout({name})
                  ELSE /\ cache' = [cache EXCEPT ![name] =
                              [e EXCEPT !.want_refresh = @ \/ want_refresh]]
                       /\ UNCHANGED cache_size
           /\ UNCHANGED cache_refcount
  <2> DEFINE e == cache_enforce_validity(cache[name])
             want == e.want_refresh \/ e.hits > RefreshHits
  <2>1. e \in Entry(Fresh)
    BY <1>5, <1>8
  <2>2. \/ cache' = Without(cache, {name}) /\ cache_size' = SizeWithout({name})
        \/ cache' = [cache EXCEPT ![name] = [e EXCEPT !.want_refresh = want]] /\ UNCHANGED cache_size
    BY <1>8
  <2>3. want \in BOOLEAN
    OBVIOUS
  <2> HIDE DEF e, want
  <2>4. CASE cache' = [cache EXCEPT ![name] = [e EXCEPT !.want_refresh = want]]
             /\ UNCHANGED cache_size
    <3>1. [e EXCEPT !.want_refresh = want] \in Entry(Fresh)
      BY <2>1, <2>3 DEF Entry
    <3> QED BY <1>6, <1>8, <2>4, <3>1
  <2>5. CASE cache' = Without(cache, {name}) /\ cache_size' = SizeWithout({name})
    <3> DEFINE S == DOMAIN cache \ {name}
    <3>1. Table(cache', Fresh) /\ DOMAIN cache' = S
      BY <1>5, <1>8, <2>5, RestrictKeeps DEF Without
    <3>2. DOMAIN cache \ S = {name}
      BY <1>5, <1>8
    <3>3. Fresh' = Fresh
      BY <1>1 DEF Fresh
    <3>4. TableOK' /\ cache_size' \in Nat
      BY <1>5, <1>8, <2>5, <3>1, <3>2, <3>3, Replaced DEF IInv
    <3>5. cache' # NULL
      BY <3>1, TableNotNull
    <3> QED BY <1>2, <1>5, <1>8, <3>4, <3>5
  <2> QED BY <2>2, <2>4, <2>5
<1> QED BY <1>3, <1>4, <1>7, <1>8 DEF Lookup

\* cache_update below the limit.  The table it starts from, c, is the one there was
\* or what a cleanup left of it.
LEMMA UpdatedStep ==
  ASSUME IInv, NEW name \in Names, NEW r \in Replies, NEW c, NEW size \in Nat,
         c = NULL <=> cache = NULL, c = NULL => size = 0,
         c # NULL => Table(c, Fresh) /\ size = Cardinality(DOMAIN c),
         size < MAX_CACHE_SIZE, Updated(c, size, name, r),
         max_timeout' \in Nat, UNCHANGED <<cache_timer, changed, now>>
  PROVE  IInv'
<1> DEFINE refreshes == next_refresh < now
           creates == c = NULL /\ r.rcode = "noerror"
           c1 == IF creates THEN create_cache(c)
                 ELSE IF c # NULL /\ refreshes THEN cache_refresh(c) ELSE c
           c2 == IF r.rcode = "noerror" THEN Stored(c1, name, r) ELSE c1
           new == c2 # NULL /\ name \in DOMAIN c2 /\ name \notin DOMAIN c1
<1>1. /\ cache' = c2
      /\ cache_size' = IF new THEN size + 1 ELSE size
      /\ cache_refcount' = IF creates THEN cache_refcount + 1 ELSE cache_refcount
      /\ next_refresh' = IF refreshes THEN now + RefreshDelay ELSE next_refresh
  BY DEF Updated
<1>2. Fresh' = Fresh
  BY DEF Fresh
<1>3. next_refresh' \in Nat
  BY <1>1, CacheAssumption DEF IInv, CountsOK
<1>4. CASE c = NULL /\ r.rcode # "noerror"
  <2>1. c2 = NULL /\ ~new /\ ~creates
    BY <1>4
  <2>2. TableOK'
    BY <1>1, <1>4, <2>1, FS_EmptySet DEF TableOK, Entries, IInv
  <2> QED BY <1>1, <1>3, <1>4, <2>1, <2>2 DEF IInv, CountsOK
<1>5. CASE ~(c = NULL /\ r.rcode # "noerror")
  <2>1. Table(c1, Fresh) /\ size = Cardinality(DOMAIN c1)
    <3>1. CASE creates
      <4>1. cache_refcount = 0
        BY <3>1 DEF IInv, CountsOK
      <4>2. c1 = [n \in {} |-> n]
        BY <3>1, <4>1 DEF create_cache
      <4> HIDE DEF c1
      <4> QED BY <3>1, <4>2, EmptyTable, FS_EmptySet
    <3>2. CASE ~creates /\ c # NULL /\ refreshes
      <4>1. c1 = cache_refresh(c)
        BY <3>2
      <4> HIDE DEF c1
      <4> QED BY <3>2, <4>1, RefreshTableKeeps
    <3>3. CASE ~creates /\ c # NULL /\ ~refreshes
      <4>1. c1 = c
        BY <3>3
      <4> HIDE DEF c1
      <4> QED BY <3>3, <4>1
    <3> QED BY <1>5, <3>1, <3>2, <3>3
  <2> HIDE DEF c1
  <2>2. Table(c2, Fresh) /\ DOMAIN c2 \in {DOMAIN c1, DOMAIN c1 \cup {name}}
    BY <2>1, StoredKeeps DEF IInv
  <2> HIDE DEF c2
  <2>3. c2 # NULL
    BY <2>2, TableNotNull
  <2>4. IsFiniteSet(DOMAIN c1)
    BY <2>1, FiniteTable
  <2>5. cache_size' = Cardinality(DOMAIN c2) /\ cache_size' <= MAX_CACHE_SIZE
        /\ cache_size' \in Nat
    <3>1. CASE new
      <4>1. DOMAIN c2 = DOMAIN c1 \cup {name} /\ name \notin DOMAIN c1
        BY <2>2, <3>1
      <4>2. Cardinality(DOMAIN c2) = size + 1
        BY <2>1, <2>4, <4>1, FS_AddElement
      <4> QED BY <1>1, <3>1, <4>2, CacheAssumption
    <3>2. CASE ~new
      <4>1. DOMAIN c2 = DOMAIN c1
        BY <2>2, <2>3, <3>2
      <4> QED BY <1>1, <2>1, <3>2, <4>1, CacheAssumption
    <3> QED BY <3>1, <3>2
  <2>6. TableOK'
    BY <1>1, <1>2, <2>2, <2>3, <2>5 DEF TableOK, Entries, Table
  <2>7. cache_refcount' \in 0 .. MaxRefs /\ cache_refcount' # 0
    <3>1. CASE creates
      <4>1. cache_refcount = 0
        BY <3>1 DEF IInv, CountsOK
      <4> QED BY <1>1, <3>1, <4>1, CacheAssumption
    <3>2. CASE ~creates
      BY <1>1, <1>5, <3>2 DEF IInv, CountsOK
    <3> QED BY <3>1, <3>2
  <2> QED BY <1>1, <1>3, <2>3, <2>5, <2>6, <2>7 DEF IInv, CountsOK
<1> QED BY <1>4, <1>5

LEMMA UpdateStep ==
  ASSUME IInv, NEW name \in Names, NEW r \in Replies, Update(name, r)
  PROVE  IInv'
<1>1. /\ cache # NULL => Table(cache, Fresh) /\ cache_size = Cardinality(DOMAIN cache)
      /\ cache = NULL => cache_size = 0
      /\ cache_size \in Nat /\ max_timeout \in Nat
  BY FS_EmptySet DEF IInv, TableOK, CountsOK, Entries
<1>2. UNCHANGED <<cache_timer, changed, now>>
  BY DEF Update
<1>3. CASE /\ cache_size < MAX_CACHE_SIZE /\ Updated(cache, cache_size, name, r)
           /\ UNCHANGED max_timeout
  BY <1>1, <1>2, <1>3, UpdatedStep
<1>4. ASSUME cache_size >= MAX_CACHE_SIZE, NEW c, c = cache_cleanup(cache),
             max_timeout' = NextTimeout(c),
             LET size == SizeWithout(DOMAIN cache \ DOMAIN c)
             IN  \/ size < MAX_CACHE_SIZE /\ Updated(c, size, name, r)
                 \/ /\ size >= MAX_CACHE_SIZE
                    /\ cache' = c /\ cache_size' = size
                    /\ UNCHANGED <<cache_refcount, next_refresh>>
      PROVE  IInv'
  <2> DEFINE size == SizeWithout(DOMAIN cache \ DOMAIN c)
  <2>1. cache # NULL
    BY <1>1, <1>4, CacheAssumption
  <2>2. Table(c, Fresh) /\ DOMAIN c \subseteq DOMAIN cache
    BY <1>1, <1>4, <2>1, CleanupProperties
  <2>3. size = Cardinality(DOMAIN c) /\ size \in Nat
    BY <2>1, <2>2, SizeShrinks DEF IInv
  <2>4. max_timeout' \in Nat
    BY <1>4, <2>2, TimeoutType
  <2>5. c # NULL
    BY <2>2, TableNotNull
  <2>6. CASE size < MAX_CACHE_SIZE /\ Updated(c, size, name, r)
    <3> HIDE DEF size
    <3> QED BY <1>2, <2>1, <2>2, <2>3, <2>4, <2>5, <2>6, UpdatedStep
  <2>7. CASE cache' = c /\ cache_size' = size /\ UNCHANGED <<cache_refcount, next_refresh>>
    <3>1. Fresh' = Fresh
      BY <1>2 DEF Fresh
    <3>2. TableOK' /\ cache_size' \in Nat
      BY <2>1, <2>2, <2>7, <3>1, Replaced DEF IInv
    <3> QED BY <1>2, <2>1, <2>4, <2>5, <2>7, <3>2 DEF IInv, CountsOK
  <2> QED BY <1>4, <2>6, <2>7
<1> QED BY <1>3, <1>4 DEF Update, cache_update

LEMMA ServerSocketStep == IInv /\ ServerSocket => IInv'
<1> SUFFICES ASSUME IInv, ServerSocket PROVE IInv'
  OBVIOUS
<1>1. /\ cache' = create_cache(cache) /\ cache_refcount' = cache_refcount + 1
      /\ cache_refcount < MaxRefs
      /\ UNCHANGED <<cache_size, cache_timer, max_timeout, next_refresh, changed, now>>
  BY DEF ServerSocket
<1>2. TableOK' /\ cache' # NULL
  <2>1. CASE cache_refcount = 0
    BY <1>1, <2>1, Created DEF IInv, CountsOK, create_cache
  <2>2. CASE cache_refcount # 0
    BY <1>1, <2>2, Untouched DEF IInv, CountsOK, create_cache, table
  <2> QED BY <2>1, <2>2
<1>3. cache_refcount' \in 0 .. MaxRefs /\ cache_refcount' # 0
  BY <1>1, CacheAssumption DEF IInv, CountsOK
<1> QED BY <1>1, <1>2, <1>3 DEF IInv, CountsOK

LEMMA DestroyServerStep == IInv /\ DestroyServer => IInv'
<1> SUFFICES ASSUME IInv, DestroyServer PROVE IInv'
  OBVIOUS
<1>1. TableOK'
  BY Untouched DEF DestroyServer, IInv
<1> QED BY <1>1 DEF DestroyServer, IInv, CountsOK, table

LEMMA TryRemoveStep == IInv /\ try_remove_cache => IInv'
<1> SUFFICES ASSUME IInv, try_remove_cache PROVE IInv'
  OBVIOUS
<1>1. /\ cache # NULL /\ cache_refcount \in 1 .. MaxRefs
      /\ cache_refcount' = cache_refcount - 1 /\ cache_timer' = FALSE
      /\ UNCHANGED <<max_timeout, next_refresh, changed, now>>
  BY CacheAssumption DEF try_remove_cache, IInv, CountsOK
<1>2. CASE cache_refcount = 1 /\ cache' = NULL /\ cache_size' = SizeWithout(DOMAIN cache)
  <2>1. SizeWithout(DOMAIN cache) = 0
    <3>1. DOMAIN cache \ {} = DOMAIN cache
      OBVIOUS
    <3>2. SizeWithout(DOMAIN cache \ {}) = Cardinality({})
      BY <1>1, SizeShrinks DEF IInv
    <3> QED BY <3>1, <3>2, FS_EmptySet
  <2>2. TableOK'
    BY <1>2, <2>1, FS_EmptySet, CacheAssumption DEF TableOK, Entries
  <2>3. cache_refcount' = 0 /\ 0 \in 0 .. MaxRefs /\ cache_size' = 0 /\ cache' = NULL
    BY <1>1, <1>2, <2>1, CacheAssumption
  <2>4. CountsOK'
    <3>1. {cache_size, max_timeout, next_refresh, changed, now}' \subseteq Nat
          /\ changed' <= now'
      BY <1>1, <2>3 DEF IInv, CountsOK
    <3>2. cache_timer' \in BOOLEAN /\ ~cache_timer'
      BY <1>1
    <3> QED BY <2>3, <3>1, <3>2 DEF CountsOK
  <2> QED BY <2>2, <2>4 DEF IInv
<1>3. CASE cache_refcount # 1 /\ UNCHANGED table
  <2>1. TableOK'
    BY <1>1, <1>3, Untouched DEF IInv
  <2>2. cache_refcount' \in 0 .. MaxRefs /\ cache_refcount' # 0
    BY <1>1, <1>3, CacheAssumption
  <2>3. CountsOK'
    <3>1. {cache_size, max_timeout, next_refresh, changed, now}' \subseteq Nat
          /\ changed' <= now'
      BY <1>1, <1>3 DEF IInv, CountsOK, table
    <3>2. cache_timer' \in BOOLEAN /\ ~cache_timer'
      BY <1>1
    <3>3. cache' # NULL
      BY <1>1, <1>3 DEF table
    <3> QED BY <2>2, <3>1, <3>2, <3>3 DEF CountsOK
  <2> QED BY <2>1, <2>3 DEF IInv
<1> QED BY <1>2, <1>3 DEF try_remove_cache

LEMMA LandscapeStep ==
  ASSUME IInv, NEW refresh, NEW again, LandscapeChanged(refresh, again)
  PROVE  IInv'
<1>1. /\ cache # NULL /\ Table(cache, Fresh) /\ changed' = now
      /\ UNCHANGED <<cache_refcount, cache_timer, max_timeout, next_refresh, now>>
  BY DEF LandscapeChanged, IInv, TableOK
<1> DEFINE c1 == cache_invalidate(cache)
           c2 == IF refresh THEN cache_refresh(c1) ELSE c1
           c3 == IF again THEN cache_invalidate(c2) ELSE c2
           c4 == IF again /\ refresh THEN cache_refresh(c3) ELSE c3
<1>2. cache' = c4 /\ cache_size' = SizeWithout(DOMAIN cache \ DOMAIN c4)
  BY DEF LandscapeChanged
<1>3. Table(c1, {}) /\ DOMAIN c1 \subseteq DOMAIN cache
  BY <1>1, InvalidateWipes
<1> HIDE DEF c1
<1>4. Table(c2, {}) /\ DOMAIN c2 \subseteq DOMAIN c1
  BY <1>3, RefreshTableKeeps
<1> HIDE DEF c2
<1>5. Table(c3, {}) /\ DOMAIN c3 \subseteq DOMAIN c2
  BY <1>4, InvalidateWipes
<1> HIDE DEF c3
<1>6. Table(c4, {}) /\ DOMAIN c4 \subseteq DOMAIN c3
  BY <1>5, RefreshTableKeeps
<1> HIDE DEF c4
<1>7. DOMAIN c4 \subseteq DOMAIN cache
  BY <1>3, <1>4, <1>5, <1>6
<1>8. Table(c4, Fresh) /\ Table(c4, Fresh')
  BY <1>6, WipedTable
<1>9. TableOK' /\ cache_size' \in Nat
  BY <1>1, <1>2, <1>7, <1>8, Replaced DEF IInv
<1>10. cache' # NULL
  BY <1>2, <1>8, TableNotNull
<1> QED BY <1>1, <1>9, <1>10 DEF IInv, CountsOK

LEMMA TickStep == IInv /\ Tick => IInv'
<1> SUFFICES ASSUME IInv, Tick PROVE IInv'
  OBVIOUS
<1>1. /\ now' \in Nat /\ now' > now
      /\ UNCHANGED <<table, cache_refcount, cache_timer, max_timeout, next_refresh, changed>>
  BY CacheAssumption DEF Tick
<1>2. TableOK'
  BY <1>1, Untouched DEF IInv
<1> QED BY <1>1, <1>2 DEF IInv, CountsOK, table

-----------------------------------------------------------------------------
(***************************************************************************)
(* The theorems.                                                            *)
(***************************************************************************)
LEMMA InitIInv == Init => IInv
<1> SUFFICES ASSUME Init PROVE IInv
  OBVIOUS
<1>1. now \in Nat
  BY LeastInstant, CacheAssumption DEF Init
<1>2. TableOK
  BY FS_EmptySet, CacheAssumption DEF Init, TableOK, Entries
<1>3. CountsOK
  <2>1. 0 \in 0 .. MaxRefs
    BY CacheAssumption
  <2>2. {cache_size, max_timeout, next_refresh, changed, now} \subseteq Nat /\ changed <= now
    BY <1>1 DEF Init
  <2>3. cache_timer \in BOOLEAN /\ ~cache_timer
    BY DEF Init
  <2> QED BY <2>1, <2>2, <2>3 DEF Init, CountsOK
<1> QED BY <1>2, <1>3 DEF IInv

LEMMA NextIInv == IInv /\ [Next]_vars => IInv'
<1> SUFFICES ASSUME IInv, [Next]_vars PROVE IInv'
  OBVIOUS
<1>1. CASE UNCHANGED vars
  <2>1. TableOK'
    BY <1>1, Untouched DEF vars, IInv
  <2> QED BY <1>1, <2>1 DEF vars, table, IInv, CountsOK
<1>2. CASE \E name \in Names, type \in Types : Lookup(name, type)
  BY <1>2, LookupStep
<1>3. CASE \E name \in Names, r \in Replies : Update(name, r)
  BY <1>3, UpdateStep
<1>4. CASE ServerSocket \/ DestroyServer \/ try_remove_cache
  BY <1>4, ServerSocketStep, DestroyServerStep, TryRemoveStep
<1>5. CASE \E refresh, again \in BOOLEAN : LandscapeChanged(refresh, again)
  BY <1>5, LandscapeStep
<1>6. CASE Tick
  BY <1>6, TickStep
<1> QED BY <1>1, <1>2, <1>3, <1>4, <1>5, <1>6 DEF Next

LEMMA Inductive == Spec => []IInv
BY InitIInv, NextIInv, PTL DEF Spec

LEMMA AnswersFresh ==
  ASSUME IInv, NEW n, NEW type, Answer(n, type) # NULL
  PROVE  Answer(n, type) \in Fresh /\ now <= Answer(n, type).cache_until
<1>1. n \in DOMAIN cache /\ Table(cache, Fresh)
  BY DEF Answer, Entries, IInv, TableOK
<1>2. cache[n][Slot(type)] \in Fresh \cup {NULL}
  BY <1>1 DEF Table, Entry, Slot
<1>3. Answer(n, type) = cache[n][Slot(type)] /\ cache_check_is_valid(cache[n][Slot(type)])
  BY DEF Answer, Valid
<1>4. Answer(n, type) \in Fresh /\ Answer(n, type).cache_until >= now
  BY <1>2, <1>3 DEF cache_check_is_valid
<1> QED BY <1>4 DEF Fresh, CacheData, IInv, CountsOK

LEMMA IInvImplies ==
  IInv => TypeOK /\ CacheAccounted /\ ServedFresh /\ ServedCurrent /\ FullCacheYields
<1> SUFFICES ASSUME IInv
             PROVE  TypeOK /\ CacheAccounted /\ ServedFresh /\ ServedCurrent /\ FullCacheYields
  OBVIOUS
<1>1. TypeOK
  <2>1. Entry(Fresh) \subseteq CacheEntry
    BY DEF Entry, Fresh, CacheEntry
  <2> QED BY <2>1 DEF TypeOK, IInv, TableOK, CountsOK, Table
<1>2. CacheAccounted
  BY DEF CacheAccounted, IInv, TableOK, CountsOK
<1>3. ServedFresh
  <2>1. ASSUME NEW n, NEW type, Answer(n, type) # NULL
        PROVE  /\ now <= Answer(n, type).valid_until
               /\ now <= Answer(n, type).inserted + MAX_CACHE_TTL
    <3> DEFINE a == Answer(n, type)
    <3>1. a \in Fresh /\ now <= a.cache_until /\ now \in Nat /\ MAX_CACHE_TTL \in Nat
      BY <2>1, AnswersFresh, TtlAssumption DEF IInv, CountsOK
    <3> HIDE DEF a
    <3>2. now <= a.valid_until /\ now <= a.inserted + MAX_CACHE_TTL
      BY <3>1 DEF Fresh, CacheData
    <3> QED BY <3>2 DEF a
  <2> QED BY <2>1 DEF ServedFresh
<1>4. ServedCurrent
  <2>1. ASSUME NEW n, NEW type, Answer(n, type) # NULL
        PROVE  Answer(n, type).inserted >= changed
    <3> DEFINE a == Answer(n, type)
    <3>1. a \in Fresh /\ changed \in Nat
      BY <2>1, AnswersFresh DEF IInv, CountsOK
    <3> HIDE DEF a
    <3>2. a.inserted >= changed
      BY <3>1 DEF Fresh, CacheData
    <3> QED BY <3>2 DEF a
  <2> QED BY <2>1 DEF ServedCurrent
<1>5. FullCacheYields
  <2> SUFFICES ASSUME cache_size >= MAX_CACHE_SIZE
               PROVE  /\ \A n \in DOMAIN cache_cleanup(cache) :
                           cache_cleanup(cache)[n].hits <= cache[n].hits \div 2
                      /\ (\E n \in Entries : Expired(cache[n]) \/ cache[n].hits < 2 * KeepHits)
                            => DOMAIN cache_cleanup(cache) # Entries
    BY DEF FullCacheYields
  <2>1. cache # NULL
    BY FS_EmptySet, CacheAssumption DEF IInv, TableOK, Entries
  <2>2. Table(cache, Fresh) /\ Entries = DOMAIN cache
    BY <2>1 DEF IInv, TableOK, Entries
  <2> QED BY <2>2, CleanupProperties
<1> QED BY <1>1, <1>2, <1>3, <1>4, <1>5

\* Entries stay well formed and counters natural, however they age.
THEOREM TypeCorrect == Spec => []TypeOK
BY Inductive, IInvImplies, PTL

\* cache_size is the number of entries and never exceeds the limit, and the table
\* exists exactly as long as it is referenced.
THEOREM SizeIsAccounted == Spec => []CacheAccounted
BY Inductive, IInvImplies, PTL

\* No answer is served past its own lifetime or past MAX_CACHE_TTL.
THEOREM NothingStaleServed == Spec => []ServedFresh
BY Inductive, IInvImplies, PTL

\* No answer survives a change of the default service or of the offline mode.
THEOREM NothingOutdatedServed == Spec => []ServedCurrent
BY Inductive, IInvImplies, PTL

\* A full cache makes room at once whenever an answer has expired or a name is out
\* of favour, and ages what it keeps: the second pass of cache_cleanup runs before
\* max_timeout is reached too, although its comment says otherwise.
THEOREM FullCacheMakesRoom == Spec => []FullCacheYields
BY Inductive, IInvImplies, PTL
=============================================================================
