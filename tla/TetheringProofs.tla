--------------------------- MODULE TetheringProofs ---------------------------
(***************************************************************************)
(* Proofs about Tethering.  The keys of the list of taken blocks, interface *)
(* and first address, are unique, so that what matters is the set of its     *)
(* entries; of the queue of reports it is their set, once it is known that   *)
(* they are in order.  A handler is then a few changes, one after the other, *)
(* to the entries E, the addresses A and the reports V: an address comes or  *)
(* goes, a pool is made or given back, a report is sent.                     *)
(***************************************************************************)
EXTENDS Tethering, ListLemmas, FiniteSetTheorems

-----------------------------------------------------------------------------
(***************************************************************************)
(* The inductive invariant.                                                 *)
(***************************************************************************)
OwnIndexes == BridgeIndexes \cup PrivateNetworks
OwnAddrs == {a \in NetAddrs : a.index \in OwnIndexes /\ a.end = a.start + 1 /\ a.nr = 0}
OtherAddrs == {a \in NetAddrs : a.index \notin OwnIndexes}
EventSet == [kind : {"new", "del"}, addr : OwnAddrs]
InfoSet == [index : Indexes, start : Addresses, end : Addresses,
            use_count : Int, pool : Owners \cup {NULL}]

SameKey(x, y) == x.index = y.index /\ x.start = y.start

ListOK(L) ==
    /\ L \in Seq(InfoSet)
    /\ \A i, j \in 1 .. Len(L) : SameKey(L[i], L[j]) => i = j

\* A pool lies in one block, from its first address on.
InfosOK(E) ==
    /\ E \subseteq InfoSet
    /\ \A x, y \in E : SameKey(x, y) => x = y
    /\ \A x \in E : x.start <= x.end
    /\ \A x \in E : x.pool # NULL =>
         /\ x.index \in OwnIndexes
         /\ \E b \in Blocks : x.start = Base(b) /\ x.end <= Base(b) + 1

\* A report is on its way once, an address is added before it is removed, and
\* is not known before it was added.
QueueOK(A, Q) ==
    /\ Q \in Seq(EventSet)
    /\ \A i, j \in 1 .. Len(Q) : Q[i] = Q[j] => i = j
    /\ \A i \in 1 .. Len(Q) : Q[i].kind = "new" => Q[i].addr \notin A
    /\ \A i \in 1 .. Len(Q) :
         Q[i].kind = "del" =>
           Q[i].addr \in A \/ \E j \in 1 .. i - 1 : Q[j] = Event("new", Q[i].addr)

Known(A, x) == {a \in A : SameKey(a, x)}

CountsOK(E, A) ==
    \A x \in E : /\ x.use_count = Cardinality(Known(A, x))
                 /\ x.pool = NULL => x.use_count > 0

\* Every address is counted by an entry, or is one of connman's own that is
\* about to go: then its pool is gone, too.
EntriesOK(E, A, V) ==
    /\ \A a \in A : (\E x \in E : SameKey(a, x)) \/ Event("del", a) \in V
    /\ \A v \in V : v.kind = "del" =>
         \A x \in E : x.pool # NULL => x.index # v.addr.index

Book(E, A, V) ==
    /\ InfosOK(E) /\ A \subseteq OwnAddrs \cup OtherAddrs /\ IsFiniteSet(A)
    /\ V \subseteq EventSet /\ CountsOK(E, A) /\ EntriesOK(E, A, V)

\* Nothing is known of the interface, and no report on it is pending.
Unused(A, V, index) ==
    /\ \A a \in A : a.index # index
    /\ \A v \in V : v.addr.index # index

\* The address of the pool is there or on its way.
Addressed(A, V, x) ==
    LET own == Own(x.index, x.start) IN own \in A \/ Event("new", own) \in V

OnePoolEach(E) ==
    \A x, y \in E : x.pool # NULL /\ y.pool # NULL /\ (x.pool = y.pool \/ x.start = y.start)
                      => x = y

\* Whose the pools are: the bridge's, or those of the private networks.
PoolsOK(E, A, V, br, pn) ==
    /\ OnePoolEach(E)
    /\ \A x \in E : x.pool = Tether => x.index = br /\ Addressed(A, V, x)
    /\ \A x \in E : x.pool \in PrivateNetworks =>
         /\ x.index = x.pool
         /\ \/ pn[x.pool] = "requested" /\ Unused(A, V, x.index)
            \/ pn[x.pool] = "up" /\ Addressed(A, V, x)
    /\ \A p \in PrivateNetworks : pn[p] # "none" => \E x \in E : x.pool = p

YieldOK(E, T) ==
    \A x, y \in E : x.pool # NULL /\ y.pool = NULL /\ x.start = y.start => x.start \in T

Tethers == {t \in Technologies : tethering[t]}
CountOK ==
    /\ tethering \in [Technologies -> BOOLEAN] /\ tethering_enabled \in Int
    /\ Cardinality(Tethers) - Cardinality(Technologies) <= tethering_enabled
    /\ tethering_enabled <= Cardinality(Tethers)

Scalars ==
    /\ last_block \in Blocks \cup {NULL}
    /\ search \in [owner : Owners, block : Blocks] \cup {NULL}
    /\ bridge \in BridgeIndexes \cup {NULL}
    /\ dhcp_ippool \in {NULL, "live", "freed"}
    /\ tethering_dhcp_server \in {NULL, "live", "freed"}
    /\ pn_hash \in [PrivateNetworks -> {"none", "requested", "up"}]

Running == tethering_enabled >= 1 /\ ~Searching(Tether)

SearchOK ==
    /\ Searching(Tether) =>
         tethering_enabled = 1 /\ Unused(addresses, ToSet(events), bridge)
    /\ \A p \in PrivateNetworks :
         Searching(p) => pn_hash[p] = "none" /\ Unused(addresses, ToSet(events), p)

TetherOK ==
    /\ tethering_enabled >= 1 <=> bridge # NULL
    /\ Running <=> dhcp_ippool = "live"
    /\ Running <=> tethering_dhcp_server = "live"
    /\ dhcp_servers = IF Running THEN 1 ELSE 0
    /\ Running <=> \E x \in Infos : x.pool = Tether

\* The list, the addresses, the reports and the owners of pools agree.
Ledger(L, A, Q, br, pn) ==
    /\ ListOK(L) /\ QueueOK(A, Q) /\ Book(ToSet(L), A, ToSet(Q))
    /\ PoolsOK(ToSet(L), A, ToSet(Q), br, pn)

IInv ==
    /\ Scalars /\ CountOK /\ SearchOK /\ TetherOK
    /\ Ledger(allocated_blocks, addresses, events, bridge, pn_hash)
    /\ YieldOK(Infos, tolerated)

-----------------------------------------------------------------------------
(***************************************************************************)
(* The list.                                                                *)
(***************************************************************************)
LEMMA Elements ==
  ASSUME NEW S, NEW s \in Seq(S)
  PROVE  ToSet(s) = {s[i] : i \in 1 .. Len(s)} /\ ToSet(s) \subseteq S
BY DEF ToSet

LEMMA KeysUnique ==
  ASSUME NEW L, ListOK(L)
  PROVE  /\ ToSet(L) \subseteq InfoSet
         /\ \A x, y \in ToSet(L) : SameKey(x, y) => x = y
BY Elements DEF ListOK

LEMMA Prepended ==
  ASSUME NEW L, ListOK(L), NEW x \in InfoSet, \A y \in ToSet(L) : ~SameKey(x, y)
  PROVE  ListOK(<<x>> \o L) /\ ToSet(<<x>> \o L) = ToSet(L) \cup {x}
<1> DEFINE M == <<x>> \o L
<1>1. L \in Seq(InfoSet) /\ Len(L) \in Nat /\ ToSet(L) = {L[i] : i \in 1 .. Len(L)}
  BY Elements DEF ListOK
<1>2. /\ M \in Seq(InfoSet) /\ Len(M) = Len(L) + 1
      /\ \A i \in 1 .. Len(L) + 1 : M[i] = IF i = 1 THEN x ELSE L[i - 1]
  BY <1>1, PrependElements
<1> HIDE DEF M
<1>3. M[1] = x /\ \A i \in 1 .. Len(L) : i + 1 \in 1 .. Len(M) /\ M[i + 1] = L[i]
  BY <1>1, <1>2
<1>4. \A i \in 1 .. Len(M) : i = 1 \/ (i - 1 \in 1 .. Len(L) /\ M[i] = L[i - 1])
  BY <1>1, <1>2
<1>5. ASSUME NEW i \in 1 .. Len(M), NEW j \in 1 .. Len(M), SameKey(M[i], M[j])
      PROVE  i = j
  <2>1. CASE i = 1 /\ j # 1
    BY <1>1, <1>3, <1>4, <1>5, <2>1 DEF SameKey
  <2>2. CASE i # 1 /\ j = 1
    BY <1>1, <1>3, <1>4, <1>5, <2>2 DEF SameKey
  <2>3. CASE i # 1 /\ j # 1
    <3>1. i - 1 = j - 1
      BY <1>4, <1>5, <2>3 DEF ListOK
    <3> QED BY <3>1
  <2> QED BY <2>1, <2>2, <2>3
<1>6. ToSet(M) = {M[i] : i \in 1 .. Len(M)}
  BY <1>2, Elements
<1>7. ToSet(M) \subseteq ToSet(L) \cup {x}
  BY <1>1, <1>3, <1>4, <1>6
<1>8. ToSet(L) \cup {x} \subseteq ToSet(M)
  <2>1. 1 \in 1 .. Len(M)
    BY <1>1, <1>2
  <2> QED BY <1>1, <1>3, <1>6, <2>1
<1> QED BY <1>2, <1>5, <1>7, <1>8 DEF ListOK, M

LEMMA Removed ==
  ASSUME NEW L, ListOK(L), NEW k \in 1 .. Len(L)
  PROVE  ListOK(RemoveAt(L, k)) /\ ToSet(RemoveAt(L, k)) = ToSet(L) \ {L[k]}
<1> DEFINE M == RemoveAt(L, k)
<1>1. L \in Seq(InfoSet) /\ Len(L) \in Nat /\ ToSet(L) = {L[i] : i \in 1 .. Len(L)}
  BY Elements DEF ListOK
<1>2. /\ M \in Seq(InfoSet) /\ Len(M) = Len(L) - 1
      /\ \A i \in 1 .. Len(L) - 1 : M[i] = IF i < k THEN L[i] ELSE L[i + 1]
  BY <1>1, RemoveAtElements
<1> HIDE DEF M
<1>3. \A i \in 1 .. Len(L) : i # k => \E j \in 1 .. Len(M) : M[j] = L[i]
  <2> TAKE i \in 1 .. Len(L)
  <2>1. CASE i < k
    BY <1>1, <1>2, <2>1
  <2>2. CASE i > k
    <3>1. i - 1 \in 1 .. Len(M) /\ M[i - 1] = L[i]
      BY <1>1, <1>2, <2>2
    <3> QED BY <3>1
  <2> QED BY <2>1, <2>2
<1> DEFINE old(i) == IF i < k THEN i ELSE i + 1
<1>4. /\ \A i \in 1 .. Len(M) : old(i) \in 1 .. Len(L) /\ old(i) # k /\ M[i] = L[old(i)]
      /\ \A i, j \in 1 .. Len(M) : old(i) = old(j) => i = j
  BY <1>1, <1>2
<1> HIDE DEF old
<1>5. ASSUME NEW i \in 1 .. Len(M), NEW j \in 1 .. Len(M), SameKey(M[i], M[j])
      PROVE  i = j
  BY <1>4, <1>5 DEF ListOK
<1>6. \A i \in 1 .. Len(L) : L[i] = L[k] => i = k
  BY DEF ListOK, SameKey
<1>7. ToSet(M) = {M[i] : i \in 1 .. Len(M)}
  BY <1>2, Elements
<1>8. ToSet(M) \subseteq ToSet(L) \ {L[k]}
  BY <1>1, <1>4, <1>6, <1>7
<1>9. ToSet(L) \ {L[k]} \subseteq ToSet(M)
  BY <1>1, <1>3, <1>7
<1> QED BY <1>2, <1>5, <1>8, <1>9 DEF ListOK, M

LEMMA Replaced ==
  ASSUME NEW L, ListOK(L), NEW k \in 1 .. Len(L), NEW y \in InfoSet, SameKey(y, L[k]),
         NEW M \in Seq(InfoSet), Len(M) = Len(L), M[k] = y,
         \A i \in 1 .. Len(L) : i # k => M[i] = L[i]
  PROVE  ListOK(M) /\ ToSet(M) = (ToSet(L) \ {L[k]}) \cup {y}
<1>1. L \in Seq(InfoSet) /\ Len(L) \in Nat /\ ToSet(L) = {L[i] : i \in 1 .. Len(L)}
  BY Elements DEF ListOK
<1>2. M[k] = y /\ \A i \in 1 .. Len(L) : i # k => M[i] = L[i]
  OBVIOUS
<1>3. \A i \in 1 .. Len(L) : M[i].index = L[i].index /\ M[i].start = L[i].start
  BY <1>2 DEF SameKey
<1>4. ASSUME NEW i \in 1 .. Len(M), NEW j \in 1 .. Len(M), SameKey(M[i], M[j])
      PROVE  i = j
  BY <1>2, <1>3, <1>4 DEF ListOK, SameKey
<1>5. \A i \in 1 .. Len(L) : L[i] = L[k] => i = k
  BY DEF ListOK, SameKey
<1>6. ToSet(M) = {M[i] : i \in 1 .. Len(M)}
  BY Elements
<1>7. ToSet(M) \subseteq (ToSet(L) \ {L[k]}) \cup {y}
  BY <1>1, <1>2, <1>5, <1>6
<1>8. (ToSet(L) \ {L[k]}) \cup {y} \subseteq ToSet(M)
  BY <1>1, <1>2, <1>6
<1> QED BY <1>4, <1>7, <1>8 DEF ListOK

-----------------------------------------------------------------------------
(***************************************************************************)
(* What the operations on the list do to its entries.                       *)
(***************************************************************************)
Recount(x, n) == [x EXCEPT !.use_count = n]

AddedTo(E, F, a) ==
    \/ \E x \in E : SameKey(x, a) /\ F = (E \ {x}) \cup {Recount(x, x.use_count + 1)}
    \/ /\ \A x \in E : ~SameKey(x, a)
       /\ F = E \cup {Info(a.index, a.start, a.end, 1, NULL)}

TakenFrom(E, F, a) ==
    \/ \E x \in E : /\ SameKey(x, a) /\ (x.pool # NULL \/ x.use_count > 1)
                    /\ F = (E \ {x}) \cup {Recount(x, x.use_count - 1)}
    \/ \E x \in E : SameKey(x, a) /\ x.pool = NULL /\ ~ x.use_count > 1 /\ F = E \ {x}
    \/ (\A x \in E : ~SameKey(x, a)) /\ F = E

LEMMA RecountedInfo ==
  ASSUME NEW x \in InfoSet, NEW n \in Int
  PROVE  /\ Recount(x, n) \in InfoSet /\ SameKey(Recount(x, n), x)
         /\ Recount(x, n).use_count = n
         /\ Recount(x, n).index = x.index /\ Recount(x, n).start = x.start
         /\ Recount(x, n).end = x.end /\ Recount(x, n).pool = x.pool
BY DEF Recount, InfoSet, SameKey

\* Where lookup_info finds an entry there is one with this key, and conversely.
LEMMA LookedUp ==
  ASSUME ListOK(allocated_blocks), NEW a
  PROVE  LET at == lookup_info(a.index, a.start)
         IN  IF at = {} THEN \A x \in Infos : ~SameKey(x, a)
             ELSE /\ Min(at) \in 1 .. Len(allocated_blocks)
                  /\ allocated_blocks[Min(at)] \in Infos
                  /\ SameKey(allocated_blocks[Min(at)], a)
<1> DEFINE at == lookup_info(a.index, a.start)
<1>1. /\ allocated_blocks \in Seq(InfoSet) /\ DOMAIN allocated_blocks = 1 .. Len(allocated_blocks)
      /\ Infos = {allocated_blocks[i] : i \in 1 .. Len(allocated_blocks)}
  BY Elements DEF ListOK, Infos
<1>2. at = {i \in 1 .. Len(allocated_blocks) : SameKey(allocated_blocks[i], a)}
  BY <1>1 DEF lookup_info, Matches, SameKey
<1> HIDE DEF at
<1>3. CASE at = {}
  <2>1. \A x \in Infos : ~SameKey(x, a)
    BY <1>1, <1>2, <1>3
  <2> QED BY <1>3, <2>1 DEF at
<1>4. CASE at # {}
  <2>1. at \subseteq Nat
    BY <1>1, <1>2
  <2>2. Min(at) \in at
    BY <1>4, <2>1, MinOfPositions
  <2>3. /\ Min(at) \in 1 .. Len(allocated_blocks)
        /\ allocated_blocks[Min(at)] \in Infos
        /\ SameKey(allocated_blocks[Min(at)], a)
    BY <1>1, <1>2, <2>2
  <2> QED BY <1>4, <2>3 DEF at
<1> QED BY <1>3, <1>4

LEMMA EnteredInfos ==
  ASSUME ListOK(allocated_blocks), NEW a \in NetAddrs
  PROVE  LET L == Entered(a.index, a.start, a.end)
         IN  ListOK(L) /\ AddedTo(Infos, ToSet(L), a)
<1> DEFINE at == lookup_info(a.index, a.start)
           L == Entered(a.index, a.start, a.end)
           x == allocated_blocks[Min(at)]
<1>1. CASE at = {}
  <2> DEFINE y == Info(a.index, a.start, a.end, 1, NULL)
  <2>1. \A z \in Infos : ~SameKey(z, a)
    BY <1>1, LookedUp
  <2>2. y \in InfoSet /\ SameKey(y, a)
    BY DEF Info, InfoSet, NetAddrs, SameKey
  <2>3. L = <<y>> \o allocated_blocks
    BY <1>1 DEF Entered
  <2> HIDE DEF y
  <2>4. \A z \in ToSet(allocated_blocks) : ~SameKey(y, z)
    BY <2>1, <2>2 DEF SameKey, Infos
  <2>5. ListOK(L) /\ ToSet(L) = Infos \cup {y}
    BY <2>2, <2>3, <2>4, Prepended DEF Infos
  <2> QED BY <2>1, <2>5 DEF AddedTo, y
<1>2. CASE at # {}
  <2> DEFINE k == Min(at)
             y == Recount(x, x.use_count + 1)
  <2>1. k \in 1 .. Len(allocated_blocks) /\ x \in Infos /\ SameKey(x, a)
    BY <1>2, LookedUp
  <2>2. x \in InfoSet
    BY <2>1, KeysUnique DEF Infos
  <2>3. x.use_count \in Int
    BY <2>2 DEF InfoSet
  <2>4. L = [allocated_blocks EXCEPT ![k] = y]
    BY <1>2 DEF Entered, Recount
  <2> DEFINE n == x.use_count + 1
  <2>5. n \in Int
    BY <2>3
  <2> HIDE DEF n
  <2>6. Recount(x, n) \in InfoSet /\ SameKey(Recount(x, n), x)
    BY <2>2, <2>5, RecountedInfo
  <2>7. y \in InfoSet /\ SameKey(y, x)
    BY <2>6 DEF n
  <2>8. k \in 1 .. Len(allocated_blocks) /\ x = allocated_blocks[k]
    BY <2>1
  <2> HIDE DEF L, x, k, y
  <2>9. ListOK(L) /\ ToSet(L) = (Infos \ {x}) \cup {y}
    <3>1. /\ L \in Seq(InfoSet) /\ Len(L) = Len(allocated_blocks) /\ L[k] = y
          /\ \A i \in 1 .. Len(allocated_blocks) : i # k => L[i] = allocated_blocks[i]
      BY <2>4, <2>7, <2>8 DEF ListOK
    <3> QED BY <2>7, <2>8, <3>1, Replaced DEF Infos
  <2>10. AddedTo(Infos, ToSet(L), a)
    BY <2>1, <2>9 DEF AddedTo, y
  <2> QED BY <2>9, <2>10 DEF L
<1> QED BY <1>1, <1>2

LEMMA DeletedInfos ==
  ASSUME ListOK(allocated_blocks), NEW a \in NetAddrs
  PROVE  LET L == Deleted(a.index, a.start)
         IN  ListOK(L) /\ TakenFrom(Infos, ToSet(L), a)
<1> DEFINE at == lookup_info(a.index, a.start)
           L == Deleted(a.index, a.start)
           x == allocated_blocks[Min(at)]
<1>1. CASE at = {}
  BY <1>1, LookedUp DEF Deleted, TakenFrom, Infos
<1>2. CASE at # {}
  <2> DEFINE k == Min(at)
             y == Recount(x, x.use_count - 1)
  <2>1. k \in 1 .. Len(allocated_blocks) /\ x \in Infos /\ SameKey(x, a)
    BY <1>2, LookedUp
  <2>2. x \in InfoSet
    BY <2>1, KeysUnique DEF Infos
  <2>3. x.use_count \in Int
    BY <2>2 DEF InfoSet
  <2>4. CASE x.pool # NULL \/ x.use_count > 1
    <3>1. L = [allocated_blocks EXCEPT ![k] = y]
      BY <1>2, <2>4 DEF Deleted, Recount
    <3> DEFINE n == x.use_count - 1
    <3>2. n \in Int
      BY <2>3
    <3> HIDE DEF n
    <3>3. Recount(x, n) \in InfoSet /\ SameKey(Recount(x, n), x)
      BY <2>2, <3>2, RecountedInfo
    <3>4. y \in InfoSet /\ SameKey(y, x)
      BY <3>3 DEF n
    <3>5. k \in 1 .. Len(allocated_blocks) /\ x = allocated_blocks[k]
      BY <2>1
    <3> HIDE DEF L, x, k, y
    <3>6. ListOK(L) /\ ToSet(L) = (Infos \ {x}) \cup {y}
      <4>1. /\ L \in Seq(InfoSet) /\ Len(L) = Len(allocated_blocks) /\ L[k] = y
            /\ \A i \in 1 .. Len(allocated_blocks) : i # k => L[i] = allocated_blocks[i]
        BY <3>1, <3>4, <3>5 DEF ListOK
      <4> QED BY <3>4, <3>5, <4>1, Replaced DEF Infos
    <3>7. TakenFrom(Infos, ToSet(L), a)
      BY <2>1, <2>4, <3>6 DEF TakenFrom, y
    <3> QED BY <3>6, <3>7 DEF L
  <2>5. CASE ~(x.pool # NULL \/ x.use_count > 1)
    <3>1. L = RemoveAt(allocated_blocks, k)
      BY <1>2, <2>5 DEF Deleted
    <3> HIDE DEF L, at, k
    <3>2. ListOK(L) /\ ToSet(L) = Infos \ {allocated_blocks[k]}
      BY <2>1, <3>1, Removed DEF Infos
    <3> QED BY <2>1, <2>5, <3>2 DEF TakenFrom, L, k
  <2> QED BY <2>4, <2>5
<1> QED BY <1>1, <1>2

\* The pool that has to give way holds the first address of a new network.
LEMMA CollidingPoolHolds ==
  ASSUME ListOK(allocated_blocks), NEW a, CollidingPool(a.index, a.start) # NULL
  PROVE  /\ \A x \in Infos : ~SameKey(x, a)
         /\ \E x \in Infos : x.pool = CollidingPool(a.index, a.start) /\ Holds(x, a.start)
<1> DEFINE hits == {i \in DOMAIN allocated_blocks : Holds(allocated_blocks[i], a.start)}
<1>1. /\ lookup_info(a.index, a.start) = {} /\ hits # {}
      /\ CollidingPool(a.index, a.start) = allocated_blocks[Min(hits)].pool
  BY DEF CollidingPool
<1>2. /\ DOMAIN allocated_blocks = 1 .. Len(allocated_blocks)
      /\ Infos = {allocated_blocks[i] : i \in 1 .. Len(allocated_blocks)}
  BY Elements DEF ListOK, Infos
<1>3. Min(hits) \in hits
  <2>1. hits \subseteq Nat
    BY <1>2
  <2> HIDE DEF hits
  <2> QED BY <1>1, <2>1, MinOfPositions
<1>4. allocated_blocks[Min(hits)] \in Infos /\ Holds(allocated_blocks[Min(hits)], a.start)
  BY <1>2, <1>3
<1>5. \A x \in Infos : ~SameKey(x, a)
  BY <1>1, LookedUp
<1> QED BY <1>1, <1>4, <1>5

LEMMA UnrefInfos ==
  ASSUME NEW L, ListOK(L), NEW x \in ToSet(L),
         \A y \in ToSet(L) : y.pool = x.pool => y = x
  PROVE  ListOK(Unref(L, x.pool)) /\ ToSet(Unref(L, x.pool)) = ToSet(L) \ {x}
<1> DEFINE k == CHOOSE i \in DOMAIN L : L[i].pool = x.pool
<1>1. DOMAIN L = 1 .. Len(L) /\ ToSet(L) = {L[i] : i \in 1 .. Len(L)}
  BY Elements DEF ListOK
<1>2. \E i \in DOMAIN L : L[i].pool = x.pool
  BY <1>1
<1>3. k \in DOMAIN L /\ L[k].pool = x.pool
  BY <1>2
<1>4. Unref(L, x.pool) = RemoveAt(L, k)
  BY DEF Unref
<1> HIDE DEF k
<1>5. k \in 1 .. Len(L) /\ L[k] = x
  BY <1>1, <1>3
<1> QED BY <1>4, <1>5, Removed

LEMMA PoolStarts ==
  ASSUME ListOK(allocated_blocks), NEW x \in Infos,
         \A y \in Infos : y.pool = x.pool => y = x
  PROVE  PoolStart(x.pool) = x.start
<1>1. x.start \in Addresses
  BY KeysUnique DEF Infos, InfoSet
<1>2. PoolAt(x.pool, x.start)
  BY DEF PoolAt
<1>3. \A s : PoolAt(x.pool, s) => s = x.start
  BY DEF PoolAt
<1> QED BY <1>1, <1>2, <1>3 DEF PoolStart

-----------------------------------------------------------------------------
(***************************************************************************)
(* The queue of reports.                                                    *)
(***************************************************************************)
LEMMA Handled ==
  ASSUME NEW A, NEW Q, QueueOK(A, Q), Q # <<>>
  PROVE  /\ Head(Q) \in ToSet(Q) /\ Head(Q) \in EventSet
         /\ ToSet(Tail(Q)) = ToSet(Q) \ {Head(Q)}
         /\ Head(Q).kind = "new" => /\ Head(Q).addr \notin A
                                    /\ QueueOK(A \cup {Head(Q).addr}, Tail(Q))
         /\ Head(Q).kind = "del" => /\ Head(Q).addr \in A
                                    /\ QueueOK(A \ {Head(Q).addr}, Tail(Q))
<1> DEFINE T == Tail(Q)
           h == Head(Q)
<1>1. Q \in Seq(EventSet) /\ Len(Q) \in Nat /\ Len(Q) >= 1 /\ h = Q[1]
  BY DEF QueueOK
<1>2. /\ T \in Seq(EventSet) /\ Len(T) = Len(Q) - 1
      /\ \A i \in 1 .. Len(T) : T[i] = Q[i + 1] /\ i + 1 \in 1 .. Len(Q)
  BY <1>1
<1> HIDE DEF T, h
<1>3. ToSet(Q) = {Q[i] : i \in 1 .. Len(Q)} /\ ToSet(T) = {T[i] : i \in 1 .. Len(T)}
  BY <1>1, <1>2, Elements
<1>4. 1 \in 1 .. Len(Q) /\ h \in ToSet(Q) /\ h \in EventSet
  BY <1>1, <1>3
<1>5. \A i \in 1 .. Len(Q) : i # 1 => i - 1 \in 1 .. Len(T) /\ T[i - 1] = Q[i]
  BY <1>1, <1>2
<1>6. \A i \in 1 .. Len(T) : i + 1 # 1 /\ T[i] # h
  BY <1>1, <1>2, <1>4 DEF QueueOK
<1>7. ToSet(T) = ToSet(Q) \ {h}
  <2>1. ToSet(T) \subseteq ToSet(Q) \ {h}
    BY <1>2, <1>3, <1>6
  <2>2. ToSet(Q) \ {h} \subseteq ToSet(T)
    BY <1>1, <1>3, <1>5
  <2> QED BY <2>1, <2>2
<1>8. \A i, j \in 1 .. Len(T) : T[i] = T[j] => i = j
  <2>1. ASSUME NEW i \in 1 .. Len(T), NEW j \in 1 .. Len(T), T[i] = T[j]
        PROVE  i = j
    <3>1. i + 1 = j + 1
      BY <1>2, <2>1 DEF QueueOK
    <3> QED BY <3>1
  <2> QED BY <2>1
<1>9. h = Event(h.kind, h.addr) /\ h.kind \in {"new", "del"}
  BY <1>4 DEF Event, EventSet
<1>10. \A i \in 1 .. Len(T) : T[i] = Event(T[i].kind, T[i].addr)
  <2>1. \A v \in EventSet : v = Event(v.kind, v.addr)
    BY DEF Event, EventSet
  <2>2. \A i \in 1 .. Len(T) : T[i] \in EventSet
    BY <1>2
  <2> QED BY <2>1, <2>2
<1>11. ASSUME NEW i \in 1 .. Len(T), T[i].kind = "del"
       PROVE  \/ T[i].addr \in A
              \/ h = Event("new", T[i].addr)
              \/ \E j \in 1 .. i - 1 : T[j] = Event("new", T[i].addr)
  <2>1. CASE T[i].addr \in A
    BY <2>1
  <2>2. CASE \E j \in 1 .. i : Q[j] = Event("new", T[i].addr)
    <3>1. PICK j \in 1 .. i : Q[j] = Event("new", T[i].addr)
      BY <2>2
    <3>2. CASE j = 1
      BY <1>1, <3>1, <3>2
    <3>3. CASE j # 1
      <4>1. j \in 1 .. Len(Q) /\ j - 1 \in 1 .. i - 1
        BY <1>1, <1>2, <3>3
      <4>2. T[j - 1] = Event("new", T[i].addr)
        BY <1>5, <3>1, <3>3, <4>1
      <4> QED BY <4>1, <4>2
    <3> QED BY <3>2, <3>3
  <2>3. /\ i + 1 \in 1 .. Len(Q) /\ Q[i + 1] = T[i] /\ (i + 1) - 1 = i
    BY <1>2
  <2>4. \/ T[i].addr \in A
        \/ \E j \in 1 .. (i + 1) - 1 : Q[j] = Event("new", T[i].addr)
    BY <1>11, <2>3 DEF QueueOK
  <2> QED BY <2>1, <2>2, <2>3, <2>4
<1>12. CASE h.kind = "new"
  <2>1. h.addr \notin A
    BY <1>1, <1>4, <1>12 DEF QueueOK
  <2>2. \A i \in 1 .. Len(T) : T[i].kind = "new" => T[i].addr \notin A \cup {h.addr}
    BY <1>2, <1>6, <1>9, <1>10, <1>12 DEF QueueOK
  <2>3. \A i \in 1 .. Len(T) : T[i].kind = "del" =>
          \/ T[i].addr \in A \cup {h.addr}
          \/ \E j \in 1 .. i - 1 : T[j] = Event("new", T[i].addr)
    BY <1>11, <1>9 DEF Event
  <2>4. QueueOK(A \cup {h.addr}, T)
    BY <1>2, <1>8, <2>2, <2>3 DEF QueueOK
  <2> QED BY <1>4, <1>7, <1>12, <2>1, <2>4 DEF h, T
<1>13. CASE h.kind = "del"
  <2>1. h.addr \in A
    BY <1>1, <1>4, <1>13 DEF QueueOK
  <2>2. \A i \in 1 .. Len(T) : T[i].kind = "new" => T[i].addr \notin A \ {h.addr}
    BY <1>2 DEF QueueOK
  <2>3. \A i \in 1 .. Len(T) : T[i].kind = "del" =>
          \/ T[i].addr \in A \ {h.addr}
          \/ \E j \in 1 .. i - 1 : T[j] = Event("new", T[i].addr)
    BY <1>6, <1>9, <1>10, <1>11, <1>13 DEF Event
  <2>4. QueueOK(A \ {h.addr}, T)
    BY <1>2, <1>8, <2>2, <2>3 DEF QueueOK
  <2> QED BY <1>4, <1>7, <1>13, <2>1, <2>4 DEF h, T
<1> QED BY <1>9, <1>12, <1>13

LEMMA Sent ==
  ASSUME NEW A, NEW Q, QueueOK(A, Q), NEW v \in EventSet, v \notin ToSet(Q),
         v.kind = "new" => v.addr \notin A,
         v.kind = "del" => v.addr \in A \/ Event("new", v.addr) \in ToSet(Q)
  PROVE  QueueOK(A, Q \o <<v>>) /\ ToSet(Q \o <<v>>) = ToSet(Q) \cup {v}
<1> DEFINE R == Q \o <<v>>
<1>1. Q \in Seq(EventSet) /\ Len(Q) \in Nat
  BY DEF QueueOK
<1>2. /\ R \in Seq(EventSet) /\ Len(R) = Len(Q) + 1 /\ R[Len(Q) + 1] = v
      /\ \A i \in 1 .. Len(Q) : R[i] = Q[i]
  BY <1>1
<1> HIDE DEF R
<1>3. /\ 1 .. Len(R) = 1 .. Len(Q) \cup {Len(R)} /\ Len(R) \notin 1 .. Len(Q)
      /\ R[Len(R)] = v /\ \A i \in 1 .. Len(Q) : i \in 1 .. Len(R) /\ R[i] = Q[i]
  BY <1>1, <1>2
<1>4. ToSet(Q) = {Q[i] : i \in 1 .. Len(Q)} /\ ToSet(R) = {R[i] : i \in 1 .. Len(R)}
  BY <1>1, <1>2, Elements
<1>5. ToSet(R) = ToSet(Q) \cup {v}
  <2>1. ToSet(R) \subseteq ToSet(Q) \cup {v}
    BY <1>3, <1>4
  <2>2. ToSet(Q) \cup {v} \subseteq ToSet(R)
    BY <1>3, <1>4
  <2> QED BY <2>1, <2>2
<1>6. \A i, j \in 1 .. Len(R) : R[i] = R[j] => i = j
  BY <1>3, <1>4 DEF QueueOK
<1>7. \A i \in 1 .. Len(R) : R[i].kind = "new" => R[i].addr \notin A
  BY <1>3 DEF QueueOK
<1>8. ASSUME NEW i \in 1 .. Len(R), R[i].kind = "del"
      PROVE  R[i].addr \in A \/ \E j \in 1 .. i - 1 : R[j] = Event("new", R[i].addr)
  <2>1. CASE i \in 1 .. Len(Q)
    <3>1. \A j \in 1 .. i - 1 : j \in 1 .. Len(Q)
      BY <2>1, <1>1
    <3>2. Q[i].addr \in A \/ \E j \in 1 .. i - 1 : Q[j] = Event("new", Q[i].addr)
      BY <1>3, <1>8, <2>1 DEF QueueOK
    <3> QED BY <1>3, <2>1, <3>1, <3>2
  <2>2. CASE i = Len(R)
    <3>1. 1 .. i - 1 = 1 .. Len(Q)
      BY <1>1, <1>2, <2>2
    <3> QED BY <1>3, <1>4, <1>8, <2>2, <3>1
  <2> QED BY <1>3, <2>1, <2>2
<1> QED BY <1>2, <1>5, <1>6, <1>7, <1>8 DEF QueueOK, R

-----------------------------------------------------------------------------
(***************************************************************************)
(* Addresses, blocks and entries.                                           *)
(***************************************************************************)
LEMMA BlockAddresses ==
  /\ \A b \in Blocks : Base(b) \in Addresses /\ Base(b) + 1 \in Addresses
  /\ \A b, c \in Blocks : Base(b) <= Base(c) /\ Base(c) <= Base(b) + 1 => b = c
  /\ Addresses \subseteq Int /\ Blocks \subseteq Int
BY BlocksAssumption DEF Blocks, Base, Addresses

LEMMA OwnAddresses ==
  /\ \A a \in OwnAddrs : a \in NetAddrs /\ a.index \in OwnIndexes /\ a = Own(a.index, a.start)
  /\ \A a \in OtherAddrs : a \in NetAddrs /\ a.index \notin OwnIndexes
  /\ \A i \in OwnIndexes, b \in Blocks :
       Own(i, Base(b)) \in OwnAddrs /\ Own(i, Base(b)).index = i /\ Own(i, Base(b)).start = Base(b)
<1>1. \A a \in OwnAddrs : a \in NetAddrs /\ a.index \in OwnIndexes /\ a = Own(a.index, a.start)
  BY DEF OwnAddrs, NetAddrs, Own
<1>2. \A a \in OtherAddrs : a \in NetAddrs /\ a.index \notin OwnIndexes
  BY DEF OtherAddrs
<1>3. ASSUME NEW i \in OwnIndexes, NEW b \in Blocks
      PROVE  /\ Own(i, Base(b)) \in OwnAddrs
             /\ Own(i, Base(b)).index = i /\ Own(i, Base(b)).start = Base(b)
  <2>1. i \in Indexes
    BY DEF OwnIndexes, Indexes
  <2> DEFINE s == Base(b)
  <2>2. s \in Addresses /\ s + 1 \in Addresses /\ s \in Int
    BY BlockAddresses
  <2> HIDE DEF s
  <2>3. Own(i, s) \in NetAddrs
    BY <2>1, <2>2 DEF NetAddrs, Own
  <2>4. Own(i, s) \in OwnAddrs /\ Own(i, s).index = i /\ Own(i, s).start = s
    BY <2>3 DEF OwnAddrs, Own
  <2> QED BY <2>4 DEF s
<1> QED BY <1>1, <1>2, <1>3

LEMMA PoolOwn ==
  ASSUME NEW E, InfosOK(E), NEW x \in E, x.pool # NULL
  PROVE  /\ Own(x.index, x.start) \in OwnAddrs /\ x.index \in OwnIndexes
         /\ Own(x.index, x.start).index = x.index /\ Own(x.index, x.start).start = x.start
         /\ \A a \in OwnAddrs \cup OtherAddrs : SameKey(a, x) => a = Own(x.index, x.start)
<1>1. PICK b \in Blocks : x.start = Base(b)
  BY DEF InfosOK
<1>2. x.index \in OwnIndexes
  BY DEF InfosOK
<1> QED BY <1>1, <1>2, OwnAddresses DEF SameKey

LEMMA RecountOK ==
  ASSUME NEW E, InfosOK(E), NEW x \in E, NEW n \in Int
  PROVE  InfosOK((E \ {x}) \cup {Recount(x, n)})
<1> DEFINE y == Recount(x, n)
           F == (E \ {x}) \cup {y}
<1>1. x \in InfoSet
  BY DEF InfosOK
<1>2. /\ y \in InfoSet /\ y.index = x.index /\ y.start = x.start
      /\ y.end = x.end /\ y.pool = x.pool
  BY <1>1, RecountedInfo
<1> HIDE DEF y
<1>3. \A z \in F : z = y \/ (z \in E /\ z # x)
  OBVIOUS
<1>4. F \subseteq InfoSet
  BY <1>2 DEF InfosOK
<1>5. \A u, v \in F : SameKey(u, v) => u = v
  BY <1>2, <1>3 DEF InfosOK, SameKey
<1>6. \A z \in F : z.start <= z.end
  BY <1>2, <1>3 DEF InfosOK
<1>7. \A z \in F : z.pool # NULL =>
         /\ z.index \in OwnIndexes
         /\ \E b \in Blocks : z.start = Base(b) /\ z.end <= Base(b) + 1
  BY <1>2, <1>3 DEF InfosOK
<1> HIDE DEF F
<1>8. InfosOK(F)
  BY <1>4, <1>5, <1>6, <1>7 DEF InfosOK
<1> QED BY <1>8 DEF F, y

LEMMA AddInfoOK ==
  ASSUME NEW E, InfosOK(E), NEW y \in InfoSet, \A x \in E : ~SameKey(x, y),
         y.start <= y.end,
         y.pool # NULL => /\ y.index \in OwnIndexes
                          /\ \E b \in Blocks : y.start = Base(b) /\ y.end <= Base(b) + 1
  PROVE  InfosOK(E \cup {y})
<1> DEFINE F == E \cup {y}
<1>1. \A z \in F : z = y \/ z \in E
  OBVIOUS
<1>2. F \subseteq InfoSet
  BY DEF InfosOK
<1>3. \A u, v \in F : SameKey(u, v) => u = v
  BY <1>1 DEF InfosOK, SameKey
<1>4. \A z \in F : z.start <= z.end
  BY <1>1 DEF InfosOK
<1>5. \A z \in F : z.pool # NULL =>
         /\ z.index \in OwnIndexes
         /\ \E b \in Blocks : z.start = Base(b) /\ z.end <= Base(b) + 1
  BY <1>1 DEF InfosOK
<1> HIDE DEF F
<1>6. InfosOK(F)
  BY <1>2, <1>3, <1>4, <1>5 DEF InfosOK
<1> QED BY <1>6 DEF F

LEMMA KnownGrows ==
  ASSUME NEW A, IsFiniteSet(A), NEW a, a \notin A, NEW x
  PROVE  /\ Cardinality(Known(A, x)) \in Nat
         /\ ~SameKey(a, x) => Known(A \cup {a}, x) = Known(A, x)
         /\ SameKey(a, x) => Cardinality(Known(A \cup {a}, x)) = Cardinality(Known(A, x)) + 1
<1>1. IsFiniteSet(Known(A, x))
  BY FS_Subset DEF Known
<1>2. CASE ~SameKey(a, x)
  <2>1. Known(A \cup {a}, x) = Known(A, x)
    BY <1>2 DEF Known
  <2> QED BY <1>1, <1>2, <2>1, FS_CardinalityType
<1>3. CASE SameKey(a, x)
  <2>1. Known(A \cup {a}, x) = Known(A, x) \cup {a} /\ a \notin Known(A, x)
    BY <1>3 DEF Known
  <2> QED BY <1>1, <1>3, <2>1, FS_AddElement, FS_CardinalityType
<1> QED BY <1>2, <1>3

LEMMA KnownShrinks ==
  ASSUME NEW A, IsFiniteSet(A), NEW a \in A, NEW x
  PROVE  /\ Cardinality(Known(A, x)) \in Nat
         /\ ~SameKey(a, x) => Known(A \ {a}, x) = Known(A, x)
         /\ SameKey(a, x) => /\ Cardinality(Known(A \ {a}, x)) = Cardinality(Known(A, x)) - 1
                             /\ Cardinality(Known(A, x)) >= 1
<1>1. IsFiniteSet(Known(A, x))
  BY FS_Subset DEF Known
<1>2. CASE ~SameKey(a, x)
  <2>1. Known(A \ {a}, x) = Known(A, x)
    BY <1>2 DEF Known
  <2> QED BY <1>1, <1>2, <2>1, FS_CardinalityType
<1>3. CASE SameKey(a, x)
  <2>1. Known(A \ {a}, x) = Known(A, x) \ {a} /\ a \in Known(A, x)
    BY <1>3 DEF Known
  <2>2. Cardinality(Known(A \ {a}, x)) = Cardinality(Known(A, x)) - 1
    BY <1>1, <2>1, FS_RemoveElement
  <2>3. Cardinality(Known(A, x)) # 0
    BY <1>1, <2>1, FS_EmptySet
  <2> QED BY <1>1, <1>3, <2>2, <2>3, FS_CardinalityType
<1> QED BY <1>2, <1>3

-----------------------------------------------------------------------------
(***************************************************************************)
(* The changes.  First, an address comes: to its entry, or with a new one.  *)
(***************************************************************************)
\* The report on an address of connman's own is handled; one of others comes.
Arrives(A, V, W, a) ==
    /\ a \notin A
    /\ \/ a \in OtherAddrs /\ W = V
       \/ a \in OwnAddrs /\ Event("new", a) \in V /\ W = V \ {Event("new", a)}

Leaves(A, V, W, a) ==
    /\ a \in A
    /\ \/ a \in OtherAddrs /\ W = V
       \/ a \in OwnAddrs /\ Event("del", a) \in V /\ W = V \ {Event("del", a)}

SamePool(x, y) == x.pool = y.pool /\ SameKey(x, y)

LEMMA AddedPools ==
  ASSUME NEW E, NEW F, NEW a, InfosOK(E), a \in NetAddrs, AddedTo(E, F, a)
  PROVE  /\ InfosOK(F)
         /\ \A z \in F : z.pool # NULL => \E x \in E : SamePool(x, z)
         /\ \A x \in E : \E z \in F : SamePool(x, z)
         /\ \E z \in F : SameKey(z, a)
<1>1. CASE \E x \in E : SameKey(x, a) /\ F = (E \ {x}) \cup {Recount(x, x.use_count + 1)}
  <2>1. PICK x \in E : SameKey(x, a) /\ F = (E \ {x}) \cup {Recount(x, x.use_count + 1)}
    BY <1>1
  <2> DEFINE n == x.use_count + 1
             y == Recount(x, n)
  <2>2. x \in InfoSet /\ n \in Int
    BY DEF InfosOK, InfoSet
  <2> HIDE DEF n
  <2>3. y.index = x.index /\ y.start = x.start /\ y.pool = x.pool
    BY <2>2, RecountedInfo
  <2>4. F = (E \ {x}) \cup {y}
    BY <2>1 DEF n
  <2>5. InfosOK(F)
    BY <2>2, <2>4, RecountOK
  <2> HIDE DEF y
  <2>6. y \in F /\ SamePool(x, y) /\ SameKey(y, a)
    BY <2>1, <2>3, <2>4 DEF SamePool, SameKey
  <2>7. \A z : SamePool(z, z)
    BY DEF SamePool, SameKey
  <2> QED BY <2>4, <2>5, <2>6, <2>7
<1>2. CASE /\ \A x \in E : ~SameKey(x, a)
           /\ F = E \cup {Info(a.index, a.start, a.end, 1, NULL)}
  <2> DEFINE y == Info(a.index, a.start, a.end, 1, NULL)
  <2>1. y \in InfoSet /\ SameKey(y, a) /\ y.pool = NULL /\ y.start <= y.end
    BY DEF Info, InfoSet, NetAddrs, SameKey
  <2> HIDE DEF y
  <2>2. \A x \in E : ~SameKey(x, y)
    BY <1>2, <2>1 DEF SameKey
  <2>3. F = E \cup {y}
    BY <1>2 DEF y
  <2>4. InfosOK(F)
    BY <2>1, <2>2, <2>3, AddInfoOK
  <2>5. \A z : SamePool(z, z)
    BY DEF SamePool, SameKey
  <2> QED BY <2>1, <2>3, <2>4, <2>5
<1> QED BY <1>1, <1>2 DEF AddedTo

LEMMA CameBook ==
  ASSUME NEW E, NEW F, NEW A, NEW V, NEW W, NEW a,
         Book(E, A, V), AddedTo(E, F, a), Arrives(A, V, W, a)
  PROVE  Book(F, A \cup {a}, W)
<1> DEFINE B == A \cup {a}
<1>1. a \notin A /\ a \in OwnAddrs \cup OtherAddrs /\ a \in NetAddrs /\ IsFiniteSet(A)
  BY OwnAddresses DEF Arrives, Book
<1>2. /\ InfosOK(F)
      /\ \A z \in F : z.pool # NULL => \E x \in E : SamePool(x, z)
      /\ \A x \in E : \E z \in F : SamePool(x, z)
      /\ \E z \in F : SameKey(z, a)
  BY <1>1, AddedPools DEF Book
<1>3. B \subseteq OwnAddrs \cup OtherAddrs /\ IsFiniteSet(B) /\ W \subseteq EventSet
  BY <1>1, FS_AddElement DEF Book, Arrives
<1>4. \A v \in V : v.kind = "del" => v \in W
  BY DEF Arrives, Event
<1>5. EntriesOK(F, B, W)
  <2>1. ASSUME NEW b \in A
        PROVE  (\E z \in F : SameKey(b, z)) \/ Event("del", b) \in W
    <3>1. CASE \E x \in E : SameKey(b, x)
      BY <1>2, <3>1 DEF SamePool, SameKey
    <3>2. CASE Event("del", b) \in V
      BY <1>4, <3>2 DEF Event
    <3> QED BY <3>1, <3>2 DEF Book, EntriesOK
  <2>2. \E z \in F : SameKey(a, z)
    BY <1>2 DEF SameKey
  <2>3. W \subseteq V
    BY DEF Arrives
  <2>4. ASSUME NEW v \in W, v.kind = "del", NEW z \in F, z.pool # NULL
        PROVE  z.index # v.addr.index
    <3>1. PICK x \in E : SamePool(x, z)
      BY <1>2, <2>4
    <3> QED BY <2>3, <2>4, <3>1 DEF Book, EntriesOK, SamePool, SameKey
  <2> QED BY <2>1, <2>2, <2>4 DEF EntriesOK
<1>6. CountsOK(F, B)
  <2>1. ASSUME NEW z \in E, ~SameKey(a, z)
        PROVE  /\ z.use_count = Cardinality(Known(B, z))
               /\ z.pool = NULL => z.use_count > 0
    <3>1. Known(B, z) = Known(A, z)
      BY <1>1, <2>1, KnownGrows
    <3> QED BY <3>1 DEF Book, CountsOK
  <2>2. CASE \E x \in E : SameKey(x, a) /\ F = (E \ {x}) \cup {Recount(x, x.use_count + 1)}
    <3>1. PICK x \in E : SameKey(x, a) /\ F = (E \ {x}) \cup {Recount(x, x.use_count + 1)}
      BY <2>2
    <3> DEFINE n == x.use_count + 1
               y == Recount(x, n)
    <3>2. x \in InfoSet /\ n \in Int /\ n = x.use_count + 1
      BY DEF Book, InfosOK, InfoSet
    <3>3. F = (E \ {x}) \cup {y}
      BY <3>1
    <3> HIDE DEF n
    <3>4. y.index = x.index /\ y.start = x.start /\ y.use_count = n
      BY <3>2, RecountedInfo
    <3> HIDE DEF y
    <3>5. /\ Cardinality(Known(A, x)) \in Nat
          /\ Cardinality(Known(B, x)) = Cardinality(Known(A, x)) + 1
      <4>1. SameKey(a, x)
        BY <3>1 DEF SameKey
      <4> QED BY <1>1, <4>1, KnownGrows
    <3>6. x.use_count = Cardinality(Known(A, x))
      BY DEF Book, CountsOK
    <3>7. Known(B, y) = Known(B, x)
      BY <3>4 DEF Known, SameKey
    <3> HIDE DEF B
    <3>8. y.use_count = Cardinality(Known(B, y)) /\ y.use_count > 0
      <4>1. n = Cardinality(Known(B, x)) /\ n > 0
        BY <3>2, <3>5, <3>6
      <4> QED BY <3>4, <3>7, <4>1
    <3>9. \A z \in E : z # x => ~SameKey(a, z)
      BY <3>1 DEF Book, InfosOK, SameKey
    <3> QED BY <2>1, <3>3, <3>8, <3>9 DEF CountsOK
  <2>3. CASE /\ \A x \in E : ~SameKey(x, a)
             /\ F = E \cup {Info(a.index, a.start, a.end, 1, NULL)}
    <3> DEFINE y == Info(a.index, a.start, a.end, 1, NULL)
    <3>1. SameKey(a, y) /\ y.use_count = 1
      BY DEF Info, SameKey
    <3>2. F = E \cup {y}
      BY <2>3
    <3> HIDE DEF y
    <3>3. Known(A, y) = {}
      <4>1. ASSUME NEW b \in A, SameKey(b, y)
            PROVE  FALSE
        <5>1. SameKey(b, a)
          BY <3>1, <4>1 DEF SameKey
        <5>2. \A x \in E : ~SameKey(b, x)
          BY <2>3, <5>1 DEF SameKey
        <5>3. Event("del", b) \in V
          BY <5>2 DEF Book, EntriesOK
        <5>4. b \in OwnAddrs
          BY <5>3 DEF Book, EventSet, Event
        <5>5. a \in OwnAddrs
          BY <1>1, <5>1, <5>4, OwnAddresses DEF SameKey
        <5>6. a = b
          BY <5>1, <5>4, <5>5, OwnAddresses DEF SameKey
        <5> QED BY <1>1, <5>6
      <4> QED BY <4>1 DEF Known
    <3>4. Cardinality(Known(B, y)) = 1
      <4>1. Cardinality(Known(B, y)) = Cardinality(Known(A, y)) + 1
        BY <1>1, <3>1, KnownGrows
      <4>2. Cardinality(Known(A, y)) = 0
        BY <3>3, FS_EmptySet
      <4> QED BY <4>1, <4>2
    <3>5. \A z \in E : ~SameKey(a, z)
      BY <2>3 DEF SameKey
    <3> HIDE DEF B
    <3>6. y.use_count = Cardinality(Known(B, y)) /\ y.use_count > 0
      BY <3>1, <3>4
    <3> QED BY <2>1, <3>2, <3>5, <3>6 DEF CountsOK
  <2> QED BY <2>2, <2>3 DEF AddedTo
<1> HIDE DEF B
<1>7. Book(F, B, W)
  BY <1>2, <1>3, <1>5, <1>6 DEF Book
<1> QED BY <1>7 DEF B

(***************************************************************************)
(* An address goes: its entry counts one less, or goes with it.             *)
(***************************************************************************)
LEMMA TakenPools ==
  ASSUME NEW E, NEW F, NEW a, InfosOK(E), TakenFrom(E, F, a)
  PROVE  /\ InfosOK(F)
         /\ \A z \in F : \E x \in E : SamePool(x, z)
         /\ \A x \in E : x.pool # NULL \/ ~SameKey(x, a) => \E z \in F : SamePool(x, z)
<1>1. \A z : SamePool(z, z)
  BY DEF SamePool, SameKey
<1>2. CASE \E x \in E : /\ SameKey(x, a) /\ (x.pool # NULL \/ x.use_count > 1)
                        /\ F = (E \ {x}) \cup {Recount(x, x.use_count - 1)}
  <2>1. PICK x \in E : F = (E \ {x}) \cup {Recount(x, x.use_count - 1)}
    BY <1>2
  <2> DEFINE n == x.use_count - 1
             y == Recount(x, n)
  <2>2. x \in InfoSet /\ n \in Int
    BY DEF InfosOK, InfoSet
  <2> HIDE DEF n
  <2>3. y.index = x.index /\ y.start = x.start /\ y.pool = x.pool
    BY <2>2, RecountedInfo
  <2>4. F = (E \ {x}) \cup {y}
    BY <2>1 DEF n
  <2>5. InfosOK(F)
    BY <2>2, <2>4, RecountOK
  <2> HIDE DEF y
  <2>6. y \in F /\ SamePool(x, y)
    BY <2>3, <2>4 DEF SamePool, SameKey
  <2> QED BY <1>1, <2>4, <2>5, <2>6
<1>3. CASE \E x \in E : SameKey(x, a) /\ x.pool = NULL /\ ~ x.use_count > 1 /\ F = E \ {x}
  <2>1. PICK x \in E : SameKey(x, a) /\ x.pool = NULL /\ F = E \ {x}
    BY <1>3
  <2>2. InfosOK(F)
    BY <2>1 DEF InfosOK
  <2> QED BY <1>1, <2>1, <2>2
<1>4. CASE F = E
  BY <1>1, <1>4
<1> QED BY <1>2, <1>3, <1>4 DEF TakenFrom

LEMMA WentBook ==
  ASSUME NEW E, NEW F, NEW A, NEW V, NEW W, NEW a,
         Book(E, A, V), TakenFrom(E, F, a), Leaves(A, V, W, a)
  PROVE  Book(F, A \ {a}, W)
<1> DEFINE B == A \ {a}
<1>1. a \in A /\ a \in OwnAddrs \cup OtherAddrs /\ IsFiniteSet(A)
  BY DEF Leaves, Book
<1>2. /\ InfosOK(F)
      /\ \A z \in F : \E x \in E : SamePool(x, z)
      /\ \A x \in E : x.pool # NULL \/ ~SameKey(x, a) => \E z \in F : SamePool(x, z)
  BY TakenPools DEF Book
<1>3. B \subseteq OwnAddrs \cup OtherAddrs /\ IsFiniteSet(B) /\ W \subseteq EventSet
  BY <1>1, FS_RemoveElement DEF Book, Leaves
<1>4. CountsOK(F, B)
  <2>1. ASSUME NEW z \in E, ~SameKey(a, z)
        PROVE  /\ z.use_count = Cardinality(Known(B, z))
               /\ z.pool = NULL => z.use_count > 0
    <3>1. Known(B, z) = Known(A, z)
      BY <1>1, <2>1, KnownShrinks
    <3> QED BY <3>1 DEF Book, CountsOK
  <2>2. \A x, z \in E : SameKey(x, a) /\ z # x => ~SameKey(a, z)
    BY DEF Book, InfosOK, SameKey
  <2>3. CASE \E x \in E : /\ SameKey(x, a) /\ (x.pool # NULL \/ x.use_count > 1)
                          /\ F = (E \ {x}) \cup {Recount(x, x.use_count - 1)}
    <3>1. PICK x \in E : /\ SameKey(x, a) /\ (x.pool # NULL \/ x.use_count > 1)
                         /\ F = (E \ {x}) \cup {Recount(x, x.use_count - 1)}
      BY <2>3
    <3> DEFINE n == x.use_count - 1
               y == Recount(x, n)
    <3>2. x \in InfoSet /\ n \in Int /\ n = x.use_count - 1 /\ x.use_count \in Int
      BY DEF Book, InfosOK, InfoSet
    <3>3. F = (E \ {x}) \cup {y}
      BY <3>1
    <3> HIDE DEF n
    <3>4. y.index = x.index /\ y.start = x.start /\ y.use_count = n /\ y.pool = x.pool
      BY <3>2, RecountedInfo
    <3> HIDE DEF y
    <3>5. Cardinality(Known(B, x)) = Cardinality(Known(A, x)) - 1
      <4>1. SameKey(a, x)
        BY <3>1 DEF SameKey
      <4> QED BY <1>1, <4>1, KnownShrinks
    <3>6. x.use_count = Cardinality(Known(A, x))
      BY DEF Book, CountsOK
    <3>7. Known(B, y) = Known(B, x)
      BY <3>4 DEF Known, SameKey
    <3> HIDE DEF B
    <3>8. n = Cardinality(Known(B, x)) /\ (x.pool = NULL => n > 0)
      BY <3>1, <3>2, <3>5, <3>6
    <3>9. y.use_count = Cardinality(Known(B, y)) /\ (y.pool = NULL => y.use_count > 0)
      BY <3>4, <3>7, <3>8
    <3>10. \A z \in E : z # x => ~SameKey(a, z)
      BY <2>2, <3>1
    <3> QED BY <2>1, <3>3, <3>9, <3>10 DEF CountsOK
  <2>4. CASE \E x \in E : SameKey(x, a) /\ F = E \ {x}
    BY <2>1, <2>2, <2>4 DEF CountsOK
  <2>5. CASE (\A x \in E : ~SameKey(x, a)) /\ F = E
    <3>1. \A x \in E : ~SameKey(a, x)
      BY <2>5 DEF SameKey
    <3> QED BY <2>1, <2>5, <3>1 DEF CountsOK
  <2> QED BY <2>3, <2>4, <2>5 DEF TakenFrom
<1>5. EntriesOK(F, B, W)
  <2>1. W \subseteq V /\ \A v \in V : v = Event("del", a) \/ v \in W
    BY DEF Leaves
  <2>2. ASSUME NEW b \in B, NEW x \in E, SameKey(b, x), ~ \E z \in F : SameKey(b, z)
        PROVE  FALSE
    <3>1. SameKey(x, a) /\ ~ \E z \in F : SamePool(x, z)
      BY <1>2, <2>2 DEF SamePool, SameKey
    <3>2. x.pool = NULL /\ ~ x.use_count > 1
      <4>1. CASE \E y \in E : SameKey(y, a) /\ y.pool = NULL /\ ~ y.use_count > 1
        <5>1. PICK y \in E : SameKey(y, a) /\ y.pool = NULL /\ ~ y.use_count > 1
          BY <4>1
        <5>2. x = y
          BY <3>1, <5>1 DEF Book, InfosOK, SameKey
        <5> QED BY <5>1, <5>2
      <4>2. CASE \E y \in E : /\ SameKey(y, a)
                              /\ F = (E \ {y}) \cup {Recount(y, y.use_count - 1)}
        <5>1. PICK y \in E : /\ SameKey(y, a)
                             /\ F = (E \ {y}) \cup {Recount(y, y.use_count - 1)}
          BY <4>2
        <5>2. x = y
          BY <3>1, <5>1 DEF Book, InfosOK, SameKey
        <5> DEFINE n == y.use_count - 1
        <5>3. y \in InfoSet /\ n \in Int
          BY DEF Book, InfosOK, InfoSet
        <5>4. Recount(y, n) \in F
          BY <5>1
        <5> HIDE DEF n
        <5>5. SamePool(y, Recount(y, n))
          BY <5>3, RecountedInfo DEF SamePool, SameKey
        <5> QED BY <3>1, <5>2, <5>4, <5>5
      <4>3. CASE \A y \in E : ~SameKey(y, a)
        BY <3>1, <4>3
      <4> QED BY <4>1, <4>2, <4>3 DEF TakenFrom
    <3>3. SameKey(a, x) /\ b \in A /\ b # a
      BY <3>1 DEF SameKey
    <3>4. Cardinality(Known(B, x)) = Cardinality(Known(A, x)) - 1
      BY <1>1, <3>3, KnownShrinks
    <3>5. x.use_count = Cardinality(Known(A, x)) /\ Cardinality(Known(A, x)) \in Nat
      BY <1>1, KnownShrinks DEF Book, CountsOK
    <3>6. IsFiniteSet(Known(B, x)) /\ Known(B, x) # {}
      BY <1>3, <2>2, FS_Subset DEF Known
    <3>7. Cardinality(Known(B, x)) \in Nat /\ Cardinality(Known(B, x)) # 0
      BY <3>6, FS_EmptySet, FS_CardinalityType
    <3> QED BY <3>2, <3>4, <3>5, <3>7
  <2>3. ASSUME NEW b \in B
        PROVE  (\E z \in F : SameKey(b, z)) \/ Event("del", b) \in W
    <3>1. CASE \E x \in E : SameKey(b, x)
      BY <2>2, <3>1
    <3>2. CASE Event("del", b) \in V
      <4>1. Event("del", b) # Event("del", a)
        BY DEF Event
      <4> QED BY <2>1, <3>2, <4>1
    <3> QED BY <3>1, <3>2 DEF Book, EntriesOK
  <2>4. ASSUME NEW v \in W, v.kind = "del", NEW z \in F, z.pool # NULL
        PROVE  z.index # v.addr.index
    <3>1. PICK x \in E : SamePool(x, z)
      BY <1>2
    <3> QED BY <2>1, <2>4, <3>1 DEF Book, EntriesOK, SamePool, SameKey
  <2> HIDE DEF B
  <2> QED BY <2>3, <2>4 DEF EntriesOK
<1> HIDE DEF B
<1>6. Book(F, B, W)
  BY <1>2, <1>3, <1>4, <1>5 DEF Book
<1> QED BY <1>6 DEF B

(***************************************************************************)
(* Both leave the pools as they are.                                        *)
(***************************************************************************)
LEMMA SamePoolAddress ==
  ASSUME NEW x, NEW y, SamePool(x, y), NEW A, NEW V
  PROVE  /\ x.pool = y.pool /\ x.index = y.index /\ x.start = y.start
         /\ Addressed(A, V, x) <=> Addressed(A, V, y)
BY DEF SamePool, SameKey, Addressed

LEMMA KeptPools ==
  ASSUME NEW E, NEW A, NEW V, NEW F, NEW B, NEW W, NEW br, NEW pn,
         PoolsOK(E, A, V, br, pn), InfosOK(F),
         \A z \in F : z.pool # NULL => \E x \in E : SamePool(x, z),
         \A x \in E : x.pool # NULL => \E z \in F : SamePool(x, z),
         \A x \in E : x.pool # NULL /\ Addressed(A, V, x) => Addressed(B, W, x),
         \A x \in E : x.pool # NULL /\ Unused(A, V, x.index) => Unused(B, W, x.index)
  PROVE  PoolsOK(F, B, W, br, pn)
<1>1. NULL # Tether /\ NULL \notin PrivateNetworks
  BY NullAssumption DEF Owners
<1>2. OnePoolEach(F)
  <2>1. ASSUME NEW u \in F, NEW v \in F, u.pool # NULL, v.pool # NULL,
               u.pool = v.pool \/ u.start = v.start
        PROVE  u = v
    <3>1. PICK x \in E : SamePool(x, u)
      BY <2>1
    <3>2. PICK y \in E : SamePool(y, v)
      BY <2>1
    <3>3. x = y
      BY <2>1, <3>1, <3>2 DEF PoolsOK, OnePoolEach, SamePool, SameKey
    <3>4. SameKey(u, v)
      BY <3>1, <3>2, <3>3 DEF SamePool, SameKey
    <3> QED BY <3>4 DEF InfosOK
  <2> QED BY <2>1 DEF OnePoolEach
<1>3. ASSUME NEW z \in F, z.pool = Tether
      PROVE  z.index = br /\ Addressed(B, W, z)
  <2>1. PICK x \in E : SamePool(x, z)
    BY <1>1, <1>3
  <2>2. x.pool = Tether /\ x.index = z.index
    BY <1>3, <2>1, SamePoolAddress
  <2>3. x.index = br /\ Addressed(A, V, x)
    BY <2>2 DEF PoolsOK
  <2>4. Addressed(B, W, x)
    BY <1>1, <2>2, <2>3
  <2> QED BY <2>1, <2>2, <2>3, <2>4, SamePoolAddress
<1>4. ASSUME NEW z \in F, z.pool \in PrivateNetworks
      PROVE  /\ z.index = z.pool
             /\ \/ pn[z.pool] = "requested" /\ Unused(B, W, z.index)
                \/ pn[z.pool] = "up" /\ Addressed(B, W, z)
  <2>1. PICK x \in E : SamePool(x, z)
    BY <1>1, <1>4
  <2>2. x.pool = z.pool /\ x.index = z.index /\ x.pool # NULL
    BY <1>1, <1>4, <2>1, SamePoolAddress
  <2>3. /\ x.index = x.pool
        /\ \/ pn[x.pool] = "requested" /\ Unused(A, V, x.index)
           \/ pn[x.pool] = "up" /\ Addressed(A, V, x)
    BY <1>4, <2>2 DEF PoolsOK
  <2>4. \/ pn[x.pool] = "requested" /\ Unused(B, W, x.index)
        \/ pn[x.pool] = "up" /\ Addressed(B, W, x)
    BY <2>2, <2>3
  <2>5. Addressed(B, W, x) <=> Addressed(B, W, z)
    BY <2>1, SamePoolAddress
  <2> QED BY <2>2, <2>3, <2>4, <2>5
<1>5. ASSUME NEW p \in PrivateNetworks, pn[p] # "none"
      PROVE  \E z \in F : z.pool = p
  <2>1. PICK x \in E : x.pool = p
    BY <1>5 DEF PoolsOK
  <2>2. PICK z \in F : SamePool(x, z)
    BY <1>1, <2>1
  <2> QED BY <2>1, <2>2 DEF SamePool
<1> QED BY <1>2, <1>3, <1>4, <1>5 DEF PoolsOK

LEMMA CamePools ==
  ASSUME NEW E, NEW F, NEW A, NEW V, NEW W, NEW a, NEW br, NEW pn,
         Book(E, A, V), PoolsOK(E, A, V, br, pn), AddedTo(E, F, a), Arrives(A, V, W, a)
  PROVE  PoolsOK(F, A \cup {a}, W, br, pn)
<1> DEFINE B == A \cup {a}
<1>1. InfosOK(E) /\ a \in NetAddrs
  BY OwnAddresses DEF Book, Arrives
<1>2. /\ InfosOK(F)
      /\ \A z \in F : z.pool # NULL => \E x \in E : SamePool(x, z)
      /\ \A x \in E : \E z \in F : SamePool(x, z)
  BY <1>1, AddedPools
<1>3. ASSUME NEW x \in E, x.pool # NULL, Addressed(A, V, x)
      PROVE  Addressed(B, W, x)
  <2> DEFINE own == Own(x.index, x.start)
  <2>1. own \in A \/ Event("new", own) \in V
    BY <1>3 DEF Addressed
  <2>2. Event("new", own) = Event("new", a) => own = a
    BY DEF Event
  <2> HIDE DEF own
  <2>3. own \in B \/ Event("new", own) \in W
    BY <2>1, <2>2 DEF Arrives
  <2> QED BY <2>3 DEF Addressed, own
<1>4. ASSUME NEW x \in E, x.pool # NULL, Unused(A, V, x.index)
      PROVE  Unused(B, W, x.index)
  <2>1. x.index \in OwnIndexes
    BY <1>1, <1>4, PoolOwn
  <2>2. a.index # x.index
    <3>1. CASE a \in OtherAddrs
      BY <2>1, <3>1, OwnAddresses
    <3>2. CASE Event("new", a) \in V
      BY <1>4, <3>2 DEF Unused, Event
    <3> QED BY <3>1, <3>2 DEF Arrives
  <2>3. W \subseteq V
    BY DEF Arrives
  <2> QED BY <1>4, <2>2, <2>3 DEF Unused
<1> HIDE DEF B
<1>5. PoolsOK(F, B, W, br, pn)
  BY <1>2, <1>3, <1>4, KeptPools
<1> QED BY <1>5 DEF B

LEMMA WentPools ==
  ASSUME NEW E, NEW F, NEW A, NEW V, NEW W, NEW a, NEW br, NEW pn,
         Book(E, A, V), PoolsOK(E, A, V, br, pn), TakenFrom(E, F, a), Leaves(A, V, W, a)
  PROVE  PoolsOK(F, A \ {a}, W, br, pn)
<1> DEFINE B == A \ {a}
<1>1. InfosOK(E)
  BY DEF Book
<1>2. /\ InfosOK(F)
      /\ \A z \in F : \E x \in E : SamePool(x, z)
      /\ \A x \in E : x.pool # NULL \/ ~SameKey(x, a) => \E z \in F : SamePool(x, z)
  BY <1>1, TakenPools
<1>3. ASSUME NEW x \in E, x.pool # NULL, Addressed(A, V, x)
      PROVE  Addressed(B, W, x)
  <2> DEFINE own == Own(x.index, x.start)
  <2>1. own \in A \/ Event("new", own) \in V
    BY <1>3 DEF Addressed
  <2>2. own # a
    <3>1. own \in OwnAddrs /\ own.index = x.index
      BY <1>1, <1>3, PoolOwn
    <3> HIDE DEF own
    <3>2. CASE a \in OtherAddrs
      BY <3>1, <3>2, OwnAddresses
    <3>3. CASE Event("del", a) \in V
      <4>1. x.index # a.index
        BY <1>3, <3>3 DEF Book, EntriesOK, Event
      <4> QED BY <3>1, <4>1
    <3> QED BY <3>2, <3>3 DEF Leaves
  <2>3. Event("new", own) # Event("del", a)
    BY DEF Event
  <2> HIDE DEF own
  <2>4. own \in B \/ Event("new", own) \in W
    BY <2>1, <2>2, <2>3 DEF Leaves
  <2> QED BY <2>4 DEF Addressed, own
<1>4. ASSUME NEW x \in E, x.pool # NULL, Unused(A, V, x.index)
      PROVE  Unused(B, W, x.index)
  <2>1. W \subseteq V
    BY DEF Leaves
  <2> QED BY <1>4, <2>1 DEF Unused
<1> HIDE DEF B
<1>5. PoolsOK(F, B, W, br, pn)
  BY <1>2, <1>3, <1>4, KeptPools
<1> QED BY <1>5 DEF B

(***************************************************************************)
(* A report is sent about an interface that has no pool, or a pool's        *)
(* address is on its way.                                                   *)
(***************************************************************************)
LEMMA SentBook ==
  ASSUME NEW E, NEW A, NEW V, NEW v \in EventSet, Book(E, A, V),
         v.kind = "del" => \A x \in E : x.pool # NULL => x.index # v.addr.index
  PROVE  Book(E, A, V \cup {v})
<1>1. EntriesOK(E, A, V \cup {v})
  BY DEF Book, EntriesOK
<1> QED BY <1>1 DEF Book

LEMMA SentPools ==
  ASSUME NEW E, NEW A, NEW V, NEW v, NEW br, NEW pn, PoolsOK(E, A, V, br, pn),
         InfosOK(E), \A x \in E : x.pool # NULL => x.index # v.addr.index
  PROVE  PoolsOK(E, A, V \cup {v}, br, pn)
<1> DEFINE W == V \cup {v}
<1>1. \A z : SamePool(z, z)
  BY DEF SamePool, SameKey
<1>2. \A x \in E : x.pool # NULL /\ Addressed(A, V, x) => Addressed(A, W, x)
  BY DEF Addressed
<1>3. \A x \in E : x.pool # NULL /\ Unused(A, V, x.index) => Unused(A, W, x.index)
  BY DEF Unused
<1> HIDE DEF W
<1>4. PoolsOK(E, A, W, br, pn)
  BY <1>1, <1>2, <1>3, KeptPools
<1> QED BY <1>4 DEF W

LEMMA IndexesApart ==
  ASSUME NEW E, NEW A, NEW V, NEW br, NEW pn, InfosOK(E), PoolsOK(E, A, V, br, pn),
         br \notin PrivateNetworks, NEW x \in E, NEW y \in E,
         x.pool # NULL, y.pool # NULL, x.index = y.index
  PROVE  x = y
<1>1. \A z \in E : z.pool # NULL => z.pool = Tether \/ z.pool \in PrivateNetworks
  BY DEF InfosOK, InfoSet, Owners
<1>2. \A z \in E : z.pool = Tether => z.index = br
  BY DEF PoolsOK
<1>3. \A z \in E : z.pool \in PrivateNetworks => z.index = z.pool
  BY DEF PoolsOK
<1>4. x.pool = y.pool
  BY <1>1, <1>2, <1>3
<1> QED BY <1>4 DEF PoolsOK, OnePoolEach

(***************************************************************************)
(* A pool is given back, and its address with it.                           *)
(***************************************************************************)
GivesBack(A, V, W, x) ==
    \/ Addressed(A, V, x) /\ W = V \cup {Event("del", Own(x.index, x.start))}
    \/ Unused(A, V, x.index) /\ W = V

LEMMA GivenBackBook ==
  ASSUME NEW E, NEW A, NEW V, NEW W, NEW br, NEW pn, NEW x \in E,
         Book(E, A, V), PoolsOK(E, A, V, br, pn), br \notin PrivateNetworks,
         x.pool # NULL, GivesBack(A, V, W, x)
  PROVE  Book(E \ {x}, A, W)
<1> DEFINE F == E \ {x}
           own == Own(x.index, x.start)
<1>1. /\ InfosOK(E) /\ own \in OwnAddrs /\ own.index = x.index
      /\ \A a \in OwnAddrs \cup OtherAddrs : SameKey(a, x) => a = own
  BY PoolOwn DEF Book
<1>2. InfosOK(F) /\ CountsOK(F, A)
  BY DEF Book, InfosOK, CountsOK
<1>3. Event("del", own).kind = "del" /\ Event("del", own).addr = own
      /\ Event("del", own) \in EventSet
  BY <1>1 DEF Event, EventSet
<1>4. W = V \/ W = V \cup {Event("del", own)}
  BY DEF GivesBack
<1>5. ASSUME NEW a \in A
      PROVE  (\E z \in F : SameKey(a, z)) \/ Event("del", a) \in W
  <2>1. CASE SameKey(a, x)
    <3>1. a = own
      BY <1>1, <2>1 DEF Book
    <3>2. CASE Unused(A, V, x.index)
      BY <2>1, <3>2 DEF Unused, SameKey
    <3>3. CASE W = V \cup {Event("del", own)}
      BY <3>1, <3>3
    <3> QED BY <3>2, <3>3 DEF GivesBack
  <2>2. CASE ~SameKey(a, x)
    BY <1>4, <2>2 DEF Book, EntriesOK
  <2> QED BY <2>1, <2>2
<1>6. ASSUME NEW v \in W, v.kind = "del", NEW z \in F, z.pool # NULL
      PROVE  z.index # v.addr.index
  <2>1. CASE v \in V
    BY <1>6, <2>1 DEF Book, EntriesOK
  <2>2. CASE v = Event("del", own)
    <3>1. v.addr.index = x.index /\ z \in E /\ z # x
      BY <1>1, <1>3, <2>2
    <3>2. z.index # x.index
      BY <1>1, <1>6, <3>1, IndexesApart
    <3> QED BY <3>1, <3>2
  <2> QED BY <1>4, <2>1, <2>2
<1>7. EntriesOK(F, A, W)
  BY <1>5, <1>6 DEF EntriesOK
<1>8. W \subseteq EventSet
  BY <1>3, <1>4 DEF Book
<1> HIDE DEF F
<1>9. Book(F, A, W)
  BY <1>2, <1>7, <1>8 DEF Book
<1> QED BY <1>9 DEF F

LEMMA GivenBackPools ==
  ASSUME NEW E, NEW A, NEW V, NEW W, NEW br, NEW pn, NEW x \in E,
         InfosOK(E), PoolsOK(E, A, V, br, pn), br \notin PrivateNetworks,
         pn \in [PrivateNetworks -> {"none", "requested", "up"}],
         x.pool # NULL, GivesBack(A, V, W, x), NEW br2, NEW pn2,
         \/ x.pool = Tether /\ pn2 = pn
         \/ x.pool \in PrivateNetworks /\ br2 = br /\ pn2 = [pn EXCEPT ![x.pool] = "none"]
  PROVE  PoolsOK(E \ {x}, A, W, br2, pn2)
<1> DEFINE F == E \ {x}
           own == Own(x.index, x.start)
<1>1. own.index = x.index
  BY PoolOwn
<1>2. Event("del", own).addr = own /\ V \subseteq W
  BY DEF Event, GivesBack
<1>3. \A z \in F : z.pool # NULL => z.index # x.index /\ z.pool # x.pool
  <2>1. \A z \in F : z.pool # NULL => z.pool # x.pool
    BY DEF PoolsOK, OnePoolEach
  <2> QED BY <2>1, IndexesApart
<1>4. \A z \in F : Addressed(A, V, z) => Addressed(A, W, z)
  BY <1>2 DEF Addressed
<1>5. ASSUME NEW z \in F, z.pool # NULL, Unused(A, V, z.index)
      PROVE  Unused(A, W, z.index)
  <2>1. \A v \in W : v \in V \/ v.addr = own
    BY <1>2 DEF GivesBack
  <2>2. z.index # x.index
    BY <1>3, <1>5
  <2> HIDE DEF own
  <2> QED BY <1>1, <1>5, <2>1, <2>2 DEF Unused
<1> HIDE DEF own
<1>6. NULL # Tether /\ NULL \notin PrivateNetworks /\ Tether \notin PrivateNetworks
  BY NullAssumption, IndexAssumption DEF Owners
<1>7. OnePoolEach(F)
  BY DEF PoolsOK, OnePoolEach
<1>8. ASSUME NEW z \in F, z.pool = Tether
      PROVE  z.index = br2 /\ Addressed(A, W, z)
  <2>1. x.pool # Tether
    BY <1>3, <1>6, <1>8
  <2> QED BY <1>4, <1>8, <2>1 DEF PoolsOK
<1>9. ASSUME NEW z \in F, z.pool \in PrivateNetworks
      PROVE  /\ z.index = z.pool
             /\ \/ pn2[z.pool] = "requested" /\ Unused(A, W, z.index)
                \/ pn2[z.pool] = "up" /\ Addressed(A, W, z)
  <2>1. z.pool # NULL /\ z.pool # x.pool
    BY <1>3, <1>6, <1>9
  <2>2. pn2[z.pool] = pn[z.pool]
    BY <1>9, <2>1
  <2>3. /\ z.index = z.pool
        /\ \/ pn[z.pool] = "requested" /\ Unused(A, V, z.index)
           \/ pn[z.pool] = "up" /\ Addressed(A, V, z)
    BY <1>9 DEF PoolsOK
  <2> QED BY <1>4, <1>5, <2>1, <2>2, <2>3
<1>10. ASSUME NEW p \in PrivateNetworks, pn2[p] # "none"
       PROVE  \E z \in F : z.pool = p
  <2>1. p # x.pool /\ pn[p] # "none"
    BY <1>6, <1>10
  <2>2. PICK z \in E : z.pool = p
    BY <2>1 DEF PoolsOK
  <2> QED BY <2>1, <2>2
<1> HIDE DEF F
<1>11. PoolsOK(F, A, W, br2, pn2)
  BY <1>7, <1>8, <1>9, <1>10 DEF PoolsOK
<1> QED BY <1>11 DEF F

(***************************************************************************)
(* A pool is made on a free block, for an interface nobody knows.           *)
(***************************************************************************)
Fits(E, y) ==
    /\ y \in InfoSet /\ y.pool # NULL /\ y.use_count = 0 /\ y.index \in OwnIndexes
    /\ y.start <= y.end
    /\ \E b \in Blocks : y.start = Base(b) /\ y.end <= Base(b) + 1
    /\ \A x \in E : ~Holds(x, y.start)

LEMMA FitsApart ==
  ASSUME NEW E, NEW y, InfosOK(E), Fits(E, y)
  PROVE  \A x \in E : x.start # y.start
<1>1. \A x \in E : x.start <= x.end /\ x.start \in Int
  BY BlockAddresses DEF InfosOK, InfoSet
<1> QED BY <1>1 DEF Fits, Holds

LEMMA MadeBook ==
  ASSUME NEW E, NEW A, NEW V, NEW y, Book(E, A, V), Fits(E, y), Unused(A, V, y.index)
  PROVE  Book(E \cup {y}, A, V)
<1> DEFINE F == E \cup {y}
<1>1. \A x \in E : ~SameKey(x, y)
  BY FitsApart DEF Book, SameKey
<1>2. InfosOK(F)
  BY <1>1, AddInfoOK DEF Book, Fits
<1>3. Known(A, y) = {}
  BY DEF Known, Unused, SameKey
<1>4. y.use_count = Cardinality(Known(A, y)) /\ y.pool # NULL
  BY <1>3, FS_EmptySet DEF Fits
<1>5. CountsOK(F, A)
  BY <1>4 DEF Book, CountsOK
<1>6. EntriesOK(F, A, V)
  <2>1. \A a \in A : (\E x \in F : SameKey(a, x)) \/ Event("del", a) \in V
    BY DEF Book, EntriesOK
  <2>2. \A v \in V : v.kind = "del" => \A x \in F : x.pool # NULL => x.index # v.addr.index
    BY DEF Book, EntriesOK, Unused
  <2> QED BY <2>1, <2>2 DEF EntriesOK
<1> HIDE DEF F
<1>7. Book(F, A, V)
  BY <1>2, <1>5, <1>6 DEF Book
<1> QED BY <1>7 DEF F

LEMMA MadePools ==
  ASSUME NEW E, NEW A, NEW V, NEW y, NEW br, NEW pn, InfosOK(E), PoolsOK(E, A, V, br, pn),
         Fits(E, y), pn \in [PrivateNetworks -> {"none", "requested", "up"}], NEW pn2,
         \/ /\ y.pool = Tether /\ y.index = br /\ Addressed(A, V, y) /\ pn2 = pn
            /\ \A x \in E : x.pool # Tether
         \/ /\ y.pool \in PrivateNetworks /\ y.index = y.pool /\ Unused(A, V, y.pool)
            /\ pn[y.pool] = "none" /\ pn2 = [pn EXCEPT ![y.pool] = "requested"]
  PROVE  PoolsOK(E \cup {y}, A, V, br, pn2)
<1> DEFINE F == E \cup {y}
<1>1. \A x \in E : x.start # y.start
  BY FitsApart
<1>2. Tether \notin PrivateNetworks
  BY IndexAssumption
<1>3. \A x \in E : x.pool # y.pool
  BY DEF PoolsOK
<1>4. OnePoolEach(F)
  BY <1>1, <1>3 DEF PoolsOK, OnePoolEach
<1>5. ASSUME NEW z \in F, z.pool = Tether
      PROVE  z.index = br /\ Addressed(A, V, z)
  BY <1>2, <1>5 DEF PoolsOK
<1>6. ASSUME NEW z \in F, z.pool \in PrivateNetworks
      PROVE  /\ z.index = z.pool
             /\ \/ pn2[z.pool] = "requested" /\ Unused(A, V, z.index)
                \/ pn2[z.pool] = "up" /\ Addressed(A, V, z)
  <2>1. CASE z = y
    <3>1. pn2[z.pool] = "requested"
      BY <1>2, <1>6, <2>1
    <3> QED BY <1>2, <1>6, <2>1, <3>1
  <2>2. CASE z \in E
    <3>1. z.pool # y.pool
      BY <1>3, <2>2
    <3>2. pn2[z.pool] = pn[z.pool]
      BY <1>6, <3>1
    <3> QED BY <1>6, <2>2, <3>2 DEF PoolsOK
  <2> QED BY <2>1, <2>2
<1>7. ASSUME NEW p \in PrivateNetworks, pn2[p] # "none"
      PROVE  \E z \in F : z.pool = p
  <2>1. p = y.pool \/ pn[p] # "none"
    BY <1>7
  <2> QED BY <2>1 DEF PoolsOK
<1> HIDE DEF F
<1>8. PoolsOK(F, A, V, br, pn2)
  BY <1>4, <1>5, <1>6, <1>7 DEF PoolsOK
<1> QED BY <1>8 DEF F

\* The address of a private network's pool is set.
LEMMA SetUpPools ==
  ASSUME NEW E, NEW A, NEW V, NEW x \in E, NEW br, NEW pn, InfosOK(E),
         PoolsOK(E, A, V, br, pn), br \notin PrivateNetworks,
         pn \in [PrivateNetworks -> {"none", "requested", "up"}],
         x.pool \in PrivateNetworks
  PROVE  PoolsOK(E, A, V \cup {Event("new", Own(x.index, x.start))}, br,
                 [pn EXCEPT ![x.pool] = "up"])
<1> DEFINE own == Own(x.index, x.start)
           v == Event("new", own)
           W == V \cup {v}
           pn2 == [pn EXCEPT ![x.pool] = "up"]
<1>1. NULL \notin PrivateNetworks /\ Tether \notin PrivateNetworks
  BY NullAssumption, IndexAssumption DEF Owners
<1>2. own.index = x.index /\ v.addr = own
  BY <1>1, PoolOwn DEF Event
<1>3. Addressed(A, W, x)
  BY DEF Addressed
<1>4. pn2[x.pool] = "up" /\ \A p \in PrivateNetworks : p # x.pool => pn2[p] = pn[p]
  OBVIOUS
<1>5. \A z \in E : z.pool # NULL /\ z # x => z.index # x.index /\ z.pool # x.pool
  <2>1. \A z \in E : z.pool # NULL /\ z # x => z.pool # x.pool
    BY <1>1 DEF PoolsOK, OnePoolEach
  <2> QED BY <1>1, <2>1, IndexesApart
<1> HIDE DEF v, pn2, own
<1>6. \A z : Addressed(A, V, z) => Addressed(A, W, z)
  BY DEF Addressed
<1>7. ASSUME NEW z \in E, z.pool = Tether
      PROVE  z.index = br /\ Addressed(A, W, z)
  BY <1>6, <1>7 DEF PoolsOK
<1>8. ASSUME NEW z \in E, z.pool \in PrivateNetworks
      PROVE  /\ z.index = z.pool
             /\ \/ pn2[z.pool] = "requested" /\ Unused(A, W, z.index)
                \/ pn2[z.pool] = "up" /\ Addressed(A, W, z)
  <2>1. /\ z.index = z.pool
        /\ \/ pn[z.pool] = "requested" /\ Unused(A, V, z.index)
           \/ pn[z.pool] = "up" /\ Addressed(A, V, z)
    BY <1>8 DEF PoolsOK
  <2>2. CASE z = x
    BY <1>3, <1>4, <2>1, <2>2
  <2>3. CASE z # x
    <3>1. z.index # x.index /\ z.pool # x.pool
      BY <1>1, <1>5, <1>8, <2>3
    <3>2. pn2[z.pool] = pn[z.pool]
      BY <1>4, <1>8, <3>1
    <3>3. Unused(A, V, z.index) => Unused(A, W, z.index)
      BY <1>2, <3>1 DEF Unused
    <3> QED BY <1>6, <2>1, <3>2, <3>3
  <2> QED BY <2>2, <2>3
<1>9. ASSUME NEW p \in PrivateNetworks, pn2[p] # "none"
      PROVE  \E z \in E : z.pool = p
  <2>1. p = x.pool \/ pn[p] # "none"
    BY <1>4, <1>9
  <2> QED BY <2>1 DEF PoolsOK
<1>10. OnePoolEach(E)
  BY DEF PoolsOK
<1> HIDE DEF W
<1>11. PoolsOK(E, A, W, br, pn2)
  BY <1>7, <1>8, <1>9, <1>10 DEF PoolsOK
<1> QED BY <1>11 DEF W, v, own, pn2

(***************************************************************************)
(* Pools give way.                                                          *)
(***************************************************************************)
LEMMA YieldSubset ==
  ASSUME NEW E, NEW F, NEW T, NEW U, YieldOK(E, T), F \subseteq E, T \subseteq U
  PROVE  YieldOK(F, U)
BY DEF YieldOK

LEMMA YieldMade ==
  ASSUME NEW E, NEW T, NEW y, InfosOK(E), YieldOK(E, T), Fits(E, y)
  PROVE  YieldOK(E \cup {y}, T \ {y.start})
<1>1. \A x \in E : x.start # y.start
  BY FitsApart
<1>2. y.pool # NULL
  BY DEF Fits
<1> QED BY <1>1, <1>2 DEF YieldOK

LEMMA YieldWent ==
  ASSUME NEW E, NEW F, NEW T, NEW a, InfosOK(E), YieldOK(E, T), TakenFrom(E, F, a)
  PROVE  YieldOK(F, T)
<1>1. \A z \in F : \E x \in E : SamePool(x, z)
  BY TakenPools
<1>2. ASSUME NEW u \in F, NEW v \in F, u.pool # NULL, v.pool = NULL, u.start = v.start
      PROVE  u.start \in T
  <2>1. PICK x \in E : SamePool(x, u)
    BY <1>1
  <2>2. PICK y \in E : SamePool(y, v)
    BY <1>1
  <2> QED BY <1>2, <2>1, <2>2 DEF YieldOK, SamePool, SameKey
<1> QED BY <1>2 DEF YieldOK

\* The entries of others after an address came: those there were, and one for
\* the address unless it was counted.
LEMMA AddedNets ==
  ASSUME NEW E, NEW F, NEW a, InfosOK(E), a \in NetAddrs, AddedTo(E, F, a)
  PROVE  \A z \in F : \/ \E x \in E : SamePool(x, z)
                      \/ /\ z.start = a.start /\ z.pool = NULL
                         /\ \A x \in E : ~SameKey(x, a)
<1>1. \A z : SamePool(z, z)
  BY DEF SamePool, SameKey
<1>2. CASE \E x \in E : SameKey(x, a) /\ F = (E \ {x}) \cup {Recount(x, x.use_count + 1)}
  <2>1. PICK x \in E : F = (E \ {x}) \cup {Recount(x, x.use_count + 1)}
    BY <1>2
  <2> DEFINE n == x.use_count + 1
  <2>2. x \in InfoSet /\ n \in Int
    BY DEF InfosOK, InfoSet
  <2>3. F = (E \ {x}) \cup {Recount(x, n)}
    BY <2>1
  <2> HIDE DEF n
  <2>4. SamePool(x, Recount(x, n))
    BY <2>2, RecountedInfo DEF SamePool, SameKey
  <2> QED BY <1>1, <2>3, <2>4
<1>3. CASE /\ \A x \in E : ~SameKey(x, a)
           /\ F = E \cup {Info(a.index, a.start, a.end, 1, NULL)}
  BY <1>1, <1>3 DEF Info
<1> QED BY <1>2, <1>3 DEF AddedTo

LEMMA YieldCame ==
  ASSUME NEW E, NEW F, NEW T, NEW U, NEW a, InfosOK(E), a \in NetAddrs, YieldOK(E, T),
         AddedTo(E, F, a), T \subseteq U,
         (\A y \in E : ~SameKey(y, a)) =>
           \A x \in E : x.pool # NULL /\ x.start = a.start => a.start \in U
  PROVE  YieldOK(F, U)
<1>1. ASSUME NEW u \in F, NEW v \in F, u.pool # NULL, v.pool = NULL, u.start = v.start
      PROVE  u.start \in U
  <2>1. PICK x \in E : SamePool(x, u)
    BY <1>1, AddedNets
  <2>2. CASE \E y \in E : SamePool(y, v)
    BY <1>1, <2>1, <2>2 DEF YieldOK, SamePool, SameKey
  <2>3. CASE v.start = a.start /\ \A y \in E : ~SameKey(y, a)
    BY <1>1, <2>1, <2>3 DEF SamePool, SameKey
  <2> QED BY <2>2, <2>3, AddedNets
<1> QED BY <1>1 DEF YieldOK

\* A pool that holds the first address of the new network goes.
LEMMA YieldMoved ==
  ASSUME NEW E, NEW F, NEW T, NEW a, InfosOK(E), a \in NetAddrs, YieldOK(E, T),
         AddedTo(E, F, a), OnePoolEach(E), NEW x \in E, x.pool # NULL, Holds(x, a.start),
         NEW z \in F, SamePool(x, z), OnePoolEach(F)
  PROVE  YieldOK(F \ {z}, T)
<1>1. \A y \in E : y.pool # NULL /\ y.start = a.start => y = x
  <2>1. ASSUME NEW y \in E, y.pool # NULL, y.start = a.start
        PROVE  y = x
    <3>1. PICK b \in Blocks : x.start = Base(b) /\ x.end <= Base(b) + 1
      BY DEF InfosOK
    <3>2. PICK c \in Blocks : y.start = Base(c)
      BY <2>1 DEF InfosOK
    <3>3. /\ Base(b) <= Base(c) /\ Base(c) <= x.end
      BY <2>1, <3>1, <3>2 DEF Holds
    <3>4. x.end \in Int /\ Base(b) \in Int /\ Base(c) \in Int
      BY BlockAddresses DEF InfosOK, InfoSet
    <3>5. b = c
      BY <3>1, <3>3, <3>4, BlockAddresses
    <3> QED BY <2>1, <3>1, <3>2, <3>5 DEF OnePoolEach
  <2> QED BY <2>1
<1>2. ASSUME NEW u \in F \ {z}, NEW v \in F, u.pool # NULL, v.pool = NULL, u.start = v.start
      PROVE  u.start \in T
  <2>1. PICK y \in E : SamePool(y, u)
    BY <1>2, AddedNets
  <2>2. CASE \E w \in E : SamePool(w, v)
    BY <1>2, <2>1, <2>2 DEF YieldOK, SamePool, SameKey
  <2>3. CASE v.start = a.start
    <3>1. y = x
      BY <1>1, <1>2, <2>1, <2>3 DEF SamePool, SameKey
    <3>2. u = z
      BY <1>2, <2>1, <3>1 DEF OnePoolEach, SamePool, SameKey
    <3> QED BY <3>2
  <2> QED BY <2>2, <2>3, AddedNets
<1> QED BY <1>2 DEF YieldOK

-----------------------------------------------------------------------------
(***************************************************************************)
(* The same changes to the list and the queue.                              *)
(***************************************************************************)
PnStates == [PrivateNetworks -> {"none", "requested", "up"}]

\* The removal is reported if there was or will be an address.
Withdraws(A, Q, R, x) ==
    \/ Addressed(A, ToSet(Q), x) /\ R = Q \o <<Event("del", Own(x.index, x.start))>>
    \/ Unused(A, ToSet(Q), x.index) /\ R = Q

\* The owner forgets its pool.
Disowns(x, br, pn, br2, pn2) ==
    \/ x.pool = Tether /\ pn2 = pn
    \/ x.pool \in PrivateNetworks /\ br2 = br /\ pn2 = [pn EXCEPT ![x.pool] = "none"]

LEMMA LedgerUnref ==
  ASSUME NEW L, NEW A, NEW Q, NEW br, NEW pn \in PnStates, Ledger(L, A, Q, br, pn),
         br \notin PrivateNetworks, NEW x \in ToSet(L), x.pool # NULL,
         NEW R, Withdraws(A, Q, R, x), NEW br2, NEW pn2, Disowns(x, br, pn, br2, pn2)
  PROVE  /\ Ledger(Unref(L, x.pool), A, R, br2, pn2)
         /\ ToSet(Unref(L, x.pool)) = ToSet(L) \ {x}
         /\ ToSet(R) \subseteq ToSet(Q) \cup {Event("del", Own(x.index, x.start))}
<1> DEFINE own == Own(x.index, x.start)
           v == Event("del", own)
           E == ToSet(L)
           V == ToSet(Q)
<1>1. /\ ListOK(L) /\ QueueOK(A, Q) /\ Book(E, A, V) /\ PoolsOK(E, A, V, br, pn)
      /\ InfosOK(E)
  BY DEF Ledger, Book
<1>2. \A y \in E : y.pool = x.pool => y = x
  BY <1>1 DEF PoolsOK, OnePoolEach
<1>3. ListOK(Unref(L, x.pool)) /\ ToSet(Unref(L, x.pool)) = E \ {x}
  BY <1>1, <1>2, UnrefInfos
<1>4. own \in OwnAddrs /\ own.index = x.index
  BY <1>1, PoolOwn
<1>5. v \in EventSet /\ v.kind = "del" /\ v.addr = own
  BY <1>4 DEF Event, EventSet
<1>6. v \notin V
  BY <1>1, <1>4, <1>5 DEF Book, EntriesOK
<1>7. QueueOK(A, R) /\ GivesBack(A, V, ToSet(R), x) /\ ToSet(R) \subseteq V \cup {v}
  <2>1. CASE Addressed(A, V, x) /\ R = Q \o <<v>>
    <3>1. own \in A \/ Event("new", own) \in V
      BY <2>1 DEF Addressed
    <3> HIDE DEF own, v
    <3>2. QueueOK(A, Q \o <<v>>) /\ ToSet(Q \o <<v>>) = V \cup {v}
      BY <1>1, <1>5, <1>6, <3>1, Sent
    <3> QED BY <2>1, <3>2 DEF GivesBack, v, own
  <2>2. CASE Unused(A, V, x.index) /\ R = Q
    BY <1>1, <2>2 DEF GivesBack
  <2> QED BY <2>1, <2>2 DEF Withdraws
<1> DEFINE W == ToSet(R)
<1> HIDE DEF E, V, W
<1>8. GivesBack(A, V, W, x)
  BY <1>7 DEF W, V
<1>9. x \in E /\ pn \in [PrivateNetworks -> {"none", "requested", "up"}]
  BY DEF E, PnStates
<1>10. Book(E \ {x}, A, W)
  BY <1>1, <1>8, <1>9, GivenBackBook
<1>11. PoolsOK(E \ {x}, A, W, br2, pn2)
  BY <1>1, <1>8, <1>9, GivenBackPools DEF Disowns
<1> QED BY <1>3, <1>7, <1>10, <1>11 DEF Ledger, W, E, V

Acquires(p, pn, pn2) == pn2 = [pn EXCEPT ![p] = "requested"]

LEMMA LedgerMadePrivate ==
  ASSUME NEW L, NEW A, NEW Q, NEW br, NEW pn \in PnStates, Ledger(L, A, Q, br, pn),
         NEW y, Fits(ToSet(L), y), NEW p \in PrivateNetworks, y.pool = p, y.index = p,
         Unused(A, ToSet(Q), p), pn[p] = "none",
         NEW pn2, Acquires(p, pn, pn2)
  PROVE  /\ Ledger(<<y>> \o L, A, Q, br, pn2)
         /\ ToSet(<<y>> \o L) = ToSet(L) \cup {y}
<1> DEFINE E == ToSet(L)
           V == ToSet(Q)
<1>1. /\ ListOK(L) /\ QueueOK(A, Q) /\ Book(E, A, V) /\ PoolsOK(E, A, V, br, pn)
      /\ InfosOK(E)
  BY DEF Ledger, Book
<1>2. y \in InfoSet /\ \A x \in E : ~SameKey(y, x)
  BY <1>1, FitsApart DEF Fits, SameKey
<1>3. ListOK(<<y>> \o L) /\ ToSet(<<y>> \o L) = E \cup {y}
  BY <1>1, <1>2, Prepended
<1>4. pn \in [PrivateNetworks -> {"none", "requested", "up"}]
  BY DEF PnStates
<1>5. Fits(E, y) /\ Unused(A, V, y.pool) /\ Unused(A, V, y.index)
  OBVIOUS
<1> HIDE DEF E, V
<1>6. Book(E \cup {y}, A, V)
  BY <1>1, <1>5, MadeBook
<1>7. PoolsOK(E \cup {y}, A, V, br, pn2)
  BY <1>1, <1>4, <1>5, MadePools DEF Acquires
<1> QED BY <1>1, <1>3, <1>6, <1>7 DEF Ledger, E, V

LEMMA LedgerMadeTether ==
  ASSUME NEW L, NEW A, NEW Q, NEW br \in BridgeIndexes, NEW pn \in PnStates,
         Ledger(L, A, Q, br, pn), NEW y, Fits(ToSet(L), y), y.pool = Tether, y.index = br,
         Unused(A, ToSet(Q), br), \A x \in ToSet(L) : x.pool # Tether
  PROVE  /\ Ledger(<<y>> \o L, A, Q \o <<Event("new", Own(br, y.start))>>, br, pn)
         /\ ToSet(<<y>> \o L) = ToSet(L) \cup {y}
<1> DEFINE E == ToSet(L)
           V == ToSet(Q)
           own == Own(br, y.start)
           v == Event("new", own)
           W == V \cup {v}
<1>1. /\ ListOK(L) /\ QueueOK(A, Q) /\ Book(E, A, V) /\ PoolsOK(E, A, V, br, pn)
      /\ InfosOK(E)
  BY DEF Ledger, Book
<1>2. y \in InfoSet /\ \A x \in E : ~SameKey(y, x)
  BY <1>1, FitsApart DEF Fits, SameKey
<1>3. ListOK(<<y>> \o L) /\ ToSet(<<y>> \o L) = E \cup {y}
  BY <1>1, <1>2, Prepended
<1>4. own \in OwnAddrs /\ own.index = br
  <2>1. PICK b \in Blocks : y.start = Base(b)
    BY DEF Fits
  <2>2. br \in OwnIndexes
    BY DEF OwnIndexes
  <2> QED BY <2>1, <2>2, OwnAddresses
<1>5. v \in EventSet /\ v.kind = "new" /\ v.addr = own
  BY <1>4 DEF Event, EventSet
<1>6. own \notin A /\ v \notin V
  BY <1>4, <1>5 DEF Unused
<1>7. Fits(E, y) /\ Unused(A, V, y.index)
  OBVIOUS
<1>8. \A x \in E : x.pool # NULL => x.index # br
  <2>1. \A x \in E : x.pool # NULL => x.pool \in PrivateNetworks
    BY <1>1 DEF InfosOK, InfoSet, Owners, E
  <2>2. \A x \in E : x.pool \in PrivateNetworks => x.index = x.pool
    BY <1>1 DEF PoolsOK
  <2>3. br \notin PrivateNetworks
    BY IndexAssumption
  <2> QED BY <2>1, <2>2, <2>3
<1>9. Addressed(A, W, y)
  BY DEF Addressed
<1> HIDE DEF v, own
<1>10. QueueOK(A, Q \o <<v>>) /\ ToSet(Q \o <<v>>) = W
  BY <1>1, <1>5, <1>6, Sent
<1>11. pn \in [PrivateNetworks -> {"none", "requested", "up"}] /\ \A x \in E : x.pool # Tether
  BY DEF PnStates
<1> HIDE DEF E, V
<1>12. Book(E \cup {y}, A, W)
  <2>1. Book(E \cup {y}, A, V)
    BY <1>1, <1>7, MadeBook
  <2>2. v.kind # "del"
    BY <1>5
  <2> QED BY <1>5, <2>1, <2>2, SentBook
<1>13. PoolsOK(E \cup {y}, A, W, br, pn)
  <2>1. \A x \in E : x.pool # NULL => x.index # v.addr.index
    BY <1>4, <1>5, <1>8
  <2>2. PoolsOK(E, A, W, br, pn)
    BY <1>1, <2>1, SentPools
  <2> HIDE DEF W
  <2> QED BY <1>1, <1>7, <1>9, <1>11, <2>2, MadePools
<1> QED BY <1>3, <1>10, <1>12, <1>13 DEF Ledger, v, own, E

LEMMA LedgerSetUp ==
  ASSUME NEW L, NEW A, NEW Q, NEW br, NEW pn \in PnStates, Ledger(L, A, Q, br, pn),
         br \notin PrivateNetworks, NEW x \in ToSet(L), x.pool \in PrivateNetworks,
         pn[x.pool] = "requested"
  PROVE  LET R == Q \o <<Event("new", Own(x.index, x.start))>>
         IN  /\ Ledger(L, A, R, br, [pn EXCEPT ![x.pool] = "up"])
             /\ Addressed(A, ToSet(R), x)
<1> DEFINE own == Own(x.index, x.start)
           v == Event("new", own)
           E == ToSet(L)
           V == ToSet(Q)
<1>1. /\ ListOK(L) /\ QueueOK(A, Q) /\ Book(E, A, V) /\ PoolsOK(E, A, V, br, pn)
      /\ InfosOK(E)
  BY DEF Ledger, Book
<1>2. x.pool # NULL
  BY NullAssumption DEF Owners
<1>3. own \in OwnAddrs /\ own.index = x.index
  BY <1>1, <1>2, PoolOwn
<1>4. v \in EventSet /\ v.kind = "new" /\ v.addr = own
  BY <1>3 DEF Event, EventSet
<1>5. Unused(A, V, x.index)
  BY <1>1 DEF PoolsOK
<1>6. own \notin A /\ v \notin V
  BY <1>3, <1>4, <1>5 DEF Unused
<1>7. Addressed(A, V \cup {v}, x)
  BY DEF Addressed
<1>8. pn \in [PrivateNetworks -> {"none", "requested", "up"}]
  BY DEF PnStates
<1>9. x \in E
  OBVIOUS
<1> HIDE DEF E, V
<1>10. PoolsOK(E, A, V \cup {v}, br, [pn EXCEPT ![x.pool] = "up"])
  BY <1>1, <1>8, <1>9, SetUpPools
<1> HIDE DEF v, own
<1>11. QueueOK(A, Q \o <<v>>) /\ ToSet(Q \o <<v>>) = V \cup {v}
  BY <1>1, <1>4, <1>6, Sent DEF V
<1>12. Book(E, A, V \cup {v})
  <2>1. v.kind # "del"
    BY <1>4
  <2> QED BY <1>1, <1>4, <2>1, SentBook
<1> QED BY <1>1, <1>7, <1>10, <1>11, <1>12 DEF Ledger, v, own, E

\* The bridge gets its address and loses it again; it never had a pool.
LEMMA LedgerUpAndDown ==
  ASSUME NEW L, NEW A, NEW Q, NEW br \in BridgeIndexes, NEW pn, Ledger(L, A, Q, br, pn),
         Unused(A, ToSet(Q), br), \A x \in ToSet(L) : x.pool # Tether, NEW b \in Blocks,
         NEW br2
  PROVE  /\ Ledger(L, A, Q \o New(Own(br, Base(b))) \o Del(Own(br, Base(b))), br2, pn)
         /\ Ledger(L, A, Q, br2, pn)
<1> DEFINE E == ToSet(L)
           V == ToSet(Q)
           own == Own(br, Base(b))
           v == Event("new", own)
           w == Event("del", own)
<1>1. /\ ListOK(L) /\ QueueOK(A, Q) /\ Book(E, A, V) /\ PoolsOK(E, A, V, br, pn)
      /\ InfosOK(E)
  BY DEF Ledger, Book
<1>2. own \in OwnAddrs /\ own.index = br
  <2>1. br \in OwnIndexes
    BY DEF OwnIndexes
  <2> QED BY <2>1, OwnAddresses
<1>3. /\ v \in EventSet /\ v.kind = "new" /\ v.addr = own
      /\ w \in EventSet /\ w.kind = "del" /\ w.addr = own
  BY <1>2 DEF Event, EventSet
<1>4. own \notin A /\ v \notin V /\ w \notin V /\ w # v
  BY <1>2, <1>3 DEF Unused
<1>5. \A x \in E : x.pool # NULL => x.index # br
  <2>1. \A x \in E : x.pool # NULL => x.pool \in PrivateNetworks
    BY <1>1 DEF InfosOK, InfoSet, Owners, E
  <2>2. \A x \in E : x.pool \in PrivateNetworks => x.index = x.pool
    BY <1>1 DEF PoolsOK
  <2>3. br \notin PrivateNetworks
    BY IndexAssumption
  <2> QED BY <2>1, <2>2, <2>3
<1>6. PoolsOK(E, A, V, br2, pn)
  BY <1>1 DEF PoolsOK
<1>7. New(own) = <<v>> /\ Del(own) = <<w>> /\ v = Event("new", w.addr)
  BY <1>3 DEF New, Del
<1> HIDE DEF v, w, own
<1> DEFINE R == Q \o <<v>>
<1>8. QueueOK(A, R) /\ ToSet(R) = V \cup {v}
  BY <1>1, <1>3, <1>4, Sent
<1> HIDE DEF R
<1>9. QueueOK(A, R \o <<w>>) /\ ToSet(R \o <<w>>) = (V \cup {v}) \cup {w}
  <2>1. w \notin ToSet(R) /\ Event("new", w.addr) \in ToSet(R) /\ w.kind # "new"
    BY <1>3, <1>4, <1>7, <1>8
  <2>2. QueueOK(A, R \o <<w>>) /\ ToSet(R \o <<w>>) = ToSet(R) \cup {w}
    BY <1>3, <1>8, <2>1, Sent
  <2> QED BY <1>8, <2>2
<1> HIDE DEF E, V
<1>10. \A x \in E : x.pool # NULL => x.index # v.addr.index /\ x.index # w.addr.index
  BY <1>2, <1>3, <1>5
<1>11. Book(E, A, (V \cup {v}) \cup {w})
  <2>1. Book(E, A, V \cup {v})
    BY <1>1, <1>3, <1>10, SentBook
  <2> QED BY <2>1, <1>3, <1>10, SentBook
<1>12. PoolsOK(E, A, (V \cup {v}) \cup {w}, br2, pn)
  <2>1. PoolsOK(E, A, V \cup {v}, br2, pn)
    BY <1>1, <1>6, <1>10, SentPools
  <2> QED BY <1>1, <2>1, <1>10, SentPools
<1>13. Ledger(L, A, R \o <<w>>, br2, pn)
  BY <1>1, <1>9, <1>11, <1>12 DEF Ledger, E
<1>14. Ledger(L, A, Q, br2, pn)
  BY <1>1, <1>6 DEF Ledger, E, V
<1>15. R \o <<w>> = (Q \o New(own)) \o Del(own)
  BY <1>7 DEF R
<1> QED BY <1>13, <1>14, <1>15 DEF own

(***************************************************************************)
(* What newaddr and deladdr are called for: somebody else's address, or the *)
(* first report.                                                            *)
(***************************************************************************)
ReportedNew(a, queue) ==
    \/ a \in ExtAddrs /\ a \notin addresses /\ queue = events
    \/ /\ events # <<>> /\ Head(events).kind = "new" /\ a = Head(events).addr
       /\ queue = Tail(events)

ReportedDel(a, queue) ==
    \/ a \in ExtAddrs /\ a \in addresses /\ queue = events
    \/ /\ events # <<>> /\ Head(events).kind = "del" /\ a = Head(events).addr
       /\ queue = Tail(events)

LEMMA ExtAddresses ==
  /\ ExtAddrs \subseteq OtherAddrs
  /\ OwnAddrs \cap OtherAddrs = {}
BY IndexAssumption DEF OtherAddrs, OwnAddrs, OwnIndexes

\* The queue does not mention the addresses of others.
LEMMA OthersQueue ==
  ASSUME NEW A, NEW Q, QueueOK(A, Q), NEW a \in OtherAddrs
  PROVE  QueueOK(A \cup {a}, Q) /\ QueueOK(A \ {a}, Q)
<1>1. \A i \in 1 .. Len(Q) : Q[i].addr # a
  <2>1. \A v \in EventSet : v.addr \in OwnAddrs
    BY DEF EventSet
  <2> QED BY <2>1, ExtAddresses DEF QueueOK
<1> QED BY <1>1 DEF QueueOK

LEMMA LedgerCame ==
  ASSUME Ledger(allocated_blocks, addresses, events, bridge, pn_hash),
         NEW a, NEW queue, ReportedNew(a, queue)
  PROVE  LET list == Entered(a.index, a.start, a.end)
         IN  /\ Ledger(list, addresses \cup {a}, queue, bridge, pn_hash)
             /\ AddedTo(Infos, ToSet(list), a) /\ a \in NetAddrs
             /\ Arrives(addresses, ToSet(events), ToSet(queue), a)
<1> DEFINE V == ToSet(events)
           list == Entered(a.index, a.start, a.end)
<1>1. /\ ListOK(allocated_blocks) /\ QueueOK(addresses, events)
      /\ Book(Infos, addresses, V) /\ PoolsOK(Infos, addresses, V, bridge, pn_hash)
  BY DEF Ledger, Infos
<1>2. Arrives(addresses, V, ToSet(queue), a) /\ QueueOK(addresses \cup {a}, queue)
  <2>1. CASE a \in ExtAddrs /\ a \notin addresses /\ queue = events
    BY <1>1, <2>1, ExtAddresses, OthersQueue DEF Arrives
  <2>2. CASE /\ events # <<>> /\ Head(events).kind = "new" /\ a = Head(events).addr
             /\ queue = Tail(events)
    <3> DEFINE h == Head(events)
    <3>1. /\ h \in V /\ h \in EventSet /\ ToSet(queue) = V \ {h}
          /\ a \notin addresses /\ QueueOK(addresses \cup {a}, queue)
      BY <1>1, <2>2, Handled
    <3>2. h.kind = "new" /\ a = h.addr
      BY <2>2
    <3> HIDE DEF h
    <3>3. h = Event("new", a) /\ a \in OwnAddrs
      BY <3>1, <3>2 DEF EventSet, Event
    <3> QED BY <3>1, <3>3 DEF Arrives
  <2> QED BY <2>1, <2>2 DEF ReportedNew
<1>3. a \in NetAddrs
  BY <1>2, OwnAddresses DEF Arrives
<1>4. ListOK(list) /\ AddedTo(Infos, ToSet(list), a)
  BY <1>1, <1>3, EnteredInfos
<1> HIDE DEF V, list
<1>5. Book(ToSet(list), addresses \cup {a}, ToSet(queue))
  BY <1>1, <1>2, <1>4, CameBook
<1>6. PoolsOK(ToSet(list), addresses \cup {a}, ToSet(queue), bridge, pn_hash)
  BY <1>1, <1>2, <1>4, CamePools
<1> QED BY <1>2, <1>3, <1>4, <1>5, <1>6 DEF Ledger, V, list

LEMMA LedgerWent ==
  ASSUME Ledger(allocated_blocks, addresses, events, bridge, pn_hash),
         NEW a, NEW queue, ReportedDel(a, queue)
  PROVE  LET list == Deleted(a.index, a.start)
         IN  /\ Ledger(list, addresses \ {a}, queue, bridge, pn_hash)
             /\ TakenFrom(Infos, ToSet(list), a)
             /\ Leaves(addresses, ToSet(events), ToSet(queue), a)
<1> DEFINE V == ToSet(events)
           list == Deleted(a.index, a.start)
<1>1. /\ ListOK(allocated_blocks) /\ QueueOK(addresses, events)
      /\ Book(Infos, addresses, V) /\ PoolsOK(Infos, addresses, V, bridge, pn_hash)
  BY DEF Ledger, Infos
<1>2. Leaves(addresses, V, ToSet(queue), a) /\ QueueOK(addresses \ {a}, queue)
  <2>1. CASE a \in ExtAddrs /\ a \in addresses /\ queue = events
    BY <1>1, <2>1, ExtAddresses, OthersQueue DEF Leaves
  <2>2. CASE /\ events # <<>> /\ Head(events).kind = "del" /\ a = Head(events).addr
             /\ queue = Tail(events)
    <3> DEFINE h == Head(events)
    <3>1. /\ h \in V /\ h \in EventSet /\ ToSet(queue) = V \ {h}
          /\ a \in addresses /\ QueueOK(addresses \ {a}, queue)
      BY <1>1, <2>2, Handled
    <3>2. h.kind = "del" /\ a = h.addr
      BY <2>2
    <3> HIDE DEF h
    <3>3. h = Event("del", a) /\ a \in OwnAddrs
      BY <3>1, <3>2 DEF EventSet, Event
    <3> QED BY <3>1, <3>3 DEF Leaves
  <2> QED BY <2>1, <2>2 DEF ReportedDel
<1>3. a \in NetAddrs
  BY <1>2, OwnAddresses DEF Leaves
<1>4. ListOK(list) /\ TakenFrom(Infos, ToSet(list), a)
  BY <1>1, <1>3, DeletedInfos
<1> HIDE DEF V, list
<1>5. Book(ToSet(list), addresses \ {a}, ToSet(queue))
  BY <1>1, <1>2, <1>4, WentBook
<1>6. PoolsOK(ToSet(list), addresses \ {a}, ToSet(queue), bridge, pn_hash)
  BY <1>1, <1>2, <1>4, WentPools
<1> QED BY <1>2, <1>4, <1>5, <1>6 DEF Ledger, V, list

-----------------------------------------------------------------------------
(***************************************************************************)
(* The steps.                                                               *)
(***************************************************************************)
LEMMA Names ==
  /\ Tether \notin PrivateNetworks /\ Tether \in Owners /\ PrivateNetworks \subseteq Owners
  /\ NULL # Tether /\ NULL \notin PrivateNetworks /\ NULL \notin BridgeIndexes
  /\ BridgeIndexes \cap PrivateNetworks = {}
  /\ NULL # "live" /\ NULL # "freed" /\ NULL \notin Blocks
  /\ \A o \in Owners, b \in Blocks : [owner |-> o, block |-> b] # NULL
BY NullAssumption, IndexAssumption DEF Owners

LEMMA InitOK == Init => IInv
<1> SUFFICES ASSUME Init PROVE IInv
  OBVIOUS
<1> USE DEF Init
<1>1. Infos = {} /\ ToSet(events) = {}
  BY DEF Infos, ToSet
<1>2. Scalars
  BY DEF Scalars
<1>3. CountOK
  <2>1. Tethers = {}
    BY DEF Tethers
  <2>2. Cardinality(Tethers) = 0 /\ Cardinality(Technologies) \in Nat
    BY <2>1, FS_EmptySet, FS_CardinalityType, TetheringAssumption
  <2> QED BY <2>2 DEF CountOK
<1>4. SearchOK
  BY DEF SearchOK, Searching
<1>5. TetherOK
  BY <1>1, Names DEF TetherOK, Running
<1>6. ListOK(allocated_blocks) /\ QueueOK(addresses, events)
  BY DEF ListOK, QueueOK
<1>7. Book({}, {}, {})
  BY FS_EmptySet DEF Book, InfosOK, CountsOK, EntriesOK
<1>8. PoolsOK({}, {}, {}, bridge, pn_hash)
  BY DEF PoolsOK, OnePoolEach
<1>9. Ledger(allocated_blocks, addresses, events, bridge, pn_hash)
  BY <1>1, <1>6, <1>7, <1>8 DEF Ledger, Infos
<1>10. YieldOK(Infos, tolerated)
  BY <1>1 DEF YieldOK
<1> QED BY <1>2, <1>3, <1>4, <1>5, <1>9, <1>10 DEF IInv

LEMMA Counts ==
  ASSUME CountOK
  PROVE  /\ IsFiniteSet(Tethers) /\ Cardinality(Tethers) \in Nat
         /\ Cardinality(Technologies) \in Nat
         /\ Cardinality(Tethers) <= Cardinality(Technologies)
<1>1. Tethers \subseteq Technologies /\ IsFiniteSet(Technologies)
  BY TetheringAssumption DEF Tethers
<1> QED BY <1>1, FS_Subset, FS_CardinalityType

\* A technology is switched.
LEMMA Switched ==
  ASSUME CountOK, NEW t \in Technologies, NEW on \in BOOLEAN, tethering[t] = ~on,
         tethering' = [tethering EXCEPT ![t] = on]
  PROVE  /\ tethering' \in [Technologies -> BOOLEAN]
         /\ Cardinality(Tethers') = Cardinality(Tethers) + (IF on THEN 1 ELSE -1)
         /\ Cardinality(Tethers') \in Nat /\ Cardinality(Tethers') <= Cardinality(Technologies)
<1>1. tethering' \in [Technologies -> BOOLEAN]
  BY DEF CountOK
<1>2. IsFiniteSet(Tethers)
  BY Counts
<1>3. Tethers' \subseteq Technologies /\ IsFiniteSet(Technologies)
  BY TetheringAssumption DEF Tethers
<1>4. Cardinality(Tethers') \in Nat /\ Cardinality(Tethers') <= Cardinality(Technologies)
  BY <1>3, FS_Subset, FS_CardinalityType
<1>5. CASE on = TRUE
  <2>1. Tethers' = Tethers \cup {t} /\ t \notin Tethers
    BY <1>5 DEF Tethers, CountOK
  <2>2. Cardinality(Tethers') = Cardinality(Tethers) + 1
    BY <1>2, <2>1, FS_AddElement
  <2> QED BY <1>1, <1>4, <1>5, <2>2
<1>6. CASE on = FALSE
  <2>1. Tethers' = Tethers \ {t} /\ t \in Tethers
    BY <1>6 DEF Tethers, CountOK
  <2>2. Cardinality(Tethers') = Cardinality(Tethers) - 1
    BY <1>2, <2>1, FS_RemoveElement
  <2>3. Cardinality(Tethers) \in Nat
    BY Counts
  <2> QED BY <1>1, <1>4, <1>6, <2>2, <2>3
<1> QED BY <1>5, <1>6

\* A step that leaves the technologies alone, and the counter within bounds.
LEMMA CountKept ==
  ASSUME CountOK, UNCHANGED tethering,
         tethering_enabled' = tethering_enabled \/
           (tethering_enabled' = 0 /\ tethering_enabled >= 1)
           \/ (tethering_enabled' = 1 /\ tethering_enabled = 1)
  PROVE  CountOK'
<1>1. Tethers' = Tethers
  BY DEF Tethers
<1>2. /\ Cardinality(Tethers) \in Nat /\ Cardinality(Technologies) \in Nat
      /\ Cardinality(Tethers) <= Cardinality(Technologies)
  BY Counts
<1>3. /\ tethering_enabled \in Int
      /\ Cardinality(Tethers) - Cardinality(Technologies) <= tethering_enabled
      /\ tethering_enabled <= Cardinality(Tethers)
  BY DEF CountOK
<1>4. /\ tethering_enabled' \in Int
      /\ Cardinality(Tethers) - Cardinality(Technologies) <= tethering_enabled'
      /\ tethering_enabled' <= Cardinality(Tethers)
  BY <1>2, <1>3
<1>5. tethering' \in [Technologies -> BOOLEAN]
  BY DEF CountOK
<1> QED BY <1>1, <1>4, <1>5 DEF CountOK

LEMMA LedgerAnyBridge ==
  ASSUME NEW L, NEW A, NEW Q, NEW br, NEW pn, Ledger(L, A, Q, br, pn),
         \A x \in ToSet(L) : x.pool # Tether, NEW br2
  PROVE  Ledger(L, A, Q, br2, pn)
BY DEF Ledger, PoolsOK

LEMMA FreshUnused ==
  ASSUME NEW index, Fresh(index)
  PROVE  Unused(addresses, ToSet(events), index)
BY DEF Fresh, Unused

LEMMA NextBlock ==
  ASSUME NEW b \in Blocks
  PROVE  next_block(b) \in Blocks
<1>1. /\ b \in Int /\ b >= 0 /\ b <= last_16_bits /\ Blocks = 0 .. last_16_bits
      /\ block_20_bits \in Blocks /\ block_24_bits \in Blocks /\ block_16_bits \in Blocks
  BY BlocksAssumption DEF Blocks
<1>2. b # last_16_bits => b + 1 \in Blocks
  BY <1>1, BlocksAssumption
<1> QED BY <1>1, <1>2 DEF next_block

LEMMA FirstBlock ==
  ASSUME Scalars, NEW o \in Owners, SearchFor(o)
  PROVE  /\ search' \in [owner : Owners, block : Blocks] /\ search' # NULL
         /\ search'.owner = o
<1>1. block_16_bits \in Blocks
  BY BlocksAssumption DEF Blocks
<1>2. (IF last_block = NULL THEN block_16_bits ELSE last_block) \in Blocks
  BY <1>1 DEF Scalars
<1> QED BY <1>2, Names DEF SearchFor

\* The interface index of a bridge is not a private network's.
LEMMA BridgeApart ==
  ASSUME Scalars
  PROVE  bridge \notin PrivateNetworks
BY Names DEF Scalars

LEMMA AdvanceOK ==
  ASSUME IInv, Advance, UNCHANGED <<tethering, tethering_enabled, bridge, started>>,
         UNCHANGED <<pn_hash, kernel, tolerated>>
  PROVE  IInv'
<1>1. /\ search # NULL /\ search' = [search EXCEPT !.block = next_block(@)]
      /\ UNCHANGED <<allocated_blocks, last_block, addresses, events>>
      /\ UNCHANGED <<dhcp_ippool, tethering_dhcp_server, dhcp_servers>>
  BY DEF Advance, kernel, started
<1>2. search \in [owner : Owners, block : Blocks]
  BY <1>1 DEF IInv, Scalars
<1>3. search' \in [owner : Owners, block : Blocks] /\ search'.owner = search.owner
  BY <1>1, <1>2, NextBlock
<1>4. search' # NULL
  BY <1>3, NullAssumption
<1>5. Scalars'
  BY <1>1, <1>3 DEF IInv, Scalars
<1>6. \A o : Searching(o)' <=> Searching(o)
  BY <1>1, <1>3, <1>4 DEF Searching
<1>7. CountOK'
  BY CountKept DEF IInv
<1>8. SearchOK'
  BY <1>1, <1>6 DEF IInv, SearchOK
<1>9. TetherOK'
  BY <1>1, <1>6 DEF IInv, TetherOK, Running, Infos
<1>10. Ledger(allocated_blocks, addresses, events, bridge, pn_hash)'
  BY <1>1 DEF IInv
<1>11. YieldOK(Infos, tolerated)'
  BY <1>1 DEF IInv, Infos
<1> QED BY <1>5, <1>7, <1>8, <1>9, <1>10, <1>11 DEF IInv

\* A start: a search for a bridge that nobody knows, or nothing.
LEMMA BeginOK ==
  ASSUME Scalars, Begin
  PROVE  /\ bridge' \in BridgeIndexes \cup {NULL} /\ tethering_enabled' \in {0, 1}
         /\ search' \in [owner : Owners, block : Blocks] \cup {NULL}
         /\ tethering_enabled' = 1 <=> bridge' # NULL
         /\ tethering_enabled' = 1 <=> Searching(Tether)'
         /\ \A p \in PrivateNetworks : ~Searching(p)'
         /\ tethering_enabled' = 1 => /\ Unused(addresses, ToSet(events), bridge')
                                      /\ bridge' # bridge /\ bridge' \in BridgeIndexes
<1>1. CASE \E index \in BridgeIndexes :
             /\ Fresh(index) /\ bridge' = index /\ tethering_enabled' = 1 /\ SearchFor(Tether)
  <2>1. PICK index \in BridgeIndexes :
             /\ Fresh(index) /\ bridge' = index /\ tethering_enabled' = 1 /\ SearchFor(Tether)
    BY <1>1
  <2>2. /\ search' \in [owner : Owners, block : Blocks] /\ search' # NULL
        /\ search'.owner = Tether
    BY <2>1, FirstBlock, Names
  <2>3. Searching(Tether)' /\ \A p \in PrivateNetworks : ~Searching(p)'
    BY <2>2, Names DEF Searching
  <2>4. Unused(addresses, ToSet(events), index) /\ index # bridge /\ index # NULL
    BY <2>1, FreshUnused, Names DEF Fresh
  <2> QED BY <2>1, <2>2, <2>3, <2>4
<1>2. CASE bridge' = NULL /\ tethering_enabled' = 0 /\ search' = NULL
  BY <1>2 DEF Searching
<1> QED BY <1>1, <1>2 DEF Begin

LEMMA EnableOK ==
  ASSUME IInv, NEW t \in Technologies, Enable(t)
  PROVE  IInv'
<1>1. /\ search = NULL /\ tethering[t] = FALSE /\ tethering' = [tethering EXCEPT ![t] = TRUE]
      /\ UNCHANGED <<allocated_blocks, last_block, pn_hash, addresses, events, tolerated>>
      /\ UNCHANGED <<dhcp_ippool, tethering_dhcp_server, dhcp_servers>>
  BY DEF Enable, Idle, started, kernel, IInv, CountOK
<1>2. /\ tethering' \in [Technologies -> BOOLEAN]
      /\ Cardinality(Tethers') = Cardinality(Tethers) + 1
      /\ Cardinality(Tethers') \in Nat /\ Cardinality(Tethers') <= Cardinality(Technologies)
      /\ Cardinality(Technologies) \in Nat /\ Cardinality(Tethers) \in Nat
      /\ Cardinality(Tethers) - Cardinality(Technologies) <= tethering_enabled
      /\ tethering_enabled <= Cardinality(Tethers) /\ tethering_enabled \in Int
  BY <1>1, Switched, Counts DEF IInv, CountOK
<1>3. \A o : ~Searching(o)
  BY <1>1 DEF Searching
<1>4. YieldOK(Infos, tolerated)'
  BY <1>1 DEF IInv, Infos
<1>5. CASE tethering_enabled = 0 /\ Begin
  <2>1. /\ bridge' \in BridgeIndexes \cup {NULL} /\ tethering_enabled' \in {0, 1}
        /\ search' \in [owner : Owners, block : Blocks] \cup {NULL}
        /\ tethering_enabled' = 1 <=> bridge' # NULL
        /\ tethering_enabled' = 1 <=> Searching(Tether)'
        /\ \A p \in PrivateNetworks : ~Searching(p)'
        /\ tethering_enabled' = 1 => Unused(addresses, ToSet(events), bridge')
    BY <1>5, BeginOK DEF IInv
  <2>2. Scalars'
    BY <1>1, <2>1 DEF IInv, Scalars
  <2>3. CountOK'
    BY <1>2, <2>1 DEF CountOK
  <2>4. SearchOK'
    BY <1>1, <2>1 DEF SearchOK
  <2>5. ~Running /\ ~Running' /\ (tethering_enabled' >= 1 <=> bridge' # NULL)
    BY <1>5, <2>1 DEF Running
  <2>6. TetherOK'
    BY <1>1, <2>5 DEF IInv, TetherOK, Infos
  <2>7. \A x \in ToSet(allocated_blocks) : x.pool # Tether
    BY <2>5 DEF IInv, TetherOK, Infos
  <2>8. Ledger(allocated_blocks, addresses, events, bridge', pn_hash)
    BY <2>7, LedgerAnyBridge DEF IInv
  <2>9. Ledger(allocated_blocks, addresses, events, bridge, pn_hash)'
    BY <1>1, <2>8
  <2> QED BY <1>4, <2>2, <2>3, <2>4, <2>6, <2>9 DEF IInv
<1>6. CASE /\ tethering_enabled # 0 /\ tethering_enabled' = tethering_enabled + 1
           /\ UNCHANGED <<bridge, search>>
  <2>1. Scalars'
    BY <1>1, <1>6 DEF IInv, Scalars
  <2>2. CountOK'
    BY <1>2, <1>6 DEF CountOK
  <2>3. \A o : ~Searching(o)'
    BY <1>1, <1>6 DEF Searching
  <2>4. SearchOK'
    BY <2>3 DEF SearchOK
  <2>5. (Running' <=> Running) /\ (tethering_enabled' >= 1 <=> tethering_enabled >= 1)
    BY <1>2, <1>3, <1>6, <2>3 DEF Running
  <2>6. TetherOK'
    BY <1>1, <1>6, <2>5 DEF IInv, TetherOK, Infos
  <2>7. Ledger(allocated_blocks, addresses, events, bridge, pn_hash)'
    BY <1>1, <1>6 DEF IInv
  <2> QED BY <1>4, <2>1, <2>2, <2>4, <2>6, <2>7 DEF IInv
<1> QED BY <1>5, <1>6 DEF Enable

\* The tethering pool, in any list with the same pools, when it is taken down.
LEMMA TakeDownOK ==
  ASSUME NEW L, NEW A, NEW Q, Ledger(L, A, Q, bridge, pn_hash), Scalars,
         NEW x \in ToSet(L), x.pool = Tether, PoolStart(Tether) = x.start,
         TakeDown(L, Q), NEW br2
  PROVE  /\ Ledger(allocated_blocks', A, events', br2, pn_hash)
         /\ Infos' = ToSet(L) \ {x} /\ \A y \in Infos' : y.pool # Tether
         /\ \A i \in OwnIndexes : i # bridge /\ Unused(A, ToSet(Q), i) => Unused(A, ToSet(events'), i)
<1> DEFINE own == Own(x.index, x.start)
           R == Q \o <<Event("del", own)>>
<1>1. /\ ToSet(L) \subseteq InfoSet /\ OnePoolEach(ToSet(L)) /\ x.index = bridge
      /\ Addressed(A, ToSet(Q), x)
  BY DEF Ledger, Book, InfosOK, PoolsOK
<1>2. allocated_blocks' = Unref(L, Tether) /\ events' = R
  BY <1>1 DEF TakeDown, Del
<1>3. pn_hash \in PnStates /\ bridge \notin PrivateNetworks /\ x.pool # NULL
  BY BridgeApart, Names DEF Scalars, PnStates
<1>4. own.index = bridge /\ Event("del", own).addr = own
  BY <1>1 DEF Own, Event
<1> HIDE DEF own
<1>5. Withdraws(A, Q, R, x) /\ Disowns(x, bridge, pn_hash, br2, pn_hash)
  BY <1>1 DEF own, Withdraws, Disowns
<1> HIDE DEF R
<1>6. /\ Ledger(Unref(L, x.pool), A, R, br2, pn_hash)
      /\ ToSet(Unref(L, x.pool)) = ToSet(L) \ {x}
      /\ ToSet(R) \subseteq ToSet(Q) \cup {Event("del", Own(x.index, x.start))}
  BY <1>3, <1>5, LedgerUnref
<1>7. Infos' = ToSet(L) \ {x}
  BY <1>2, <1>6 DEF Infos
<1>8. \A y \in Infos' : y.pool # Tether
  BY <1>1, <1>3, <1>7 DEF OnePoolEach
<1>9. \A v \in ToSet(events') : v \in ToSet(Q) \/ v.addr.index = bridge
  BY <1>2, <1>4, <1>6 DEF own
<1>10. \A i \in OwnIndexes : i # bridge /\ Unused(A, ToSet(Q), i) => Unused(A, ToSet(events'), i)
  BY <1>9 DEF Unused
<1> QED BY <1>2, <1>6, <1>7, <1>8, <1>10

\* While tethering runs, there is one pool for it, where PoolStart says.
LEMMA TetherPool ==
  ASSUME IInv, Running
  PROVE  \E x \in Infos : x.pool = Tether /\ PoolStart(Tether) = x.start
<1>1. PICK x \in Infos : x.pool = Tether
  BY DEF IInv, TetherOK
<1>2. ListOK(allocated_blocks) /\ \A y \in Infos : y.pool = x.pool => y = x
  BY <1>1, Names DEF IInv, Ledger, PoolsOK, OnePoolEach, Infos
<1> QED BY <1>1, <1>2, PoolStarts

LEMMA DisableOK ==
  ASSUME IInv, NEW t \in Technologies, Disable(t)
  PROVE  IInv'
<1>1. /\ search = NULL /\ tethering[t] = TRUE /\ tethering' = [tethering EXCEPT ![t] = FALSE]
      /\ tethering_enabled' = tethering_enabled - 1
      /\ UNCHANGED <<search, pn_hash, addresses, tolerated>>
  BY DEF Disable, Idle, IInv, CountOK
<1>2. CountOK'
  <2>1. /\ tethering' \in [Technologies -> BOOLEAN]
        /\ Cardinality(Tethers') = Cardinality(Tethers) - 1
        /\ Cardinality(Technologies) \in Nat /\ Cardinality(Tethers) \in Nat
        /\ Cardinality(Tethers) - Cardinality(Technologies) <= tethering_enabled
        /\ tethering_enabled <= Cardinality(Tethers) /\ tethering_enabled \in Int
    BY <1>1, Switched, Counts DEF IInv, CountOK
  <2> QED BY <1>1, <2>1 DEF CountOK
<1>3. (\A o : ~Searching(o)) /\ (\A o : ~Searching(o)') /\ tethering_enabled \in Int
  BY <1>1 DEF Searching, IInv, CountOK
<1>4. SearchOK'
  BY <1>3 DEF SearchOK
<1>5. CASE tethering_enabled = 1 /\ TakeDown(allocated_blocks, events) /\ bridge' = NULL
  <2>1. Running /\ ~Running' /\ ~ tethering_enabled' >= 1
    BY <1>1, <1>3, <1>5 DEF Running
  <2>2. PICK x \in Infos : x.pool = Tether /\ PoolStart(Tether) = x.start
    BY <2>1, TetherPool
  <2>3. /\ Ledger(allocated_blocks', addresses, events', bridge', pn_hash)
        /\ Infos' = Infos \ {x} /\ \A y \in Infos' : y.pool # Tether
    BY <1>5, <2>2, TakeDownOK DEF IInv, Infos
  <2>4. /\ dhcp_servers' = dhcp_servers - 1 /\ tethering_dhcp_server' = NULL
        /\ dhcp_ippool' = "freed" /\ last_block' = last_block
    BY <1>5 DEF TakeDown
  <2>5. Scalars'
    BY <1>1, <1>5, <2>4 DEF IInv, Scalars
  <2>6. dhcp_servers = 1
    BY <2>1 DEF IInv, TetherOK
  <2>7. dhcp_servers' = 0
    BY <2>4, <2>6
  <2>8. TetherOK'
    BY <1>5, <2>1, <2>3, <2>4, <2>7, Names DEF TetherOK
  <2>9. Ledger(allocated_blocks, addresses, events, bridge, pn_hash)'
    BY <1>1, <2>3
  <2>10. YieldOK(Infos, tolerated)'
    BY <1>1, <2>3, YieldSubset DEF IInv
  <2> QED BY <1>2, <1>4, <2>5, <2>8, <2>9, <2>10 DEF IInv
<1>6. CASE /\ tethering_enabled # 1
           /\ UNCHANGED <<allocated_blocks, last_block, bridge, started, events>>
  <2>1. UNCHANGED <<dhcp_ippool, tethering_dhcp_server, dhcp_servers>>
    BY <1>6 DEF started
  <2>2. Scalars'
    BY <1>1, <1>6, <2>1 DEF IInv, Scalars
  <2>3. (Running' <=> Running) /\ (tethering_enabled' >= 1 <=> tethering_enabled >= 1)
    BY <1>1, <1>3, <1>6 DEF Running
  <2>4. TetherOK'
    BY <1>6, <2>1, <2>3 DEF IInv, TetherOK, Infos
  <2>5. Ledger(allocated_blocks, addresses, events, bridge, pn_hash)'
    BY <1>1, <1>6 DEF IInv
  <2>6. YieldOK(Infos, tolerated)'
    BY <1>1, <1>6 DEF IInv, Infos
  <2> QED BY <1>2, <1>4, <2>2, <2>4, <2>5, <2>6 DEF IInv
<1> QED BY <1>5, <1>6 DEF Disable

\* A block was found: the pool on it.
LEMMA FoundFits ==
  ASSUME Scalars, Found, NEW index \in OwnIndexes, NEW range \in 0 .. 1, NEW owner \in Owners
  PROVE  LET y == PoolInfo(index, range, owner)
         IN  /\ Fits(Infos, y) /\ y.start = Base(search.block) /\ search.block \in Blocks
             /\ y.index = index /\ y.pool = owner
<1> DEFINE y == PoolInfo(index, range, owner)
           b == search.block
<1>1. b \in Blocks
  BY DEF Scalars, Found
<1>2. Base(b) \in Addresses /\ Base(b) + 1 \in Addresses /\ Base(b) \in Int
  BY <1>1, BlockAddresses
<1>3. Base(b) + range \in Addresses /\ Base(b) <= Base(b) + range /\ Base(b) + range <= Base(b) + 1
  BY <1>2
<1>4. /\ y.index = index /\ y.start = Base(b) /\ y.end = Base(b) + range
      /\ y.use_count = 0 /\ y.pool = owner
  BY DEF PoolInfo, Info
<1>5. index \in Indexes /\ owner # NULL
  BY NullAssumption DEF OwnIndexes, Indexes
<1>6. y \in InfoSet
  BY <1>2, <1>3, <1>5 DEF PoolInfo, Info, InfoSet
<1>7. \A x \in Infos : ~Holds(x, Base(b))
  BY DEF Found, Collides
<1> HIDE DEF y, b
<1>8. Fits(Infos, y)
  BY <1>1, <1>3, <1>4, <1>5, <1>6, <1>7 DEF Fits
<1> QED BY <1>1, <1>4, <1>8 DEF y, b

LEMMA StartedOK ==
  ASSUME IInv, Started
  PROVE  IInv'
<1> DEFINE y == PoolInfo(bridge, TetherRange, Tether)
           b == search.block
<1>1. /\ Found /\ Searching(Tether) /\ search' = NULL /\ last_block' = b
      /\ allocated_blocks' = <<y>> \o allocated_blocks
      /\ dhcp_ippool' = "live" /\ tethering_dhcp_server' = "live"
      /\ dhcp_servers' = dhcp_servers + 1
      /\ events' = events \o New(Own(bridge, Base(b)))
      /\ tolerated' = tolerated \ {Base(b)}
      /\ UNCHANGED <<tethering, tethering_enabled, bridge, pn_hash, addresses>>
  BY DEF Started
<1>2. /\ tethering_enabled = 1 /\ Unused(addresses, ToSet(events), bridge) /\ ~Running
      /\ bridge \in BridgeIndexes
  BY <1>1 DEF IInv, SearchOK, TetherOK, Running, Scalars
<1>3. bridge \in OwnIndexes /\ Tether \in Owners /\ TetherRange \in 0 .. 1
  BY <1>2, Names, TetheringAssumption DEF OwnIndexes
<1>4. Fits(Infos, y) /\ y.start = Base(b) /\ b \in Blocks /\ y.index = bridge /\ y.pool = Tether
  BY <1>1, <1>3, FoundFits DEF IInv
<1> HIDE DEF y, b
<1>5. Scalars'
  BY <1>1, <1>4 DEF IInv, Scalars
<1>6. CountOK'
  BY <1>1, CountKept DEF IInv
<1>7. \A o : ~Searching(o)'
  BY <1>1 DEF Searching
<1>8. SearchOK'
  BY <1>7 DEF SearchOK
<1>9. \A x \in ToSet(allocated_blocks) : x.pool # Tether
  BY <1>2 DEF IInv, TetherOK, Infos
<1>10. /\ Ledger(<<y>> \o allocated_blocks, addresses,
                 events \o <<Event("new", Own(bridge, y.start))>>, bridge, pn_hash)
       /\ ToSet(<<y>> \o allocated_blocks) = Infos \cup {y}
  <2>1. pn_hash \in PnStates /\ Fits(ToSet(allocated_blocks), y)
    BY <1>4 DEF IInv, Scalars, PnStates, Infos
  <2>2. Ledger(allocated_blocks, addresses, events, bridge, pn_hash)
    BY DEF IInv
  <2> QED BY <1>2, <1>4, <1>9, <2>1, <2>2, LedgerMadeTether DEF Infos
<1>11. Ledger(allocated_blocks, addresses, events, bridge, pn_hash)'
  BY <1>1, <1>4, <1>10 DEF New
<1>12. Infos' = Infos \cup {y}
  BY <1>1, <1>10 DEF Infos
<1>13. TetherOK'
  <2>1. dhcp_servers = 0 /\ bridge # NULL
    BY <1>2 DEF IInv, TetherOK
  <2>2. Running' /\ tethering_enabled' >= 1 /\ dhcp_servers' = 1
    BY <1>1, <1>2, <1>7, <2>1 DEF Running
  <2> QED BY <1>1, <1>4, <1>12, <2>1, <2>2 DEF TetherOK
<1>14. YieldOK(Infos, tolerated)'
  <2>1. YieldOK(Infos, tolerated) /\ InfosOK(Infos)
    BY DEF IInv, Ledger, Book, Infos
  <2>2. YieldOK(Infos \cup {y}, tolerated \ {y.start})
    BY <1>4, <2>1, YieldMade
  <2> QED BY <1>1, <1>4, <1>12, <2>2
<1> QED BY <1>5, <1>6, <1>8, <1>11, <1>13, <1>14 DEF IInv

\* A search for the bridge that ends without a pool.
LEMMA GaveUpOK ==
  ASSUME IInv, Searching(Tether), GiveUp, NEW lb \in Blocks \cup {NULL}, last_block' = lb,
         dhcp_ippool' \in {NULL, "freed"},
         tethering_dhcp_server' \in {tethering_dhcp_server, NULL, "freed"},
         UNCHANGED <<allocated_blocks, dhcp_servers, tethering, pn_hash, addresses, tolerated>>,
         \/ UNCHANGED events
         \/ \E b \in Blocks :
              events' = events \o New(Own(bridge, Base(b))) \o Del(Own(bridge, Base(b)))
  PROVE  IInv'
<1>1. /\ tethering_enabled = 1 /\ Unused(addresses, ToSet(events), bridge) /\ ~Running
      /\ bridge \in BridgeIndexes
  BY DEF IInv, SearchOK, TetherOK, Running, Scalars
<1>2. bridge' = NULL /\ search' = NULL /\ tethering_enabled' = 0
  BY <1>1 DEF GiveUp
<1>3. Scalars'
  BY <1>2 DEF IInv, Scalars
<1>4. CountOK'
  BY <1>1, <1>2, CountKept DEF IInv
<1>5. \A o : ~Searching(o)'
  BY <1>2 DEF Searching
<1>6. SearchOK'
  BY <1>5 DEF SearchOK
<1>7. \A x \in ToSet(allocated_blocks) : x.pool # Tether
  BY <1>1 DEF IInv, TetherOK, Infos
<1>8. Ledger(allocated_blocks, addresses, events', bridge', pn_hash)
  <2>1. Ledger(allocated_blocks, addresses, events, bridge, pn_hash)
    BY DEF IInv
  <2>2. CASE UNCHANGED events
    BY <1>7, <2>1, <2>2, LedgerAnyBridge
  <2>3. ASSUME NEW b \in Blocks,
               events' = events \o New(Own(bridge, Base(b))) \o Del(Own(bridge, Base(b)))
        PROVE  Ledger(allocated_blocks, addresses, events', bridge', pn_hash)
    <3>1. Ledger(allocated_blocks, addresses,
                 events \o New(Own(bridge, Base(b))) \o Del(Own(bridge, Base(b))),
                 bridge', pn_hash)
      BY <1>1, <1>7, <2>1, LedgerUpAndDown
    <3> QED BY <2>3, <3>1
  <2> QED BY <2>2, <2>3
<1>9. Ledger(allocated_blocks, addresses, events, bridge, pn_hash)'
  BY <1>8
<1>10. TetherOK'
  <2>1. /\ tethering_dhcp_server # "live" /\ dhcp_servers = 0
        /\ \A x \in Infos : x.pool # Tether
    BY <1>1 DEF IInv, TetherOK
  <2>2. ~Running' /\ ~ tethering_enabled' >= 1
    BY <1>2 DEF Running
  <2> QED BY <1>2, <2>1, <2>2, Names DEF TetherOK, Infos
<1>11. YieldOK(Infos, tolerated)'
  BY DEF IInv, Infos
<1> QED BY <1>3, <1>4, <1>6, <1>9, <1>10, <1>11 DEF IInv

LEMMA NoBlockOK ==
  ASSUME IInv, NoBlock
  PROVE  IInv'
<1>1. last_block \in Blocks \cup {NULL}
  BY DEF IInv, Scalars
<1> QED BY <1>1, GaveUpOK DEF NoBlock, kernel

LEMMA FailedOK ==
  ASSUME IInv, NEW stage, Failed(stage)
  PROVE  IInv'
<1> DEFINE own == Own(bridge, Base(search.block))
<1>1. /\ Found /\ Searching(Tether) /\ GiveUp
      /\ last_block' = search.block /\ dhcp_ippool' = "freed"
      /\ events' = events \/ events' = events \o New(own) \o Del(own)
      /\ tethering_dhcp_server' \in {tethering_dhcp_server, NULL, "freed"}
      /\ UNCHANGED <<allocated_blocks, dhcp_servers, tethering, pn_hash, addresses, tolerated>>
  BY DEF Failed
<1>2. search.block \in Blocks
  BY <1>1 DEF IInv, Scalars, Found
<1>3. \/ UNCHANGED events
      \/ \E b \in Blocks :
           events' = events \o New(Own(bridge, Base(b))) \o Del(Own(bridge, Base(b)))
  BY <1>1, <1>2
<1> QED BY <1>1, <1>2, <1>3, GaveUpOK

LEMMA RequestPrivateOK ==
  ASSUME IInv, NEW p \in PrivateNetworks, RequestPrivate(p)
  PROVE  IInv'
<1>1. /\ search = NULL /\ pn_hash[p] = "none" /\ Fresh(p) /\ SearchFor(p)
      /\ UNCHANGED <<allocated_blocks, last_block, tethering, tethering_enabled, bridge>>
      /\ UNCHANGED <<dhcp_ippool, tethering_dhcp_server, dhcp_servers>>
      /\ UNCHANGED <<pn_hash, addresses, events, tolerated>>
  BY DEF RequestPrivate, Idle, started, kernel
<1>2. /\ search' \in [owner : Owners, block : Blocks] /\ search' # NULL
      /\ search'.owner = p
  BY <1>1, FirstBlock, Names DEF IInv
<1>3. /\ ~Searching(Tether) /\ ~Searching(Tether)'
      /\ \A q \in PrivateNetworks : Searching(q)' => q = p
  BY <1>1, <1>2, Names DEF Searching
<1>4. Scalars'
  BY <1>1, <1>2 DEF IInv, Scalars
<1>5. CountOK'
  BY <1>1, CountKept DEF IInv
<1>6. SearchOK'
  <2>1. Unused(addresses, ToSet(events), p)
    BY <1>1, FreshUnused
  <2> QED BY <1>1, <1>3, <2>1 DEF SearchOK
<1>7. TetherOK'
  BY <1>1, <1>3 DEF IInv, TetherOK, Running, Infos
<1>8. Ledger(allocated_blocks, addresses, events, bridge, pn_hash)'
  BY <1>1 DEF IInv
<1>9. YieldOK(Infos, tolerated)'
  BY <1>1 DEF IInv, Infos
<1> QED BY <1>4, <1>5, <1>6, <1>7, <1>8, <1>9 DEF IInv

LEMMA RequestedOK ==
  ASSUME IInv, NEW p \in PrivateNetworks, Requested(p)
  PROVE  IInv'
<1> DEFINE y == PoolInfo(p, PrivateRange, p)
<1>1. /\ Searching(p) /\ search' = NULL
      /\ UNCHANGED <<tethering, tethering_enabled, bridge, addresses, events>>
      /\ UNCHANGED <<dhcp_ippool, tethering_dhcp_server, dhcp_servers>>
  BY DEF Requested, started, kernel
<1>2. ~Searching(Tether) /\ \A o : ~Searching(o)'
  BY <1>1, Names DEF Searching
<1>3. CountOK'
  BY <1>1, CountKept DEF IInv
<1>4. SearchOK'
  BY <1>2 DEF SearchOK
<1>5. Running' <=> Running
  BY <1>1, <1>2 DEF Running
<1>6. CASE Exhausted /\ UNCHANGED <<allocated_blocks, last_block, pn_hash, tolerated>>
  <2>1. Scalars'
    BY <1>1, <1>6 DEF IInv, Scalars
  <2>2. TetherOK'
    BY <1>1, <1>5, <1>6 DEF IInv, TetherOK, Infos
  <2>3. Ledger(allocated_blocks, addresses, events, bridge, pn_hash)'
    BY <1>1, <1>6 DEF IInv
  <2>4. YieldOK(Infos, tolerated)'
    BY <1>6 DEF IInv, Infos
  <2> QED BY <1>3, <1>4, <2>1, <2>2, <2>3, <2>4 DEF IInv
<1>7. CASE /\ Found /\ allocated_blocks' = <<y>> \o allocated_blocks
           /\ last_block' = search.block /\ pn_hash' = [pn_hash EXCEPT ![p] = "requested"]
           /\ tolerated' = tolerated \ {Base(search.block)}
  <2>1. p \in OwnIndexes /\ p \in Owners /\ PrivateRange \in 0 .. 1 /\ p # Tether
    BY Names, TetheringAssumption DEF OwnIndexes
  <2>2. /\ Fits(Infos, y) /\ y.start = Base(search.block) /\ search.block \in Blocks
        /\ y.index = p /\ y.pool = p
    BY <1>7, <2>1, FoundFits DEF IInv
  <2> HIDE DEF y
  <2>3. Scalars'
    <3>1. pn_hash' \in [PrivateNetworks -> {"none", "requested", "up"}]
      BY <1>7 DEF IInv, Scalars
    <3> QED BY <1>1, <1>7, <2>2, <3>1 DEF IInv, Scalars
  <2>4. /\ Ledger(<<y>> \o allocated_blocks, addresses, events, bridge, pn_hash')
        /\ ToSet(<<y>> \o allocated_blocks) = Infos \cup {y}
    <3>1. pn_hash \in PnStates /\ Fits(ToSet(allocated_blocks), y)
      BY <2>2 DEF IInv, Scalars, PnStates, Infos
    <3>2. /\ Ledger(allocated_blocks, addresses, events, bridge, pn_hash)
          /\ pn_hash[p] = "none" /\ Unused(addresses, ToSet(events), p)
      BY <1>1 DEF IInv, SearchOK
    <3>3. Acquires(p, pn_hash, pn_hash')
      BY <1>7 DEF Acquires
    <3> QED BY <2>2, <3>1, <3>2, <3>3, LedgerMadePrivate DEF Infos
  <2>5. Ledger(allocated_blocks, addresses, events, bridge, pn_hash)'
    BY <1>1, <1>7, <2>4
  <2>6. Infos' = Infos \cup {y}
    BY <1>7, <2>4 DEF Infos
  <2>7. TetherOK'
    BY <1>1, <1>5, <2>1, <2>2, <2>6 DEF IInv, TetherOK
  <2>8. YieldOK(Infos, tolerated)'
    <3>1. YieldOK(Infos, tolerated) /\ InfosOK(Infos)
      BY DEF IInv, Ledger, Book, Infos
    <3>2. YieldOK(Infos \cup {y}, tolerated \ {y.start})
      BY <2>2, <3>1, YieldMade
    <3> QED BY <1>7, <2>2, <2>6, <3>2
  <2> QED BY <1>3, <1>4, <2>3, <2>5, <2>7, <2>8 DEF IInv
<1> QED BY <1>6, <1>7 DEF Requested

\* A private network is removed, from any list with the same pools.
LEMMA RemovedPrivateOK ==
  ASSUME NEW L, NEW A, NEW Q, NEW pn \in PnStates, Ledger(L, A, Q, bridge, pn), Scalars,
         NEW p \in PrivateNetworks, NEW x \in ToSet(L), x.pool = p, PoolStart(p) = x.start,
         pn_hash' = [pn EXCEPT ![p] = "none"], NEW had \in BOOLEAN,
         IF had THEN Addressed(A, ToSet(Q), x) ELSE Unused(A, ToSet(Q), x.index),
         remove_private_network(p, L, Q, had)
  PROVE  /\ Ledger(allocated_blocks', A, events', bridge, pn_hash')
         /\ Infos' = ToSet(L) \ {x} /\ pn_hash' \in PnStates
<1> DEFINE R == events'
<1>1. allocated_blocks' = Unref(L, p) /\ x.index = p
  BY DEF remove_private_network, Ledger, PoolsOK
<1>2. Q \in Seq(EventSet)
  BY DEF Ledger, QueueOK
<1>3. Withdraws(A, Q, R, x)
  <2>1. CASE had = TRUE
    <3>1. R = Q \o <<Event("del", Own(x.index, x.start))>>
      BY <1>1, <2>1 DEF remove_private_network, Del
    <3> QED BY <2>1, <3>1 DEF Withdraws
  <2>2. CASE had = FALSE
    <3>1. R = Q
      BY <1>2, <2>2 DEF remove_private_network
    <3> QED BY <2>2, <3>1 DEF Withdraws
  <2> QED BY <2>1, <2>2
<1>4. Disowns(x, bridge, pn, bridge, pn_hash')
  BY DEF Disowns
<1>5. bridge \notin PrivateNetworks /\ x.pool # NULL
  BY BridgeApart, Names
<1> HIDE DEF R
<1>6. /\ Ledger(Unref(L, x.pool), A, R, bridge, pn_hash')
      /\ ToSet(Unref(L, x.pool)) = ToSet(L) \ {x}
  BY <1>3, <1>4, <1>5, LedgerUnref
<1>7. Infos' = ToSet(L) \ {x}
  BY <1>1, <1>6 DEF Infos
<1>8. pn_hash' \in PnStates
  BY DEF PnStates
<1> QED BY <1>1, <1>6, <1>7, <1>8 DEF R

\* While a private network is known, it has one pool, where PoolStart says.
LEMMA PrivatePool ==
  ASSUME IInv, NEW p \in PrivateNetworks, pn_hash[p] # "none"
  PROVE  \E x \in Infos : /\ x.pool = p /\ PoolStart(p) = x.start /\ x.index = p
                          /\ pn_hash[p] \in {"requested", "up"}
                          /\ IF pn_hash[p] = "up" THEN Addressed(addresses, ToSet(events), x)
                             ELSE Unused(addresses, ToSet(events), x.index)
<1>1. ListOK(allocated_blocks) /\ PoolsOK(Infos, addresses, ToSet(events), bridge, pn_hash)
  BY DEF IInv, Ledger, Infos
<1>2. PICK x \in Infos : x.pool = p
  BY <1>1 DEF PoolsOK
<1>3. \A y \in Infos : y.pool = x.pool => y = x
  BY <1>1, <1>2, Names DEF PoolsOK, OnePoolEach
<1>4. PoolStart(x.pool) = x.start
  BY <1>1, <1>3, PoolStarts
<1>5. /\ x.index = p
      /\ \/ pn_hash[p] = "requested" /\ Unused(addresses, ToSet(events), x.index)
         \/ pn_hash[p] = "up" /\ Addressed(addresses, ToSet(events), x)
  BY <1>1, <1>2 DEF PoolsOK
<1> QED BY <1>2, <1>4, <1>5

\* What removing a private network leaves alone.
LEMMA PrivateGone ==
  ASSUME IInv, Idle, NEW x \in Infos, x.pool # Tether, Infos' = Infos \ {x},
         Ledger(allocated_blocks', addresses', events', bridge', pn_hash'), pn_hash' \in PnStates,
         UNCHANGED <<last_block, search, tethering, tethering_enabled, bridge, tolerated>>,
         UNCHANGED <<dhcp_ippool, tethering_dhcp_server, dhcp_servers>>
  PROVE  IInv'
<1>1. \A o : ~Searching(o) /\ ~Searching(o)'
  BY DEF Searching, Idle
<1>2. Scalars'
  BY DEF IInv, Scalars, PnStates
<1>3. CountOK'
  BY CountKept DEF IInv
<1>4. SearchOK'
  BY <1>1 DEF SearchOK
<1>5. TetherOK'
  BY <1>1 DEF IInv, TetherOK, Running
<1>6. YieldOK(Infos, tolerated)'
  BY YieldSubset DEF IInv
<1> QED BY <1>2, <1>3, <1>4, <1>5, <1>6 DEF IInv

LEMMA ReleasePrivateOK ==
  ASSUME IInv, NEW p \in PrivateNetworks, ReleasePrivate(p)
  PROVE  IInv'
<1> DEFINE had == pn_hash[p] = "up"
<1>1. /\ Idle /\ pn_hash[p] # "none" /\ UNCHANGED <<tethering, addresses>>
      /\ remove_private_network(p, allocated_blocks, events, had)
  BY DEF ReleasePrivate
<1>2. PICK x \in Infos : /\ x.pool = p /\ PoolStart(p) = x.start
                         /\ IF had THEN Addressed(addresses, ToSet(events), x)
                            ELSE Unused(addresses, ToSet(events), x.index)
  BY <1>1, PrivatePool
<1>3. had \in BOOLEAN
  OBVIOUS
<1> HIDE DEF had
<1>4. /\ pn_hash' = [pn_hash EXCEPT ![p] = "none"]
      /\ UNCHANGED <<last_block, search, tethering_enabled, bridge, tolerated>>
      /\ UNCHANGED <<dhcp_ippool, tethering_dhcp_server, dhcp_servers>>
  BY <1>1 DEF remove_private_network
<1>5. /\ pn_hash \in PnStates /\ Scalars
      /\ Ledger(allocated_blocks, addresses, events, bridge, pn_hash)
  BY DEF IInv, Scalars, PnStates
<1>6. /\ Ledger(allocated_blocks', addresses, events', bridge, pn_hash')
      /\ Infos' = Infos \ {x} /\ pn_hash' \in PnStates
  BY <1>1, <1>2, <1>3, <1>4, <1>5, RemovedPrivateOK DEF Infos
<1>7. x.pool # Tether /\ Ledger(allocated_blocks', addresses', events', bridge', pn_hash')
  BY <1>1, <1>2, <1>4, <1>6, Names
<1> QED BY <1>1, <1>4, <1>6, <1>7, PrivateGone

LEMMA SetupTunOK ==
  ASSUME IInv, NEW p \in PrivateNetworks, setup_tun_interface(p)
  PROVE  IInv'
<1> DEFINE own == Own(p, PoolStart(p))
           up == [pn_hash EXCEPT ![p] = "up"]
           Q == events \o New(own)
<1>1. Idle /\ pn_hash[p] = "requested" /\ UNCHANGED <<tethering, addresses>>
  BY DEF setup_tun_interface
<1>2. PICK x \in Infos : x.pool = p /\ PoolStart(p) = x.start /\ x.index = p
  BY <1>1, PrivatePool
<1>3. /\ pn_hash \in PnStates /\ Scalars /\ bridge \notin PrivateNetworks
      /\ Ledger(allocated_blocks, addresses, events, bridge, pn_hash)
  BY BridgeApart DEF IInv, Scalars, PnStates
<1>4. Q = events \o <<Event("new", Own(x.index, x.start))>>
  BY <1>2 DEF New
<1>5. Ledger(allocated_blocks, addresses, Q, bridge, up) /\ Addressed(addresses, ToSet(Q), x)
  BY <1>1, <1>2, <1>3, <1>4, LedgerSetUp DEF Infos
<1>6. up \in PnStates
  BY <1>3 DEF PnStates
<1>7. CASE /\ pn_hash' = up /\ events' = Q
           /\ UNCHANGED <<pool_vars, tethering_enabled, bridge, tolerated>>
           /\ UNCHANGED <<dhcp_ippool, tethering_dhcp_server, dhcp_servers>>
  <2>1. UNCHANGED <<allocated_blocks, last_block, search>>
    BY <1>7 DEF pool_vars
  <2>2. \A o : ~Searching(o) /\ ~Searching(o)'
    BY <1>1, <2>1 DEF Searching, Idle
  <2> HIDE DEF Q, up
  <2>3. Scalars'
    BY <1>6, <1>7, <2>1 DEF IInv, Scalars, PnStates
  <2>4. CountOK'
    BY <1>1, <1>7, CountKept DEF IInv
  <2>5. SearchOK'
    BY <2>2 DEF SearchOK
  <2>6. TetherOK'
    BY <1>7, <2>1, <2>2 DEF IInv, TetherOK, Running, Infos
  <2>7. Ledger(allocated_blocks, addresses, events, bridge, pn_hash)'
    BY <1>1, <1>5, <1>7, <2>1
  <2>8. YieldOK(Infos, tolerated)'
    BY <1>7, <2>1 DEF IInv, Infos
  <2> QED BY <2>3, <2>4, <2>5, <2>6, <2>7, <2>8 DEF IInv
<1>8. CASE remove_private_network(p, allocated_blocks, Q, TRUE)
  <2> HIDE DEF Q
  <2>1. /\ pn_hash' = [pn_hash EXCEPT ![p] = "none"]
        /\ UNCHANGED <<last_block, search, tethering_enabled, bridge, tolerated>>
        /\ UNCHANGED <<dhcp_ippool, tethering_dhcp_server, dhcp_servers>>
    BY <1>8 DEF remove_private_network
  <2>2. pn_hash' = [up EXCEPT ![p] = "none"]
    BY <1>3, <2>1 DEF PnStates
  <2> HIDE DEF up
  <2>3. TRUE \in BOOLEAN /\ (IF TRUE THEN Addressed(addresses, ToSet(Q), x)
                             ELSE Unused(addresses, ToSet(Q), x.index))
    BY <1>5
  <2>4. /\ Ledger(allocated_blocks', addresses, events', bridge, pn_hash')
        /\ Infos' = Infos \ {x} /\ pn_hash' \in PnStates
    BY <1>2, <1>3, <1>5, <1>6, <1>8, <2>2, <2>3, RemovedPrivateOK DEF Infos
  <2>5. x.pool # Tether /\ Ledger(allocated_blocks', addresses', events', bridge', pn_hash')
    BY <1>1, <1>2, <2>1, <2>4, Names
  <2> QED BY <1>1, <2>1, <2>4, <2>5, PrivateGone
<1> QED BY <1>7, <1>8 DEF setup_tun_interface

(***************************************************************************)
(* An address comes or goes.                                                *)
(***************************************************************************)
\* What is not known of remains unknown when a report is handled.
LEMMA StaysUnused ==
  ASSUME NEW A, NEW V, NEW W, NEW a, Arrives(A, V, W, a), NEW i \in OwnIndexes, Unused(A, V, i)
  PROVE  Unused(A \cup {a}, W, i)
<1>1. a.index # i
  <2>1. CASE a \in OtherAddrs
    BY <2>1, OwnAddresses
  <2>2. CASE Event("new", a) \in V
    BY <2>2 DEF Unused, Event
  <2> QED BY <2>1, <2>2 DEF Arrives
<1>2. W \subseteq V
  BY DEF Arrives
<1> QED BY <1>1, <1>2 DEF Unused

\* The address makes no pool give way.
LEMMA CameQuietly ==
  ASSUME IInv, Idle, NEW a, NEW queue, ReportedNew(a, queue),
         addresses' = addresses \cup {a}, allocated_blocks' = Entered(a.index, a.start, a.end),
         events' = queue, tolerated \subseteq tolerated',
         (\A x \in Infos : ~SameKey(x, a)) =>
           \A x \in Infos : x.pool # NULL /\ x.start = a.start => a.start \in tolerated',
         UNCHANGED <<last_block, search, tethering, tethering_enabled, bridge, pn_hash>>,
         UNCHANGED <<dhcp_ippool, tethering_dhcp_server, dhcp_servers>>
  PROVE  IInv'
<1> DEFINE list == Entered(a.index, a.start, a.end)
<1>1. /\ Ledger(list, addresses \cup {a}, queue, bridge, pn_hash)
      /\ AddedTo(Infos, ToSet(list), a) /\ a \in NetAddrs
  BY LedgerCame DEF IInv
<1> HIDE DEF list
<1>2. allocated_blocks' = list /\ Infos' = ToSet(list)
  BY DEF list, Infos
<1>3. \A o : ~Searching(o) /\ ~Searching(o)'
  BY DEF Searching, Idle
<1>4. Scalars'
  BY DEF IInv, Scalars
<1>5. CountOK'
  BY CountKept DEF IInv
<1>6. SearchOK'
  BY <1>3 DEF SearchOK
<1>7. InfosOK(Infos)
  BY DEF IInv, Ledger, Book, Infos
<1>8. (\E x \in Infos' : x.pool = Tether) <=> \E x \in Infos : x.pool = Tether
  <2>1. /\ \A z \in Infos' : z.pool # NULL => \E x \in Infos : SamePool(x, z)
        /\ \A x \in Infos : \E z \in Infos' : SamePool(x, z)
    BY <1>1, <1>2, <1>7, AddedPools
  <2> QED BY <2>1, Names DEF SamePool
<1>9. TetherOK'
  <2>1. Running' <=> Running
    BY <1>3 DEF Running
  <2> QED BY <1>8, <2>1 DEF IInv, TetherOK
<1>10. Ledger(allocated_blocks, addresses, events, bridge, pn_hash)'
  BY <1>1, <1>2
<1>11. YieldOK(Infos, tolerated)'
  <2>1. YieldOK(Infos, tolerated)
    BY DEF IInv
  <2>2. YieldOK(ToSet(list), tolerated')
    BY <1>1, <1>7, <2>1, YieldCame
  <2> QED BY <1>2, <2>2
<1> QED BY <1>4, <1>5, <1>6, <1>9, <1>10, <1>11 DEF IInv

\* The pool that has to give way, before and after the address is entered.
LEMMA CollidingEntry ==
  ASSUME IInv, NEW a, NEW queue, ReportedNew(a, queue), NEW o \in Owners,
         CollidingPool(a.index, a.start) = o
  PROVE  LET list == Entered(a.index, a.start, a.end)
         IN  \E x \in Infos, z \in ToSet(list) :
               /\ x.pool = o /\ SamePool(x, z) /\ PoolStart(o) = z.start
               /\ YieldOK(ToSet(list) \ {z}, tolerated)
<1> DEFINE list == Entered(a.index, a.start, a.end)
<1>1. /\ Ledger(list, addresses \cup {a}, queue, bridge, pn_hash)
      /\ AddedTo(Infos, ToSet(list), a) /\ a \in NetAddrs
  BY LedgerCame DEF IInv
<1> HIDE DEF list
<1>2. ListOK(allocated_blocks) /\ InfosOK(Infos) /\ OnePoolEach(Infos) /\ YieldOK(Infos, tolerated)
  BY DEF IInv, Ledger, Book, Infos, PoolsOK
<1>3. o # NULL
  BY NullAssumption
<1>4. PICK x \in Infos : x.pool = o /\ Holds(x, a.start)
  BY <1>2, <1>3, CollidingPoolHolds
<1>5. PICK z \in ToSet(list) : SamePool(x, z)
  BY <1>1, <1>2, AddedPools
<1>6. PoolStart(x.pool) = x.start
  <2>1. \A y \in Infos : y.pool = x.pool => y = x
    BY <1>2, <1>3, <1>4 DEF OnePoolEach
  <2> QED BY <1>2, <2>1, PoolStarts
<1>7. OnePoolEach(ToSet(list))
  BY <1>1 DEF Ledger, PoolsOK
<1>8. YieldOK(ToSet(list) \ {z}, tolerated)
  BY <1>1, <1>2, <1>3, <1>4, <1>5, <1>7, YieldMoved
<1>9. PoolStart(o) = z.start
  BY <1>4, <1>5, <1>6 DEF SamePool, SameKey
<1> QED BY <1>4, <1>5, <1>8, <1>9 DEF list

\* The tethering pool gives way: everything is taken down and started again.
LEMMA CameRestarting ==
  ASSUME IInv, Idle, NEW a, NEW queue, ReportedNew(a, queue),
         CollidingPool(a.index, a.start) = Tether, tethering_enabled = 1,
         addresses' = addresses \cup {a},
         TakeDown(Entered(a.index, a.start, a.end), queue), Begin,
         UNCHANGED <<tethering, pn_hash, tolerated>>
  PROVE  IInv'
<1> DEFINE list == Entered(a.index, a.start, a.end)
           A == addresses \cup {a}
<1>1. /\ Ledger(list, A, queue, bridge, pn_hash)
      /\ Arrives(addresses, ToSet(events), ToSet(queue), a)
  BY LedgerCame DEF IInv
<1>2. PICK x \in Infos, z \in ToSet(list) :
        /\ x.pool = Tether /\ SamePool(x, z) /\ PoolStart(Tether) = z.start
        /\ YieldOK(ToSet(list) \ {z}, tolerated)
  BY CollidingEntry, Names
<1>3. z.pool = Tether
  BY <1>2 DEF SamePool
<1> HIDE DEF list, A
<1>4. /\ Ledger(allocated_blocks', A, events', bridge', pn_hash)
      /\ Infos' = ToSet(list) \ {z} /\ \A y \in Infos' : y.pool # Tether
      /\ \A i \in OwnIndexes : i # bridge /\ Unused(A, ToSet(queue), i) => Unused(A, ToSet(events'), i)
  BY <1>1, <1>2, <1>3, TakeDownOK DEF IInv, list
<1>5. /\ bridge' \in BridgeIndexes \cup {NULL} /\ tethering_enabled' \in {0, 1}
      /\ search' \in [owner : Owners, block : Blocks] \cup {NULL}
      /\ tethering_enabled' = 1 <=> bridge' # NULL
      /\ tethering_enabled' = 1 <=> Searching(Tether)'
      /\ \A p \in PrivateNetworks : ~Searching(p)'
      /\ tethering_enabled' = 1 => /\ Unused(addresses, ToSet(events), bridge')
                                   /\ bridge' # bridge /\ bridge' \in BridgeIndexes
  BY BeginOK DEF IInv
<1>6. /\ dhcp_servers' = dhcp_servers - 1 /\ tethering_dhcp_server' = NULL
      /\ dhcp_ippool' = "freed" /\ last_block' = last_block
  BY DEF TakeDown
<1>7. Scalars'
  BY <1>5, <1>6 DEF IInv, Scalars
<1>8. CountOK'
  BY <1>5, CountKept DEF IInv
<1>9. SearchOK'
  <2>1. ASSUME tethering_enabled' = 1
        PROVE  Unused(A, ToSet(events'), bridge')
    <3>1. bridge' \in OwnIndexes /\ bridge' # bridge /\ Unused(addresses, ToSet(events), bridge')
      BY <1>5, <2>1 DEF OwnIndexes
    <3>2. Unused(A, ToSet(queue), bridge')
      BY <1>1, <3>1, StaysUnused DEF A
    <3> QED BY <1>4, <3>1, <3>2
  <2> QED BY <1>5, <2>1 DEF SearchOK, A
<1>10. TetherOK'
  <2>1. Running
    BY DEF Running, Searching, Idle
  <2>2. dhcp_servers = 1
    BY <2>1 DEF IInv, TetherOK
  <2>3. ~Running' /\ (tethering_enabled' >= 1 <=> bridge' # NULL) /\ dhcp_servers' = 0
    BY <1>5, <1>6, <2>2 DEF Running
  <2> QED BY <1>4, <1>6, <2>3, Names DEF TetherOK
<1>11. Ledger(allocated_blocks, addresses, events, bridge, pn_hash)'
  BY <1>4 DEF A
<1>12. YieldOK(Infos, tolerated)'
  BY <1>2, <1>4
<1> QED BY <1>7, <1>8, <1>9, <1>10, <1>11, <1>12 DEF IInv

\* The pool of a private network gives way, and the network with it.
LEMMA CameRemoving ==
  ASSUME IInv, Idle, NEW a, NEW queue, ReportedNew(a, queue), NEW p \in PrivateNetworks,
         CollidingPool(a.index, a.start) = p, addresses' = addresses \cup {a},
         remove_private_network(p, Entered(a.index, a.start, a.end), queue, pn_hash[p] = "up"),
         UNCHANGED tethering
  PROVE  IInv'
<1> DEFINE list == Entered(a.index, a.start, a.end)
           A == addresses \cup {a}
           had == pn_hash[p] = "up"
<1>1. /\ Ledger(list, A, queue, bridge, pn_hash) /\ AddedTo(Infos, ToSet(list), a)
      /\ a \in NetAddrs
  BY LedgerCame DEF IInv
<1>2. PICK x \in Infos, z \in ToSet(list) :
        /\ x.pool = p /\ SamePool(x, z) /\ PoolStart(p) = z.start
        /\ YieldOK(ToSet(list) \ {z}, tolerated)
  BY CollidingEntry, Names
<1>3. z.pool = p
  BY <1>2 DEF SamePool
<1>4. IF had THEN Addressed(A, ToSet(queue), z) ELSE Unused(A, ToSet(queue), z.index)
  BY <1>1, <1>3 DEF Ledger, PoolsOK
<1>5. had \in BOOLEAN
  OBVIOUS
<1>6. remove_private_network(p, list, queue, had)
  OBVIOUS
<1> HIDE DEF list, A, had
<1>7. /\ pn_hash' = [pn_hash EXCEPT ![p] = "none"]
      /\ UNCHANGED <<last_block, search, tethering_enabled, bridge, tolerated>>
      /\ UNCHANGED <<dhcp_ippool, tethering_dhcp_server, dhcp_servers>>
  BY <1>6 DEF remove_private_network
<1>8. pn_hash \in PnStates /\ Scalars
  BY DEF IInv, Scalars, PnStates
<1>9. /\ Ledger(allocated_blocks', A, events', bridge, pn_hash')
      /\ Infos' = ToSet(list) \ {z} /\ pn_hash' \in PnStates
  BY <1>1, <1>2, <1>3, <1>4, <1>5, <1>6, <1>7, <1>8, RemovedPrivateOK
<1>10. \A o : ~Searching(o) /\ ~Searching(o)'
  BY <1>7 DEF Searching, Idle
<1>11. Scalars'
  BY <1>7, <1>9 DEF IInv, Scalars, PnStates
<1>12. CountOK'
  BY <1>7, CountKept DEF IInv
<1>13. SearchOK'
  BY <1>10 DEF SearchOK
<1>14. (\E y \in Infos' : y.pool = Tether) <=> \E y \in Infos : y.pool = Tether
  <2>1. InfosOK(Infos)
    BY DEF IInv, Ledger, Book, Infos
  <2>2. /\ \A y \in ToSet(list) : y.pool # NULL => \E w \in Infos : SamePool(w, y)
        /\ \A w \in Infos : \E y \in ToSet(list) : SamePool(w, y)
    BY <1>1, <2>1, AddedPools
  <2> QED BY <1>3, <1>9, <2>2, Names DEF SamePool
<1>15. TetherOK'
  <2>1. Running' <=> Running
    BY <1>7, <1>10 DEF Running
  <2> QED BY <1>7, <1>14, <2>1 DEF IInv, TetherOK
<1>16. Ledger(allocated_blocks, addresses, events, bridge, pn_hash)'
  BY <1>7, <1>9 DEF A
<1>17. YieldOK(Infos, tolerated)'
  BY <1>2, <1>7, <1>9
<1> QED BY <1>11, <1>12, <1>13, <1>15, <1>16, <1>17 DEF IInv

LEMMA NewaddrOK ==
  ASSUME IInv, Idle, NEW a, NEW queue, ReportedNew(a, queue), newaddr(a, queue)
  PROVE  IInv'
<1> DEFINE list == Entered(a.index, a.start, a.end)
           pool == CollidingPool(a.index, a.start)
<1>1. addresses' = addresses \cup {a} /\ UNCHANGED tethering
  BY DEF newaddr
<1>2. CASE /\ pool = NULL /\ allocated_blocks' = list /\ events' = queue
           /\ tolerated' = IF Masked(a) THEN tolerated \cup {a.start} ELSE tolerated
           /\ UNCHANGED <<last_block, search, tethering_enabled, bridge, started, pn_hash>>
  <2>1. tolerated \subseteq tolerated' /\ UNCHANGED <<dhcp_ippool, tethering_dhcp_server, dhcp_servers>>
    BY <1>2 DEF started
  <2>2. ASSUME \A x \in Infos : ~SameKey(x, a), NEW x \in Infos, x.pool # NULL, x.start = a.start
        PROVE  a.start \in tolerated'
    <3>1. ListOK(allocated_blocks) /\ InfosOK(Infos)
      BY DEF IInv, Ledger, Book, Infos
    <3>2. lookup_info(a.index, a.start) = {}
      <4>1. SUFFICES ASSUME lookup_info(a.index, a.start) # {} PROVE FALSE
        OBVIOUS
      <4>2. \E y \in Infos : SameKey(y, a)
        BY <3>1, <4>1, LookedUp
      <4> QED BY <2>2, <4>2
    <3>3. Holds(x, a.start)
      <4>1. x.start <= x.end /\ x.start \in Int
        BY <3>1, BlockAddresses DEF InfosOK, InfoSet
      <4> QED BY <2>2, <4>1 DEF Holds
    <3>4. Masked(a)
      BY <2>2, <3>2, <3>3 DEF Masked
    <3> QED BY <1>2, <3>4
  <2> QED BY <1>1, <1>2, <2>1, <2>2, CameQuietly
<1>3. CASE pool = Tether /\ tethering_restart(list, queue, a.start) /\ UNCHANGED pn_hash
  <2>1. CASE /\ tethering_enabled = 1 /\ TakeDown(list, queue) /\ Begin /\ UNCHANGED tolerated
    BY <1>1, <1>3, <2>1, CameRestarting
  <2>2. CASE /\ tethering_enabled # 1 /\ allocated_blocks' = list /\ events' = queue
             /\ tolerated' = tolerated \cup {a.start}
             /\ UNCHANGED <<last_block, search, tethering_enabled, bridge, started>>
    <3>1. /\ tolerated \subseteq tolerated' /\ a.start \in tolerated'
          /\ UNCHANGED <<dhcp_ippool, tethering_dhcp_server, dhcp_servers>>
      BY <2>2 DEF started
    <3> QED BY <1>1, <1>3, <2>2, <3>1, CameQuietly
  <2> QED BY <1>3, <2>1, <2>2 DEF tethering_restart
<1>4. CASE /\ pool \in PrivateNetworks
           /\ remove_private_network(pool, list, queue, pn_hash[pool] = "up")
  BY <1>1, <1>4, CameRemoving
<1> QED BY <1>2, <1>3, <1>4 DEF newaddr

LEMMA DeladdrOK ==
  ASSUME IInv, Idle, NEW a, NEW queue, ReportedDel(a, queue), deladdr(a, queue)
  PROVE  IInv'
<1> DEFINE list == Deleted(a.index, a.start)
<1>1. /\ addresses' = addresses \ {a} /\ allocated_blocks' = list /\ events' = queue
      /\ UNCHANGED <<last_block, search, tethering, tethering_enabled, bridge, pn_hash, tolerated>>
      /\ UNCHANGED <<dhcp_ippool, tethering_dhcp_server, dhcp_servers>>
  BY DEF deladdr, started
<1>2. /\ Ledger(list, addresses \ {a}, queue, bridge, pn_hash)
      /\ TakenFrom(Infos, ToSet(list), a)
  BY LedgerWent DEF IInv
<1> HIDE DEF list
<1>3. Infos' = ToSet(list)
  BY <1>1 DEF Infos
<1>4. \A o : ~Searching(o) /\ ~Searching(o)'
  BY <1>1 DEF Searching, Idle
<1>5. Scalars'
  BY <1>1 DEF IInv, Scalars
<1>6. CountOK'
  BY <1>1, CountKept DEF IInv
<1>7. SearchOK'
  BY <1>4 DEF SearchOK
<1>8. InfosOK(Infos)
  BY DEF IInv, Ledger, Book, Infos
<1>9. (\E y \in Infos' : y.pool = Tether) <=> \E y \in Infos : y.pool = Tether
  <2>1. /\ \A z \in Infos' : \E x \in Infos : SamePool(x, z)
        /\ \A x \in Infos : x.pool # NULL \/ ~SameKey(x, a) => \E z \in Infos' : SamePool(x, z)
    BY <1>2, <1>3, <1>8, TakenPools
  <2> QED BY <2>1, Names DEF SamePool
<1>10. TetherOK'
  <2>1. Running' <=> Running
    BY <1>1, <1>4 DEF Running
  <2> QED BY <1>1, <1>9, <2>1 DEF IInv, TetherOK
<1>11. Ledger(allocated_blocks, addresses, events, bridge, pn_hash)'
  BY <1>1, <1>2
<1>12. YieldOK(Infos, tolerated)'
  <2>1. YieldOK(Infos, tolerated)
    BY DEF IInv
  <2>2. YieldOK(ToSet(list), tolerated)
    BY <1>2, <1>8, <2>1, YieldWent
  <2> QED BY <1>1, <1>3, <2>2
<1> QED BY <1>5, <1>6, <1>7, <1>10, <1>11, <1>12 DEF IInv

-----------------------------------------------------------------------------
(***************************************************************************)
(* The invariant is inductive.                                              *)
(***************************************************************************)
LEMMA StutterOK ==
  ASSUME IInv, UNCHANGED vars
  PROVE  IInv'
<1>1. /\ UNCHANGED <<allocated_blocks, last_block, search>>
      /\ UNCHANGED <<tethering, tethering_enabled, bridge, pn_hash, tolerated>>
      /\ UNCHANGED <<dhcp_ippool, tethering_dhcp_server, dhcp_servers, addresses, events>>
  BY DEF vars, pool_vars, started, kernel
<1>2. Scalars'
  BY <1>1 DEF IInv, Scalars
<1>3. CountOK'
  BY <1>1, CountKept DEF IInv
<1>4. SearchOK'
  BY <1>1 DEF IInv, SearchOK, Searching
<1>5. TetherOK'
  BY <1>1 DEF IInv, TetherOK, Running, Searching, Infos
<1>6. Ledger(allocated_blocks, addresses, events, bridge, pn_hash)'
  BY <1>1 DEF IInv
<1>7. YieldOK(Infos, tolerated)'
  BY <1>1 DEF IInv, Infos
<1> QED BY <1>2, <1>3, <1>4, <1>5, <1>6, <1>7 DEF IInv

LEMMA NextOK == IInv /\ [Next]_vars => IInv'
<1> SUFFICES ASSUME IInv, [Next]_vars PROVE IInv'
  OBVIOUS
<1>1. ASSUME NEW t \in Technologies, Enable(t) \/ Disable(t)
      PROVE  IInv'
  BY <1>1, EnableOK, DisableOK
<1>2. ASSUME NEW p \in PrivateNetworks,
             RequestPrivate(p) \/ setup_tun_interface(p) \/ ReleasePrivate(p)
      PROVE  IInv'
  BY <1>2, RequestPrivateOK, SetupTunOK, ReleasePrivateOK
<1>3. ASSUME NEW a \in ExtAddrs, ExtNewAddr(a)
      PROVE  IInv'
  <2>1. Idle /\ ReportedNew(a, events) /\ newaddr(a, events)
    BY <1>3 DEF ExtNewAddr, ReportedNew
  <2> QED BY <2>1, NewaddrOK
<1>4. ASSUME NEW a \in ExtAddrs, ExtDelAddr(a)
      PROVE  IInv'
  <2>1. Idle /\ ReportedDel(a, events) /\ deladdr(a, events)
    BY <1>4 DEF ExtDelAddr, ReportedDel
  <2> QED BY <2>1, DeladdrOK
<1>5. CASE HandleEvent
  <2> DEFINE a == Head(events).addr
             queue == Tail(events)
  <2>1. CASE Head(events).kind = "new" /\ newaddr(a, queue)
    <3>1. Idle /\ ReportedNew(a, queue)
      BY <1>5, <2>1 DEF HandleEvent, ReportedNew
    <3> HIDE DEF a, queue
    <3> QED BY <2>1, <3>1, NewaddrOK
  <2>2. CASE Head(events).kind = "del" /\ deladdr(a, queue)
    <3>1. Idle /\ ReportedDel(a, queue)
      BY <1>5, <2>2 DEF HandleEvent, ReportedDel
    <3> HIDE DEF a, queue
    <3> QED BY <2>2, <3>1, DeladdrOK
  <2> QED BY <1>5, <2>1, <2>2 DEF HandleEvent
<1>6. CASE Search
  <2>1. CASE /\ Advance /\ UNCHANGED <<tethering, tethering_enabled, bridge, started>>
             /\ UNCHANGED <<pn_hash, kernel, tolerated>>
    BY <2>1, AdvanceOK
  <2>2. CASE Started
    BY <2>2, StartedOK
  <2>3. CASE NoBlock
    BY <2>3, NoBlockOK
  <2>4. CASE \E stage \in Stages : Failed(stage)
    BY <2>4, FailedOK
  <2>5. CASE \E p \in PrivateNetworks : Requested(p)
    BY <2>5, RequestedOK
  <2> QED BY <1>6, <2>1, <2>2, <2>3, <2>4, <2>5 DEF Search
<1>7. CASE UNCHANGED vars
  BY <1>7, StutterOK
<1> QED BY <1>1, <1>2, <1>3, <1>4, <1>5, <1>6, <1>7 DEF Next

LEMMA Invariant == Spec => []IInv
BY InitOK, NextOK, PTL DEF Spec

-----------------------------------------------------------------------------
(***************************************************************************)
(* The properties.                                                          *)
(***************************************************************************)
\* The counter of src/tethering.c stays between plus and minus the number of
\* technologies, and the pointers and blocks are what they may be.
THEOREM TypeCorrect == Spec => []TypeOK
<1>1. ASSUME IInv PROVE TypeOK
  <2>1. Scalars /\ Infos \subseteq InfoSet
    BY <1>1 DEF IInv, Ledger, Book, InfosOK, Infos
  <2>2. /\ search = NULL \/ (search.owner \in Owners /\ search.block \in Blocks)
        /\ {dhcp_ippool, tethering_dhcp_server} \subseteq {NULL, "live", "freed"}
    BY <2>1 DEF Scalars
  <2>3. tethering_enabled \in -Cardinality(Technologies) .. Cardinality(Technologies)
    <3>1. /\ Cardinality(Tethers) \in Nat /\ Cardinality(Technologies) \in Nat
          /\ Cardinality(Tethers) <= Cardinality(Technologies)
      BY <1>1, Counts DEF IInv
    <3>2. /\ tethering_enabled \in Int /\ tethering_enabled <= Cardinality(Tethers)
          /\ Cardinality(Tethers) - Cardinality(Technologies) <= tethering_enabled
      BY <1>1 DEF IInv, CountOK
    <3> QED BY <3>1, <3>2
  <2>4. \A info \in Infos : info.start \in Addresses /\ info.end \in Addresses
    BY <2>1 DEF InfoSet
  <2> QED BY <2>1, <2>2, <2>3, <2>4 DEF TypeOK, Scalars, Owners
<1> QED BY <1>1, Invariant, PTL

\* The bridge, the pool and the DHCP server exist exactly while
\* tethering_enabled is positive, whatever starts failed before.
THEOREM ResourcesCounted == Spec => []RunningCounted
<1>1. ASSUME IInv PROVE RunningCounted
  <2>1. /\ tethering_enabled >= 1 <=> bridge # NULL
        /\ Running <=> dhcp_ippool = "live"
        /\ Running <=> tethering_dhcp_server = "live"
        /\ dhcp_servers = IF Running THEN 1 ELSE 0
        /\ Running <=> \E x \in Infos : x.pool = Tether
    BY <1>1 DEF IInv, TetherOK
  <2>2. \A x \in Infos : x.pool = Tether => x.index = bridge
    BY <1>1 DEF IInv, Ledger, PoolsOK, Infos
  <2>3. Running <=> \E info \in Infos : info.pool = Tether /\ info.index = bridge
    BY <2>1, <2>2
  <2> QED BY <2>1, <2>3 DEF RunningCounted, Running
<1> QED BY <1>1, Invariant, PTL

\* No two pools of ippool.c are on one block or of one owner, and a private
\* network has one exactly while it is in the hash table.
THEOREM PoolsStayApart == Spec => []PoolsApart
<1>1. ASSUME IInv PROVE PoolsApart
  <2>1. /\ ListOK(allocated_blocks) /\ DOMAIN allocated_blocks = 1 .. Len(allocated_blocks)
        /\ Infos = {allocated_blocks[i] : i \in 1 .. Len(allocated_blocks)}
        /\ PoolsOK(Infos, addresses, ToSet(events), bridge, pn_hash)
    BY <1>1, Elements DEF IInv, Ledger, ListOK, Infos
  <2>2. ASSUME NEW i \in DOMAIN allocated_blocks, NEW j \in DOMAIN allocated_blocks, i # j,
               allocated_blocks[i].pool # NULL, allocated_blocks[j].pool # NULL
        PROVE  /\ allocated_blocks[i].start # allocated_blocks[j].start
               /\ allocated_blocks[i].pool # allocated_blocks[j].pool
    <3>1. allocated_blocks[i] # allocated_blocks[j]
      BY <2>1, <2>2 DEF ListOK, SameKey
    <3>2. allocated_blocks[i] \in Infos /\ allocated_blocks[j] \in Infos
      BY <2>1
    <3> QED BY <2>1, <2>2, <3>1, <3>2 DEF PoolsOK, OnePoolEach
  <2>3. ASSUME NEW p \in PrivateNetworks
        PROVE  pn_hash[p] # "none" <=> \E info \in Infos : info.pool = p
    BY <2>1 DEF PoolsOK
  <2> QED BY <2>2, <2>3 DEF PoolsApart
<1> QED BY <1>1, Invariant, PTL

\* use_count is the number of addresses on the network, for every interleaving
\* of late reports with pools that come and go, and nothing stays taken.
THEOREM BlocksAreCounted == Spec => []BlocksCounted
<1>1. ASSUME IInv PROVE BlocksCounted
  <2>1. CountsOK(Infos, addresses)
    BY <1>1 DEF IInv, Ledger, Book, Infos
  <2> QED BY <2>1 DEF BlocksCounted, CountsOK, Known, SameKey
<1> QED BY <1>1, Invariant, PTL

\* A pool gives way to a network that starts on its block, but for the two
\* cases that tolerated records.
THEOREM PoolsGiveWay == Spec => []PoolsYield
<1>1. ASSUME IInv PROVE PoolsYield
  BY <1>1 DEF IInv, YieldOK, PoolsYield
<1> QED BY <1>1, Invariant, PTL
=============================================================================
