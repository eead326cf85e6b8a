--------------------------- MODULE ResolverProofs ---------------------------
(***************************************************************************)
(* Proofs about Resolver, for any servers, fallback servers, interfaces and *)
(* numbers of entries, whether sockets may fail to open or not.             *)
(***************************************************************************)
EXTENDS Resolver, TLAPS

-----------------------------------------------------------------------------
(***************************************************************************)
(* What the operators on the proxy's list keep.                             *)
(***************************************************************************)
\* A server list: only listed servers are enabled.
List(x) == x.p \subseteq Servers \cup Fallbacks /\ x.e \subseteq x.p

\* Every listed server of interface i is enabled.
Serves(x, i) == \A k \in x.p \cap Servers : IndexOf[k] = i => k \in x.e

Lists == [p : SUBSET (Servers \cup Fallbacks), e : SUBSET (Servers \cup Fallbacks)]

LEMMA OpenedSubset == \A K : \A ok \in Opened(K) : ok \subseteq K
BY DEF Opened

\* dnsproxy_append lists at most the server it is given, and enables it when it
\* belongs to the default service.
LEMMA AppendKeeps ==
  ASSUME NEW x \in Lists, List(x), NEW k \in Servers, NEW y \in dnsproxy_append(x, k)
  PROVE  /\ y \in Lists /\ List(y)
         /\ x.p \subseteq y.p /\ y.p \subseteq x.p \cup {k}
         /\ Serves(x, dflt) => Serves(y, dflt)
<1>1. y = x \/ y = create_server(x, k)
  BY DEF dnsproxy_append
<1>2. CASE y = x
  BY <1>2
<1>3. CASE y = create_server(x, k)
  <2>1. CASE IsDefault(k)
    <3>1. y = [p |-> x.p \cup {k}, e |-> (x.e \cup {k}) \ Fallbacks]
      BY <1>3, <2>1 DEF create_server, enable_fallback, Lists
    <3> QED BY <3>1, ServersAssumption DEF List, Serves, Lists
  <2>2. CASE ~IsDefault(k)
    <3>1. y = [p |-> x.p \cup {k}, e |-> x.e]
      BY <1>3, <2>2 DEF create_server, Lists
    <3> QED BY <3>1, <2>2 DEF List, Serves, IsDefault, Lists
  <2> QED BY <2>1, <2>2
<1> QED BY <1>1, <1>2, <1>3

LEMMA RemoveKeeps ==
  ASSUME NEW x \in Lists, List(x), NEW k \in Servers
  PROVE  LET y == remove_server(x, k)
         IN  /\ y \in Lists /\ List(y)
             /\ y.p = x.p \ {k}
             /\ Serves(x, dflt) => Serves(y, dflt)
<1> DEFINE z == [p |-> x.p \ {k}, e |-> x.e \ {k}]
<1>1. CASE k \notin x.p
  BY <1>1 DEF remove_server
<1>2. CASE k \in x.p /\ z.e \cap Servers = {}
  <2>1. remove_server(x, k) = [p |-> x.p \ {k}, e |-> (x.e \ {k}) \cup ((x.p \ {k}) \cap Fallbacks)]
    BY <1>2 DEF remove_server, enable_fallback
  <2> QED BY <2>1 DEF List, Serves, Lists
<1>3. CASE k \in x.p /\ z.e \cap Servers # {}
  <2>1. remove_server(x, k) = z
    BY <1>3 DEF remove_server
  <2> QED BY <2>1 DEF List, Serves, Lists
<1> QED BY <1>1, <1>2, <1>3

LEMMA RecreateKeeps ==
  ASSUME NEW x \in Lists, List(x), NEW K \in SUBSET Servers, NEW ok \in SUBSET K
  PROVE  LET y == recreate(x, K, ok)
         IN  /\ y \in Lists /\ List(y)
             /\ y.p = (x.p \ K) \cup ok
             /\ Serves(x, dflt) => Serves(y, dflt)
<1> DEFINE on == {k \in ok : IsDefault(k)}
           z == [p |-> (x.p \ K) \cup ok, e |-> (x.e \ K) \cup on]
<1>1. z \in Lists /\ List(z)
  BY DEF List, Lists
<1>2. Serves(x, dflt) => Serves(z, dflt)
  BY DEF Serves, IsDefault
<1> HIDE DEF on
<1>3. CASE recreate(x, K, ok) = z
  BY <1>1, <1>2, <1>3
<1>4. CASE recreate(x, K, ok) = enable_fallback(z, FALSE)
  <2>1. recreate(x, K, ok) = [p |-> z.p, e |-> z.e \ Fallbacks]
    BY <1>4 DEF enable_fallback
  <2> QED BY <2>1, <1>1, <1>2, ServersAssumption DEF List, Serves, Lists
<1>5. CASE recreate(x, K, ok) = enable_fallback(z, TRUE)
  <2>1. recreate(x, K, ok) = [p |-> z.p, e |-> z.e \cup (z.p \cap Fallbacks)]
    BY <1>5 DEF enable_fallback
  <2> QED BY <2>1, <1>1, <1>2 DEF List, Serves, Lists
<1> QED BY <1>3, <1>4, <1>5 DEF recreate, on

LEMMA FallbackKeeps ==
  ASSUME NEW x \in Lists, List(x), NEW E, NEW y \in append_fallback_nameservers(x, E)
  PROVE  /\ y \in Lists /\ List(y)
         /\ y.p \cap Servers = x.p \cap Servers
         /\ E # {} => y.p = x.p
         /\ Serves(x, dflt) => Serves(y, dflt)
<1>1. CASE E # {}
  BY <1>1 DEF append_fallback_nameservers
<1>2. CASE E = {}
  <2>1. PICK F \in Opened(Fallbacks) : y = [x EXCEPT !.p = @ \cup F]
    BY <1>2 DEF append_fallback_nameservers
  <2>2. F \subseteq Fallbacks /\ y = [p |-> x.p \cup F, e |-> x.e]
    BY <2>1, OpenedSubset DEF Lists
  <2> QED BY <1>2, <2>2, ServersAssumption DEF List, Serves, Lists
<1> QED BY <1>1, <1>2

-----------------------------------------------------------------------------
(***************************************************************************)
(* The inductive invariant.                                                 *)
(***************************************************************************)
IInv == TypeOK /\ NoOrphan /\ FallbackExclusive /\ DefaultServed

LEMMA ProxyIsList ==
  ASSUME IInv
  PROVE  /\ Proxy \in Lists /\ List(Proxy)
         /\ Proxy.p = present /\ Proxy.e = enabled
         /\ ~offline => Serves(Proxy, dflt)
BY DEF IInv, TypeOK, DefaultServed, Proxy, Lists, List, Serves

\* A step that only edits the list, as the operators above do, and the entries.
LEMMA ListStep ==
  ASSUME IInv, NEW y \in Lists, List(y), Serves(Proxy, dflt) => Serves(y, dflt),
         Becomes(y), UNCHANGED <<dflt, offline>>,
         fixed' \in [Servers -> 0 .. MaxFixed],
         timed' \in [Servers -> {"none", "refresh", "expire"}]
  PROVE  TypeOK' /\ DefaultServed' /\ present' = y.p
<1>1. present' = y.p /\ enabled' = y.e
  BY DEF Becomes
<1>2. TypeOK'
  BY <1>1 DEF IInv, TypeOK, List
<1>3. DefaultServed'
  BY <1>1, ProxyIsList DEF DefaultServed, Serves
<1> QED BY <1>1, <1>2, <1>3

\* A server is appended by append_resolver: its entry is the reason.
LEMMA AppendResolverStep ==
  ASSUME IInv, NEW k \in Servers, append_resolver(k), UNCHANGED <<dflt, offline>>,
         fixed' \in [Servers -> 0 .. MaxFixed],
         timed' \in [Servers -> {"none", "refresh", "expire"}],
         HasEntry(k)', \A j \in Servers : HasEntry(j) => HasEntry(j)'
  PROVE  IInv'
<1> DEFINE x == remove_fallback_nameservers(Proxy)
<1>1. PICK y \in dnsproxy_append(x, k) : Becomes(y)
  BY DEF append_resolver
<1>2. /\ x \in Lists /\ List(x) /\ x.p = present \ Fallbacks
      /\ Serves(Proxy, dflt) => Serves(x, dflt)
  BY ProxyIsList, ServersAssumption DEF remove_fallback_nameservers, Lists, List, Serves
<1> HIDE DEF x
<1>3. /\ y \in Lists /\ List(y) /\ y.p \subseteq x.p \cup {k}
      /\ Serves(x, dflt) => Serves(y, dflt)
  BY <1>1, <1>2, AppendKeeps
<1>4. TypeOK' /\ DefaultServed' /\ present' = y.p
  BY <1>1, <1>2, <1>3, ListStep
<1>5. NoOrphan'
  BY <1>2, <1>3, <1>4 DEF IInv, NoOrphan
<1>6. FallbackExclusive'
  BY <1>2, <1>3, <1>4, ServersAssumption DEF FallbackExclusive
<1> QED BY <1>4, <1>5, <1>6 DEF IInv

\* An entry of k is removed by remove_entries: the server goes with it, also if
\* other entries stand for it, and the fallback servers come with the last one.
LEMMA RemoveEntriesStep ==
  ASSUME IInv, NEW k \in Servers, NEW kept \in BOOLEAN, remove_entries(k, kept),
         UNCHANGED <<dflt, offline>>,
         fixed' \in [Servers -> 0 .. MaxFixed],
         timed' \in [Servers -> {"none", "refresh", "expire"}],
         HasEntry(k), HasEntry(k)' => kept,
         \A j \in Servers \ {k} : HasEntry(j)' <=> HasEntry(j)
  PROVE  IInv'
<1> DEFINE x == remove_server(Proxy, k)
           E == {j \in Servers : HasEntry(j) /\ (j # k \/ kept)}
<1>1. PICK y \in append_fallback_nameservers(x, E) : Becomes(y)
  BY DEF remove_entries
<1>2. /\ x \in Lists /\ List(x) /\ x.p = present \ {k}
      /\ Serves(Proxy, dflt) => Serves(x, dflt)
  BY ProxyIsList, RemoveKeeps
<1> HIDE DEF x
<1>3. /\ y \in Lists /\ List(y) /\ y.p \cap Servers = x.p \cap Servers
      /\ E # {} => y.p = x.p
      /\ Serves(x, dflt) => Serves(y, dflt)
  BY <1>1, <1>2, FallbackKeeps
<1>4. TypeOK' /\ DefaultServed' /\ present' = y.p
  BY <1>1, <1>2, <1>3, ListStep
<1>5. NoOrphan'
  BY <1>2, <1>3, <1>4 DEF IInv, NoOrphan
<1>6. FallbackExclusive'
  <2> SUFFICES ASSUME NEW j \in Servers, HasEntry(j)'
               PROVE  present' \cap Fallbacks = {}
    BY DEF FallbackExclusive
  <2>1. j \in E
    OBVIOUS
  <2>2. present' = present \ {k}
    BY <1>2, <1>3, <1>4, <2>1
  <2> QED BY <2>2 DEF IInv, FallbackExclusive
<1> QED BY <1>4, <1>5, <1>6 DEF IInv

LEMMA AppendStep ==
  ASSUME IInv, NEW k \in Servers, connman_resolver_append(k)
  PROVE  IInv'
<1>1. UNCHANGED <<timed, dflt, offline>>
  BY DEF connman_resolver_append
<1>2. CASE fixed[k] > 0 /\ UNCHANGED fixed /\ \E y \in dnsproxy_append(Proxy, k) : Becomes(y)
  <2>1. PICK y \in dnsproxy_append(Proxy, k) : Becomes(y)
    BY <1>2
  <2>2. /\ y \in Lists /\ List(y) /\ y.p \subseteq present \cup {k}
        /\ Serves(Proxy, dflt) => Serves(y, dflt)
    BY <2>1, ProxyIsList, AppendKeeps
  <2>3. TypeOK' /\ DefaultServed' /\ present' = y.p
    BY <1>1, <1>2, <2>1, <2>2, ListStep DEF IInv, TypeOK
  <2>4. \A j \in Servers : HasEntry(j)' <=> HasEntry(j)
    BY <1>1, <1>2 DEF HasEntry
  <2>5. HasEntry(k)
    BY <1>2 DEF HasEntry
  <2> QED BY <2>2, <2>3, <2>4, <2>5, ServersAssumption
          DEF IInv, NoOrphan, FallbackExclusive
<1>3. CASE fixed[k] = 0 /\ fixed' = [fixed EXCEPT ![k] = 1] /\ append_resolver(k)
  <2>1. fixed' \in [Servers -> 0 .. MaxFixed] /\ fixed'[k] = 1
    BY <1>3, ServersAssumption DEF IInv, TypeOK
  <2>2. HasEntry(k)' /\ \A j \in Servers : HasEntry(j) => HasEntry(j)'
    BY <1>1, <1>3, <2>1 DEF HasEntry, IInv, TypeOK
  <2> QED BY <1>1, <1>3, <2>1, <2>2, AppendResolverStep DEF IInv, TypeOK
<1> QED BY <1>2, <1>3 DEF connman_resolver_append

LEMMA AnnounceStep ==
  ASSUME IInv, NEW k \in Servers, Announce(k)
  PROVE  IInv'
<1>1. /\ UNCHANGED <<fixed, dflt, offline>>
      /\ timed' = [timed EXCEPT ![k] = "refresh"]
      /\ timed' \in [Servers -> {"none", "refresh", "expire"}]
  BY DEF Announce, IInv, TypeOK
<1>2. HasEntry(k)' /\ \A j \in Servers \ {k} : HasEntry(j)' <=> HasEntry(j)
  BY <1>1 DEF HasEntry, IInv, TypeOK
<1>3. CASE timed[k] # "none" /\ UNCHANGED proxy
  <2>1. HasEntry(k)
    BY <1>3 DEF HasEntry
  <2> QED BY <1>1, <1>2, <1>3, <2>1
          DEF IInv, TypeOK, NoOrphan, FallbackExclusive, DefaultServed, proxy
<1>4. CASE timed[k] = "none" /\ append_resolver(k)
  BY <1>1, <1>2, <1>4, AppendResolverStep DEF IInv, TypeOK
<1> QED BY <1>3, <1>4 DEF Announce

\* The entry with a lifetime goes: by its timer, a withdrawal or a removal.
LEMMA ForgetStep ==
  ASSUME IInv, NEW k \in Servers, timed[k] # "none",
         timed' = [timed EXCEPT ![k] = "none"], remove_entries(k, fixed[k] > 0),
         UNCHANGED <<fixed, dflt, offline>>
  PROVE  IInv'
<1>1. timed' \in [Servers -> {"none", "refresh", "expire"}]
  BY DEF IInv, TypeOK
<1>2. /\ HasEntry(k) /\ (HasEntry(k)' => fixed[k] > 0)
      /\ \A j \in Servers \ {k} : HasEntry(j)' <=> HasEntry(j)
  BY <1>1 DEF HasEntry, IInv, TypeOK
<1>3. (fixed[k] > 0) \in BOOLEAN
  OBVIOUS
<1> QED BY <1>1, <1>2, <1>3, RemoveEntriesStep DEF IInv, TypeOK

LEMMA WithdrawStep ==
  ASSUME IInv, NEW k \in Servers, Withdraw(k)
  PROVE  IInv'
<1>1. UNCHANGED <<dflt, offline>>
  BY DEF Withdraw
<1>2. CASE /\ timed[k] # "none" /\ timed' = [timed EXCEPT ![k] = "none"]
           /\ remove_entries(k, fixed[k] > 0) /\ UNCHANGED fixed
  BY <1>1, <1>2, ForgetStep
<1>3. CASE /\ fixed[k] < MaxFixed /\ fixed' = [fixed EXCEPT ![k] = @ + 1]
           /\ append_resolver(k) /\ UNCHANGED timed
  <2>1. fixed' \in [Servers -> 0 .. MaxFixed] /\ fixed'[k] = fixed[k] + 1
    BY <1>3, ServersAssumption DEF IInv, TypeOK
  <2>2. HasEntry(k)' /\ \A j \in Servers : HasEntry(j) => HasEntry(j)'
    BY <1>3, <2>1 DEF HasEntry, IInv, TypeOK
  <2> QED BY <1>1, <1>3, <2>1, <2>2, AppendResolverStep DEF IInv, TypeOK
<1> QED BY <1>2, <1>3 DEF Withdraw

LEMMA RemoveStep ==
  ASSUME IInv, NEW k \in Servers, connman_resolver_remove(k)
  PROVE  IInv'
<1>1. UNCHANGED <<dflt, offline>>
  BY DEF connman_resolver_remove
<1>2. CASE /\ fixed[k] > 0 /\ fixed' = [fixed EXCEPT ![k] = @ - 1]
           /\ remove_entries(k, fixed[k] > 1 \/ timed[k] # "none") /\ UNCHANGED timed
  <2>1. fixed' \in [Servers -> 0 .. MaxFixed] /\ fixed'[k] = fixed[k] - 1
    BY <1>2, ServersAssumption DEF IInv, TypeOK
  <2> DEFINE kept == fixed[k] > 1 \/ timed[k] # "none"
  <2>2. /\ HasEntry(k) /\ (HasEntry(k)' => kept)
        /\ \A j \in Servers \ {k} : HasEntry(j)' <=> HasEntry(j)
    BY <1>2, <2>1 DEF HasEntry, IInv, TypeOK
  <2>3. kept \in BOOLEAN
    OBVIOUS
  <2> QED BY <1>1, <1>2, <2>1, <2>2, <2>3, RemoveEntriesStep DEF IInv, TypeOK
<1>3. CASE /\ timed[k] # "none" /\ timed' = [timed EXCEPT ![k] = "none"]
           /\ remove_entries(k, fixed[k] > 0) /\ UNCHANGED fixed
  BY <1>1, <1>3, ForgetStep
<1> QED BY <1>2, <1>3 DEF connman_resolver_remove

LEMMA RefreshStep ==
  ASSUME IInv, NEW k \in Servers, resolver_refresh_cb(k)
  PROVE  IInv'
<1>1. /\ timed[k] = "refresh" /\ timed' = [timed EXCEPT ![k] = "expire"]
      /\ UNCHANGED <<fixed, present, enabled, dflt, offline>>
  BY DEF resolver_refresh_cb, proxy
<1>2. \A j \in Servers : HasEntry(j)' <=> HasEntry(j)
  BY <1>1 DEF HasEntry, IInv, TypeOK
<1> QED BY <1>1, <1>2 DEF IInv, TypeOK, NoOrphan, FallbackExclusive, DefaultServed

LEMMA RedoStep ==
  ASSUME IInv, NEW i \in Indexes, redo_servers(i)
  PROVE  IInv'
<1> DEFINE K == {k \in Servers : timed[k] # "none" /\ IndexOf[k] = i}
<1>1. UNCHANGED <<fixed, timed, dflt, offline>>
  BY DEF redo_servers
<1>2. PICK ok \in Opened(K) : Becomes(recreate(Proxy, K, ok))
  BY DEF redo_servers
<1>3. ok \in SUBSET K /\ K \in SUBSET Servers
  BY <1>2, OpenedSubset
<1>4. \A k \in ok : HasEntry(k)
  BY <1>3 DEF HasEntry
<1> HIDE DEF K
<1> DEFINE y == recreate(Proxy, K, ok)
<1>5. /\ y \in Lists /\ List(y) /\ y.p = (present \ K) \cup ok
      /\ Serves(Proxy, dflt) => Serves(y, dflt)
  BY <1>3, ProxyIsList, RecreateKeeps
<1>6. TypeOK' /\ DefaultServed' /\ present' = y.p
  <2> HIDE DEF y
  <2>1. Becomes(y)
    BY <1>2 DEF y
  <2> QED BY <1>1, <1>5, <2>1, ListStep DEF IInv, TypeOK
<1>7. \A k \in Servers : HasEntry(k)' <=> HasEntry(k)
  BY <1>1 DEF HasEntry
<1>8. NoOrphan'
  BY <1>3, <1>4, <1>5, <1>6, <1>7 DEF IInv, NoOrphan
<1>9. FallbackExclusive'
  BY <1>3, <1>5, <1>6, <1>7, ServersAssumption DEF IInv, FallbackExclusive
<1> QED BY <1>6, <1>8, <1>9 DEF IInv

LEMMA AddNoneStep ==
  ASSUME IInv, AddNone
  PROVE  IInv'
<1> DEFINE E == {k \in Servers : HasEntry(k)}
<1>1. UNCHANGED <<fixed, timed, dflt, offline>>
  BY DEF AddNone
<1>2. PICK y \in append_fallback_nameservers(Proxy, E) : Becomes(y)
  BY DEF AddNone
<1>3. /\ y \in Lists /\ List(y) /\ y.p \cap Servers = present \cap Servers
      /\ E # {} => y.p = present
      /\ Serves(Proxy, dflt) => Serves(y, dflt)
  BY <1>2, ProxyIsList, FallbackKeeps
<1>4. TypeOK' /\ DefaultServed' /\ present' = y.p
  BY <1>1, <1>2, <1>3, ListStep DEF IInv, TypeOK
<1>5. \A k \in Servers : HasEntry(k)' <=> HasEntry(k)
  BY <1>1 DEF HasEntry
<1>6. NoOrphan'
  BY <1>3, <1>4, <1>5 DEF IInv, NoOrphan
<1>7. FallbackExclusive'
  BY <1>3, <1>4, <1>5 DEF IInv, FallbackExclusive
<1> QED BY <1>4, <1>6, <1>7 DEF IInv

\* The two notifications rewrite the enabled flags of the whole list.
LEMMA NotifyStep ==
  ASSUME IInv, offline_mode \/ \E i \in Indexes \cup {NULL} : default_changed(i)
  PROVE  IInv'
<1>1. UNCHANGED <<fixed, timed, present>>
  BY DEF offline_mode, default_changed
<1>2. enabled' \subseteq present
  BY DEF offline_mode, default_changed
<1>3. dflt' \in Indexes \cup {NULL}
  BY DEF offline_mode, default_changed, IInv, TypeOK
<1>4. offline' \in BOOLEAN
  BY DEF offline_mode, default_changed, IInv, TypeOK
<1>5. DefaultServed'
  <2>1. CASE offline_mode
    BY <2>1 DEF offline_mode, DefaultServed
  <2>2. ASSUME NEW i \in Indexes \cup {NULL}, default_changed(i)
        PROVE  DefaultServed'
    BY <2>2, ServersAssumption DEF default_changed, DefaultServed
  <2> QED BY <2>1, <2>2
<1>6. \A k \in Servers : HasEntry(k)' <=> HasEntry(k)
  BY <1>1 DEF HasEntry
<1> QED BY <1>1, <1>2, <1>3, <1>4, <1>5, <1>6
        DEF IInv, TypeOK, NoOrphan, FallbackExclusive

LEMMA InitIInv == Init => IInv
<1> SUFFICES ASSUME Init PROVE IInv
  OBVIOUS
<1>1. present \subseteq Fallbacks /\ enabled = {}
  BY OpenedSubset DEF Init
<1>2. offline \in BOOLEAN
  BY Zenon DEF Init
<1>3. TypeOK
  BY <1>1, <1>2, ServersAssumption DEF Init, TypeOK
<1>4. \A k \in Servers : ~HasEntry(k)
  BY DEF Init, HasEntry
<1> QED BY <1>1, <1>3, <1>4, ServersAssumption
        DEF IInv, NoOrphan, FallbackExclusive, DefaultServed

LEMMA NextIInv == IInv /\ [Next]_vars => IInv'
<1> SUFFICES ASSUME IInv, [Next]_vars PROVE IInv'
  OBVIOUS
<1>1. ASSUME NEW k \in Servers,
             \/ connman_resolver_append(k) \/ connman_resolver_remove(k)
             \/ Announce(k) \/ Withdraw(k)
             \/ resolver_refresh_cb(k) \/ resolver_expire_cb(k)
      PROVE  IInv'
  <2>1. CASE resolver_expire_cb(k)
    BY <2>1, ForgetStep DEF resolver_expire_cb
  <2> QED BY <1>1, <2>1, AppendStep, RemoveStep, AnnounceStep, WithdrawStep, RefreshStep
<1>2. CASE UNCHANGED vars
  <2>1. \A k \in Servers : HasEntry(k)' <=> HasEntry(k)
    BY <1>2 DEF vars, HasEntry
  <2> QED BY <1>2, <2>1
          DEF vars, proxy, IInv, TypeOK, NoOrphan, FallbackExclusive, DefaultServed
<1> QED BY <1>1, <1>2, AddNoneStep, RedoStep, NotifyStep DEF Next

LEMMA Inductive == Spec => []IInv
BY InitIInv, NextIInv, PTL DEF Spec

-----------------------------------------------------------------------------
(***************************************************************************)
(* What holds of the resolver and the server list, however entries come and *)
(* go.                                                                      *)
(***************************************************************************)
\* The entries and the list are well formed, and only listed servers are asked.
THEOREM TypeCorrect == Spec => []TypeOK
BY Inductive, PTL DEF IInv

\* The proxy never asks a name server that resolver.c has no entry for.
THEOREM ServersHaveEntries == Spec => []NoOrphan
BY Inductive, PTL DEF IInv

\* append_resolver and remove_entries keep the fallback servers out of the list
\* as long as any service has a name server.
THEOREM FallbackOnlyAlone == Spec => []FallbackExclusive
BY Inductive, PTL DEF IInv

\* Online, every listed name server of the default service is asked, whichever
\* of create_server, dnsproxy_default_changed and dnsproxy_offline_mode set its
\* flag last.
THEOREM DefaultAlwaysServed == Spec => []DefaultServed
BY Inductive, PTL DEF IInv
=============================================================================
