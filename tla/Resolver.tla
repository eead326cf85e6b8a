------------------------------ MODULE Resolver ------------------------------
(***************************************************************************)
(* Which name servers the DNS proxy asks: the entries of src/resolver.c     *)
(* (name servers of services, announced ones with a lifetime, and the       *)
(* configured fallback servers) and the server list of src/dnsproxy.c with  *)
(* its enabled flags, which follow the default service and offline mode.    *)
(* A step is a call from a service, a router advertisement, a timer or a    *)
(* notification.  Search domains and TCP servers are left out.              *)
(***************************************************************************)
EXTENDS Integers

CONSTANTS
    NULL,            \* no default service
    Servers,         \* name servers of services: an interface and an address
    Fallbacks,       \* the FallbackNameservers, interface -1
    Indexes,         \* interfaces
    IndexOf,         \* Servers -> Indexes
    SplitIndexes,    \* interfaces of services with split routing
    MayFail,         \* whether a server's socket may fail to open
    MaxFixed         \* bound: entries without a lifetime per server

ASSUME ServersAssumption ==
    /\ IndexOf \in [Servers -> Indexes] /\ SplitIndexes \subseteq Indexes
    /\ Servers \cap Fallbacks = {} /\ NULL \notin Indexes
    /\ MaxFixed \in Nat \ {0} /\ MayFail \in BOOLEAN

VARIABLES
    fixed,           \* number of entries without a lifetime, by server
    timed,           \* the entry with a lifetime: "none", or which timer it runs
    present,         \* server_list of the proxy
    enabled,         \* those of present that are asked
    dflt,            \* interface of the default service, or NULL
    offline          \* offline mode

proxy == <<present, enabled>>
vars == <<fixed, timed, proxy, dflt, offline>>

HasEntry(k) == fixed[k] > 0 \/ timed[k] # "none"

-----------------------------------------------------------------------------
(***************************************************************************)
(* The proxy's list, as a record [p, e]: the servers, and the enabled ones. *)
(***************************************************************************)
Proxy == [p |-> present, e |-> enabled]
Becomes(x) == present' = x.p /\ enabled' = x.e

IsDefault(k) == k \in Servers /\ (IndexOf[k] = dflt \/ IndexOf[k] \in SplitIndexes)

enable_fallback(x, enable) ==
    [x EXCEPT !.e = IF enable THEN @ \cup (x.p \cap Fallbacks) ELSE @ \ Fallbacks]

\* create_server: a server of the default service is enabled at once.
create_server(x, k) ==
    LET y == IF IsDefault(k) THEN enable_fallback([x EXCEPT !.e = @ \cup {k}], FALSE) ELSE x
    IN  [y EXCEPT !.p = @ \cup {k}]

\* The servers of K whose sockets could be opened.
Opened(K) == IF MayFail THEN SUBSET K ELSE {K}

\* __connman_dnsproxy_append, which may fail to create the server.
dnsproxy_append(x, k) ==
    IF k \in x.p THEN {x} ELSE {IF k \in ok THEN create_server(x, k) ELSE x : ok \in Opened({k})}

\* (Fault: a removed server stays enabled in the eyes of the others.)
remove_server_stale(x, k) ==
    IF k \notin x.p THEN x
    ELSE [x EXCEPT !.p = @ \ {k}]

\* remove_server, of __connman_dnsproxy_remove.
remove_server(x, k) ==
    IF k \notin x.p THEN x
    ELSE LET y == [p |-> x.p \ {k}, e |-> x.e \ {k}]
         IN  IF y.e \cap Servers = {} THEN enable_fallback(y, TRUE) ELSE y

-----------------------------------------------------------------------------
(***************************************************************************)
(* Entries.                                                                 *)
(***************************************************************************)
\* (Fault: the fallback servers stay.)
remove_fallback_none(x) == x

\* remove_fallback_nameservers takes them out one after the other.
remove_fallback_nameservers(x) == [p |-> x.p \ Fallbacks, e |-> x.e \ Fallbacks]

\* __connman_resolver_append_fallback_nameservers, with the entries of the
\* servers E: none of the fallback servers is enabled by it.
append_fallback_nameservers(x, E) ==
    IF E # {} THEN {x} ELSE {[x EXCEPT !.p = @ \cup F] : F \in Opened(Fallbacks)}

\* append_resolver, of a service's server.
append_resolver(k) ==
    \E x \in dnsproxy_append(remove_fallback_nameservers(Proxy), k) : Becomes(x)

\* (Fault: the proxy is not told.)
remove_entries_only(k, kept) ==
    LET E == {j \in Servers : HasEntry(j) /\ (j # k \/ kept)}
    IN  \E x \in append_fallback_nameservers(Proxy, E) : Becomes(x)

\* remove_entries, of one entry of k; kept says whether k has other entries.
remove_entries(k, kept) ==
    LET E == {j \in Servers : HasEntry(j) /\ (j # k \/ kept)}
    IN  \E x \in append_fallback_nameservers(remove_server(Proxy, k), E) : Becomes(x)

-----------------------------------------------------------------------------
(***************************************************************************)
(* Operations.                                                              *)
(***************************************************************************)
\* connman_resolver_append: an entry that exists is only handed to the proxy.
connman_resolver_append(k) ==
    /\ \/ /\ fixed[k] > 0
          /\ \E x \in dnsproxy_append(Proxy, k) : Becomes(x)
          /\ UNCHANGED fixed
       \/ /\ fixed[k] = 0
          /\ fixed' = [fixed EXCEPT ![k] = 1] /\ append_resolver(k)
    /\ UNCHANGED <<timed, dflt, offline>>

\* connman_resolver_append_lifetime: an announcement with a lifetime.
Announce(k) ==
    /\ \/ timed[k] # "none" /\ UNCHANGED proxy
       \/ timed[k] = "none" /\ append_resolver(k)
    /\ timed' = [timed EXCEPT ![k] = "refresh"]
    /\ UNCHANGED <<fixed, dflt, offline>>

\* The same with lifetime 0: a known entry expires, an unknown one is appended,
\* without a timer.
Withdraw(k) ==
    /\ \/ /\ timed[k] # "none"
          /\ timed' = [timed EXCEPT ![k] = "none"]
          /\ remove_entries(k, fixed[k] > 0)
          /\ UNCHANGED fixed
       \/ /\ timed[k] = "none" /\ fixed[k] < MaxFixed
          /\ fixed' = [fixed EXCEPT ![k] = @ + 1]
          /\ append_resolver(k)
          /\ UNCHANGED timed
    /\ UNCHANGED <<dflt, offline>>

\* (Fault: the entry is left without a timer once its refresh was asked for.)
resolver_refresh_once(k) ==
    /\ timed[k] = "refresh"
    /\ timed' = [timed EXCEPT ![k] = "stopped"]
    /\ UNCHANGED <<fixed, proxy, dflt, offline>>

\* resolver_refresh_cb: most of the lifetime is over.
resolver_refresh_cb(k) ==
    /\ timed[k] = "refresh"
    /\ timed' = [timed EXCEPT ![k] = "expire"]
    /\ UNCHANGED <<fixed, proxy, dflt, offline>>

resolver_expire_cb(k) ==
    /\ timed[k] = "expire"
    /\ timed' = [timed EXCEPT ![k] = "none"]
    /\ remove_entries(k, fixed[k] > 0)
    /\ UNCHANGED <<fixed, dflt, offline>>

\* connman_resolver_remove takes the first entry it finds, of either sort.
connman_resolver_remove(k) ==
    /\ \/ /\ fixed[k] > 0 /\ fixed' = [fixed EXCEPT ![k] = @ - 1]
          /\ remove_entries(k, fixed[k] > 1 \/ timed[k] # "none")
          /\ UNCHANGED timed
       \/ /\ timed[k] # "none" /\ timed' = [timed EXCEPT ![k] = "none"]
          /\ remove_entries(k, fixed[k] > 0)
          /\ UNCHANGED fixed
    /\ UNCHANGED <<dflt, offline>>

\* The list after the servers K were removed and created again one after the
\* other, those of ok with success, in whatever order: a server of the default
\* service keeps the fallback servers off from then on; without one, they are
\* enabled once no other server is.
recreate(x, K, ok) ==
    LET asked == {k \in ok : IsDefault(k)}
        y == [p |-> (x.p \ K) \cup ok, e |-> (x.e \ K) \cup asked]
    IN  IF asked # {} THEN enable_fallback(y, FALSE)
        ELSE IF x.p \cap K # {} /\ y.e \cap Servers = {} THEN enable_fallback(y, TRUE)
        ELSE y

\* __connman_resolver_redo_servers, over the announced servers of an interface.
redo_servers(i) ==
    LET K == {k \in Servers : timed[k] # "none" /\ IndexOf[k] = i}
    IN  /\ \E ok \in Opened(K) : Becomes(recreate(Proxy, K, ok))
        /\ UNCHANGED <<fixed, timed, dflt, offline>>

\* nameserver_add_all of a service without name servers.
AddNone ==
    /\ \E x \in append_fallback_nameservers(Proxy, {k \in Servers : HasEntry(k)}) : Becomes(x)
    /\ UNCHANGED <<fixed, timed, dflt, offline>>

\* (Fault: the servers of the new default service are not enabled.)
default_changed_off(i) ==
    /\ i # dflt /\ dflt' = i
    /\ enabled' = present \cap Fallbacks
    /\ UNCHANGED <<fixed, timed, present, offline>>

\* dnsproxy_default_changed.
default_changed(i) ==
    /\ i # dflt /\ dflt' = i
    /\ LET mine == {k \in present \cap Servers : IndexOf[k] = i}
       IN  enabled' = IF i = NULL THEN {}
                      ELSE IF mine # {} THEN mine ELSE present \cap Fallbacks
    /\ UNCHANGED <<fixed, timed, present, offline>>

\* dnsproxy_offline_mode.
offline_mode ==
    /\ offline' = ~offline
    /\ enabled' = IF offline' THEN {} ELSE present
    /\ UNCHANGED <<fixed, timed, present, dflt>>

-----------------------------------------------------------------------------
Init ==
    /\ fixed = [k \in Servers |-> 0] /\ timed = [k \in Servers |-> "none"]
    /\ present \in Opened(Fallbacks) /\ enabled = {}
    /\ dflt = NULL /\ offline = FALSE

Next ==
    \/ \E k \in Servers : \/ connman_resolver_append(k) \/ connman_resolver_remove(k)
                          \/ Announce(k) \/ Withdraw(k)
                          \/ resolver_refresh_cb(k) \/ resolver_expire_cb(k)
    \/ AddNone \/ offline_mode
    \/ \E i \in Indexes : redo_servers(i)
    \/ \E i \in Indexes \cup {NULL} : default_changed(i)

\* The main loop runs the lifetime timers.
Fairness ==
    \A k \in Servers : WF_vars(resolver_refresh_cb(k)) /\ WF_vars(resolver_expire_cb(k))

Spec == Init /\ [][Next]_vars /\ Fairness

-----------------------------------------------------------------------------
(***************************************************************************)
(* Properties.                                                              *)
(***************************************************************************)
\* Only servers in the list are enabled.
TypeOK ==
    /\ fixed \in [Servers -> 0 .. MaxFixed]
    /\ timed \in [Servers -> {"none", "refresh", "expire"}]
    /\ present \subseteq Servers \cup Fallbacks /\ enabled \subseteq present
    /\ dflt \in Indexes \cup {NULL} /\ offline \in BOOLEAN

\* The proxy asks no name server that no entry stands for any more, after
\* expiries, withdrawals, removals and re-creations in any order.
NoOrphan == \A k \in present \cap Servers : HasEntry(k)

\* As main.conf has it ("used if no nameservers are otherwise provided by the
\* service"), the fallback servers are in the list only while no service has a
\* name server, through appends, expiries, removals and sockets that fail.  The
\* manual page has it otherwise (FallbackAppended).
FallbackExclusive == present \cap Fallbacks # {} => \A k \in Servers : ~HasEntry(k)

\* Online, a name server of the default service that is in the list is asked,
\* whether the service became the default before or after it was appended.
DefaultServed ==
    ~offline => \A k \in present \cap Servers : IndexOf[k] = dflt => k \in enabled

\* When the routers fall silent every announced server is forgotten for good.
SilentRouterForgotten ==
    (<>[][\A k \in Servers : ~Announce(k)]_vars)
        => <>[](\A k \in Servers : timed[k] = "none")

\* What main.conf says: the fallback servers are "used if no nameservers are
\* otherwise provided by the service".
FallbackUsed ==
    (dflt # NULL /\ ~offline /\ \A k \in Servers : ~HasEntry(k))
        => present \cap Fallbacks \subseteq enabled

\* What the manual page connman.conf(5) says: the fallback servers are "appended to
\* the list of nameservers given by the service".
FallbackAppended == present \cap Servers # {} => Fallbacks \subseteq present
=============================================================================
