----------------------------- MODULE Tethering ------------------------------
(***************************************************************************)
(* Tethering (src/tethering.c) on top of the address pools (IpPool): a      *)
(* bridge with an address pool, a DHCP server and NAT, shared by all the    *)
(* technologies that tether and counted by tethering_enabled; the private   *)
(* networks, which take pools of their own; and the kernel, which reports   *)
(* every address that is added or removed, connman's own ones some time     *)
(* later (src/ipconfig.c).  A handler runs to its end, but the search for a *)
(* free block is one step per block: nothing else runs meanwhile.  NAT only *)
(* succeeds or fails; the DNS proxy's listener and the IPv6 prefix          *)
(* delegation on the bridge are left out.                                   *)
(***************************************************************************)
EXTENDS IpPool, FiniteSets

CONSTANTS
    Technologies,
    PrivateNetworks,
    ExtAddrs,        \* addresses of others: [index, start, end, nr]
    MaxBridges,      \* bound: interface indexes for bridges
    MaxEvents,       \* bound: reports pending when something is started
    TetherRange,     \* 252, scaled: a pool ends at its block + range
    PrivateRange     \* 1, scaled

Tether == "tether"
Owners == PrivateNetworks \cup {Tether}
BridgeIndexes == 1 .. MaxBridges
Indexes == BridgeIndexes \cup PrivateNetworks \cup {a.index : a \in ExtAddrs}
NetAddrs == {a \in [index : Indexes, start : Addresses, end : Addresses, nr : Nat] :
               a.start <= a.end}

ASSUME TetheringAssumption ==
    /\ TetherRange \in 0 .. 1 /\ PrivateRange \in 0 .. 1
    /\ MaxBridges \in Nat /\ MaxEvents \in Nat
    /\ IsFiniteSet(Technologies)

\* Interfaces are told apart by their index, a tunnel's by its private network.
ASSUME IndexAssumption ==
    /\ Tether \notin PrivateNetworks /\ PrivateNetworks \cap BridgeIndexes = {}
    /\ ExtAddrs \subseteq NetAddrs
    /\ \A a \in ExtAddrs : a.nr > 0 /\ a.index \notin BridgeIndexes \cup PrivateNetworks

ASSUME NullAssumption ==
    /\ NULL \notin Owners /\ NULL \notin BridgeIndexes /\ NULL \notin Blocks
    /\ NULL \notin {"live", "freed"} /\ NULL \notin [owner : Owners, block : Blocks]

VARIABLES
    tethering,              \* technology->tethering
    tethering_enabled,
    bridge,                 \* index of the bridge, NULL without one
    dhcp_ippool,            \* points to NULL, a "live" or a "freed" pool
    tethering_dhcp_server,  \* the same for the DHCP server
    dhcp_servers,           \* number of DHCP servers that exist
    pn_hash,                \* private network -> "none", "requested", "up"
    addresses,              \* ipdevice->address_list of all interfaces
    events,                 \* RTM_NEWADDR and RTM_DELADDR on their way
    tolerated               \* history: starts of networks no pool gave way to

started == <<dhcp_ippool, tethering_dhcp_server, dhcp_servers>>
kernel == <<addresses, events>>
vars == <<pool_vars, tethering, tethering_enabled, bridge, started, pn_hash, kernel, tolerated>>

Own(index, start) == [index |-> index, start |-> start, end |-> start + 1, nr |-> 0]
Event(kind, addr) == [kind |-> kind, addr |-> addr]
New(addr) == <<Event("new", addr)>>
Del(addr) == <<Event("del", addr)>>

\* The pool of an owner is in the list, at this address.
PoolAt(owner, start) == \E info \in Infos : info.pool = owner /\ info.start = start
PoolStart(owner) == CHOOSE start \in Addresses : PoolAt(owner, start)

Idle == search = NULL
Fresh(index) ==
    /\ index # bridge
    /\ \A info \in Infos : info.index # index
    /\ \A a \in addresses : a.index # index
    /\ \A e \in ToSet(events) : e.addr.index # index

-----------------------------------------------------------------------------
(***************************************************************************)
(* Starting.                                                                *)
(***************************************************************************)
\* __connman_tethering_set_enabled with the counter at zero, up to the search;
\* without a bridge it gives up.  The counter is one meanwhile.
Begin ==
    \/ \E index \in BridgeIndexes :
         /\ Fresh(index) /\ \A lower \in 1 .. index - 1 : ~Fresh(lower)
         /\ bridge' = index /\ tethering_enabled' = 1
         /\ SearchFor(Tether)
    \/ bridge' = NULL /\ tethering_enabled' = 0 /\ search' = NULL

\* The block is found and every step succeeds.
Started ==
    LET own == Own(bridge, Base(search.block))
    IN  /\ Found /\ Searching(Tether)
        /\ allocated_blocks' = <<PoolInfo(bridge, TetherRange, Tether)>> \o allocated_blocks
        /\ last_block' = search.block /\ search' = NULL
        /\ dhcp_ippool' = "live" /\ tethering_dhcp_server' = "live"
        /\ dhcp_servers' = dhcp_servers + 1
        /\ events' = events \o New(own)
        /\ tolerated' = tolerated \ {Base(search.block)}
        /\ UNCHANGED <<tethering, tethering_enabled, bridge, pn_hash, addresses>>

\* (Fault: a failed start stays counted.)
GiveUp_counted == bridge' = NULL /\ search' = NULL /\ UNCHANGED tethering_enabled

\* The end of every error path: the bridge and the count are taken back.
GiveUp ==
    /\ bridge' = NULL /\ search' = NULL
    /\ tethering_enabled' = tethering_enabled - 1

\* There is no block.
NoBlock ==
    /\ Exhausted /\ Searching(Tether)
    /\ GiveUp
    /\ dhcp_ippool' = NULL
    /\ UNCHANGED <<allocated_blocks, last_block, tethering, pn_hash, kernel, tolerated>>
    /\ UNCHANGED <<tethering_dhcp_server, dhcp_servers>>

\* A later step fails and the pool is given back: dhcp_ippool points to what
\* was freed.
Failed(stage) ==
    LET own == Own(bridge, Base(search.block))
    IN  /\ Found /\ Searching(Tether)
        /\ GiveUp
        /\ last_block' = search.block /\ dhcp_ippool' = "freed"
        /\ \/ /\ stage = "bridge_enable"
              /\ events' \in {events, events \o New(own) \o Del(own)}
              /\ UNCHANGED tethering_dhcp_server
           \/ /\ stage = "dhcp_server_start"
              /\ tethering_dhcp_server' = NULL
              /\ events' = events \o New(own) \o Del(own)
           \/ /\ stage = "nat_enable"
              /\ tethering_dhcp_server' = "freed"
              /\ events' = events \o New(own) \o Del(own)
        /\ UNCHANGED <<allocated_blocks, dhcp_servers, tethering, pn_hash, addresses, tolerated>>

-----------------------------------------------------------------------------
(***************************************************************************)
(* Stopping and restarting.                                                 *)
(***************************************************************************)
\* __connman_tethering_set_disabled with the counter at one: what it takes
\* down besides the bridge.  The address goes with the bridge.
TakeDown(list, queue) ==
    /\ dhcp_servers' = dhcp_servers - 1
    /\ tethering_dhcp_server' = NULL /\ dhcp_ippool' = "freed"
    /\ allocated_blocks' = Unref(list, Tether)
    /\ events' = queue \o Del(Own(bridge, PoolStart(Tether)))
    /\ UNCHANGED last_block

\* connman_technology_tethering_notify(TRUE).
Enable(t) ==
    /\ Idle /\ ~tethering[t]
    /\ tethering' = [tethering EXCEPT ![t] = TRUE]
    /\ \/ tethering_enabled = 0 /\ Len(events) <= MaxEvents /\ Begin
       \/ /\ tethering_enabled # 0
          /\ tethering_enabled' = tethering_enabled + 1
          /\ UNCHANGED <<bridge, search>>
    /\ UNCHANGED <<allocated_blocks, last_block, started, pn_hash, kernel, tolerated>>

\* connman_technology_tethering_notify(FALSE).
Disable(t) ==
    /\ Idle /\ tethering[t]
    /\ tethering' = [tethering EXCEPT ![t] = FALSE]
    /\ tethering_enabled' = tethering_enabled - 1
    /\ \/ /\ tethering_enabled = 1
          /\ TakeDown(allocated_blocks, events) /\ bridge' = NULL
       \/ /\ tethering_enabled # 1
          /\ UNCHANGED <<allocated_blocks, last_block, bridge, started, events>>
    /\ UNCHANGED <<search, pn_hash, addresses, tolerated>>

\* (Fault: enabled before it is disabled, which only counts.)
tethering_restart_counted(list, queue, start) ==
    /\ allocated_blocks' = list /\ events' = queue
    /\ UNCHANGED <<last_block, search, tethering_enabled, bridge, started, tolerated>>

\* The collision callback of the tethering pool: disable and enable, which
\* only counts down and up again while a second technology tethers.
tethering_restart(list, queue, start) ==
    \/ /\ tethering_enabled = 1
       /\ TakeDown(list, queue) /\ Begin
       /\ UNCHANGED tolerated
    \/ /\ tethering_enabled # 1
       /\ allocated_blocks' = list /\ events' = queue
       /\ tolerated' = tolerated \cup {start}
       /\ UNCHANGED <<last_block, search, tethering_enabled, bridge, started>>

-----------------------------------------------------------------------------
(***************************************************************************)
(* Private networks.                                                        *)
(***************************************************************************)
\* __connman_private_network_request, up to the search; the kernel gives the
\* tunnel an index nobody knows.
RequestPrivate(p) ==
    /\ Idle /\ pn_hash[p] = "none" /\ Fresh(p) /\ Len(events) <= MaxEvents
    /\ SearchFor(p)
    /\ UNCHANGED <<allocated_blocks, last_block, tethering, tethering_enabled, bridge>>
    /\ UNCHANGED <<started, pn_hash, kernel, tolerated>>

\* The rest of it.  Without a block pn is freed again and nothing that is modelled
\* is left of it; the watch on its D-Bus owner, which stays registered, is not.
Requested(p) ==
    /\ Searching(p) /\ search' = NULL
    /\ \/ /\ Found
          /\ allocated_blocks' = <<PoolInfo(p, PrivateRange, p)>> \o allocated_blocks
          /\ last_block' = search.block
          /\ pn_hash' = [pn_hash EXCEPT ![p] = "requested"]
          /\ tolerated' = tolerated \ {Base(search.block)}
       \/ Exhausted /\ UNCHANGED <<allocated_blocks, last_block, pn_hash, tolerated>>
    /\ UNCHANGED <<tethering, tethering_enabled, bridge, started, kernel>>

\* remove_private_network, which disables the NAT entry whoever it is for.
remove_private_network(p, list, queue, had_address) ==
    /\ allocated_blocks' = Unref(list, p)
    /\ pn_hash' = [pn_hash EXCEPT ![p] = "none"]
    /\ events' = queue \o (IF had_address THEN Del(Own(p, PoolStart(p))) ELSE <<>>)
    /\ UNCHANGED <<last_block, search, tethering_enabled, bridge, tolerated>>
    /\ UNCHANGED <<dhcp_ippool, tethering_dhcp_server, dhcp_servers>>

\* The tunnel's link is reported: the address is set and NAT is enabled, or
\* that fails and the network is removed.
setup_tun_interface(p) ==
    LET own == Own(p, PoolStart(p))
    IN  /\ Idle /\ pn_hash[p] = "requested" /\ Len(events) < MaxEvents
        /\ \/ /\ pn_hash' = [pn_hash EXCEPT ![p] = "up"]
              /\ events' = events \o New(own)
              /\ UNCHANGED <<pool_vars, tethering_enabled, bridge, tolerated>>
              /\ UNCHANGED <<dhcp_ippool, tethering_dhcp_server, dhcp_servers>>
           \/ remove_private_network(p, allocated_blocks, events \o New(own), TRUE)
        /\ UNCHANGED <<tethering, addresses>>

\* __connman_private_network_release, or its owner leaves the bus.
ReleasePrivate(p) ==
    /\ Idle /\ pn_hash[p] # "none"
    /\ remove_private_network(p, allocated_blocks, events, pn_hash[p] = "up")
    /\ UNCHANGED <<tethering, addresses>>

-----------------------------------------------------------------------------
(***************************************************************************)
(* Addresses come and go: __connman_ipconfig_newaddr and _deladdr as far as *)
(* the pools are concerned.                                                 *)
(***************************************************************************)
\* A pool holds the new network's first address, but a newer entry does too.
Masked(a) ==
    /\ lookup_info(a.index, a.start) = {}
    /\ \E info \in Infos : info.pool # NULL /\ Holds(info, a.start)

newaddr(a, queue) ==
    LET list == Entered(a.index, a.start, a.end)
        pool == CollidingPool(a.index, a.start)
    IN  /\ addresses' = addresses \cup {a}
        /\ \/ /\ pool = NULL
              /\ allocated_blocks' = list /\ events' = queue
              /\ tolerated' = IF Masked(a) THEN tolerated \cup {a.start} ELSE tolerated
              /\ UNCHANGED <<last_block, search, tethering_enabled, bridge, started, pn_hash>>
           \/ /\ pool = Tether
              /\ tethering_restart(list, queue, a.start)
              /\ UNCHANGED pn_hash
           \/ /\ pool \in PrivateNetworks
              /\ remove_private_network(pool, list, queue, pn_hash[pool] = "up")
        /\ UNCHANGED tethering

deladdr(a, queue) ==
    /\ addresses' = addresses \ {a}
    /\ allocated_blocks' = Deleted(a.index, a.start)
    /\ events' = queue
    /\ UNCHANGED <<last_block, search, tethering, tethering_enabled, bridge, started>>
    /\ UNCHANGED <<pn_hash, tolerated>>

\* An address of somebody else.  Addresses on one network are alike: they come
\* in the order of their numbers and go in reverse.
Alike(a, b) == a.index = b.index /\ a.start = b.start
ExtNewAddr(a) ==
    /\ Idle /\ a \notin addresses
    /\ \A b \in ExtAddrs : Alike(a, b) /\ b.nr < a.nr => b \in addresses
    /\ newaddr(a, events)
ExtDelAddr(a) ==
    /\ Idle /\ a \in addresses
    /\ \A b \in addresses : Alike(a, b) => b.nr <= a.nr
    /\ deladdr(a, events)

\* The report on an address of connman's own.
HandleEvent ==
    /\ Idle /\ events # <<>>
    /\ LET e == Head(events)
       IN  \/ e.kind = "new" /\ newaddr(e.addr, Tail(events))
           \/ e.kind = "del" /\ deladdr(e.addr, Tail(events))

-----------------------------------------------------------------------------
Init ==
    /\ allocated_blocks = <<>> /\ last_block = NULL /\ search = NULL
    /\ tethering = [t \in Technologies |-> FALSE] /\ tethering_enabled = 0
    /\ bridge = NULL /\ dhcp_ippool = NULL /\ tethering_dhcp_server = NULL
    /\ dhcp_servers = 0
    /\ pn_hash = [p \in PrivateNetworks |-> "none"]
    /\ addresses = {} /\ events = <<>> /\ tolerated = {}

Stages == {"bridge_enable", "dhcp_server_start", "nat_enable"}

Search ==
    \/ Advance /\ UNCHANGED <<tethering, tethering_enabled, bridge, started>>
               /\ UNCHANGED <<pn_hash, kernel, tolerated>>
    \/ Started \/ NoBlock \/ \E stage \in Stages : Failed(stage)
    \/ \E p \in PrivateNetworks : Requested(p)

Next ==
    \/ \E t \in Technologies : Enable(t) \/ Disable(t)
    \/ \E p \in PrivateNetworks :
         RequestPrivate(p) \/ setup_tun_interface(p) \/ ReleasePrivate(p)
    \/ \E a \in ExtAddrs : ExtNewAddr(a) \/ ExtDelAddr(a)
    \/ HandleEvent
    \/ Search

Spec == Init /\ [][Next]_vars

\* A running search is the only thing the daemon does, so it goes on.
FairSpec == Spec /\ WF_vars(Search)

-----------------------------------------------------------------------------
(***************************************************************************)
(* Properties.                                                              *)
(***************************************************************************)
\* The counter may become negative, for starts that failed and were counted
\* off again by their technology, but no further than there are technologies.
TypeOK ==
    /\ last_block \in Blocks \cup {NULL}
    /\ search = NULL \/ /\ search.owner \in PrivateNetworks \cup {Tether}
                        /\ search.block \in Blocks
    /\ tethering_enabled \in -Cardinality(Technologies) .. Cardinality(Technologies)
    /\ bridge \in BridgeIndexes \cup {NULL}
    /\ {dhcp_ippool, tethering_dhcp_server} \subseteq {NULL, "live", "freed"}
    /\ \A info \in Infos : info.start \in Addresses /\ info.end \in Addresses

\* The bridge, the pool and the server that the pointers name exist exactly
\* while the counter is positive: what set_disabled frees was started, once,
\* through failed starts, restarts and negative counts, and nothing else is
\* left over.
RunningCounted ==
    LET running == tethering_enabled >= 1 /\ ~Searching(Tether)
    IN  /\ tethering_enabled >= 1 <=> bridge # NULL
        /\ running <=> dhcp_ippool = "live"
        /\ running <=> tethering_dhcp_server = "live"
        /\ dhcp_servers = IF running THEN 1 ELSE 0
        /\ running <=> \E info \in Infos : info.pool = Tether /\ info.index = bridge

\* No two pools are on one block, an owner has at most one pool, and a private
\* network has one exactly while it is known.
PoolsApart ==
    /\ \A i, j \in DOMAIN allocated_blocks :
         LET a == allocated_blocks[i]
             b == allocated_blocks[j]
         IN  i # j /\ a.pool # NULL /\ b.pool # NULL => a.start # b.start /\ a.pool # b.pool
    /\ \A p \in PrivateNetworks :
         pn_hash[p] # "none" <=> \E info \in Infos : info.pool = p

\* An entry counts the addresses that are on its network, on its interface,
\* and goes with the last one: blocks taken by others are given back.
BlocksCounted ==
    \A info \in Infos :
        LET known == {a \in addresses : a.index = info.index /\ a.start = info.start}
        IN  /\ info.use_count = Cardinality(known)
            /\ info.pool = NULL => info.use_count > 0

\* Connman moves out of the way: a pool shares a block with a foreign network
\* that starts on the block's first address only if that network came while
\* two technologies tethered, or behind a wider one.  A restart begins its
\* search at the very block that collides, and meets late reports on the
\* addresses of bridges that are gone.
PoolsYield ==
    \A pool, info \in Infos :
        /\ pool.pool # NULL /\ info.pool = NULL
        /\ info.start = pool.start
        => info.start \in tolerated

\* The search for a free block comes to an end, found or not; the whole daemon
\* waits for it.
SearchEnds == search # NULL ~> search = NULL
=============================================================================
