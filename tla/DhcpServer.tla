----------------------------- MODULE DhcpServer -----------------------------
(***************************************************************************)
(* The DHCPv4 server of gdhcp (gdhcp/server.c): its lease table and the     *)
(* handlers that change it.  The table is what the code has, a heap of      *)
(* lease objects reachable through two indexes, the expiry-sorted           *)
(* lease_list and the hash nip_lease_hash.  Addresses are host-order        *)
(* integers, as in start_ip, end_ip and lease_nip; a field that the code    *)
(* reads without ntohl goes through Raw.                                    *)
(***************************************************************************)
EXTENDS Integers, SequencesExt

CONSTANTS
    Macs,          \* hardware addresses of the clients
    BadMacs,       \* MAC_BCAST_ADDR and MAC_ANY_ADDR
    Pointers,      \* what g_try_new0 may return
    NULL,          \* the null pointer
    StartIp,       \* start_ip, end_ip: the pool
    EndIp,
    BYTE,          \* values of a byte: 256, smaller in the models
    LittleEndian,  \* byte order of the host
    IntMax,        \* largest gint: 2^31 - 1
    LeaseSeconds,  \* lease_seconds
    OFFER_TIME,    \* 5 * 60
    BootTime,      \* time(NULL) when the first server is created
    ReqIps,        \* values of the requested-ip option, 0 when it is absent
    CiAddrs,       \* values of the ciaddr field
    MaxTime,       \* bound: last second of a behaviour
    MaxServers     \* bound: server objects created in a behaviour

ASSUME PoolAssumption ==
    /\ StartIp \in Nat \ {0} /\ EndIp \in Nat
    /\ BYTE \in Nat \ {0} /\ LittleEndian \in BOOLEAN
    /\ ReqIps \subseteq Nat /\ CiAddrs \subseteq Nat

ASSUME PointerAssumption == NULL \notin Pointers

\* The clock of a running system is past 1970-01-01 00:05.
ASSUME TimeAssumption ==
    /\ LeaseSeconds \in Nat /\ IntMax \in Nat
    /\ OFFER_TIME \in Nat /\ BootTime \in Nat /\ OFFER_TIME < BootTime
    /\ MaxTime \in Nat /\ MaxServers \in Nat

VARIABLES
    state,           \* "none" (no object), "stopped" or "started"
    listening,       \* the listener watch is installed
    lease,           \* the heap: live pointer -> struct dhcp_lease
    lease_list,      \* GList of pointers, latest expiry first
    nip_lease_hash,  \* address -> pointer
    now,             \* time(NULL)
    reply,           \* the packet the last handler sent, or NoReply
    epoch,           \* number of server objects created so far
    granted          \* history: what each client was last ACKed

table == <<lease, lease_list, nip_lease_hash>>
vars == <<state, listening, table, now, reply, epoch, granted>>

Pool == StartIp .. EndIp
Lease == [mac : Macs, nip : Pool, expire : Nat]
NoReply == [type |-> "none", mac |-> NULL, nip |-> 0]
NoGrant == [nip |-> 0, until |-> 0, by |-> 0]
AnyPacket == [type : {"DISCOVER", "REQUEST", "DECLINE", "RELEASE", "INFORM"},
              mac : Macs \cup BadMacs, ciaddr : CiAddrs, req : ReqIps,
              sid : {"none", "ours", "other"}]

\* Packets up to what the handlers read: a field none of them looks at is 0.
Packet == {pkt \in AnyPacket :
             /\ pkt.sid = "other" => pkt.type = "INFORM"
             /\ pkt.type \in {"DISCOVER", "DECLINE", "INFORM"} => pkt.ciaddr = 0
             /\ pkt.type \in {"RELEASE", "INFORM"} => pkt.req = 0
             /\ pkt.type = "REQUEST" => 0 \in {pkt.req, pkt.ciaddr}}

-----------------------------------------------------------------------------
(***************************************************************************)
(* Arithmetic of the build.                                                 *)
(***************************************************************************)
Octet(a, k) == (a \div BYTE^k) % BYTE

\* A 32-bit field in network byte order, read as an integer without ntohl.
Raw(a) == IF LittleEndian
          THEN Octet(a, 0) * BYTE^3 + Octet(a, 1) * BYTE^2
                 + Octet(a, 2) * BYTE + Octet(a, 3)
          ELSE a

\* A time_t difference returned as a gint.
ToInt(d) == ((d + IntMax + 1) % (2 * (IntMax + 1))) - (IntMax + 1)

-----------------------------------------------------------------------------
(***************************************************************************)
(* Looking up and editing the table.                                        *)
(***************************************************************************)
\* (Fault: the walk stops one element early.)
find_lease_by_mac_short(mac) ==
    LET i == SelectInSeq(lease_list, LAMBDA p : lease[p].mac = mac)
    IN  IF i \in {0, Len(lease_list)} THEN NULL ELSE lease_list[i]

find_lease_by_mac(mac) ==
    LET i == SelectInSeq(lease_list, LAMBDA p : lease[p].mac = mac)
    IN  IF i = 0 THEN NULL ELSE lease_list[i]

find_lease_by_nip(nip) ==
    IF nip \in DOMAIN nip_lease_hash THEN nip_lease_hash[nip] ELSE NULL

\* (Fault: a lease is given away in its last second.)
is_expired_lease_early(p) == lease[p].expire <= now

is_expired_lease(p) == lease[p].expire < now

\* (Fault: the operands are swapped, the list is sorted the other way.)
compare_expire_swapped(lease1, lease2) == ToInt(lease1.expire - lease2.expire)

compare_expire(lease1, lease2) == ToInt(lease2.expire - lease1.expire)

\* g_list_insert_sorted: before the first element that does not compare less.
insert_sorted(list, p, heap) ==
    LET i == SelectInSeq(list, LAMBDA q : compare_expire(heap[p], heap[q]) <= 0)
    IN  InsertAt(list, IF i = 0 THEN Len(list) + 1 ELSE i, p)

\* (Fault: the hash keeps pointing at the freed object.)
remove_lease_hashed(p) ==
    /\ lease_list' = RemoveFirst(lease_list, p)
    /\ UNCHANGED nip_lease_hash
    /\ lease' = Restrict(lease, DOMAIN lease \ {p})

remove_lease(p) ==
    /\ lease_list' = RemoveFirst(lease_list, p)
    /\ nip_lease_hash' =
         Restrict(nip_lease_hash, DOMAIN nip_lease_hash \ {lease[p].nip})
    /\ lease' = Restrict(lease, DOMAIN lease \ {p})

\* The objects get_lease may hand out: the lease of the address, else the
\* client's own, else a new one; none for a bad address or when out of memory.
get_lease(yiaddr, mac) ==
    LET lease_mac == find_lease_by_mac(mac)
        lease_nip == find_lease_by_nip(yiaddr)
    IN  CASE yiaddr \notin Pool \/ mac \in BadMacs -> {}
          [] OTHER -> IF lease_nip # NULL THEN {lease_nip}
                      ELSE IF lease_mac # NULL THEN {lease_mac}
                      ELSE Pointers \ DOMAIN lease

\* add_lease with get_lease's edits: object p leaves both indexes, a different
\* lease of the client is removed and freed, p is rewritten and re-inserted.
add_lease(p, expire, mac, yiaddr) ==
    LET lease_mac == find_lease_by_mac(mac)
        heap == [q \in (DOMAIN lease \ {lease_mac}) \cup {p} |->
                   IF q = p THEN [mac |-> mac, nip |-> yiaddr,
                                  expire |-> IF expire = 0
                                             THEN now + LeaseSeconds ELSE expire]
                            ELSE lease[q]]
        unhashed == IF lease_mac = NULL THEN {} ELSE {lease[lease_mac].nip}
    IN  /\ lease' = heap
        /\ lease_list' =
             insert_sorted(RemoveFirst(RemoveFirst(lease_list, p), lease_mac),
                           p, heap)
        /\ nip_lease_hash' =
             [n \in (DOMAIN nip_lease_hash \ unhashed) \cup {yiaddr} |->
                IF n = yiaddr THEN p ELSE nip_lease_hash[n]]

lease_set_expire(p, expire) ==
    LET heap == [lease EXCEPT ![p].expire = expire]
    IN  /\ lease' = heap
        /\ lease_list' = insert_sorted(RemoveFirst(lease_list, p), p, heap)
        /\ UNCHANGED nip_lease_hash

\* x.x.x.0 and x.x.x.255 are never picked by the search.
Pickable == {ip \in Pool : ip % BYTE \notin {0, BYTE - 1}}

find_free_or_expired_nip ==
    LET free == Pickable \ DOMAIN nip_lease_hash
        last == lease_list[Len(lease_list)]   \* "the oldest one"
    IN  IF free # {} THEN Min(free)
        ELSE IF lease_list # << >> /\ is_expired_lease(last)
        THEN lease[last].nip
        ELSE 0

\* (Fault: the client gets the address it asks for, leased or not.)
check_requested_nip_range(nip) == nip \in Pool

check_requested_nip(nip) ==
    /\ nip \in Pool
    /\ nip \in DOMAIN nip_lease_hash => is_expired_lease(nip_lease_hash[nip])

-----------------------------------------------------------------------------
(***************************************************************************)
(* Replies.  A granted address is what the client may use until the time    *)
(* the ACK named, unless it gives it up itself.                             *)
(***************************************************************************)
Send(type, mac, nip) == reply' = [type |-> type, mac |-> mac, nip |-> nip]
Silent == reply' = NoReply
GivesUp(mac) == granted' = [granted EXCEPT ![mac] = NoGrant]

offer_nip(pkt) ==
    LET p == find_lease_by_mac(pkt.mac)
    IN  IF p # NULL THEN lease[p].nip
        ELSE IF check_requested_nip(pkt.req) THEN pkt.req
        ELSE find_free_or_expired_nip

send_offer(pkt) ==
    LET yiaddr == offer_nip(pkt)
        targets == get_lease(yiaddr, pkt.mac)
    IN  \/ /\ targets = {}
           /\ Silent
           /\ UNCHANGED <<table, granted>>
        \/ \E p \in targets :
             /\ add_lease(p, OFFER_TIME, pkt.mac, yiaddr)
             /\ Send("OFFER", pkt.mac, yiaddr)
             /\ GivesUp(pkt.mac)

send_ACK(pkt, dest) ==
    /\ Send("ACK", pkt.mac, dest)
    /\ \E p \in get_lease(dest, pkt.mac) : add_lease(p, 0, pkt.mac, dest)
    /\ granted' = [granted EXCEPT ![pkt.mac] =
                     [nip |-> dest, until |-> now + LeaseSeconds, by |-> epoch]]

-----------------------------------------------------------------------------
(***************************************************************************)
(* listener_event, one action per message type.                             *)
(***************************************************************************)
Accepts(pkt, type) ==
    /\ listening
    /\ pkt.type = type
    /\ pkt.sid # "other"
    /\ UNCHANGED <<state, listening, now, epoch>>

Discover(pkt) == Accepts(pkt, "DISCOVER") /\ send_offer(pkt)

\* (Fault: ciaddr is not consulted.)
requested_nip_option(pkt) == pkt.req

\* The address asked for: the option, else ciaddr as it lies in the packet.
requested_nip(pkt) == IF pkt.req # 0 THEN pkt.req ELSE Raw(pkt.ciaddr)

request_answer(pkt) ==
    LET p == find_lease_by_mac(pkt.mac)
    IN  IF requested_nip(pkt) = 0 THEN "silent"
        ELSE IF p # NULL /\ requested_nip(pkt) = lease[p].nip THEN "ACK"
        ELSE IF pkt.sid # "none" \/ p = NULL THEN "NAK"
        ELSE "silent"

Request(pkt) ==
    /\ Accepts(pkt, "REQUEST")
    /\ \/ /\ request_answer(pkt) = "ACK"
          /\ send_ACK(pkt, requested_nip(pkt))
       \/ /\ request_answer(pkt) = "NAK"
          /\ Send("NAK", pkt.mac, 0)
          /\ UNCHANGED <<table, granted>>
       \/ /\ request_answer(pkt) = "silent"
          /\ Silent
          /\ UNCHANGED <<table, granted>>

Decline(pkt) ==
    LET p == find_lease_by_mac(pkt.mac)
    IN  /\ Accepts(pkt, "DECLINE")
        /\ Silent
        /\ IF pkt.sid = "ours" /\ p # NULL /\ pkt.req = lease[p].nip
           THEN remove_lease(p) /\ GivesUp(pkt.mac)
           ELSE UNCHANGED <<table, granted>>

Release(pkt) ==
    LET p == find_lease_by_mac(pkt.mac)
    IN  /\ Accepts(pkt, "RELEASE")
        /\ Silent
        /\ IF pkt.sid = "ours" /\ p # NULL /\ Raw(pkt.ciaddr) = lease[p].nip
           THEN lease_set_expire(p, now) /\ GivesUp(pkt.mac)
           ELSE UNCHANGED <<table, granted>>

Inform(pkt) ==
    /\ Accepts(pkt, "INFORM")
    /\ Send("INFORM_ACK", pkt.mac, 0)
    /\ UNCHANGED <<table, granted>>

\* A packet that carries another server's identifier.
Ignore(pkt) ==
    /\ listening
    /\ pkt.sid = "other"
    /\ Silent
    /\ UNCHANGED <<state, listening, table, now, epoch, granted>>

\* G_IO_NVAL, G_IO_ERR or G_IO_HUP: the watch goes, started stays set.
ListenerError ==
    /\ listening
    /\ listening' = FALSE
    /\ Silent
    /\ UNCHANGED <<state, table, now, epoch, granted>>

-----------------------------------------------------------------------------
(***************************************************************************)
(* The life of the server object.                                           *)
(***************************************************************************)
EmptyTable ==
    /\ lease' = [p \in {} |-> p]
    /\ lease_list' = << >>
    /\ nip_lease_hash' = [n \in {} |-> n]

g_dhcp_server_new ==
    /\ state = "none"
    /\ state' = "stopped"
    /\ epoch' = epoch + 1
    /\ EmptyTable
    /\ Silent
    /\ UNCHANGED <<listening, now, granted>>

\* A started server returns at once, whether or not its watch is alive.
g_dhcp_server_start ==
    /\ state = "stopped"
    /\ state' = "started" /\ listening' = TRUE
    /\ Silent
    /\ UNCHANGED <<table, now, epoch, granted>>

\* (Fault: the watch survives the stop.)
g_dhcp_server_stop_watched ==
    /\ state # "none"
    /\ state' = "stopped"
    /\ Silent
    /\ UNCHANGED <<listening, table, now, epoch, granted>>

\* save_lease calls nothing: no caller sets save_lease_func.
g_dhcp_server_stop ==
    /\ state # "none"
    /\ state' = "stopped" /\ listening' = FALSE
    /\ Silent
    /\ UNCHANGED <<table, now, epoch, granted>>

\* The last reference goes: stop and destroy_lease_table.
g_dhcp_server_unref ==
    /\ state # "none" /\ epoch < MaxServers
    /\ state' = "none" /\ listening' = FALSE
    /\ EmptyTable
    /\ Silent
    /\ UNCHANGED <<now, epoch, granted>>

Tick ==
    /\ now < MaxTime
    /\ now' = now + 1
    /\ Silent
    /\ UNCHANGED <<state, listening, table, epoch, granted>>

Init ==
    /\ state = "none" /\ listening = FALSE
    /\ lease = [p \in {} |-> p]
    /\ lease_list = << >>
    /\ nip_lease_hash = [n \in {} |-> n]
    /\ now = BootTime /\ epoch = 0
    /\ reply = NoReply
    /\ granted = [m \in Macs |-> NoGrant]

listener_event(pkt) ==
    \/ Discover(pkt) \/ Request(pkt) \/ Decline(pkt) \/ Release(pkt)
    \/ Inform(pkt) \/ Ignore(pkt)

Next ==
    \/ \E pkt \in Packet : listener_event(pkt)
    \/ ListenerError
    \/ g_dhcp_server_new \/ g_dhcp_server_start
    \/ g_dhcp_server_stop \/ g_dhcp_server_unref
    \/ Tick

Spec == Init /\ [][Next]_vars

-----------------------------------------------------------------------------
(***************************************************************************)
(* Properties.                                                              *)
(***************************************************************************)

TableTypeOK ==
    /\ lease \in [DOMAIN lease -> Lease] /\ DOMAIN lease \subseteq Pointers
    /\ lease_list \in Seq(Pointers)
    /\ nip_lease_hash \in [DOMAIN nip_lease_hash -> Pointers]
    /\ DOMAIN nip_lease_hash \subseteq Pool

Grant == [nip : Pool \cup {0}, until : Nat, by : Nat]

\* Type invariant: a listening server is a started one, and no client holds an
\* ACK from a server object that is yet to be created.
TypeOK ==
    /\ TableTypeOK
    /\ state \in {"none", "stopped", "started"}
    /\ listening \in BOOLEAN /\ (listening => state = "started")
    /\ now \in Nat /\ epoch \in Nat
    /\ granted \in [Macs -> Grant]
    /\ \A m \in Macs : granted[m].by <= epoch

\* The two indexes and the heap describe the same set of leases: no object is
\* leaked or dangling, none is listed twice, and the hash files each under its
\* own address.  (get_lease, add_lease, remove_lease edit the three by hand.)
IndexesAgree ==
    /\ IsInjective(lease_list)
    /\ ToSet(lease_list) = DOMAIN lease
    /\ DOMAIN nip_lease_hash = {lease[p].nip : p \in DOMAIN lease}
    /\ \A p \in DOMAIN lease : nip_lease_hash[lease[p].nip] = p

\* A client has at most one lease, so find_lease_by_mac's first hit is the only.
OneLeasePerMac ==
    \A p, q \in DOMAIN lease : lease[p].mac = lease[q].mac => p = q

Live(m) == granted[m].nip # 0 /\ now <= granted[m].until

\* Every unexpired ACK of the current server object is backed by a lease of the
\* same client, address and expiry: no handler for another client's packet
\* takes the object away (get_lease recycles the lease of the address it is
\* asked for, whoever owns it).
GrantBacked ==
    \A m \in Macs : Live(m) /\ granted[m].by = epoch /\ state # "none" =>
      \E p \in DOMAIN lease : lease[p] = [mac |-> m, nip |-> granted[m].nip,
                                         expire |-> granted[m].until]

\* Two clients never hold the same address on unexpired ACKs of one server
\* object, whatever DISCOVERs, DECLINEs and RELEASEs come in between.
AckExclusive ==
    \A m, n \in Macs :
      /\ m # n /\ Live(m) /\ Live(n)
      /\ granted[m].by = granted[n].by
      => granted[m].nip # granted[n].nip

\* While some address of the pool is unleased or its lease has expired, a
\* DISCOVER without wishes finds an address: find_free_or_expired_nip may look
\* at the last element only because the list is sorted by expiry.
ReclaimsExpired ==
    (\/ Pickable \ DOMAIN nip_lease_hash # {}
     \/ \E p \in DOMAIN lease : is_expired_lease(p))
    => find_free_or_expired_nip # 0

\* The renewal of an ACKed lease: a REQUEST that names the address in ciaddr
\* only, as the gdhcp client sends from RENEWING and REBINDING.
Renewal(m) == [type |-> "REQUEST", mac |-> m, ciaddr |-> granted[m].nip,
               req |-> 0, sid |-> "none"]

\* A client that holds an unexpired ACK of this server object can renew it:
\* nothing other clients did meanwhile makes the server NAK or ignore it.
RenewAnswered ==
    \A m \in Macs : Live(m) /\ granted[m].by = epoch /\ state # "none"
                  => request_answer(Renewal(m)) = "ACK"

\* "5 minutes" (OFFER_TIME): an address just offered to one client is not what
\* a DISCOVER of another client, in the same second, would be offered.
OfferReserved ==
    reply.type = "OFFER" =>
      \A pkt \in Packet : pkt.type = "DISCOVER" /\ pkt.mac # reply.mac
                          => offer_nip(pkt) # reply.nip

\* "Save leases, before stop; load them before start" (g_dhcp_server_stop): an
\* address is not ACKed to a second client while the ACK of an earlier server
\* object on the same interface still runs.
AckExclusiveAcrossRestart ==
    \A m, n \in Macs : m # n /\ Live(m) /\ Live(n)
                       => granted[m].nip # granted[n].nip

=============================================================================
