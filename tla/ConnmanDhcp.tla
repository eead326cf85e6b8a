----------------------------- MODULE ConnmanDhcp -----------------------------
(***************************************************************************)
(* connmand's DHCPv4 glue (src/dhcp.c) on the clients of GDHCPClient.  Per   *)
(* interface there is a DHCP client and, when DHCP gives no lease, an IPv4LL *)
(* client; one flag, ipv4ll_running, is shared by all interfaces.  The       *)
(* handlers of the clients run on one main loop and call back into dhcp.c    *)
(* before they return, so a step is one handler with the callback it makes.  *)
(***************************************************************************)
EXTENDS GDHCPClient

CONSTANTS
    Ifaces,      \* interfaces whose ipconfig uses DHCP
    LeaseTimes,  \* lease-time options of the ACKs, NULL when absent
    SocketOk,    \* outcomes of opening a socket
    WatchOk,     \* outcomes of watching one: FALSE, an error ends the watch
    IfaceUp,     \* outcomes of g_dhcp_client_new: is the interface up?
    AddressOk,   \* outcomes of configuring an address in dhcp_success
    MaxStarts    \* bound: calls of __connman_dhcp_start per interface

ASSUME NullAssumption == NULL \notin Client

ASSUME GlueAssumption ==
    /\ {SocketOk, WatchOk, IfaceUp, AddressOk} \subseteq SUBSET BOOLEAN
    /\ \A l \in LeaseTimes : l = NULL \/ l \in Nat
    /\ MaxStarts \in Nat

VARIABLES
    dhcp_client,     \* dhcp->dhcp_client, NULL when there is no connman_dhcp
    ipv4ll_client,   \* dhcp->ipv4ll_client
    timeout,         \* dhcp->timeout is armed with dhcp_retry_cb
    local,           \* the address of the ipconfig, in use on the interface
    dhcp_address,    \* last_dhcp_address of the ipconfig
    ipv4ll_running,  \* the flag shared by all interfaces
    lease,           \* history: the address of a lease that has not run out
    starts,          \* calls of __connman_dhcp_start so far
    fault            \* "none", or the handler that used a client after its free

vars == <<dhcp_client, ipv4ll_client, timeout, local, dhcp_address,
          ipv4ll_running, lease, starts, fault>>

\* What the functions of dhcp.c called for interface i read and write.
Dhcp(i) == [dhcp_client |-> dhcp_client[i], ipv4ll_client |-> ipv4ll_client[i],
            timeout |-> timeout[i], local |-> local[i],
            dhcp_address |-> dhcp_address[i], ipv4ll_running |-> ipv4ll_running,
            lease |-> lease[i]]

\* After a fault the behaviour is undefined, and the model stops.
Store(i, d) ==
    /\ fault = "none"
    /\ dhcp_client' = [dhcp_client EXCEPT ![i] = d.dhcp_client]
    /\ ipv4ll_client' = [ipv4ll_client EXCEPT ![i] = d.ipv4ll_client]
    /\ timeout' = [timeout EXCEPT ![i] = d.timeout]
    /\ local' = [local EXCEPT ![i] = d.local]
    /\ dhcp_address' = [dhcp_address EXCEPT ![i] = d.dhcp_address]
    /\ ipv4ll_running' = d.ipv4ll_running
    /\ lease' = [lease EXCEPT ![i] = d.lease]

-----------------------------------------------------------------------------
(***************************************************************************)
(* The functions of dhcp.c.                                                 *)
(***************************************************************************)
\* (Fault: the flag is not taken back.)
ipv4ll_stop_client_flag(d) == [d EXCEPT !.ipv4ll_client = NULL]

ipv4ll_stop_client(d) ==
    IF d.ipv4ll_client = NULL THEN d
    ELSE [d EXCEPT !.ipv4ll_client = NULL, !.ipv4ll_running = FALSE]

\* The upper layer's callback (dhcp_failure) removes the address once more.
dhcp_invalidate(d) == [d EXCEPT !.dhcp_address = d.local, !.local = NoIp]

\* (Fault: the type is copied from dhcp_initialize.)
ipv4ll_start_client_ipv4(d, up, ip) ==
    IF d.ipv4ll_client # NULL \/ ~up THEN d
    ELSE [d EXCEPT !.ipv4ll_client = g_dhcp_client_start(
                        g_dhcp_client_new("IPV4"), NoIp, TRUE, ip),
                   !.ipv4ll_running = TRUE]

ipv4ll_start_client(d, up, ip) ==
    IF d.ipv4ll_client # NULL \/ ~up THEN d
    ELSE [d EXCEPT !.ipv4ll_client = g_dhcp_client_start(
                        g_dhcp_client_new("IPV4LL"), NoIp, TRUE, ip),
                   !.ipv4ll_running = TRUE]

\* (Fault: it goes on although IPv4LL is running.)
no_lease_cb_again(d, up, ip) ==
    dhcp_invalidate(ipv4ll_start_client([d EXCEPT !.timeout = TRUE], up, ip))

\* (Fault: the old address is kept.)
no_lease_cb_keep(d, up, ip) ==
    LET e == [d EXCEPT !.timeout = TRUE]
    IN  IF e.ipv4ll_running THEN e ELSE ipv4ll_start_client(e, up, ip)

no_lease_cb(d, up, ip) ==
    LET e == [d EXCEPT !.timeout = TRUE]
    IN  IF e.ipv4ll_running THEN e
        ELSE dhcp_invalidate(ipv4ll_start_client(e, up, ip))

lease_lost_cb(d) == dhcp_invalidate(d)

\* (Fault: the lost address is kept.)
ipv4ll_lost_cb_keep(d) == ipv4ll_stop_client(d)

ipv4ll_lost_cb(d) == dhcp_invalidate(ipv4ll_stop_client(d))

dhcp_release(d) ==
    ipv4ll_stop_client([d EXCEPT !.timeout = FALSE, !.dhcp_client = NULL])

__connman_dhcp_stop(d) ==
    IF d.dhcp_client = NULL THEN d
    ELSE [dhcp_invalidate(dhcp_release(d)) EXCEPT !.lease = NoIp]

\* dhcp_valid calls dhcp_success in network.c; when the address or the gateway
\* cannot be configured the network is disconnected, and DHCP with it stopped.
dhcp_valid(d, added) == IF added THEN d ELSE __connman_dhcp_stop(d)

\* (Fault: the IPv4LL client is not stopped.)
lease_available_cb_with_ll(d, added) ==
    LET address == d.dhcp_client.assigned_ip
    IN  dhcp_valid([d EXCEPT !.dhcp_address = address, !.local = address], added)

lease_available_cb(d, added) ==
    LET e == IF d.ipv4ll_client = NULL THEN d
             ELSE dhcp_invalidate(ipv4ll_stop_client(d))
        address == d.dhcp_client.assigned_ip
    IN  dhcp_valid([e EXCEPT !.dhcp_address = address, !.local = address], added)

ipv4ll_available_cb(d, added) ==
    dhcp_valid([d EXCEPT !.local = d.ipv4ll_client.assigned_ip], added)

-----------------------------------------------------------------------------
(***************************************************************************)
(* A handler of a client leaves it as c, with the callback c.cb made.       *)
(***************************************************************************)
\* The DHCP client's callbacks; dhcp.c registers these three.
Runs(d, c, up, ip, added) ==
    LET e == [d EXCEPT !.dhcp_client = c]
    IN  CASE c.cb = "no_lease"        -> no_lease_cb(e, up, ip)
          [] c.cb = "lease_lost"      -> lease_lost_cb([e EXCEPT !.lease = NoIp])
          [] c.cb = "lease_available" ->
               lease_available_cb([e EXCEPT !.lease = c.assigned_ip], added)
          [] OTHER                    -> e

\* The IPv4LL client's: of NO_LEASE dhcp.c is not told.
RunsLL(d, c, added) ==
    LET e == [d EXCEPT !.ipv4ll_client = c]
    IN  CASE c.cb = "ipv4ll_lost"      -> ipv4ll_lost_cb(e)
          [] c.cb = "ipv4ll_available" -> ipv4ll_available_cb(e, added)
          [] OTHER                     -> e

\* Handlers that go on with the client after the callback.  If the callback
\* has freed it, what follows is undefined and the behaviour ends here.
UseAfterFree(freed, cb) ==
    fault' = IF freed /\ cb \in {"lease_available", "ipv4ll_available", "ipv4ll_lost"}
             THEN cb ELSE "none"

\* A handler of interface i's DHCP client that turns it into H(ok).  (\E binds
\* c and d to their values, which TLC then computes once.)
Handle(i, H(_)) ==
    \E ok \in SocketOk, up \in IfaceUp, ip \in LinkLocal, added \in AddressOk :
        \E c \in {H(ok)} : \E d \in {Runs(Dhcp(i), c, up, ip, added)} :
            /\ Store(i, d)
            /\ UseAfterFree(d.dhcp_client = NULL, c.cb)
            /\ UNCHANGED starts

HandleLL(i, H(_, _)) ==
    \E ok \in SocketOk, ip \in LinkLocal, added \in AddressOk :
        \E c \in {H(ok, ip)} : \E d \in {RunsLL(Dhcp(i), c, added)} :
            /\ Store(i, d)
            /\ UseAfterFree(d.ipv4ll_client = NULL, c.cb)
            /\ UNCHANGED starts

-----------------------------------------------------------------------------
(***************************************************************************)
(* Timers of the DHCP client.  T1 comes before T2 and T2 before the expiry. *)
(***************************************************************************)
Armed(i, f, h) == dhcp_client[i] # NULL /\ dhcp_client[i][f] = h
ArmedLL(i, h) == ipv4ll_client[i] # NULL /\ ipv4ll_client[i].timeout = h

DiscoverTimeout(i) == Armed(i, "timeout", "discover_timeout")
    /\ Handle(i, LAMBDA ok : discover_timeout(dhcp_client[i], ok))

RebootTimeout(i) == Armed(i, "timeout", "reboot_timeout")
    /\ Handle(i, LAMBDA ok : reboot_timeout(dhcp_client[i], ok))

RequestTimeout(i) == Armed(i, "timeout", "request_timeout")
    /\ Handle(i, LAMBDA ok : request_timeout(dhcp_client[i], ok))

RestartTimeout(i) == Armed(i, "timeout", "restart_dhcp_timeout")
    /\ Handle(i, LAMBDA ok : restart_dhcp_timeout(dhcp_client[i], ok))

StartRenew(i) == Armed(i, "t1_timeout", "start_renew")
    /\ Handle(i, LAMBDA ok : start_renew(dhcp_client[i], ok))

ContinueRenew(i) == Armed(i, "t1_timeout", "continue_renew")
    /\ Handle(i, LAMBDA ok : continue_renew(dhcp_client[i], ok))

StartRebound(i) ==
    /\ Armed(i, "t2_timeout", "start_rebound") /\ Armed(i, "t1_timeout", "none")
    /\ Handle(i, LAMBDA ok : start_rebound(dhcp_client[i], ok))

ContinueRebound(i) == Armed(i, "t2_timeout", "continue_rebound")
    /\ Handle(i, LAMBDA ok : continue_rebound(dhcp_client[i], ok))

StartExpire(i) ==
    /\ Armed(i, "lease_timeout", "start_expire")
    /\ Armed(i, "t1_timeout", "none") /\ Armed(i, "t2_timeout", "none")
    /\ Handle(i, LAMBDA ok : start_expire(dhcp_client[i], ok))

\* The time of a lease passes that no timer watches over.
LeaseRunsOut(i) ==
    /\ lease[i] # NoIp /\ ~Armed(i, "lease_timeout", "start_expire")
    /\ Store(i, [Dhcp(i) EXCEPT !.lease = NoIp])
    /\ UNCHANGED <<starts, fault>>

\* The watch reports a packet, or an error of the socket.
Packet(i) ==
    /\ dhcp_client[i] # NULL /\ dhcp_client[i].listener_watch
    /\ \E message_type \in {"OFFER", "ACK", "NAK"}, yiaddr \in Ips, l \in LeaseTimes :
          Handle(i, LAMBDA ok : dhcp_packet(dhcp_client[i], message_type, yiaddr, l, ok))

ListenerError(i) ==
    /\ FALSE \in WatchOk
    /\ dhcp_client[i] # NULL /\ dhcp_client[i].listener_watch
    /\ Handle(i, LAMBDA ok : listener_error(dhcp_client[i]))

-----------------------------------------------------------------------------
(***************************************************************************)
(* Timers and packets of the IPv4LL client.                                 *)
(***************************************************************************)
SendProbe(i) == ArmedLL(i, "send_probe_packet")
    /\ HandleLL(i, LAMBDA ok, ip : send_probe_packet(ipv4ll_client[i], ok, ip))

ProbeTimeout(i) == ArmedLL(i, "ipv4ll_probe_timeout")
    /\ HandleLL(i, LAMBDA ok, ip : ipv4ll_probe_timeout(ipv4ll_client[i], ok, ip))

AnnounceTimeout(i) == ArmedLL(i, "ipv4ll_announce_timeout")
    /\ HandleLL(i, LAMBDA ok, ip : ipv4ll_announce_timeout(ipv4ll_client[i]))

DefendTimeout(i) == ArmedLL(i, "ipv4ll_defend_timeout")
    /\ HandleLL(i, LAMBDA ok, ip : ipv4ll_defend_timeout(ipv4ll_client[i]))

ArpPacket(i) ==
    /\ ipv4ll_client[i] # NULL /\ ipv4ll_client[i].listener_watch
    /\ \E source \in BOOLEAN :
          HandleLL(i, LAMBDA ok, ip : ipv4ll_recv_arp_packet(ipv4ll_client[i], source))

ArpError(i) ==
    /\ FALSE \in WatchOk
    /\ ipv4ll_client[i] # NULL /\ ipv4ll_client[i].listener_watch
    /\ HandleLL(i, LAMBDA ok, ip : listener_error(ipv4ll_client[i]))

-----------------------------------------------------------------------------
(***************************************************************************)
(* dhcp.c's own timer and the calls of network.c.                           *)
(***************************************************************************)
dhcp_retry_cb(i) ==
    /\ timeout[i]
    /\ \E ok \in SocketOk, up \in IfaceUp, ip \in LinkLocal :
          \E c \in {g_dhcp_client_start([dhcp_client[i] EXCEPT !.cb = "none"],
                                        dhcp_address[i], ok, ip)} :
          \E d \in {Runs([Dhcp(i) EXCEPT !.timeout = FALSE], c, up, ip, TRUE)} :
              Store(i, d)
    /\ UNCHANGED <<starts, fault>>

\* The network connects, or the ipconfig of one that is connected is enabled
\* again after a change of its IPv6 half.  When the start fails network.c
\* disconnects the network, which stops DHCP.
__connman_dhcp_start(i) ==
    /\ starts[i] < MaxStarts
    /\ starts' = [starts EXCEPT ![i] = @ + 1]
    /\ \E ok \in SocketOk, up \in IfaceUp, ip \in LinkLocal :
          LET c == IF dhcp_client[i] = NULL THEN g_dhcp_client_new("IPV4")
                   ELSE [dhcp_client[i] EXCEPT !.cb = "none"]
          IN  /\ dhcp_client[i] = NULL => up
              /\ Store(i, IF StartFails(c, ok)
                          THEN __connman_dhcp_stop([Dhcp(i) EXCEPT !.dhcp_client = c])
                          ELSE Runs(Dhcp(i),
                                    g_dhcp_client_start(c, dhcp_address[i], ok, ip),
                                    up, ip, TRUE))
    /\ UNCHANGED fault

\* network.c: set_disconnected.
Disconnect(i) ==
    /\ dhcp_client[i] # NULL
    /\ Store(i, __connman_dhcp_stop(Dhcp(i)))
    /\ UNCHANGED <<starts, fault>>

-----------------------------------------------------------------------------
Init ==
    /\ dhcp_client = [i \in Ifaces |-> NULL]
    /\ ipv4ll_client = [i \in Ifaces |-> NULL]
    /\ timeout = [i \in Ifaces |-> FALSE]
    /\ local = [i \in Ifaces |-> NoIp]
    /\ dhcp_address \in [Ifaces -> Ips \cup {NoIp}]
    /\ ipv4ll_running = FALSE
    /\ lease = [i \in Ifaces |-> NoIp]
    /\ starts = [i \in Ifaces |-> 0]
    /\ fault = "none"

Timer(i) ==
    \/ DiscoverTimeout(i) \/ RebootTimeout(i) \/ RequestTimeout(i) \/ RestartTimeout(i)
    \/ StartRenew(i) \/ ContinueRenew(i) \/ StartRebound(i) \/ ContinueRebound(i)
    \/ StartExpire(i) \/ dhcp_retry_cb(i)

TimerLL(i) ==
    \/ SendProbe(i) \/ ProbeTimeout(i) \/ AnnounceTimeout(i) \/ DefendTimeout(i)

Environment(i) ==
    \/ Packet(i) \/ ListenerError(i) \/ ArpPacket(i) \/ ArpError(i) \/ LeaseRunsOut(i)
    \/ __connman_dhcp_start(i) \/ Disconnect(i)

Next == \E i \in Ifaces : Timer(i) \/ TimerLL(i) \/ Environment(i)

Spec == Init /\ [][Next]_vars

\* The main loop runs the handler of every timer that stays armed.
FairSpec ==
    /\ Spec
    /\ \A i \in Ifaces : WF_vars(Timer(i)) /\ WF_vars(TimerLL(i))

-----------------------------------------------------------------------------
(***************************************************************************)
(* Properties.                                                              *)
(***************************************************************************)
\* Every client is one struct _GDHCPClient of the right type, uint8_t counters
\* stay in range, and the address the interface uses is one the code knows.
TypeOK ==
    /\ dhcp_client \in [Ifaces -> {c \in Client : c.type = "IPV4"} \cup {NULL}]
    /\ ipv4ll_client \in [Ifaces -> {c \in Client : c.type = "IPV4LL"} \cup {NULL}]
    /\ timeout \in [Ifaces -> BOOLEAN]
    /\ local \in [Ifaces -> AnyIp] /\ dhcp_address \in [Ifaces -> AnyIp]
    /\ ipv4ll_running \in BOOLEAN
    /\ lease \in [Ifaces -> Ips \cup {NoIp}]
    /\ starts \in [Ifaces -> 0 .. MaxStarts]
    /\ fault \in Callbacks

Bound(i) == dhcp_client[i] # NULL /\ dhcp_client[i].state \in HoldsLease

\* While the client holds a lease the interface uses the leased address and no
\* link-local one, and a timer will end the lease or restart after a NAK
\* (lease_available_cb, start_bound, start_expire).
BoundInUse ==
    \A i \in Ifaces : Bound(i) =>
        /\ local[i] = dhcp_client[i].assigned_ip
        /\ ipv4ll_client[i] = NULL
        /\ \/ dhcp_client[i].lease_timeout = "start_expire"
           \/ dhcp_client[i].timeout = "restart_dhcp_timeout"

\* A link-local address in use is one the IPv4LL client has announced and still
\* watches over (ipv4ll_available_cb, ipv4ll_lost_cb, lease_available_cb).
LinkLocalWatched ==
    \A i \in Ifaces : local[i] \in LinkLocal =>
        /\ ipv4ll_client[i] # NULL
        /\ ipv4ll_client[i].state \in {"IPV4LL_MONITOR", "IPV4LL_DEFEND"}
        /\ ipv4ll_client[i].requested_ip = local[i]

\* An address the IPv4LL client watches over is the one the interface uses:
\* no_lease_cb notifies the upper layer only "if we have a problem".
LinkLocalInUse ==
    \A i \in Ifaces :
        /\ ipv4ll_client[i] # NULL
        /\ ipv4ll_client[i].state \in {"IPV4LL_MONITOR", "IPV4LL_DEFEND"}
        => local[i] = ipv4ll_client[i].requested_ip

\* The shared flag says whether an IPv4LL client exists, and there is at most
\* one on all interfaces (no_lease_cb, ipv4ll_start_client, ipv4ll_stop_client).
FlagOwned ==
    /\ ipv4ll_running <=> \E i \in Ifaces : ipv4ll_client[i] # NULL
    /\ \A i, j \in Ifaces :
          ipv4ll_client[i] # NULL /\ ipv4ll_client[j] # NULL => i = j

\* When DHCP has given up, the interface no longer uses an address of a lease,
\* also if a NAK ended that lease and nothing was reported until now
\* (no_lease_cb, which clears the address if "we have a problem").
NoLeaseCleared ==
    \A i \in Ifaces :
        dhcp_client[i] # NULL /\ dhcp_client[i].cb = "no_lease"
        => local[i] \notin Ips

\* Every REQUEST names an address a server can confirm, in whichever state and
\* after whichever restarts it is sent (send_request).
RequestNamesAddress ==
    \A i \in Ifaces :
        dhcp_client[i] # NULL /\ dhcp_client[i].sent.type = "REQUEST"
        => dhcp_client[i].sent.ip \in Ips

\* While its sockets open and report no error, a client that waits for an answer
\* has a watch on the socket where the answer will come in: on L2 before it has
\* an address and when rebinding, on L3 when renewing (switch_listening_mode and
\* its callers).  After an error it does not hold: the watch is gone, listen_mode
\* stays, and switch_listening_mode takes the socket for open from then on.
ListensForAnswer ==
    \A i \in Ifaces : dhcp_client[i] # NULL =>
        LET c == dhcp_client[i]
            hears(mode) == c.listen_mode = mode /\ c.listener_watch
        IN  /\ c.state \in {"INIT_SELECTING", "REBOOTING", "REQUESTING", "REBINDING"}
                  => hears("L2")
            /\ c.state = "RENEWING" => hears("L3")

\* A started client never just sits there: one of its own timers or the retry
\* timer of dhcp.c will wake it up.
NeverStuck ==
    \A i \in Ifaces : dhcp_client[i] # NULL =>
        \/ dhcp_client[i].timeout # "none"
        \/ dhcp_client[i].lease_timeout # "none"
        \/ timeout[i]

\* An IPv4LL client that has given up after MAX_CONFLICTS conflicts.
GaveUp(i) == ipv4ll_client[i] # NULL /\ ipv4ll_client[i].cb = "no_lease"

\* After MAX_CONFLICTS the client is to "just report failure": dhcp.c does not
\* go on believing in an IPv4LL client that does nothing (ipv4ll_recv_arp_packet).
FailureReported == \A i \in Ifaces : ~GaveUp(i)

\* A leased address is in use only until its lease runs out: then the "ip need
\* to be cleared" (start_expire).
AddressLeased ==
    \A i \in Ifaces : local[i] \in Ips => lease[i] = local[i]

\* The retry timer runs between attempts, "delay between successive attempts",
\* and not while a lease is held (RATE_LIMIT_INTERVAL, no_lease_cb).
RetryBetweenAttempts == \A i \in Ifaces : timeout[i] => ~Bound(i)

\* No handler goes on with a client that its callback has freed: after a
\* callback "the dhcp_client might not be valid" (listener_event).
NoUseAfterFree == fault = "none"

\* Another interface has the one IPv4LL client.
LinkLocalElsewhere(i) == \E j \in Ifaces \ {i} : ipv4ll_client[j] # NULL

\* An interface whose DHCP runs gets some address, leased or link-local, or its
\* network goes away, whatever servers and neighbours do short of MAX_CONFLICTS;
\* unless IPv4LL runs on another interface, for then no_lease_cb returns before
\* it starts a client for this one.
GetsAddress ==
    \A i \in Ifaces :
        dhcp_client[i] # NULL
        ~> \/ local[i] # NoIp \/ dhcp_client[i] = NULL \/ LinkLocalElsewhere(i)
           \/ GaveUp(i) \/ fault # "none"

\* The same without the exception, as if every interface fell back to IPv4LL on
\* its own.  It fails for two interfaces that no DHCP server answers.
EachGetsAddress ==
    \A i \in Ifaces :
        dhcp_client[i] # NULL
        ~> local[i] # NoIp \/ dhcp_client[i] = NULL \/ GaveUp(i) \/ fault # "none"
=============================================================================
