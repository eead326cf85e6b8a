----------------------------- MODULE GDHCPClient -----------------------------
(***************************************************************************)
(* The DHCPv4 and IPv4LL client object of gdhcp (gdhcp/client.c).  A client *)
(* is a record with the fields of struct _GDHCPClient that decide what it   *)
(* does; every handler is an operator from the client before it runs to the *)
(* client after.  A timer field holds the name of the handler it is armed   *)
(* with.  Two fields record what a handler did besides: the packet it sent  *)
(* last and the callback it made.  ConnmanDhcp runs the callbacks.          *)
(***************************************************************************)
EXTENDS Integers

CONSTANTS
    NULL,              \* the null pointer
    NoIp,              \* address 0, or a NULL address string
    Ips,               \* addresses DHCP servers hand out
    LinkLocal,         \* addresses that have all bits of LINKLOCAL_ADDR
    DISCOVER_RETRIES,  \* 6
    REQUEST_RETRIES,   \* 3
    PROBE_NUM,         \* 3
    ANNOUNCE_NUM,      \* 2
    MAX_CONFLICTS,     \* 10
    MIN_RETRANSMIT,    \* 60 seconds, see continue_renew and continue_rebound
    UINT8              \* values of a uint8_t: 256, smaller in the models

ASSUME ClientAssumption ==
    /\ NoIp \notin Ips \cup LinkLocal /\ Ips \cap LinkLocal = {}
    /\ {DISCOVER_RETRIES, REQUEST_RETRIES, PROBE_NUM, ANNOUNCE_NUM,
        MAX_CONFLICTS} \subseteq 1 .. (UINT8 - 1)
    /\ UINT8 \in Nat /\ MIN_RETRANSMIT \in Nat

AnyIp == Ips \cup LinkLocal \cup {NoIp}
HoldsLease == {"BOUND", "RENEWING", "REBINDING"}
States == HoldsLease \cup
    {"INIT_SELECTING", "REBOOTING", "REQUESTING", "RELEASED",
     "IPV4LL_PROBE", "IPV4LL_ANNOUNCE", "IPV4LL_MONITOR", "IPV4LL_DEFEND"}
Timeouts ==
    {"none", "discover_timeout", "reboot_timeout", "request_timeout",
     "restart_dhcp_timeout", "send_probe_packet", "ipv4ll_probe_timeout",
     "ipv4ll_announce_timeout", "ipv4ll_defend_timeout"}
Callbacks == {"none", "no_lease", "lease_available", "lease_lost",
              "ipv4ll_available", "ipv4ll_lost"}

Client ==
    [type : {"IPV4", "IPV4LL"}, state : States,
     listen_mode : {"L_NONE", "L2", "L3", "L_ARP"}, listener_watch : BOOLEAN,
     retry_times : 0 .. (UINT8 - 1), ack_retry_times : 0 .. (UINT8 - 1),
     conflicts : 0 .. (UINT8 - 1),
     timeout : Timeouts, t1_timeout : {"none", "start_renew", "continue_renew"},
     t2_timeout : {"none", "start_rebound", "continue_rebound"},
     lease_timeout : {"none", "start_expire"},
     requested_ip : AnyIp, assigned_ip : AnyIp, last_address : AnyIp,
     T1 : Nat, T2 : Nat, expire : Nat,
     sent : [type : {"none", "DISCOVER", "REQUEST", "PROBE", "ANNOUNCE"}, ip : AnyIp],
     cb : Callbacks]

-----------------------------------------------------------------------------
(***************************************************************************)
(* Life of the object, timers and the socket it listens on.                 *)
(***************************************************************************)
g_dhcp_client_new(type) ==
    [type |-> type, state |-> "INIT_SELECTING",
     listen_mode |-> "L_NONE", listener_watch |-> FALSE,
     retry_times |-> 0, ack_retry_times |-> 0, conflicts |-> 0,
     timeout |-> "none", t1_timeout |-> "none", t2_timeout |-> "none",
     lease_timeout |-> "none",
     requested_ip |-> NoIp, assigned_ip |-> NoIp, last_address |-> NoIp,
     T1 |-> 0, T2 |-> 0, expire |-> 0,
     sent |-> [type |-> "none", ip |-> NoIp], cb |-> "none"]

remove_timeouts(c) ==
    [c EXCEPT !.timeout = "none", !.t1_timeout = "none", !.t2_timeout = "none",
              !.lease_timeout = "none"]

\* Opening the new socket succeeds when ok; a mode that is already set is
\* left as it is, whether its watch is alive or not.
switch_listening_mode(c, mode, ok) ==
    IF c.listen_mode = mode
    THEN c
    ELSE [c EXCEPT !.listen_mode = IF ok THEN mode ELSE "L_NONE",
                   !.listener_watch = ok /\ mode # "L_NONE"]

\* A handler that a timer runs starts with that timer gone.
TimeoutFired(c) == [c EXCEPT !.timeout = "none", !.cb = "none"]
T1Fired(c) == [c EXCEPT !.t1_timeout = "none", !.cb = "none"]
T2Fired(c) == [c EXCEPT !.t2_timeout = "none", !.cb = "none"]
LeaseFired(c) == [c EXCEPT !.lease_timeout = "none", !.cb = "none"]

\* The watch reports an error and is removed; listen_mode keeps its value.
listener_error(c) == [c EXCEPT !.listener_watch = FALSE, !.cb = "none"]

-----------------------------------------------------------------------------
(***************************************************************************)
(* Packets the client sends.  The address of a REQUEST is its requested-ip  *)
(* option or its ciaddr; only the states below put one in.                  *)
(***************************************************************************)
send_discover(c, requested) ==
    [c EXCEPT !.sent = [type |-> "DISCOVER", ip |-> requested]]

\* (Fault: a renewal leaves ciaddr empty.)
send_request_no_ciaddr(c) ==
    [c EXCEPT !.sent =
        [type |-> "REQUEST",
         ip   |-> IF c.state \in {"REQUESTING", "REBOOTING"}
                  THEN c.requested_ip ELSE NoIp]]

send_request(c) ==
    [c EXCEPT !.sent =
        [type |-> "REQUEST",
         ip   |-> IF c.state \in {"REQUESTING", "REBOOTING", "RENEWING", "REBINDING"}
                  THEN c.requested_ip ELSE NoIp]]

-----------------------------------------------------------------------------
(***************************************************************************)
(* DHCPv4: DISCOVER, REQUEST and the lease timers.                          *)
(***************************************************************************)
\* (Fault: it gives up without a word.)
start_request_silent(c, ok) ==
    IF c.retry_times = REQUEST_RETRIES
    THEN c
    ELSE LET d == IF c.retry_times = 0
                  THEN switch_listening_mode([c EXCEPT !.state = "REQUESTING"],
                                             "L2", ok)
                  ELSE c
         IN  [send_request(d) EXCEPT !.timeout = "request_timeout"]

start_request(c, ok) ==
    IF c.retry_times = REQUEST_RETRIES
    THEN [c EXCEPT !.cb = "no_lease"]
    ELSE LET d == IF c.retry_times = 0
                  THEN switch_listening_mode([c EXCEPT !.state = "REQUESTING"],
                                             "L2", ok)
                  ELSE c
         IN  [send_request(d) EXCEPT !.timeout = "request_timeout"]

request_timeout(c, ok) ==
    start_request([TimeoutFired(c) EXCEPT !.retry_times = (@ + 1) % UINT8], ok)

ipv4ll_start(c, ip) ==
    [switch_listening_mode(remove_timeouts(c), "L_NONE", TRUE) EXCEPT
        !.state = "INIT_SELECTING", !.requested_ip = ip,
        !.retry_times = 1, !.timeout = "send_probe_packet"]

\* g_dhcp_client_start returns an error: it could not listen.
StartFails(c, ok) ==
    c.type = "IPV4" /\ c.retry_times = 0 /\ c.listen_mode # "L2" /\ ~ok

\* The DHCPv4 client's start, from the address it last had.
dhcp_start(c, last_address, ok) ==
    LET d == IF c.retry_times = 0
             THEN switch_listening_mode([c EXCEPT !.assigned_ip = NoIp,
                                                  !.state = "INIT_SELECTING"],
                                        "L2", ok)
             ELSE c
    IN  IF c.retry_times = DISCOVER_RETRIES
        THEN [c EXCEPT !.cb = "no_lease", !.retry_times = 0]
        ELSE IF StartFails(c, ok) THEN d
        ELSE IF last_address \in Ips
        THEN [send_request([d EXCEPT !.state = "REBOOTING",
                                     !.last_address = last_address,
                                     !.requested_ip = last_address])
                EXCEPT !.timeout = "reboot_timeout"]
        ELSE [send_discover(d, NoIp) EXCEPT !.timeout = "discover_timeout"]

\* ip is the random address an IPv4LL client starts with.
g_dhcp_client_start(c, last_address, ok, ip) ==
    IF c.type = "IPV4LL" THEN ipv4ll_start(c, ip)
    ELSE dhcp_start(remove_timeouts(c), last_address, ok)

discover_timeout(c, ok) ==
    dhcp_start(remove_timeouts([TimeoutFired(c) EXCEPT
                                    !.retry_times = (@ + 1) % UINT8]), NoIp, ok)

reboot_timeout(c, ok) ==
    dhcp_start(remove_timeouts([TimeoutFired(c) EXCEPT
                                    !.retry_times = 0, !.requested_ip = NoIp,
                                    !.state = "INIT_SELECTING"]), NoIp, ok)

restart_dhcp(c, retry_times, ok) ==
    LET d == switch_listening_mode(
                [remove_timeouts(c) EXCEPT !.retry_times = retry_times,
                                           !.requested_ip = NoIp,
                                           !.state = "INIT_SELECTING"], "L2", ok)
    IN  dhcp_start(d, d.last_address, ok)

restart_dhcp_timeout(c, ok) ==
    LET d == TimeoutFired(c)
        n == (d.ack_retry_times + 1) % UINT8
    IN  IF d.state = "REBOOTING"
        THEN restart_dhcp([d EXCEPT !.last_address = NoIp], 0, ok)
        ELSE restart_dhcp([d EXCEPT !.ack_retry_times = n], n, ok)

start_bound(c) ==
    [remove_timeouts(c) EXCEPT
        !.state = "BOUND",
        !.T1 = c.expire \div 2, !.T2 = (c.expire * 7) \div 8,
        !.t1_timeout = "start_renew", !.t2_timeout = "start_rebound",
        !.lease_timeout = "start_expire"]

continue_renew(c, ok) ==
    LET half == c.T1 \div 2
    IN  [send_request(switch_listening_mode(T1Fired(c), "L3", ok)) EXCEPT
            !.T1 = half,
            !.t1_timeout = IF half > MIN_RETRANSMIT THEN "continue_renew" ELSE "none"]

start_renew(c, ok) ==
    continue_renew([c EXCEPT !.state = "RENEWING", !.T1 = c.T2 - c.T1], ok)

\* (Fault: rebinding goes on listening as renewing did.)
continue_rebound_l3(c, ok) ==
    LET half == c.T2 \div 2
    IN  [send_request(switch_listening_mode(T2Fired(c), "L3", ok)) EXCEPT
            !.T2 = half,
            !.t2_timeout = IF half > MIN_RETRANSMIT THEN "continue_rebound" ELSE "none"]

continue_rebound(c, ok) ==
    LET half == c.T2 \div 2
    IN  [send_request(switch_listening_mode(T2Fired(c), "L2", ok)) EXCEPT
            !.T2 = half,
            !.t2_timeout = IF half > MIN_RETRANSMIT THEN "continue_rebound" ELSE "none"]

start_rebound(c, ok) ==
    continue_rebound([c EXCEPT !.state = "REBINDING", !.t1_timeout = "none",
                               !.T2 = c.expire - c.T2], ok)

\* The lease has run out: start again, then tell dhcp.c that it is lost.
start_expire(c, ok) ==
    LET d == restart_dhcp(LeaseFired(c), 0, ok)
    IN  [d EXCEPT !.cb = "lease_lost"]

\* The lease-time option of an ACK, NULL when it is absent.
get_lease(lease_time) ==
    IF lease_time = NULL THEN 3600 ELSE IF lease_time < 10 THEN 10 ELSE lease_time

\* listener_event for a DHCPv4 packet with the client's xid and address.
dhcp_packet(c, message_type, yiaddr, lease_time, ok) ==
    LET d == [c EXCEPT !.cb = "none"]
    IN  CASE c.state = "INIT_SELECTING" /\ message_type = "OFFER" ->
               start_request([remove_timeouts(d) EXCEPT
                                 !.retry_times = 0, !.requested_ip = yiaddr,
                                 !.state = "REQUESTING"], ok)
          [] c.state \in {"REBOOTING", "REQUESTING", "RENEWING", "REBINDING"}
                /\ message_type = "ACK" ->
               start_bound([switch_listening_mode(d, "L_NONE", TRUE) EXCEPT
                               !.retry_times = 0, !.assigned_ip = yiaddr,
                               !.expire = get_lease(lease_time), !.cb = "lease_available"])
          [] c.state \in {"REBOOTING", "REQUESTING", "RENEWING", "REBINDING"}
                /\ message_type = "NAK" ->
               [remove_timeouts(d) EXCEPT !.retry_times = 0,
                                          !.timeout = "restart_dhcp_timeout"]
          [] OTHER -> d

-----------------------------------------------------------------------------
(***************************************************************************)
(* IPv4LL: probe a random address, announce it, watch over it.  ip is the   *)
(* random address picked when the client has none.                          *)
(***************************************************************************)
send_probe_packet(c, ok, ip) ==
    LET d == [TimeoutFired(c) EXCEPT
                 !.requested_ip = IF @ = NoIp THEN ip ELSE @]
        e == IF d.retry_times = 1
             THEN switch_listening_mode([d EXCEPT !.state = "IPV4LL_PROBE"],
                                        "L_ARP", ok)
             ELSE d
    IN  [e EXCEPT !.sent = [type |-> "PROBE", ip |-> e.requested_ip],
                  !.timeout = "ipv4ll_probe_timeout"]

send_announce_packet(c) ==
    [remove_timeouts(c) EXCEPT
        !.sent = [type |-> "ANNOUNCE", ip |-> c.requested_ip],
        !.timeout = IF c.state = "IPV4LL_DEFEND" THEN "ipv4ll_defend_timeout"
                                                 ELSE "ipv4ll_announce_timeout"]

ipv4ll_probe_timeout(c, ok, ip) ==
    IF c.retry_times = PROBE_NUM
    THEN send_announce_packet([TimeoutFired(c) EXCEPT
                                  !.state = "IPV4LL_ANNOUNCE", !.retry_times = 1])
    ELSE send_probe_packet([c EXCEPT !.retry_times = (@ + 1) % UINT8], ok, ip)

\* (Fault: the announced address is not reported.)
ipv4ll_announce_timeout_silent(c) ==
    IF c.retry_times # ANNOUNCE_NUM
    THEN send_announce_packet([TimeoutFired(c) EXCEPT
                                  !.retry_times = (@ + 1) % UINT8])
    ELSE [TimeoutFired(c) EXCEPT !.state = "IPV4LL_MONITOR", !.conflicts = 0,
                                 !.assigned_ip = c.requested_ip]

ipv4ll_announce_timeout(c) ==
    IF c.retry_times # ANNOUNCE_NUM
    THEN send_announce_packet([TimeoutFired(c) EXCEPT
                                  !.retry_times = (@ + 1) % UINT8])
    ELSE [TimeoutFired(c) EXCEPT !.state = "IPV4LL_MONITOR", !.conflicts = 0,
                                     !.assigned_ip = c.requested_ip,
                                     !.cb = "ipv4ll_available"]

ipv4ll_defend_timeout(c) ==
    [TimeoutFired(c) EXCEPT !.conflicts = 0, !.state = "IPV4LL_MONITOR"]

ipv4ll_stop(c) ==
    [switch_listening_mode(remove_timeouts(c), "L_NONE", TRUE) EXCEPT
        !.state = "IPV4LL_PROBE", !.retry_times = 0,
        !.requested_ip = NoIp, !.assigned_ip = NoIp]

\* An ARP packet about our address: sent by it (source) or only asking for it.
\* In DEFEND the client reports the loss, in every state but MONITOR it starts
\* over or, after too many conflicts, reports that it failed.
ipv4ll_recv_arp_packet(c, source) ==
    LET d == [c EXCEPT !.conflicts = (@ + 1) % UINT8, !.cb = "none"]
        e == IF d.conflicts < MAX_CONFLICTS
             THEN [ipv4ll_stop(d) EXCEPT !.retry_times = 1,
                                         !.timeout = "send_probe_packet"]
             ELSE [ipv4ll_stop(d) EXCEPT !.cb = "no_lease"]
    IN  CASE c.state \in {"IPV4LL_MONITOR", "IPV4LL_DEFEND"} /\ ~source -> d
          [] c.state = "IPV4LL_MONITOR" /\ source ->
               send_announce_packet([d EXCEPT !.state = "IPV4LL_DEFEND"])
          [] c.state = "IPV4LL_DEFEND" /\ source -> [e EXCEPT !.cb = "ipv4ll_lost"]
          [] OTHER -> e
=============================================================================
