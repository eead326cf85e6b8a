-------------------------- MODULE GDHCPClientProofs --------------------------
(***************************************************************************)
(* What every handler of gdhcp/client.c preserves of a DHCPv4 client (Sane)  *)
(* and of an IPv4LL client (SaneLL), and what it may do in one step (Step,   *)
(* StepLL): the facts ConnmanDhcpProofs builds on.                           *)
(***************************************************************************)
EXTENDS GDHCPClient, TLAPS

Holds(c) == c.state \in HoldsLease
Watches(c) == c.state \in {"IPV4LL_MONITOR", "IPV4LL_DEFEND"}

\* The lease timers run while a lease is held, each for its own phase, and
\* T1 <= T2 <= expire as long as start_renew and start_rebound may subtract.
LeaseTimers(c) ==
    /\ Holds(c) => /\ c.retry_times = 0
                   /\ c.timeout \in {"none", "restart_dhcp_timeout"}
                   /\ \/ c.lease_timeout = "start_expire"
                      \/ c.timeout = "restart_dhcp_timeout"
    /\ c.t1_timeout # "none" \/ c.t2_timeout # "none" \/ c.lease_timeout # "none"
          => Holds(c)
    /\ c.t1_timeout = "start_renew" => c.state = "BOUND" /\ c.T1 <= c.T2
    /\ c.t1_timeout = "continue_renew" => c.state = "RENEWING"
    /\ c.t2_timeout = "start_rebound" => c.T2 <= c.expire
    /\ c.t2_timeout = "continue_rebound" => c.state = "REBINDING"

\* In every state that sends REQUESTs there is an address to ask for.
Requests(c) ==
    /\ c.state \in {"INIT_SELECTING", "REBOOTING", "REQUESTING"} \cup HoldsLease
    /\ c.timeout = "request_timeout" => c.state = "REQUESTING"
    /\ c.state \in {"REQUESTING", "REBOOTING"} \cup HoldsLease => c.requested_ip \in Ips
    /\ c.sent.type = "REQUEST" => c.sent.ip \in Ips

\* A client that reports a lease is bound, one that reports failure is not.
Reports(c) ==
    /\ c.cb \in {"none", "no_lease", "lease_available", "lease_lost"}
    /\ c.cb \in {"no_lease", "lease_lost"} => ~Holds(c)
    /\ c.cb = "lease_available" => Holds(c) /\ c.assigned_ip \in Ips

Sane(c) ==
    /\ c \in Client /\ c.type = "IPV4"
    /\ LeaseTimers(c) /\ Requests(c) /\ Reports(c)

\* Where the client listens; it holds while every socket can be opened.
Listens(c) ==
    /\ c.state \in {"INIT_SELECTING", "REBOOTING", "REQUESTING", "REBINDING"}
          => c.listen_mode = "L2"
    /\ c.state = "RENEWING" => c.listen_mode = "L3"

\* The client has a timer that will wake it, or reports that it has given up.
Wakes(c) == c.timeout # "none" \/ c.lease_timeout # "none" \/ c.cb = "no_lease"

\* A step of a handler from c to d: a lease is held only if it was before or
\* is reported now, and only a lease that was held is reported lost.
Step(c, d) ==
    /\ Sane(d)
    /\ Holds(d) /\ d.cb # "lease_available" => Holds(c) /\ d.assigned_ip = c.assigned_ip
    /\ d.cb = "lease_lost" => Holds(c)

\* The same where opening a socket has not failed.
Awake(c, d) ==
    /\ Listens(c) => Listens(d)
    /\ Wakes(d) \/ (d.timeout = c.timeout /\ d.lease_timeout = c.lease_timeout)

\* An IPv4LL client announces before it watches, and its address is never one
\* that a server hands out.
SaneLL(c) ==
    /\ c \in Client /\ c.type = "IPV4LL"
    /\ c.requested_ip \notin Ips
    /\ Watches(c) => c.timeout \in {"none", "ipv4ll_defend_timeout"}
    /\ c.timeout = "ipv4ll_defend_timeout" => Watches(c)
    /\ c.cb = "ipv4ll_available" => Watches(c) /\ c.assigned_ip = c.requested_ip

\* It is reported when the client begins to watch over an address and when it
\* no longer does.
StepLL(c, d) ==
    /\ SaneLL(d)
    /\ Watches(d) /\ d.cb # "ipv4ll_available" => Watches(c) /\ d.requested_ip = c.requested_ip
    /\ Watches(c) /\ ~Watches(d) => d.cb = "ipv4ll_lost"
    /\ d.cb = "ipv4ll_available" => ~Watches(c)

-----------------------------------------------------------------------------
(***************************************************************************)
(* The functions the handlers share.  Same(c, d, F): the struct d differs    *)
(* from c in the fields F at most.                                           *)
(***************************************************************************)
Fields == {"type", "state", "listen_mode", "listener_watch", "retry_times",
           "ack_retry_times", "conflicts", "timeout", "t1_timeout", "t2_timeout",
           "lease_timeout", "requested_ip", "assigned_ip", "last_address",
           "T1", "T2", "expire", "sent", "cb"}
Same(c, d, F) == d \in Client /\ \A f \in Fields \ F : d[f] = c[f]

Timers == {"timeout", "t1_timeout", "t2_timeout", "lease_timeout"}
NoTimers(c) == /\ c.timeout = "none" /\ c.t1_timeout = "none"
               /\ c.t2_timeout = "none" /\ c.lease_timeout = "none"

LEMMA Values ==
  /\ NoIp \in AnyIp /\ Ips \subseteq AnyIp /\ LinkLocal \subseteq AnyIp
  /\ {"INIT_SELECTING", "REBOOTING", "REQUESTING", "BOUND", "RENEWING", "REBINDING",
      "IPV4LL_PROBE", "IPV4LL_ANNOUNCE", "IPV4LL_MONITOR", "IPV4LL_DEFEND"} \subseteq States
  /\ "restart_dhcp_timeout" \in Timeouts /\ "lease_available" \in Callbacks
BY DEF AnyIp, States, HoldsLease, Timeouts, Callbacks

LEMMA RemoveTimeouts ==
  ASSUME NEW c \in Client
  PROVE  Same(c, remove_timeouts(c), Timers) /\ NoTimers(remove_timeouts(c))
<1> DEFINE d == remove_timeouts(c)
<1>1. d \in Client
  BY DEF remove_timeouts, Client, Timeouts
<1>2. \A f \in Fields \ Timers : d[f] = c[f]
  BY DEF remove_timeouts, Client, Fields, Timers
<1>3. NoTimers(d)
  BY DEF remove_timeouts, Client, NoTimers
<1> QED BY <1>1, <1>2, <1>3 DEF Same

Modes == {"L_NONE", "L2", "L3", "L_ARP"}

LEMMA SwitchListeningMode ==
  ASSUME NEW c \in Client, NEW mode \in Modes, NEW ok \in BOOLEAN
  PROVE  /\ Same(c, switch_listening_mode(c, mode, ok), {"listen_mode", "listener_watch"})
         /\ ok => switch_listening_mode(c, mode, ok).listen_mode = mode
<1> DEFINE w == ok /\ mode # "L_NONE"
           m == IF ok THEN mode ELSE "L_NONE"
           d == [c EXCEPT !.listen_mode = m, !.listener_watch = w]
<1>1. w \in BOOLEAN /\ m \in Modes
  BY DEF Modes
<1>2. switch_listening_mode(c, mode, ok) = IF c.listen_mode = mode THEN c ELSE d
  BY DEF switch_listening_mode
<1>3. ok => m = mode
  OBVIOUS
<1> HIDE DEF w, m
<1>4. /\ d \in Client /\ d.listen_mode = m
      /\ \A f \in Fields \ {"listen_mode", "listener_watch"} : d[f] = c[f]
  BY <1>1 DEF Client, Modes, Fields
<1> HIDE DEF d
<1> QED BY <1>2, <1>3, <1>4 DEF Same

LEMMA SendRequest ==
  ASSUME NEW c \in Client
  PROVE  /\ Same(c, send_request(c), {"sent"})
         /\ send_request(c).sent.type = "REQUEST"
         /\ c.state \in {"REQUESTING", "REBOOTING", "RENEWING", "REBINDING"}
              => send_request(c).sent.ip = c.requested_ip
<1> DEFINE ip == IF c.state \in {"REQUESTING", "REBOOTING", "RENEWING", "REBINDING"}
                 THEN c.requested_ip ELSE NoIp
           pkt == [type |-> "REQUEST", ip |-> ip]
           d == [c EXCEPT !.sent = pkt]
<1>1. ip \in AnyIp
  BY DEF Client, AnyIp
<1>2. pkt \in [type : {"none", "DISCOVER", "REQUEST", "PROBE", "ANNOUNCE"}, ip : AnyIp]
  BY <1>1
<1>3. send_request(c) = d
  BY DEF send_request
<1>4. pkt.type = "REQUEST" /\ pkt.ip = ip
  OBVIOUS
<1> HIDE DEF pkt
<1>5. d \in Client /\ d.sent = pkt /\ \A f \in Fields \ {"sent"} : d[f] = c[f]
  BY <1>2 DEF Client, Fields
<1> HIDE DEF d
<1> QED BY <1>3, <1>4, <1>5 DEF Same

LEMMA SendDiscover ==
  ASSUME NEW c \in Client, NEW ip \in AnyIp
  PROVE  /\ Same(c, send_discover(c, ip), {"sent"})
         /\ send_discover(c, ip).sent.type = "DISCOVER"
<1> DEFINE pkt == [type |-> "DISCOVER", ip |-> ip]
           d == [c EXCEPT !.sent = pkt]
<1>1. pkt \in [type : {"none", "DISCOVER", "REQUEST", "PROBE", "ANNOUNCE"}, ip : AnyIp]
      /\ pkt.type = "DISCOVER"
  OBVIOUS
<1>2. send_discover(c, ip) = d
  BY DEF send_discover
<1> HIDE DEF pkt
<1>3. d \in Client /\ d.sent = pkt /\ \A f \in Fields \ {"sent"} : d[f] = c[f]
  BY <1>1 DEF Client, Fields
<1> HIDE DEF d
<1> QED BY <1>1, <1>2, <1>3 DEF Same

-----------------------------------------------------------------------------
(***************************************************************************)
(* g_dhcp_client_start of a DHCPv4 client and what leads to it.              *)
(***************************************************************************)
\* A client that is about to start again: no timer is armed and no callback
\* is made yet.
Ready(c) ==
    /\ c \in Client /\ c.type = "IPV4"
    /\ NoTimers(c) /\ c.cb = "none" /\ Requests(c)
    /\ Holds(c) => c.retry_times = 0

\* It looks for a lease again, or gives up.
Restarted(d) == Sane(d) /\ ~Holds(d) /\ d.cb \in {"none", "no_lease"}

LEMMA DhcpStart ==
  ASSUME NEW c, Ready(c), NEW last \in AnyIp, NEW ok \in BOOLEAN
  PROVE  LET d == dhcp_start(c, last, ok)
         IN  /\ Restarted(d)
             /\ c.retry_times = 0 => d.cb = "none"
             /\ ok => Wakes(d)
             /\ ok /\ (c.retry_times = 0 \/ Listens(c)) => Listens(d)
<1> DEFINE a == [c EXCEPT !.assigned_ip = NoIp, !.state = "INIT_SELECTING"]
           s == switch_listening_mode(a, "L2", ok)
           d == IF c.retry_times = 0 THEN s ELSE c
           g == [c EXCEPT !.cb = "no_lease", !.retry_times = 0]
           r == [d EXCEPT !.state = "REBOOTING", !.last_address = last,
                          !.requested_ip = last]
           q == [send_request(r) EXCEPT !.timeout = "reboot_timeout"]
           e == [send_discover(d, NoIp) EXCEPT !.timeout = "discover_timeout"]
           x == dhcp_start(c, last, ok)
<1>1. x = IF c.retry_times = DISCOVER_RETRIES THEN g
          ELSE IF StartFails(c, ok) THEN d
          ELSE IF last \in Ips THEN q ELSE e
  BY DEF dhcp_start
<1>2. c \in Client /\ c.type = "IPV4" /\ NoTimers(c) /\ c.cb = "none"
      /\ NoIp \in AnyIp /\ (c.sent.type = "REQUEST" => c.sent.ip \in Ips)
  BY DEF Ready, Requests, AnyIp
<1>3. Same(c, a, {"assigned_ip", "state"}) /\ a.state = "INIT_SELECTING"
  <2>1. a \in Client /\ a.state = "INIT_SELECTING"
    BY <1>2 DEF Client, AnyIp, States, Ready
  <2>2. \A f \in Fields \ {"assigned_ip", "state"} : a[f] = c[f]
    BY <1>2 DEF Client, Fields, Ready
  <2> QED BY <2>1, <2>2 DEF Same
<1>4. Same(a, s, {"listen_mode", "listener_watch"}) /\ (ok => s.listen_mode = "L2")
  BY <1>3, SwitchListeningMode DEF Same, Modes
<1> HIDE DEF a, s
<1>5. /\ d \in Client /\ d.type = "IPV4" /\ NoTimers(d) /\ d.cb = "none"
      /\ d.sent = c.sent /\ d.requested_ip = c.requested_ip
      /\ d.retry_times = c.retry_times
      /\ IF c.retry_times = 0 THEN d.state = "INIT_SELECTING" ELSE d.state = c.state
      /\ ok /\ (c.retry_times = 0 \/ Listens(c)) => Listens(d)
  <2>1. CASE c.retry_times = 0
    <3>1. d = s /\ s \in Client /\ s.state = "INIT_SELECTING"
          /\ s.type = c.type /\ s.cb = c.cb /\ s.sent = c.sent
          /\ s.requested_ip = c.requested_ip /\ s.retry_times = c.retry_times
      BY <1>3, <1>4, <2>1 DEF Same, Fields
    <3>2. NoTimers(s)
      BY <1>2, <1>3, <1>4 DEF Same, Fields, NoTimers
    <3> HIDE DEF d
    <3> QED BY <1>2, <1>4, <2>1, <3>1, <3>2 DEF Listens
  <2>2. CASE c.retry_times # 0
    BY <1>2, <2>2
  <2> QED BY <2>1, <2>2
<1> HIDE DEF d
<1>6. ~Holds(d) /\ Requests(d)
  BY <1>2, <1>5 DEF Ready, Holds, HoldsLease, Requests, NoTimers
<1>7. CASE x = g /\ c.retry_times = DISCOVER_RETRIES
  <2>1. c.retry_times # 0
    BY <1>7, ClientAssumption
  <2>2. Same(c, g, {"cb", "retry_times"}) /\ g.cb = "no_lease"
    <3>1. 0 \in 0 .. (UINT8 - 1)
      BY ClientAssumption
    <3>2. g \in Client /\ g.cb = "no_lease"
      BY <1>2, <3>1 DEF Client, Callbacks
    <3>3. \A f \in Fields \ {"cb", "retry_times"} : g[f] = c[f]
      BY <1>2 DEF Client, Fields
    <3> QED BY <3>2, <3>3 DEF Same
  <2> HIDE DEF g
  <2>3. /\ g.state = c.state /\ g.type = c.type /\ g.listen_mode = c.listen_mode
        /\ g.sent = c.sent /\ g.requested_ip = c.requested_ip
        /\ g.timeout = c.timeout /\ g.t1_timeout = c.t1_timeout
        /\ g.t2_timeout = c.t2_timeout /\ g.lease_timeout = c.lease_timeout
    BY <2>2 DEF Same, Fields
  <2>4. Sane(g) /\ ~Holds(g)
    BY <1>2, <2>1, <2>2, <2>3 DEF Same, Ready, Sane, LeaseTimers, Requests, Reports,
                                  Holds, HoldsLease, NoTimers
  <2> QED BY <1>7, <2>1, <2>2, <2>3, <2>4 DEF Restarted, Wakes, Listens
<1>8. CASE x = d /\ StartFails(c, ok)
  BY <1>5, <1>6, <1>8 DEF Restarted, Sane, LeaseTimers, Reports, NoTimers, StartFails
<1>9. CASE x = q /\ last \in Ips
  <2>1. Same(d, r, {"state", "last_address", "requested_ip"})
        /\ r.state = "REBOOTING" /\ r.requested_ip = last
    <3>1. r \in Client /\ r.state = "REBOOTING" /\ r.requested_ip = last
      BY <1>5 DEF Client, States
    <3>2. \A f \in Fields \ {"state", "last_address", "requested_ip"} : r[f] = d[f]
      BY <1>5 DEF Client, Fields
    <3> QED BY <3>1, <3>2 DEF Same
  <2> HIDE DEF r
  <2> DEFINE y == send_request(r)
  <2>2. Same(r, y, {"sent"}) /\ y.sent.type = "REQUEST" /\ y.sent.ip = last
    BY <2>1, SendRequest DEF Same
  <2> HIDE DEF y
  <2>3. Same(y, q, {"timeout"}) /\ q.timeout = "reboot_timeout"
    BY <2>2 DEF Same, Client, Timeouts, Fields, y
  <2> HIDE DEF q
  <2>4. /\ q \in Client /\ q.type = "IPV4" /\ q.state = "REBOOTING" /\ q.cb = "none"
        /\ q.requested_ip = last /\ q.sent = y.sent /\ q.listen_mode = d.listen_mode
        /\ q.t1_timeout = "none" /\ q.t2_timeout = "none" /\ q.lease_timeout = "none"
    BY <1>5, <2>1, <2>2, <2>3 DEF Same, Fields, NoTimers
  <2>5. Sane(q) /\ ~Holds(q)
    BY <1>9, <2>2, <2>3, <2>4
       DEF Sane, LeaseTimers, Requests, Reports, Holds, HoldsLease
  <2>6. ok /\ (c.retry_times = 0 \/ Listens(c)) => d.listen_mode = "L2"
    BY <1>5, <1>6 DEF Listens, Holds, HoldsLease, Requests
  <2> QED BY <1>9, <2>3, <2>4, <2>5, <2>6 DEF Restarted, Wakes, Listens
<1>10. CASE x = e
  <2> DEFINE y == send_discover(d, NoIp)
  <2>1. Same(d, y, {"sent"}) /\ y.sent.type = "DISCOVER"
    BY <1>2, <1>5, SendDiscover
  <2> HIDE DEF y
  <2>2. Same(y, e, {"timeout"}) /\ e.timeout = "discover_timeout"
    BY <2>1 DEF Same, Client, Timeouts, Fields, y
  <2> HIDE DEF e
  <2>3. /\ e \in Client /\ e.type = "IPV4" /\ e.state = d.state /\ e.cb = "none"
        /\ e.requested_ip = d.requested_ip /\ e.sent = y.sent
        /\ e.listen_mode = d.listen_mode
        /\ e.t1_timeout = "none" /\ e.t2_timeout = "none" /\ e.lease_timeout = "none"
    BY <1>5, <2>1, <2>2 DEF Same, Fields, NoTimers
  <2>4. Sane(e) /\ ~Holds(e)
    BY <1>6, <2>1, <2>2, <2>3
       DEF Sane, LeaseTimers, Requests, Reports, Holds, HoldsLease
  <2> QED BY <1>5, <1>10, <2>2, <2>3, <2>4 DEF Restarted, Wakes, Listens
<1> QED BY <1>1, <1>7, <1>8, <1>9, <1>10

\* Handlers run with their timer gone and no callback made.
LEMMA Fired ==
  ASSUME NEW c \in Client
  PROVE  /\ Same(c, TimeoutFired(c), {"timeout", "cb"})
         /\ TimeoutFired(c).timeout = "none" /\ TimeoutFired(c).cb = "none"
         /\ Same(c, T1Fired(c), {"t1_timeout", "cb"})
         /\ T1Fired(c).t1_timeout = "none" /\ T1Fired(c).cb = "none"
         /\ Same(c, T2Fired(c), {"t2_timeout", "cb"})
         /\ T2Fired(c).t2_timeout = "none" /\ T2Fired(c).cb = "none"
         /\ Same(c, LeaseFired(c), {"lease_timeout", "cb"})
         /\ LeaseFired(c).lease_timeout = "none" /\ LeaseFired(c).cb = "none"
<1>1. /\ Same(c, TimeoutFired(c), {"timeout", "cb"})
      /\ TimeoutFired(c).timeout = "none" /\ TimeoutFired(c).cb = "none"
  BY DEF Same, Client, Fields, TimeoutFired, Timeouts, Callbacks
<1>2. /\ Same(c, T1Fired(c), {"t1_timeout", "cb"})
      /\ T1Fired(c).t1_timeout = "none" /\ T1Fired(c).cb = "none"
  BY DEF Same, Client, Fields, T1Fired, Callbacks
<1>3. /\ Same(c, T2Fired(c), {"t2_timeout", "cb"})
      /\ T2Fired(c).t2_timeout = "none" /\ T2Fired(c).cb = "none"
  BY DEF Same, Client, Fields, T2Fired, Callbacks
<1>4. /\ Same(c, LeaseFired(c), {"lease_timeout", "cb"})
      /\ LeaseFired(c).lease_timeout = "none" /\ LeaseFired(c).cb = "none"
  BY DEF Same, Client, Fields, LeaseFired, Callbacks
<1> QED BY <1>1, <1>2, <1>3, <1>4

LEMMA CounterInRange ==
  ASSUME NEW n \in Nat
  PROVE  n % UINT8 \in 0 .. (UINT8 - 1) /\ 0 \in 0 .. (UINT8 - 1) /\ 1 \in 0 .. (UINT8 - 1)
<1>1. UINT8 \in Nat /\ UINT8 > 1
  BY ClientAssumption
<1> QED BY <1>1

LEMMA RestartDhcp ==
  ASSUME NEW c \in Client, c.type = "IPV4", c.cb = "none",
         c.sent.type = "REQUEST" => c.sent.ip \in Ips,
         NEW n \in 0 .. (UINT8 - 1), NEW ok \in BOOLEAN
  PROVE  LET d == restart_dhcp(c, n, ok)
         IN  /\ Restarted(d)
             /\ n = 0 => d.cb = "none"
             /\ ok => Wakes(d) /\ Listens(d)
<1> DEFINE r == remove_timeouts(c)
           a == [r EXCEPT !.retry_times = n, !.requested_ip = NoIp,
                          !.state = "INIT_SELECTING"]
           s == switch_listening_mode(a, "L2", ok)
<1>1. restart_dhcp(c, n, ok) = dhcp_start(s, s.last_address, ok)
  BY DEF restart_dhcp
<1>2. Same(c, r, Timers) /\ NoTimers(r)
  BY RemoveTimeouts
<1> HIDE DEF r
<1>3. /\ Same(r, a, {"retry_times", "requested_ip", "state"})
      /\ a.retry_times = n /\ a.state = "INIT_SELECTING"
  <2>1. a \in Client /\ a.retry_times = n /\ a.state = "INIT_SELECTING"
    BY <1>2, Values DEF Same, Client
  <2>2. \A f \in Fields \ {"retry_times", "requested_ip", "state"} : a[f] = r[f]
    BY <1>2 DEF Same, Client, Fields
  <2> QED BY <2>1, <2>2 DEF Same
<1> HIDE DEF a
<1>4. Same(a, s, {"listen_mode", "listener_watch"}) /\ (ok => s.listen_mode = "L2")
  BY <1>3, SwitchListeningMode DEF Same, Modes
<1> HIDE DEF s
<1>5. /\ s \in Client /\ s.type = c.type /\ s.cb = c.cb /\ s.sent = c.sent
      /\ s.retry_times = n /\ s.state = "INIT_SELECTING" /\ NoTimers(s)
  BY <1>2, <1>3, <1>4 DEF Same, Fields, Timers, NoTimers
<1>6. Ready(s)
  BY <1>5 DEF Ready, Requests, Holds, HoldsLease, NoTimers
<1>7. s.last_address \in AnyIp /\ (ok => Listens(s))
  BY <1>4, <1>5 DEF Client, Listens
<1> QED BY <1>1, <1>5, <1>6, <1>7, DhcpStart

-----------------------------------------------------------------------------
(***************************************************************************)
(* The timers of a DHCPv4 client.                                            *)
(***************************************************************************)
LEMMA DiscoverTimeoutStep ==
  ASSUME NEW c, Sane(c), c.timeout = "discover_timeout", NEW ok \in BOOLEAN
  PROVE  LET d == discover_timeout(c, ok)
         IN  Step(c, d) /\ (ok => Awake(c, d))
<1> DEFINE a == TimeoutFired(c)
           b == [a EXCEPT !.retry_times = (@ + 1) % UINT8]
           e == remove_timeouts(b)
<1>1. discover_timeout(c, ok) = dhcp_start(e, NoIp, ok)
  BY DEF discover_timeout
<1>2. Same(c, a, {"timeout", "cb"}) /\ a.cb = "none" /\ c \in Client
  BY Fired DEF Sane
<1> HIDE DEF a
<1>3. Same(a, b, {"retry_times"})
  <2> DEFINE n == (a.retry_times + 1) % UINT8
  <2>1. n \in 0 .. (UINT8 - 1)
    <3>1. a.retry_times + 1 \in Nat
      BY <1>2, ClientAssumption DEF Same, Client
    <3> QED BY <3>1, CounterInRange
  <2>2. b = [a EXCEPT !.retry_times = n]
    BY <1>2 DEF Same, Client
  <2> HIDE DEF n, b
  <2>3. b \in Client
    BY <1>2, <2>1, <2>2 DEF Same, Client
  <2>4. \A f \in Fields \ {"retry_times"} : b[f] = a[f]
    BY <1>2, <2>2 DEF Same, Client, Fields
  <2> QED BY <2>3, <2>4 DEF Same
<1> HIDE DEF b
<1>4. Same(b, e, Timers) /\ NoTimers(e)
  BY <1>3, RemoveTimeouts DEF Same
<1> HIDE DEF e
<1>5. /\ e \in Client /\ e.type = c.type /\ e.cb = "none" /\ e.sent = c.sent
      /\ e.state = c.state /\ e.requested_ip = c.requested_ip
      /\ e.listen_mode = c.listen_mode
  BY <1>2, <1>3, <1>4 DEF Same, Fields, Timers
<1>6. ~Holds(c)
  BY DEF Sane, LeaseTimers
<1>7. Ready(e) /\ (Listens(c) => Listens(e))
  BY <1>4, <1>5, <1>6 DEF Ready, Sane, Requests, Holds, NoTimers, Listens
<1>8. NoIp \in AnyIp
  BY DEF AnyIp
<1> QED BY <1>1, <1>7, <1>8, DhcpStart DEF Restarted, Step, Awake

LEMMA RebootTimeoutStep ==
  ASSUME NEW c, Sane(c), NEW ok \in BOOLEAN
  PROVE  LET d == reboot_timeout(c, ok)
         IN  Step(c, d) /\ (ok => Awake(c, d))
<1> DEFINE a == TimeoutFired(c)
           b == [a EXCEPT !.retry_times = 0, !.requested_ip = NoIp,
                          !.state = "INIT_SELECTING"]
           e == remove_timeouts(b)
<1>1. reboot_timeout(c, ok) = dhcp_start(e, NoIp, ok)
  BY DEF reboot_timeout
<1>2. Same(c, a, {"timeout", "cb"}) /\ a.cb = "none" /\ c \in Client
  BY Fired DEF Sane
<1> HIDE DEF a
<1>3. /\ Same(a, b, {"retry_times", "requested_ip", "state"})
      /\ b.retry_times = 0 /\ b.state = "INIT_SELECTING"
  <2>1. 0 \in 0 .. (UINT8 - 1)
    BY CounterInRange
  <2>2. b \in Client /\ b.retry_times = 0 /\ b.state = "INIT_SELECTING"
    BY <1>2, <2>1, Values DEF Same, Client
  <2>3. \A f \in Fields \ {"retry_times", "requested_ip", "state"} : b[f] = a[f]
    BY <1>2 DEF Same, Client, Fields
  <2> QED BY <2>2, <2>3 DEF Same
<1> HIDE DEF b
<1>4. Same(b, e, Timers) /\ NoTimers(e)
  BY <1>3, RemoveTimeouts DEF Same
<1> HIDE DEF e
<1>5. /\ e \in Client /\ e.type = c.type /\ e.cb = "none" /\ e.sent = c.sent
      /\ e.state = "INIT_SELECTING" /\ e.retry_times = 0
  BY <1>2, <1>3, <1>4 DEF Same, Fields, Timers
<1>6. Ready(e)
  BY <1>4, <1>5 DEF Ready, Sane, Requests, Holds, HoldsLease, NoTimers
<1> QED BY <1>1, <1>5, <1>6, Values, DhcpStart DEF Restarted, Step, Awake

LEMMA RestartTimeoutStep ==
  ASSUME NEW c, Sane(c), NEW ok \in BOOLEAN
  PROVE  LET d == restart_dhcp_timeout(c, ok)
         IN  Step(c, d) /\ (ok => Awake(c, d))
<1> DEFINE a == TimeoutFired(c)
           n == (a.ack_retry_times + 1) % UINT8
           b == [a EXCEPT !.last_address = NoIp]
           e == [a EXCEPT !.ack_retry_times = n]
<1>1. restart_dhcp_timeout(c, ok) =
        IF a.state = "REBOOTING" THEN restart_dhcp(b, 0, ok) ELSE restart_dhcp(e, n, ok)
  BY DEF restart_dhcp_timeout
<1>2. Same(c, a, {"timeout", "cb"}) /\ a.cb = "none" /\ c \in Client
  BY Fired DEF Sane
<1>3. n \in 0 .. (UINT8 - 1) /\ 0 \in 0 .. (UINT8 - 1)
  <2>1. a.ack_retry_times + 1 \in Nat
    BY <1>2, ClientAssumption DEF Same, Client
  <2> QED BY <2>1, CounterInRange
<1> HIDE DEF a, n
<1>4. /\ a.type = "IPV4" /\ a.sent = c.sent
      /\ c.sent.type = "REQUEST" => c.sent.ip \in Ips
  BY <1>2 DEF Same, Fields, Sane, Requests
<1>5. CASE restart_dhcp_timeout(c, ok) = restart_dhcp(b, 0, ok)
  <2>1. b \in Client /\ b.type = a.type /\ b.cb = a.cb /\ b.sent = a.sent
    BY <1>2, Values DEF Same, Client
  <2> HIDE DEF b
  <2> QED BY <1>2, <1>3, <1>4, <1>5, <2>1, RestartDhcp DEF Restarted, Step, Awake
<1>6. CASE restart_dhcp_timeout(c, ok) = restart_dhcp(e, n, ok)
  <2>1. e \in Client /\ e.type = a.type /\ e.cb = a.cb /\ e.sent = a.sent
    BY <1>2, <1>3 DEF Same, Client
  <2> HIDE DEF e
  <2> QED BY <1>2, <1>3, <1>4, <1>6, <2>1, RestartDhcp DEF Restarted, Step, Awake
<1> QED BY <1>1, <1>5, <1>6

LEMMA StartExpireStep ==
  ASSUME NEW c, Sane(c), c.lease_timeout = "start_expire", NEW ok \in BOOLEAN
  PROVE  LET d == start_expire(c, ok)
         IN  Step(c, d) /\ (ok => Awake(c, d))
<1> DEFINE a == LeaseFired(c)
           r == restart_dhcp(a, 0, ok)
           d == [r EXCEPT !.cb = "lease_lost"]
<1>1. start_expire(c, ok) = d
  BY DEF start_expire
<1>2. Same(c, a, {"lease_timeout", "cb"}) /\ a.cb = "none" /\ c \in Client
  BY Fired DEF Sane
<1> HIDE DEF a
<1>3. /\ a.type = "IPV4" /\ a.sent = c.sent /\ a \in Client
      /\ c.sent.type = "REQUEST" => c.sent.ip \in Ips
  BY <1>2 DEF Same, Fields, Sane, Requests
<1>4. /\ Restarted(r) /\ r.cb = "none"
      /\ ok => Wakes(r) /\ Listens(r)
  BY <1>2, <1>3, CounterInRange, RestartDhcp
<1> HIDE DEF r
<1>5. Same(r, d, {"cb"}) /\ d.cb = "lease_lost"
  BY <1>4 DEF Restarted, Sane, Client, Same, Fields, Callbacks
<1> HIDE DEF d
<1>6. /\ d.type = r.type /\ d.state = r.state /\ d.listen_mode = r.listen_mode
      /\ d.retry_times = r.retry_times /\ d.timeout = r.timeout
      /\ d.t1_timeout = r.t1_timeout /\ d.t2_timeout = r.t2_timeout
      /\ d.lease_timeout = r.lease_timeout /\ d.T1 = r.T1 /\ d.T2 = r.T2
      /\ d.expire = r.expire /\ d.sent = r.sent /\ d.requested_ip = r.requested_ip
  BY <1>5 DEF Same, Fields
<1>7. Sane(d) /\ ~Holds(d)
  <2>1. LeaseTimers(d) /\ ~Holds(d)
    BY <1>4, <1>6 DEF Restarted, Sane, LeaseTimers, Holds
  <2>2. Requests(d)
    BY <1>4, <1>6 DEF Restarted, Sane, Requests
  <2> QED BY <1>4, <1>5, <1>6, <2>1, <2>2 DEF Restarted, Sane, Reports, Same
<1>8. Holds(c)
  BY DEF Sane, LeaseTimers
<1> QED BY <1>1, <1>4, <1>5, <1>6, <1>7, <1>8 DEF Step, Awake, Wakes, Listens

\* start_request runs in REQUESTING, with an address to ask for.
LEMMA StartRequest ==
  ASSUME NEW c \in Client, c.type = "IPV4", NoTimers(c), c.cb = "none",
         c.state = "REQUESTING", Requests(c), NEW ok \in BOOLEAN
  PROVE  LET d == start_request(c, ok)
         IN  Restarted(d) /\ Wakes(d) /\ (ok /\ Listens(c) => Listens(d))
<1> DEFINE g == [c EXCEPT !.cb = "no_lease"]
           a == [c EXCEPT !.state = "REQUESTING"]
           s == switch_listening_mode(a, "L2", ok)
           e == IF c.retry_times = 0 THEN s ELSE c
           q == [send_request(e) EXCEPT !.timeout = "request_timeout"]
<1>1. start_request(c, ok) = IF c.retry_times = REQUEST_RETRIES THEN g ELSE q
  BY DEF start_request
<1>2. CASE start_request(c, ok) = g
  <2>1. Same(c, g, {"cb"}) /\ g.cb = "no_lease"
    BY DEF Client, Same, Fields, Callbacks
  <2> HIDE DEF g
  <2>2. /\ g.type = c.type /\ g.state = c.state /\ g.listen_mode = c.listen_mode
        /\ g.sent = c.sent /\ g.requested_ip = c.requested_ip /\ g.timeout = c.timeout
        /\ NoTimers(g)
    BY <2>1 DEF Same, Fields, NoTimers
  <2> QED BY <1>2, <2>1, <2>2 DEF Restarted, Sane, LeaseTimers, Requests, Reports, Same,
                                  NoTimers, Holds, HoldsLease, Wakes, Listens
<1>3. CASE start_request(c, ok) = q
  <2>1. a = c
    BY DEF Client
  <2>2. Same(c, e, {"listen_mode", "listener_watch"})
        /\ (ok /\ Listens(c) => e.listen_mode = "L2")
    <3>1. Same(c, s, {"listen_mode", "listener_watch"}) /\ (ok => s.listen_mode = "L2")
      BY <2>1, SwitchListeningMode DEF Modes
    <3> HIDE DEF s
    <3> QED BY <3>1 DEF Same, Listens
  <2> HIDE DEF e
  <2> DEFINE y == send_request(e)
  <2>3. /\ e \in Client /\ e.state = "REQUESTING" /\ e.requested_ip = c.requested_ip
        /\ c.requested_ip \in Ips
    BY <2>2 DEF Same, Fields, Requests
  <2>4. Same(e, y, {"sent"}) /\ y.sent.type = "REQUEST" /\ y.sent.ip \in Ips
    BY <2>3, SendRequest
  <2> HIDE DEF y
  <2>5. Same(y, q, {"timeout"}) /\ q.timeout = "request_timeout"
    BY <2>4 DEF Same, Client, Timeouts, Fields, y
  <2> HIDE DEF q
  <2>6. /\ q \in Client /\ q.type = c.type /\ q.state = "REQUESTING" /\ q.cb = "none"
        /\ q.requested_ip = c.requested_ip /\ q.sent = y.sent
        /\ q.listen_mode = e.listen_mode
        /\ q.t1_timeout = "none" /\ q.t2_timeout = "none" /\ q.lease_timeout = "none"
    BY <2>2, <2>3, <2>4, <2>5 DEF Same, Fields, NoTimers
  <2>7. Sane(q) /\ ~Holds(q)
    BY <2>3, <2>4, <2>5, <2>6 DEF Sane, LeaseTimers, Requests, Reports, Holds, HoldsLease
  <2> QED BY <1>3, <2>2, <2>5, <2>6, <2>7 DEF Restarted, Wakes, Listens
<1> QED BY <1>1, <1>2, <1>3

LEMMA RequestTimeoutStep ==
  ASSUME NEW c, Sane(c), c.timeout = "request_timeout", NEW ok \in BOOLEAN
  PROVE  LET d == request_timeout(c, ok)
         IN  Step(c, d) /\ (ok => Awake(c, d))
<1> DEFINE a == TimeoutFired(c)
           b == [a EXCEPT !.retry_times = (@ + 1) % UINT8]
<1>1. request_timeout(c, ok) = start_request(b, ok)
  BY DEF request_timeout
<1>2. Same(c, a, {"timeout", "cb"}) /\ a.timeout = "none" /\ a.cb = "none" /\ c \in Client
  BY Fired DEF Sane
<1> HIDE DEF a
<1>3. Same(a, b, {"retry_times"})
  <2> DEFINE n == (a.retry_times + 1) % UINT8
  <2>1. n \in 0 .. (UINT8 - 1)
    <3>1. a.retry_times + 1 \in Nat
      BY <1>2, ClientAssumption DEF Same, Client
    <3> QED BY <3>1, CounterInRange
  <2>2. b = [a EXCEPT !.retry_times = n]
    BY <1>2 DEF Same, Client
  <2> HIDE DEF n, b
  <2>3. b \in Client
    BY <1>2, <2>1, <2>2 DEF Same, Client
  <2>4. \A f \in Fields \ {"retry_times"} : b[f] = a[f]
    BY <1>2, <2>2 DEF Same, Client, Fields
  <2> QED BY <2>3, <2>4 DEF Same
<1> HIDE DEF b
<1>4. /\ b \in Client /\ b.type = c.type /\ b.cb = "none" /\ b.sent = c.sent
      /\ b.state = c.state /\ b.requested_ip = c.requested_ip
      /\ b.listen_mode = c.listen_mode /\ b.timeout = "none"
      /\ b.t1_timeout = c.t1_timeout /\ b.t2_timeout = c.t2_timeout
      /\ b.lease_timeout = c.lease_timeout
  BY <1>2, <1>3 DEF Same, Fields
<1>5. c.state = "REQUESTING" /\ ~Holds(c)
  BY DEF Sane, Requests, Holds, HoldsLease
<1>6. NoTimers(b)
  BY <1>4, <1>5 DEF NoTimers, Sane, LeaseTimers, Client
<1>7. Requests(b) /\ (Listens(c) => Listens(b))
  BY <1>4, <1>5 DEF Sane, Requests, Listens
<1> QED BY <1>1, <1>4, <1>5, <1>6, <1>7, StartRequest DEF Sane, Restarted, Step, Awake

-----------------------------------------------------------------------------
(***************************************************************************)
(* Renewing and rebinding.  Extends: d sends REQUESTs from the given state, *)
(* in which the lease goes on.                                              *)
(***************************************************************************)
Extends(c, d, state, mode, ok) ==
    /\ d \in Client /\ d.type = "IPV4" /\ d.state = state /\ d.cb = "none"
    /\ d.retry_times = c.retry_times /\ d.timeout = c.timeout
    /\ d.lease_timeout = c.lease_timeout /\ d.expire = c.expire
    /\ d.assigned_ip = c.assigned_ip /\ d.requested_ip = c.requested_ip
    /\ d.sent.type = "REQUEST" /\ d.sent.ip = c.requested_ip
    /\ ok => d.listen_mode = mode

LEMMA Half ==
  ASSUME NEW n \in Nat
  PROVE  n \div 2 \in Nat
OBVIOUS

LEMMA RenewalGoesOn ==
  ASSUME NEW c \in Client, c.type = "IPV4", c.state = "RENEWING", NEW ok \in BOOLEAN
  PROVE  LET d == continue_renew(c, ok)
         IN  /\ Extends(c, d, "RENEWING", "L3", ok)
             /\ d.t1_timeout \in {"none", "continue_renew"}
             /\ d.t2_timeout = c.t2_timeout /\ d.T2 = c.T2
<1> DEFINE half == c.T1 \div 2
           t == IF half > MIN_RETRANSMIT THEN "continue_renew" ELSE "none"
           a == T1Fired(c)
           s == switch_listening_mode(a, "L3", ok)
           y == send_request(s)
           d == [y EXCEPT !.T1 = half, !.t1_timeout = t]
<1>1. continue_renew(c, ok) = d
  BY DEF continue_renew
<1>2. half \in Nat /\ t \in {"none", "continue_renew"}
  BY Half DEF Client
<1> HIDE DEF half, t
<1>3. Same(c, a, {"t1_timeout", "cb"}) /\ a.cb = "none"
  BY Fired
<1> HIDE DEF a
<1>4. Same(a, s, {"listen_mode", "listener_watch"}) /\ (ok => s.listen_mode = "L3")
  BY <1>3, SwitchListeningMode DEF Same, Modes
<1> HIDE DEF s
<1>5. /\ s \in Client /\ s.type = c.type /\ s.state = c.state /\ s.cb = "none"
      /\ s.retry_times = c.retry_times /\ s.timeout = c.timeout
      /\ s.lease_timeout = c.lease_timeout /\ s.expire = c.expire
      /\ s.assigned_ip = c.assigned_ip /\ s.requested_ip = c.requested_ip
      /\ s.t2_timeout = c.t2_timeout /\ s.T2 = c.T2
  BY <1>3, <1>4 DEF Same, Fields
<1>6. Same(s, y, {"sent"}) /\ y.sent.type = "REQUEST" /\ y.sent.ip = s.requested_ip
  BY <1>5, SendRequest
<1> HIDE DEF y
<1>7. Same(y, d, {"T1", "t1_timeout"}) /\ d.t1_timeout = t
  <2>1. d \in Client /\ d.t1_timeout = t
    BY <1>2, <1>6 DEF Same, Client
  <2>2. \A f \in Fields \ {"T1", "t1_timeout"} : d[f] = y[f]
    BY <1>6 DEF Same, Client, Fields
  <2> QED BY <2>1, <2>2 DEF Same
<1> HIDE DEF d
<1>8. /\ d \in Client /\ d.type = s.type /\ d.state = s.state /\ d.cb = s.cb
      /\ d.retry_times = s.retry_times /\ d.timeout = s.timeout
      /\ d.lease_timeout = s.lease_timeout /\ d.expire = s.expire
      /\ d.assigned_ip = s.assigned_ip /\ d.requested_ip = s.requested_ip
      /\ d.t2_timeout = s.t2_timeout /\ d.T2 = s.T2
      /\ d.sent = y.sent /\ d.listen_mode = s.listen_mode
  BY <1>6, <1>7 DEF Same, Fields
<1> QED BY <1>1, <1>2, <1>4, <1>5, <1>6, <1>7, <1>8 DEF Extends

LEMMA ReboundGoesOn ==
  ASSUME NEW c \in Client, c.type = "IPV4", c.state = "REBINDING", NEW ok \in BOOLEAN
  PROVE  LET d == continue_rebound(c, ok)
         IN  /\ Extends(c, d, "REBINDING", "L2", ok)
             /\ d.t2_timeout \in {"none", "continue_rebound"}
             /\ d.t1_timeout = c.t1_timeout
<1> DEFINE half == c.T2 \div 2
           t == IF half > MIN_RETRANSMIT THEN "continue_rebound" ELSE "none"
           a == T2Fired(c)
           s == switch_listening_mode(a, "L2", ok)
           y == send_request(s)
           d == [y EXCEPT !.T2 = half, !.t2_timeout = t]
<1>1. continue_rebound(c, ok) = d
  BY DEF continue_rebound
<1>2. half \in Nat /\ t \in {"none", "continue_rebound"}
  BY Half DEF Client
<1> HIDE DEF half, t
<1>3. Same(c, a, {"t2_timeout", "cb"}) /\ a.cb = "none"
  BY Fired
<1> HIDE DEF a
<1>4. Same(a, s, {"listen_mode", "listener_watch"}) /\ (ok => s.listen_mode = "L2")
  BY <1>3, SwitchListeningMode DEF Same, Modes
<1> HIDE DEF s
<1>5. /\ s \in Client /\ s.type = c.type /\ s.state = c.state /\ s.cb = "none"
      /\ s.retry_times = c.retry_times /\ s.timeout = c.timeout
      /\ s.lease_timeout = c.lease_timeout /\ s.expire = c.expire
      /\ s.assigned_ip = c.assigned_ip /\ s.requested_ip = c.requested_ip
      /\ s.t1_timeout = c.t1_timeout
  BY <1>3, <1>4 DEF Same, Fields
<1>6. Same(s, y, {"sent"}) /\ y.sent.type = "REQUEST" /\ y.sent.ip = s.requested_ip
  BY <1>5, SendRequest
<1> HIDE DEF y
<1>7. Same(y, d, {"T2", "t2_timeout"}) /\ d.t2_timeout = t
  <2>1. d \in Client /\ d.t2_timeout = t
    BY <1>2, <1>6 DEF Same, Client
  <2>2. \A f \in Fields \ {"T2", "t2_timeout"} : d[f] = y[f]
    BY <1>6 DEF Same, Client, Fields
  <2> QED BY <2>1, <2>2 DEF Same
<1> HIDE DEF d
<1>8. /\ d \in Client /\ d.type = s.type /\ d.state = s.state /\ d.cb = s.cb
      /\ d.retry_times = s.retry_times /\ d.timeout = s.timeout
      /\ d.lease_timeout = s.lease_timeout /\ d.expire = s.expire
      /\ d.assigned_ip = s.assigned_ip /\ d.requested_ip = s.requested_ip
      /\ d.t1_timeout = s.t1_timeout
      /\ d.sent = y.sent /\ d.listen_mode = s.listen_mode
  BY <1>6, <1>7 DEF Same, Fields
<1> QED BY <1>1, <1>2, <1>4, <1>5, <1>6, <1>7, <1>8 DEF Extends

\* T1 and T2 while a lease is held.
LEMMA RenewStep ==
  ASSUME NEW c, Sane(c), c.t1_timeout # "none", NEW ok \in BOOLEAN
  PROVE  LET d == IF c.t1_timeout = "start_renew" THEN start_renew(c, ok)
                  ELSE continue_renew(c, ok)
         IN  Step(c, d) /\ (ok => Awake(c, d))
<1> DEFINE rest == c.T2 - c.T1
           b == [c EXCEPT !.state = "RENEWING", !.T1 = rest]
           e == IF c.t1_timeout = "start_renew" THEN b ELSE c
           d == continue_renew(e, ok)
<1>1. d = IF c.t1_timeout = "start_renew" THEN start_renew(c, ok) ELSE continue_renew(c, ok)
  BY DEF start_renew
<1>2. Holds(c) /\ c \in Client /\ c.type = "IPV4" /\ c.state # "REBINDING"
  BY DEF Sane, LeaseTimers, Client
<1>3. /\ e \in Client /\ e.type = "IPV4" /\ e.state = "RENEWING"
      /\ e.retry_times = c.retry_times /\ e.timeout = c.timeout
      /\ e.lease_timeout = c.lease_timeout /\ e.expire = c.expire
      /\ e.assigned_ip = c.assigned_ip /\ e.requested_ip = c.requested_ip
      /\ e.t2_timeout = c.t2_timeout /\ e.T2 = c.T2
  <2>1. CASE c.t1_timeout = "start_renew"
    <3>1. rest \in Nat
      BY <1>2, <2>1 DEF Sane, LeaseTimers, Client
    <3> HIDE DEF rest
    <3>2. b \in Client
      BY <1>2, <3>1, Values DEF Client
    <3>3. /\ b.type = "IPV4" /\ b.state = "RENEWING"
          /\ b.retry_times = c.retry_times /\ b.timeout = c.timeout
          /\ b.lease_timeout = c.lease_timeout /\ b.expire = c.expire
          /\ b.assigned_ip = c.assigned_ip /\ b.requested_ip = c.requested_ip
          /\ b.t2_timeout = c.t2_timeout /\ b.T2 = c.T2
      BY <1>2 DEF Client
    <3> HIDE DEF b
    <3> QED BY <2>1, <3>2, <3>3
  <2>2. CASE c.t1_timeout # "start_renew"
    <3>1. c.state = "RENEWING"
      BY <1>2, <2>2 DEF Sane, LeaseTimers, Client
    <3> QED BY <1>2, <2>2, <3>1
  <2> QED BY <2>1, <2>2
<1> HIDE DEF e
<1>4. /\ Extends(e, d, "RENEWING", "L3", ok)
      /\ d.t1_timeout \in {"none", "continue_renew"}
      /\ d.t2_timeout = e.t2_timeout /\ d.T2 = e.T2
  BY <1>3, RenewalGoesOn
<1> HIDE DEF d
<1>5. LeaseTimers(d)
  BY <1>2, <1>3, <1>4 DEF Extends, Sane, LeaseTimers, Holds, HoldsLease
<1>6. Requests(d) /\ Reports(d)
  BY <1>2, <1>3, <1>4 DEF Extends, Sane, Requests, Reports, LeaseTimers, Holds, HoldsLease
<1>7. Step(c, d)
  BY <1>2, <1>3, <1>4, <1>5, <1>6 DEF Extends, Step, Sane
<1>8. ok => Awake(c, d)
  BY <1>3, <1>4 DEF Extends, Awake, Listens
<1> QED BY <1>1, <1>7, <1>8

LEMMA ReboundStep ==
  ASSUME NEW c, Sane(c), c.t2_timeout # "none", NEW ok \in BOOLEAN
  PROVE  LET d == IF c.t2_timeout = "start_rebound" THEN start_rebound(c, ok)
                  ELSE continue_rebound(c, ok)
         IN  Step(c, d) /\ (ok => Awake(c, d))
<1> DEFINE rest == c.expire - c.T2
           b == [c EXCEPT !.state = "REBINDING", !.t1_timeout = "none", !.T2 = rest]
           e == IF c.t2_timeout = "start_rebound" THEN b ELSE c
           d == continue_rebound(e, ok)
<1>1. d = IF c.t2_timeout = "start_rebound" THEN start_rebound(c, ok) ELSE continue_rebound(c, ok)
  BY DEF start_rebound
<1>2. Holds(c) /\ c \in Client /\ c.type = "IPV4"
  BY DEF Sane, LeaseTimers
<1>3. /\ e \in Client /\ e.type = "IPV4" /\ e.state = "REBINDING"
      /\ e.retry_times = c.retry_times /\ e.timeout = c.timeout
      /\ e.lease_timeout = c.lease_timeout /\ e.expire = c.expire
      /\ e.assigned_ip = c.assigned_ip /\ e.requested_ip = c.requested_ip
      /\ e.t1_timeout = "none"
  <2>1. CASE c.t2_timeout = "start_rebound"
    <3>1. rest \in Nat
      BY <1>2, <2>1 DEF Sane, LeaseTimers, Client
    <3> HIDE DEF rest
    <3>2. b \in Client
      BY <1>2, <3>1, Values DEF Client
    <3>3. /\ b.type = "IPV4" /\ b.state = "REBINDING"
          /\ b.retry_times = c.retry_times /\ b.timeout = c.timeout
          /\ b.lease_timeout = c.lease_timeout /\ b.expire = c.expire
          /\ b.assigned_ip = c.assigned_ip /\ b.requested_ip = c.requested_ip
          /\ b.t1_timeout = "none"
      BY <1>2 DEF Client
    <3> HIDE DEF b
    <3> QED BY <2>1, <3>2, <3>3
  <2>2. CASE c.t2_timeout # "start_rebound"
    <3>1. c.state = "REBINDING" /\ c.t1_timeout = "none"
      BY <1>2, <2>2 DEF Sane, LeaseTimers, Client
    <3> HIDE DEF b
    <3> QED BY <1>2, <2>2, <3>1
  <2> QED BY <2>1, <2>2
<1> HIDE DEF e
<1>4. /\ Extends(e, d, "REBINDING", "L2", ok)
      /\ d.t2_timeout \in {"none", "continue_rebound"}
      /\ d.t1_timeout = e.t1_timeout
  BY <1>3, ReboundGoesOn
<1> HIDE DEF d
<1>5. LeaseTimers(d)
  BY <1>2, <1>3, <1>4 DEF Extends, Sane, LeaseTimers, Holds, HoldsLease
<1>6. Requests(d) /\ Reports(d)
  BY <1>2, <1>3, <1>4 DEF Extends, Sane, Requests, Reports, LeaseTimers, Holds, HoldsLease
<1>7. Step(c, d)
  BY <1>2, <1>3, <1>4, <1>5, <1>6 DEF Extends, Step, Sane
<1>8. ok => Awake(c, d)
  BY <1>3, <1>4 DEF Extends, Awake, Listens
<1> QED BY <1>1, <1>7, <1>8

-----------------------------------------------------------------------------
(***************************************************************************)
(* Packets, socket errors and calls of g_dhcp_client_start.                  *)
(***************************************************************************)
\* T1 is half of the lease and T2 seven eighths of it.
LEMMA LeaseFractions ==
  ASSUME NEW n \in Nat
  PROVE  /\ n \div 2 \in Nat /\ (n * 7) \div 8 \in Nat
         /\ n \div 2 <= (n * 7) \div 8 /\ (n * 7) \div 8 <= n
OBVIOUS

LEMMA BoundType ==
  ASSUME NEW c \in Client, NEW t1 \in Nat, NEW t2 \in Nat
  PROVE  [c EXCEPT !.state = "BOUND", !.T1 = t1, !.T2 = t2,
                   !.t1_timeout = "start_renew", !.t2_timeout = "start_rebound",
                   !.lease_timeout = "start_expire"] \in Client
BY DEF Client, States, HoldsLease

LEMMA StartBound ==
  ASSUME NEW c \in Client, c.type = "IPV4", c.retry_times = 0,
         c.cb = "lease_available", c.assigned_ip \in Ips, c.requested_ip \in Ips,
         c.sent.type = "REQUEST" => c.sent.ip \in Ips
  PROVE  LET d == start_bound(c)
         IN  Sane(d) /\ d.state = "BOUND" /\ d.lease_timeout = "start_expire"
             /\ d.cb = "lease_available"
<1> DEFINE t1 == c.expire \div 2
           t2 == (c.expire * 7) \div 8
           r == remove_timeouts(c)
           d == [r EXCEPT !.state = "BOUND", !.T1 = t1, !.T2 = t2,
                          !.t1_timeout = "start_renew", !.t2_timeout = "start_rebound",
                          !.lease_timeout = "start_expire"]
<1>1. start_bound(c) = d
  BY DEF start_bound
<1>2. t1 \in Nat /\ t2 \in Nat /\ t1 <= t2 /\ t2 <= c.expire
  BY LeaseFractions DEF Client
<1> HIDE DEF t1, t2
<1>3. Same(c, r, Timers) /\ NoTimers(r)
  BY RemoveTimeouts
<1> HIDE DEF r
<1>4. d \in Client
  BY <1>2, <1>3, BoundType DEF Same
<1>5. /\ d.state = "BOUND" /\ d.T1 = t1 /\ d.T2 = t2 /\ d.t1_timeout = "start_renew"
      /\ d.t2_timeout = "start_rebound" /\ d.lease_timeout = "start_expire"
      /\ d.timeout = r.timeout /\ d.retry_times = r.retry_times /\ d.type = r.type
      /\ d.cb = r.cb /\ d.assigned_ip = r.assigned_ip /\ d.expire = r.expire
      /\ d.requested_ip = r.requested_ip /\ d.sent = r.sent
  BY <1>3 DEF Same, Client
<1> HIDE DEF d
<1>6. /\ r.retry_times = c.retry_times /\ r.type = c.type /\ r.cb = c.cb
      /\ r.assigned_ip = c.assigned_ip /\ r.expire = c.expire
      /\ r.requested_ip = c.requested_ip /\ r.sent = c.sent /\ r.timeout = "none"
  BY <1>3 DEF Same, Fields, Timers, NoTimers
<1>7. LeaseTimers(d)
  BY <1>2, <1>5, <1>6 DEF LeaseTimers, Holds, HoldsLease
<1>8. Requests(d) /\ Reports(d)
  BY <1>5, <1>6 DEF Requests, Reports, Holds, HoldsLease
<1> QED BY <1>1, <1>4, <1>5, <1>6, <1>7, <1>8 DEF Sane

\* Forgetting the last callback.
LEMMA Called ==
  ASSUME NEW c \in Client
  PROVE  Same(c, [c EXCEPT !.cb = "none"], {"cb"}) /\ [c EXCEPT !.cb = "none"].cb = "none"
BY DEF Client, Same, Fields, Callbacks

LEMMA SilentStep ==
  ASSUME NEW c, Sane(c), NEW d, Same(c, d, {"cb", "listener_watch"}), d.cb = "none"
  PROVE  Step(c, d) /\ Awake(c, d)
<1>1. /\ d \in Client /\ d.type = c.type /\ d.state = c.state
      /\ d.listen_mode = c.listen_mode
      /\ d.retry_times = c.retry_times /\ d.timeout = c.timeout
      /\ d.t1_timeout = c.t1_timeout /\ d.t2_timeout = c.t2_timeout
      /\ d.lease_timeout = c.lease_timeout /\ d.T1 = c.T1 /\ d.T2 = c.T2
      /\ d.expire = c.expire /\ d.sent = c.sent /\ d.requested_ip = c.requested_ip
      /\ d.assigned_ip = c.assigned_ip
  BY DEF Same, Fields
<1>2. LeaseTimers(d)
  BY <1>1 DEF Sane, LeaseTimers, Holds
<1>3. Requests(d) /\ Reports(d)
  BY <1>1 DEF Sane, Requests, Reports
<1> QED BY <1>1, <1>2, <1>3 DEF Sane, Step, Awake, Listens, Holds

LEMMA ListenerErrorStep ==
  ASSUME NEW c, Sane(c)
  PROVE  Step(c, listener_error(c)) /\ Awake(c, listener_error(c))
<1>1. Same(c, listener_error(c), {"cb", "listener_watch"}) /\ listener_error(c).cb = "none"
  <2> DEFINE w == FALSE
             d == [c EXCEPT !.listener_watch = w, !.cb = "none"]
  <2>1. w \in BOOLEAN /\ listener_error(c) = d
    BY DEF listener_error
  <2> HIDE DEF w
  <2>2. d \in Client /\ d.cb = "none"
    BY <2>1 DEF Sane, Client, Callbacks
  <2>3. \A f \in Fields \ {"cb", "listener_watch"} : d[f] = c[f]
    BY DEF Sane, Client, Fields
  <2> QED BY <2>1, <2>2, <2>3 DEF Same
<1> QED BY <1>1, SilentStep

LEMMA PacketStep ==
  ASSUME NEW c, Sane(c), NEW type \in {"OFFER", "ACK", "NAK"}, NEW yiaddr \in Ips,
         NEW time, time = NULL \/ time \in Nat, NEW ok \in BOOLEAN
  PROVE  LET d == dhcp_packet(c, type, yiaddr, time, ok)
         IN  Step(c, d) /\ (ok => Awake(c, d))
<1> DEFINE a == [c EXCEPT !.cb = "none"]
           r == remove_timeouts(a)
           offered == [r EXCEPT !.retry_times = 0, !.requested_ip = yiaddr,
                                !.state = "REQUESTING"]
           s == switch_listening_mode(a, "L_NONE", TRUE)
           expire == get_lease(time)
           acked == [s EXCEPT !.retry_times = 0, !.assigned_ip = yiaddr,
                              !.expire = expire, !.cb = "lease_available"]
           refused == [r EXCEPT !.retry_times = 0, !.timeout = "restart_dhcp_timeout"]
           Asks == c.state \in {"REBOOTING", "REQUESTING", "RENEWING", "REBINDING"}
           d == dhcp_packet(c, type, yiaddr, time, ok)
<1>1. /\ c.state = "INIT_SELECTING" /\ type = "OFFER" => d = start_request(offered, ok)
      /\ Asks /\ type = "ACK" => d = start_bound(acked)
      /\ Asks /\ type = "NAK" => d = refused
      /\ ~ (c.state = "INIT_SELECTING" /\ type = "OFFER") /\ ~ (Asks /\ type \in {"ACK", "NAK"})
           => d = a
  BY DEF dhcp_packet
<1>2. Same(c, a, {"cb"}) /\ a.cb = "none" /\ c \in Client /\ c.type = "IPV4"
  BY Called DEF Sane
<1>3. 0 \in 0 .. (UINT8 - 1) /\ yiaddr \in AnyIp
  BY CounterInRange, Values
<1> SUFFICES Step(c, d) /\ (ok => Awake(c, d))
  OBVIOUS
<1> HIDE DEF a, d
<1>4. Same(a, r, Timers) /\ NoTimers(r)
  BY <1>2, RemoveTimeouts DEF Same
<1> HIDE DEF r
<1>5. CASE c.state = "INIT_SELECTING" /\ type = "OFFER"
  <2>1. Same(r, offered, {"retry_times", "requested_ip", "state"})
        /\ offered.state = "REQUESTING" /\ offered.requested_ip = yiaddr
    <3>1. offered \in Client /\ offered.state = "REQUESTING" /\ offered.requested_ip = yiaddr
      BY <1>3, <1>4, Values DEF Same, Client
    <3>2. \A f \in Fields \ {"retry_times", "requested_ip", "state"} : offered[f] = r[f]
      BY <1>4 DEF Same, Client, Fields
    <3> QED BY <3>1, <3>2 DEF Same
  <2> HIDE DEF offered
  <2>2. /\ offered \in Client /\ offered.type = c.type /\ offered.cb = "none"
        /\ offered.sent = c.sent /\ offered.listen_mode = c.listen_mode
        /\ NoTimers(offered)
    BY <1>2, <1>4, <2>1 DEF Same, Fields, Timers, NoTimers
  <2>3. Requests(offered) /\ (Listens(c) => Listens(offered))
    BY <1>5, <2>1, <2>2 DEF Sane, Requests, NoTimers, Listens
  <2> QED BY <1>1, <1>2, <1>5, <2>1, <2>2, <2>3, StartRequest DEF Restarted, Step, Awake
<1>6. CASE Asks /\ type = "ACK"
  <2>1. expire \in Nat
    BY DEF get_lease
  <2>2. Same(a, s, {"listen_mode", "listener_watch"})
    BY <1>2, SwitchListeningMode DEF Same, Modes
  <2> HIDE DEF s, expire
  <2>3. /\ Same(s, acked, {"retry_times", "assigned_ip", "expire", "cb"})
        /\ acked.retry_times = 0 /\ acked.assigned_ip = yiaddr /\ acked.cb = "lease_available"
    <3>1. acked \in Client
      BY <1>3, <2>1, <2>2, Values DEF Same, Client
    <3>2. acked.retry_times = 0 /\ acked.assigned_ip = yiaddr /\ acked.cb = "lease_available"
      BY <2>2 DEF Same, Client
    <3>3. \A f \in Fields \ {"retry_times", "assigned_ip", "expire", "cb"} : acked[f] = s[f]
      BY <2>2 DEF Same, Client, Fields
    <3> QED BY <3>1, <3>2, <3>3 DEF Same
  <2> HIDE DEF acked
  <2>4. /\ acked \in Client /\ acked.type = c.type /\ acked.sent = c.sent
        /\ acked.requested_ip = c.requested_ip
    BY <1>2, <2>2, <2>3 DEF Same, Fields
  <2>5. c.requested_ip \in Ips /\ (c.sent.type = "REQUEST" => c.sent.ip \in Ips)
    BY <1>6 DEF Sane, Requests, HoldsLease
  <2>6. /\ Sane(d) /\ d.state = "BOUND" /\ d.lease_timeout = "start_expire"
        /\ d.cb = "lease_available"
    BY <1>1, <1>2, <1>6, <2>3, <2>4, <2>5, StartBound
  <2> QED BY <2>6 DEF Step, Awake, Wakes, Listens
<1>7. CASE Asks /\ type = "NAK"
  <2>1. /\ Same(r, refused, {"retry_times", "timeout"})
        /\ refused.retry_times = 0 /\ refused.timeout = "restart_dhcp_timeout"
    <3>1. refused \in Client
      BY <1>3, <1>4, Values DEF Same, Client
    <3>2. refused.retry_times = 0 /\ refused.timeout = "restart_dhcp_timeout"
      BY <1>4 DEF Same, Client
    <3>3. \A f \in Fields \ {"retry_times", "timeout"} : refused[f] = r[f]
      BY <1>4 DEF Same, Client, Fields
    <3> QED BY <3>1, <3>2, <3>3 DEF Same
  <2> HIDE DEF refused
  <2>2. /\ refused \in Client /\ refused.type = c.type /\ refused.sent = c.sent
        /\ refused.requested_ip = c.requested_ip /\ refused.cb = "none"
        /\ refused.state = c.state /\ refused.listen_mode = c.listen_mode
        /\ refused.assigned_ip = c.assigned_ip
        /\ refused.t1_timeout = "none" /\ refused.t2_timeout = "none"
        /\ refused.lease_timeout = "none"
    BY <1>2, <1>4, <2>1 DEF Same, Fields, Timers, NoTimers
  <2>3. LeaseTimers(refused)
    BY <2>1, <2>2 DEF LeaseTimers
  <2>4. Requests(refused) /\ Reports(refused)
    BY <2>1, <2>2 DEF Sane, Requests, Reports
  <2> QED BY <1>1, <1>2, <1>7, <2>1, <2>2, <2>3, <2>4
          DEF Step, Sane, Awake, Wakes, Listens, Holds
<1>8. CASE d = a
  <2>1. Same(c, a, {"cb", "listener_watch"})
    BY <1>2 DEF Same
  <2> QED BY <1>2, <1>8, <2>1, SilentStep
<1> QED BY <1>1, <1>5, <1>6, <1>7, <1>8

\* A new client, or one that is started once more.
LEMMA ClientStart ==
  ASSUME NEW c, Sane(c), NEW last \in AnyIp, NEW ip, NEW ok \in BOOLEAN
  PROVE  LET d == g_dhcp_client_start([c EXCEPT !.cb = "none"], last, ok, ip)
         IN  /\ Restarted(d)
             /\ ok => Wakes(d)
             /\ ok /\ (c.retry_times = 0 \/ Listens(c)) => Listens(d)
<1> DEFINE a == [c EXCEPT !.cb = "none"]
           r == remove_timeouts(a)
<1>1. Same(c, a, {"cb"}) /\ a.cb = "none" /\ c \in Client /\ c.type = "IPV4"
  BY Called DEF Sane
<1> HIDE DEF a
<1>2. Same(a, r, Timers) /\ NoTimers(r)
  BY <1>1, RemoveTimeouts DEF Same
<1>3. a.type # "IPV4LL"
  BY <1>1 DEF Same, Fields
<1>4. g_dhcp_client_start(a, last, ok, ip) = dhcp_start(r, last, ok)
  BY <1>3 DEF g_dhcp_client_start
<1> HIDE DEF r
<1>5. /\ r \in Client /\ r.type = c.type /\ r.cb = "none" /\ r.sent = c.sent
      /\ r.state = c.state /\ r.requested_ip = c.requested_ip
      /\ r.listen_mode = c.listen_mode /\ r.retry_times = c.retry_times
  BY <1>1, <1>2 DEF Same, Fields, Timers
<1>6. Ready(r) /\ (Listens(c) => Listens(r))
  BY <1>1, <1>2, <1>5 DEF Ready, Sane, LeaseTimers, Requests, Holds, NoTimers, Listens
<1>7. g_dhcp_client_start([c EXCEPT !.cb = "none"], last, ok, ip) = dhcp_start(r, last, ok)
  BY <1>4 DEF a
<1> QED BY <1>5, <1>6, <1>7, DhcpStart

LEMMA NewClient ==
  ASSUME NEW type \in {"IPV4", "IPV4LL"}
  PROVE  LET c == g_dhcp_client_new(type)
         IN  /\ c \in Client /\ c.type = type /\ c.retry_times = 0 /\ c.cb = "none"
             /\ type = "IPV4" => Sane(c)
<1> DEFINE c == g_dhcp_client_new(type)
           w == FALSE
           none == [type |-> "none", ip |-> NoIp]
<1>1. w \in BOOLEAN /\ 0 \in 0 .. (UINT8 - 1)
  BY CounterInRange
<1>2. none \in [type : {"none", "DISCOVER", "REQUEST", "PROBE", "ANNOUNCE"}, ip : AnyIp]
      /\ none.type = "none"
  BY Values
<1>3. c = [type |-> type, state |-> "INIT_SELECTING",
           listen_mode |-> "L_NONE", listener_watch |-> w,
           retry_times |-> 0, ack_retry_times |-> 0, conflicts |-> 0,
           timeout |-> "none", t1_timeout |-> "none", t2_timeout |-> "none",
           lease_timeout |-> "none",
           requested_ip |-> NoIp, assigned_ip |-> NoIp, last_address |-> NoIp,
           T1 |-> 0, T2 |-> 0, expire |-> 0, sent |-> none, cb |-> "none"]
  BY DEF g_dhcp_client_new
<1> SUFFICES /\ c \in Client /\ c.type = type /\ c.retry_times = 0 /\ c.cb = "none"
             /\ type = "IPV4" => Sane(c)
  OBVIOUS
<1> HIDE DEF c, w, none
<1>4. "none" \in Timeouts /\ "none" \in Callbacks /\ "INIT_SELECTING" \in States
      /\ NoIp \in AnyIp
  BY DEF Timeouts, Callbacks, States, AnyIp
<1>5. c \in Client
  BY <1>1, <1>2, <1>3, <1>4 DEF Client
<1>6. /\ c.type = type /\ c.retry_times = 0 /\ c.cb = "none" /\ c.timeout = "none"
      /\ c.t1_timeout = "none" /\ c.t2_timeout = "none" /\ c.lease_timeout = "none"
      /\ c.state = "INIT_SELECTING" /\ c.sent = none
  BY <1>3
<1>7. type = "IPV4" => Sane(c)
  BY <1>2, <1>5, <1>6 DEF Sane, LeaseTimers, Requests, Reports, Holds, HoldsLease
<1> QED BY <1>5, <1>6, <1>7

-----------------------------------------------------------------------------
(***************************************************************************)
(* The watch on the client's socket.  Every handler but listener_error      *)
(* leaves the client with a live watch on the socket of its listen_mode if   *)
(* it had one: only switch_listening_mode changes either, and it changes     *)
(* both.                                                                     *)
(***************************************************************************)
Watched(c) ==
    /\ {"listen_mode", "listener_watch"} \subseteq DOMAIN c
    /\ c.listen_mode # "L_NONE" => c.listener_watch

\* d's socket and watch are those of c.
SameWatch(c, d) ==
    /\ DOMAIN d = DOMAIN c
    /\ d["listen_mode"] = c["listen_mode"] /\ d["listener_watch"] = c["listener_watch"]

LEMMA SameWatched ==
  ASSUME NEW c, Watched(c), NEW d, SameWatch(c, d)
  PROVE  Watched(d)
BY DEF Watched, SameWatch

LEMMA SwitchWatched ==
  ASSUME NEW c, Watched(c), NEW mode, NEW ok \in BOOLEAN
  PROVE  Watched(switch_listening_mode(c, mode, ok))
<1> DEFINE w == ok /\ mode # "L_NONE"
           m == IF ok THEN mode ELSE "L_NONE"
           d == [c EXCEPT !.listen_mode = m, !.listener_watch = w]
<1>1. m # "L_NONE" => w = TRUE
  OBVIOUS
<1>2. switch_listening_mode(c, mode, ok) = IF c.listen_mode = mode THEN c ELSE d
  BY DEF switch_listening_mode
<1> HIDE DEF w, m
<1>3. DOMAIN d = DOMAIN c /\ d["listen_mode"] = m /\ d["listener_watch"] = w
  BY DEF Watched
<1> HIDE DEF d
<1> QED BY <1>1, <1>2, <1>3 DEF Watched

LEMMA RemoveWatched ==
  ASSUME NEW c, Watched(c)
  PROVE  Watched(remove_timeouts(c))
<1>1. SameWatch(c, remove_timeouts(c))
  BY DEF remove_timeouts, SameWatch, Watched
<1> QED BY <1>1, SameWatched

LEMMA SendWatched ==
  ASSUME NEW c, Watched(c), NEW ip
  PROVE  Watched(send_request(c)) /\ Watched(send_discover(c, ip))
<1>1. SameWatch(c, send_request(c)) /\ SameWatch(c, send_discover(c, ip))
  BY DEF send_request, send_discover, SameWatch, Watched
<1> QED BY <1>1, SameWatched

LEMMA DhcpStartWatched ==
  ASSUME NEW c, Watched(c), NEW last, NEW ok \in BOOLEAN
  PROVE  Watched(dhcp_start(c, last, ok))
<1> DEFINE a == [c EXCEPT !.assigned_ip = NoIp, !.state = "INIT_SELECTING"]
           s == switch_listening_mode(a, "L2", ok)
           d == IF c.retry_times = 0 THEN s ELSE c
           g == [c EXCEPT !.cb = "no_lease", !.retry_times = 0]
           r == [d EXCEPT !.state = "REBOOTING", !.last_address = last,
                          !.requested_ip = last]
           p == send_request(r)
           q == [p EXCEPT !.timeout = "reboot_timeout"]
           t == send_discover(d, NoIp)
           e == [t EXCEPT !.timeout = "discover_timeout"]
<1>1. dhcp_start(c, last, ok) \in {g, d, q, e}
  BY DEF dhcp_start
<1>2. SameWatch(c, a) /\ SameWatch(c, g)
  BY DEF SameWatch, Watched
<1> HIDE DEF a, g
<1>3. Watched(s) /\ Watched(g)
  BY <1>2, SameWatched, SwitchWatched
<1> HIDE DEF s
<1>4. Watched(d)
  BY <1>3
<1> HIDE DEF d
<1>5. SameWatch(d, r)
  BY <1>4 DEF SameWatch, Watched
<1> HIDE DEF r
<1>6. Watched(p) /\ Watched(t)
  BY <1>4, <1>5, SameWatched, SendWatched
<1> HIDE DEF p, t
<1>7. SameWatch(p, q) /\ SameWatch(t, e)
  BY <1>6 DEF SameWatch, Watched
<1> HIDE DEF q, e
<1> QED BY <1>1, <1>3, <1>4, <1>6, <1>7, SameWatched

LEMMA RestartWatched ==
  ASSUME NEW c, Watched(c), NEW n, NEW ok \in BOOLEAN
  PROVE  Watched(restart_dhcp(c, n, ok))
<1> DEFINE r == remove_timeouts(c)
           a == [r EXCEPT !.retry_times = n, !.requested_ip = NoIp,
                          !.state = "INIT_SELECTING"]
           s == switch_listening_mode(a, "L2", ok)
<1>1. Watched(r)
  BY RemoveWatched
<1>2. restart_dhcp(c, n, ok) = dhcp_start(s, s.last_address, ok)
  BY DEF restart_dhcp
<1> HIDE DEF r
<1>3. SameWatch(r, a)
  BY <1>1 DEF SameWatch, Watched
<1> HIDE DEF a
<1> QED BY <1>1, <1>2, <1>3, SameWatched, SwitchWatched, DhcpStartWatched

LEMMA RequestWatched ==
  ASSUME NEW c, Watched(c), NEW ok \in BOOLEAN
  PROVE  Watched(start_request(c, ok))
<1> DEFINE a == [c EXCEPT !.state = "REQUESTING"]
           s == switch_listening_mode(a, "L2", ok)
           d == IF c.retry_times = 0 THEN s ELSE c
           g == [c EXCEPT !.cb = "no_lease"]
           p == send_request(d)
           q == [p EXCEPT !.timeout = "request_timeout"]
<1>1. start_request(c, ok) \in {g, q}
  BY DEF start_request
<1>2. SameWatch(c, a) /\ SameWatch(c, g)
  BY DEF SameWatch, Watched
<1> HIDE DEF a, g
<1>3. Watched(s) /\ Watched(g)
  BY <1>2, SameWatched, SwitchWatched
<1> HIDE DEF s
<1>4. Watched(d)
  BY <1>3
<1> HIDE DEF d
<1>5. Watched(p)
  BY <1>4, SendWatched
<1> HIDE DEF p
<1>6. SameWatch(p, q)
  BY <1>5 DEF SameWatch, Watched
<1> HIDE DEF q
<1> QED BY <1>1, <1>3, <1>5, <1>6, SameWatched

LEMMA TimeoutWatched ==
  ASSUME NEW c, Watched(c), NEW ok \in BOOLEAN
  PROVE  /\ Watched(discover_timeout(c, ok)) /\ Watched(reboot_timeout(c, ok))
         /\ Watched(request_timeout(c, ok)) /\ Watched(restart_dhcp_timeout(c, ok))
<1> DEFINE a == TimeoutFired(c)
           b == [a EXCEPT !.retry_times = (@ + 1) % UINT8]
           d == [a EXCEPT !.retry_times = 0, !.requested_ip = NoIp,
                          !.state = "INIT_SELECTING"]
           e == [a EXCEPT !.last_address = NoIp]
           n == (a.ack_retry_times + 1) % UINT8
           f == [a EXCEPT !.ack_retry_times = n]
<1>1. /\ discover_timeout(c, ok) = dhcp_start(remove_timeouts(b), NoIp, ok)
      /\ reboot_timeout(c, ok) = dhcp_start(remove_timeouts(d), NoIp, ok)
      /\ request_timeout(c, ok) = start_request(b, ok)
  BY DEF discover_timeout, reboot_timeout, request_timeout
<1>2. restart_dhcp_timeout(c, ok) \in {restart_dhcp(e, 0, ok), restart_dhcp(f, n, ok)}
  BY DEF restart_dhcp_timeout
<1>3. SameWatch(c, a)
  BY DEF TimeoutFired, SameWatch, Watched
<1> HIDE DEF a, n
<1>4. Watched(a)
  BY <1>3, SameWatched
<1>5. SameWatch(a, b)
  BY <1>4 DEF SameWatch, Watched
<1>6. SameWatch(a, d) /\ SameWatch(a, e) /\ SameWatch(a, f)
  BY <1>4 DEF SameWatch, Watched
<1> HIDE DEF b, d, e, f
<1>7. Watched(b) /\ Watched(d) /\ Watched(e) /\ Watched(f)
  BY <1>4, <1>5, <1>6, SameWatched
<1>8. Watched(restart_dhcp(e, 0, ok)) /\ Watched(restart_dhcp(f, n, ok))
  BY <1>7, RestartWatched
<1>9. Watched(remove_timeouts(b)) /\ Watched(remove_timeouts(d))
  BY <1>7, RemoveWatched
<1> QED BY <1>1, <1>2, <1>7, <1>8, <1>9, DhcpStartWatched, RequestWatched

\* Renewing, rebinding and the end of a lease.
LEMMA LeaseTimerWatched ==
  ASSUME NEW c, Watched(c), NEW ok \in BOOLEAN
  PROVE  /\ Watched(continue_renew(c, ok)) /\ Watched(continue_rebound(c, ok))
         /\ Watched(start_expire(c, ok))
<1> DEFINE a == T1Fired(c)
           b == T2Fired(c)
           l == LeaseFired(c)
           p == send_request(switch_listening_mode(a, "L3", ok))
           q == send_request(switch_listening_mode(b, "L2", ok))
           r == restart_dhcp(l, 0, ok)
           h == c.T1 \div 2
           k == c.T2 \div 2
           u == IF h > MIN_RETRANSMIT THEN "continue_renew" ELSE "none"
           v == IF k > MIN_RETRANSMIT THEN "continue_rebound" ELSE "none"
           x == [p EXCEPT !.T1 = h, !.t1_timeout = u]
           y == [q EXCEPT !.T2 = k, !.t2_timeout = v]
           z == [r EXCEPT !.cb = "lease_lost"]
<1>1. continue_renew(c, ok) = x /\ continue_rebound(c, ok) = y /\ start_expire(c, ok) = z
  BY DEF continue_renew, continue_rebound, start_expire
<1>2. SameWatch(c, a) /\ SameWatch(c, b) /\ SameWatch(c, l)
  BY DEF T1Fired, T2Fired, LeaseFired, SameWatch, Watched
<1> HIDE DEF a, b, l, h, k, u, v
<1>3. Watched(p) /\ Watched(q) /\ Watched(r)
  <2>1. Watched(a) /\ Watched(b) /\ Watched(l)
    BY <1>2, SameWatched
  <2>2. /\ Watched(switch_listening_mode(a, "L3", ok))
        /\ Watched(switch_listening_mode(b, "L2", ok))
    BY <2>1, SwitchWatched
  <2> QED BY <2>1, <2>2, SendWatched, RestartWatched
<1> HIDE DEF p, q, r
<1>4. SameWatch(p, x) /\ SameWatch(q, y) /\ SameWatch(r, z)
  BY <1>3 DEF SameWatch, Watched
<1> HIDE DEF x, y, z
<1> QED BY <1>1, <1>3, <1>4, SameWatched

LEMMA PhaseWatched ==
  ASSUME NEW c, Watched(c), NEW ok \in BOOLEAN
  PROVE  Watched(start_renew(c, ok)) /\ Watched(start_rebound(c, ok))
<1> DEFINE m == c.T2 - c.T1
           n == c.expire - c.T2
           a == [c EXCEPT !.state = "RENEWING", !.T1 = m]
           b == [c EXCEPT !.state = "REBINDING", !.t1_timeout = "none", !.T2 = n]
<1>1. start_renew(c, ok) = continue_renew(a, ok) /\ start_rebound(c, ok) = continue_rebound(b, ok)
  BY DEF start_renew, start_rebound
<1> HIDE DEF m, n
<1>2. SameWatch(c, a) /\ SameWatch(c, b)
  BY DEF SameWatch, Watched
<1> HIDE DEF a, b
<1> QED BY <1>1, <1>2, SameWatched, LeaseTimerWatched

LEMMA PacketWatched ==
  ASSUME NEW c, Watched(c), NEW type, NEW yiaddr, NEW time, NEW ok \in BOOLEAN
  PROVE  Watched(dhcp_packet(c, type, yiaddr, time, ok))
<1> DEFINE d == [c EXCEPT !.cb = "none"]
           r == remove_timeouts(d)
           a == [r EXCEPT !.retry_times = 0, !.requested_ip = yiaddr, !.state = "REQUESTING"]
           s == switch_listening_mode(d, "L_NONE", TRUE)
           t == get_lease(time)
           b == [s EXCEPT !.retry_times = 0, !.assigned_ip = yiaddr, !.expire = t,
                          !.cb = "lease_available"]
           u == remove_timeouts(b)
           T1 == b.expire \div 2
           T2 == (b.expire * 7) \div 8
           e == [u EXCEPT !.state = "BOUND", !.T1 = T1, !.T2 = T2,
                          !.t1_timeout = "start_renew", !.t2_timeout = "start_rebound",
                          !.lease_timeout = "start_expire"]
           n == [r EXCEPT !.retry_times = 0, !.timeout = "restart_dhcp_timeout"]
<1>1. dhcp_packet(c, type, yiaddr, time, ok) \in {start_request(a, ok), start_bound(b), n, d}
  BY DEF dhcp_packet
<1>2. start_bound(b) = e
  BY DEF start_bound
<1>3. SameWatch(c, d)
  BY DEF SameWatch, Watched
<1> HIDE DEF d, t, T1, T2
<1>4. Watched(d)
  BY <1>3, SameWatched
<1>5. Watched(r) /\ Watched(s)
  BY <1>4, RemoveWatched, SwitchWatched
<1> HIDE DEF r, s
<1>6. SameWatch(r, a) /\ SameWatch(r, n) /\ SameWatch(s, b)
  BY <1>5 DEF SameWatch, Watched
<1> HIDE DEF a, n, b
<1>7. Watched(a) /\ Watched(n) /\ Watched(b)
  BY <1>5, <1>6, SameWatched
<1>8. Watched(u)
  BY <1>7, RemoveWatched
<1> HIDE DEF u
<1>9. SameWatch(u, e)
  BY <1>8 DEF SameWatch, Watched
<1> HIDE DEF e
<1> QED BY <1>1, <1>2, <1>4, <1>7, <1>8, <1>9, SameWatched, RequestWatched

LEMMA NewWatched ==
  Watched(g_dhcp_client_new("IPV4"))
<1> DEFINE c == g_dhcp_client_new("IPV4")
<1>1. c["listen_mode"] = "L_NONE" /\ {"listen_mode", "listener_watch"} \subseteq DOMAIN c
  BY DEF g_dhcp_client_new
<1> QED BY <1>1 DEF Watched

\* A start, of a client that has one or of a new one.
LEMMA StartWatched ==
  ASSUME NEW c, Watched(c), c.type = "IPV4", NEW last, NEW ip, NEW ok \in BOOLEAN
  PROVE  LET a == [c EXCEPT !.cb = "none"]
         IN  Watched(a) /\ Watched(g_dhcp_client_start(a, last, ok, ip))
<1> DEFINE a == [c EXCEPT !.cb = "none"]
<1>1. SameWatch(c, a) /\ a.type = c.type
  BY DEF SameWatch, Watched
<1> SUFFICES Watched(a) /\ Watched(g_dhcp_client_start(a, last, ok, ip))
  OBVIOUS
<1> HIDE DEF a
<1>2. Watched(a)
  BY <1>1, SameWatched
<1>3. g_dhcp_client_start(a, last, ok, ip) = dhcp_start(remove_timeouts(a), last, ok)
  BY <1>1 DEF g_dhcp_client_start
<1> QED BY <1>2, <1>3, RemoveWatched, DhcpStartWatched

-----------------------------------------------------------------------------
(***************************************************************************)
(* IPv4LL.                                                                   *)
(***************************************************************************)
\* A client that is still looking for an address.
Probing(d) ==
    /\ d \in Client /\ d.type = "IPV4LL" /\ d.requested_ip \notin Ips
    /\ ~Watches(d) /\ d.timeout # "ipv4ll_defend_timeout" /\ d.cb \in {"none", "no_lease"}

LEMMA ProbingSane ==
  ASSUME NEW d, Probing(d)
  PROVE  SaneLL(d)
BY DEF Probing, SaneLL

LEMMA LinkLocalStart ==
  ASSUME NEW ip \in LinkLocal
  PROVE  LET d == g_dhcp_client_start(g_dhcp_client_new("IPV4LL"), NoIp, TRUE, ip)
         IN  Probing(d)
<1> DEFINE c == g_dhcp_client_new("IPV4LL")
           r == remove_timeouts(c)
           s == switch_listening_mode(r, "L_NONE", TRUE)
           d == [s EXCEPT !.state = "INIT_SELECTING", !.requested_ip = ip,
                          !.retry_times = 1, !.timeout = "send_probe_packet"]
<1>1. c \in Client /\ c.type = "IPV4LL" /\ c.cb = "none"
  BY NewClient
<1> SUFFICES Probing(g_dhcp_client_start(c, NoIp, TRUE, ip))
  OBVIOUS
<1> HIDE DEF c
<1>2. g_dhcp_client_start(c, NoIp, TRUE, ip) = d
  BY <1>1 DEF g_dhcp_client_start, ipv4ll_start
<1>3. Same(c, r, Timers)
  BY <1>1, RemoveTimeouts
<1> HIDE DEF r
<1>4. Same(r, s, {"listen_mode", "listener_watch"})
  BY <1>3, SwitchListeningMode DEF Same, Modes
<1>5. s \in Client /\ s.type = "IPV4LL" /\ s.cb = "none"
  BY <1>1, <1>3, <1>4 DEF Same, Fields, Timers
<1> HIDE DEF s
<1>6. ip \in AnyIp /\ ip \notin Ips
  BY ClientAssumption DEF AnyIp
<1>7. d \in Client
  <2>1. "send_probe_packet" \in Timeouts /\ "INIT_SELECTING" \in States
        /\ 1 \in 0 .. (UINT8 - 1)
    BY CounterInRange DEF Timeouts, States
  <2> QED BY <1>5, <1>6, <2>1 DEF Client
<1>8. /\ d.type = s.type /\ d.requested_ip = ip /\ d.state = "INIT_SELECTING"
      /\ d.timeout = "send_probe_packet" /\ d.cb = s.cb
  BY <1>5 DEF Client
<1> HIDE DEF d
<1> QED BY <1>2, <1>5, <1>6, <1>7, <1>8 DEF Probing, Watches

LEMMA SendProbePacket ==
  ASSUME NEW c \in Client, c.type = "IPV4LL", c.requested_ip \notin Ips, ~Watches(c),
         NEW ip \in LinkLocal, NEW ok \in BOOLEAN
  PROVE  Probing(send_probe_packet(c, ok, ip))
<1> DEFINE a == TimeoutFired(c)
           new == IF a.requested_ip = NoIp THEN ip ELSE a.requested_ip
           d == [a EXCEPT !.requested_ip = new]
           p == [d EXCEPT !.state = "IPV4LL_PROBE"]
           s == switch_listening_mode(p, "L_ARP", ok)
           e == IF d.retry_times = 1 THEN s ELSE d
           pkt == [type |-> "PROBE", ip |-> e.requested_ip]
           x == [e EXCEPT !.sent = pkt, !.timeout = "ipv4ll_probe_timeout"]
<1>1. Same(c, a, {"timeout", "cb"}) /\ a.timeout = "none" /\ a.cb = "none"
  BY Fired
<1>2. /\ a \in Client /\ a.type = "IPV4LL" /\ a.requested_ip \notin Ips
      /\ a.state = c.state
  BY <1>1 DEF Same, Fields
<1>3. send_probe_packet(c, ok, ip) = x
  <2>1. [a EXCEPT !.requested_ip = IF @ = NoIp THEN ip ELSE @] = d
    BY <1>2 DEF Client
  <2> QED BY <2>1 DEF send_probe_packet
<1> HIDE DEF a
<1>4. new \in AnyIp /\ new \notin Ips
  BY <1>2, ClientAssumption DEF Client, AnyIp
<1> HIDE DEF new
<1>5. /\ d \in Client /\ d.type = "IPV4LL" /\ d.requested_ip \notin Ips
      /\ d.state = c.state /\ d.cb = "none"
  BY <1>1, <1>2, <1>4 DEF Client
<1> HIDE DEF d
<1>6. Same(d, p, {"state"}) /\ p.state = "IPV4LL_PROBE"
  BY <1>5 DEF Same, Client, Fields, States
<1> HIDE DEF p
<1>7. Same(p, s, {"listen_mode", "listener_watch"})
  BY <1>6, SwitchListeningMode DEF Same, Modes
<1> HIDE DEF s
<1>8. /\ e \in Client /\ e.type = "IPV4LL" /\ e.requested_ip \notin Ips
      /\ e.state \in {c.state, "IPV4LL_PROBE"} /\ e.cb = "none"
  <2>1. /\ s \in Client /\ s.type = d.type /\ s.requested_ip = d.requested_ip
        /\ s.state = "IPV4LL_PROBE" /\ s.cb = d.cb
    BY <1>6, <1>7 DEF Same, Fields
  <2> QED BY <1>5, <2>1
<1> HIDE DEF e
<1>9. pkt \in [type : {"none", "DISCOVER", "REQUEST", "PROBE", "ANNOUNCE"}, ip : AnyIp]
      /\ "ipv4ll_probe_timeout" \in Timeouts
  BY <1>8 DEF Client, Timeouts
<1> HIDE DEF pkt
<1>10. /\ x \in Client /\ x.type = e.type /\ x.requested_ip = e.requested_ip
       /\ x.state = e.state /\ x.cb = e.cb /\ x.timeout = "ipv4ll_probe_timeout"
  BY <1>8, <1>9 DEF Client
<1> HIDE DEF x
<1> QED BY <1>3, <1>8, <1>10 DEF Probing, Watches

LEMMA SendAnnouncePacket ==
  ASSUME NEW c \in Client, c.type = "IPV4LL"
  PROVE  LET d == send_announce_packet(c)
         IN  /\ d \in Client /\ d.type = "IPV4LL" /\ d.state = c.state
             /\ d.requested_ip = c.requested_ip /\ d.cb = c.cb
             /\ d.timeout = IF c.state = "IPV4LL_DEFEND" THEN "ipv4ll_defend_timeout"
                            ELSE "ipv4ll_announce_timeout"
<1> DEFINE r == remove_timeouts(c)
           pkt == [type |-> "ANNOUNCE", ip |-> c.requested_ip]
           t == IF c.state = "IPV4LL_DEFEND" THEN "ipv4ll_defend_timeout"
                ELSE "ipv4ll_announce_timeout"
           d == [r EXCEPT !.sent = pkt, !.timeout = t]
<1>1. send_announce_packet(c) = d
  BY DEF send_announce_packet
<1>2. pkt \in [type : {"none", "DISCOVER", "REQUEST", "PROBE", "ANNOUNCE"}, ip : AnyIp]
      /\ t \in Timeouts
  BY DEF Client, Timeouts
<1>3. Same(c, r, Timers)
  BY RemoveTimeouts
<1>4. /\ r \in Client /\ r.type = "IPV4LL" /\ r.state = c.state
      /\ r.requested_ip = c.requested_ip /\ r.cb = c.cb
  BY <1>3 DEF Same, Fields, Timers
<1> HIDE DEF pkt, t, r
<1>5. /\ d \in Client /\ d.type = r.type /\ d.state = r.state
      /\ d.requested_ip = r.requested_ip /\ d.cb = r.cb /\ d.timeout = t
  BY <1>2, <1>4 DEF Client
<1> HIDE DEF d
<1> QED BY <1>1, <1>4, <1>5 DEF t

LEMMA SendProbeStep ==
  ASSUME NEW c, SaneLL(c), c.timeout = "send_probe_packet",
         NEW ip \in LinkLocal, NEW ok \in BOOLEAN
  PROVE  StepLL(c, send_probe_packet(c, ok, ip))
<1>1. ~Watches(c) /\ c \in Client /\ c.type = "IPV4LL" /\ c.requested_ip \notin Ips
  BY DEF SaneLL
<1>2. Probing(send_probe_packet(c, ok, ip))
  BY <1>1, SendProbePacket
<1> QED BY <1>1, <1>2, ProbingSane DEF Probing, StepLL

LEMMA ProbeTimeoutStep ==
  ASSUME NEW c, SaneLL(c), c.timeout = "ipv4ll_probe_timeout",
         NEW ip \in LinkLocal, NEW ok \in BOOLEAN
  PROVE  StepLL(c, ipv4ll_probe_timeout(c, ok, ip))
<1> DEFINE x == ipv4ll_probe_timeout(c, ok, ip)
           a == TimeoutFired(c)
           b == [a EXCEPT !.state = "IPV4LL_ANNOUNCE", !.retry_times = 1]
           e == [c EXCEPT !.retry_times = (@ + 1) % UINT8]
<1>1. x = IF c.retry_times = PROBE_NUM THEN send_announce_packet(b)
          ELSE send_probe_packet(e, ok, ip)
  BY DEF ipv4ll_probe_timeout
<1>2. ~Watches(c) /\ c \in Client /\ c.type = "IPV4LL" /\ c.requested_ip \notin Ips
  BY DEF SaneLL
<1>3. CASE x = send_announce_packet(b)
  <2>1. Same(c, a, {"timeout", "cb"}) /\ a.cb = "none"
    BY <1>2, Fired
  <2>2. a \in Client /\ a.type = "IPV4LL" /\ a.requested_ip = c.requested_ip
    BY <1>2, <2>1 DEF Same, Fields
  <2> HIDE DEF a
  <2>3. 1 \in 0 .. (UINT8 - 1) /\ "IPV4LL_ANNOUNCE" \in States
    BY CounterInRange DEF States
  <2>4. b \in Client
    BY <2>2, <2>3 DEF Client
  <2>5. /\ b.type = a.type /\ b.requested_ip = a.requested_ip /\ b.cb = a.cb
        /\ b.state = "IPV4LL_ANNOUNCE"
    BY <2>2 DEF Client
  <2> HIDE DEF b
  <2>6. Probing(x)
    BY <1>2, <1>3, <2>1, <2>2, <2>4, <2>5, SendAnnouncePacket DEF Probing, Watches
  <2> QED BY <1>2, <2>6, ProbingSane DEF Probing, StepLL
<1>4. CASE x = send_probe_packet(e, ok, ip)
  <2> DEFINE n == (c.retry_times + 1) % UINT8
  <2>1. n \in 0 .. (UINT8 - 1)
    <3>1. c.retry_times + 1 \in Nat
      BY <1>2, ClientAssumption DEF Client
    <3> QED BY <3>1, CounterInRange
  <2>2. e = [c EXCEPT !.retry_times = n]
    BY <1>2 DEF Client
  <2> HIDE DEF n, e
  <2>3. /\ e \in Client /\ e.type = c.type /\ e.requested_ip = c.requested_ip
        /\ e.state = c.state
    BY <1>2, <2>1, <2>2 DEF Client
  <2>4. Probing(x)
    BY <1>2, <1>4, <2>3, SendProbePacket DEF Watches
  <2> QED BY <1>2, <2>4, ProbingSane DEF Probing, StepLL
<1> QED BY <1>1, <1>3, <1>4

LEMMA AnnounceTimeoutStep ==
  ASSUME NEW c, SaneLL(c), c.timeout = "ipv4ll_announce_timeout"
  PROVE  StepLL(c, ipv4ll_announce_timeout(c))
<1> DEFINE x == ipv4ll_announce_timeout(c)
           a == TimeoutFired(c)
           b == [a EXCEPT !.retry_times = (@ + 1) % UINT8]
           e == [a EXCEPT !.state = "IPV4LL_MONITOR", !.conflicts = 0,
                          !.assigned_ip = c.requested_ip, !.cb = "ipv4ll_available"]
<1>1. x = IF c.retry_times # ANNOUNCE_NUM THEN send_announce_packet(b) ELSE e
  BY DEF ipv4ll_announce_timeout
<1>2. ~Watches(c) /\ c \in Client /\ c.type = "IPV4LL" /\ c.requested_ip \notin Ips
  BY DEF SaneLL
<1>3. Same(c, a, {"timeout", "cb"}) /\ a.timeout = "none" /\ a.cb = "none"
  BY <1>2, Fired
<1>4. /\ a \in Client /\ a.type = "IPV4LL" /\ a.requested_ip = c.requested_ip
      /\ a.state = c.state
  BY <1>2, <1>3 DEF Same, Fields
<1> HIDE DEF a
<1>5. CASE x = send_announce_packet(b)
  <2> DEFINE n == (a.retry_times + 1) % UINT8
  <2>1. n \in 0 .. (UINT8 - 1)
    <3>1. a.retry_times + 1 \in Nat
      BY <1>4, ClientAssumption DEF Client
    <3> QED BY <3>1, CounterInRange
  <2>2. b = [a EXCEPT !.retry_times = n]
    BY <1>4 DEF Client
  <2> HIDE DEF n, b
  <2>3. /\ b \in Client /\ b.type = a.type /\ b.requested_ip = a.requested_ip
        /\ b.state = a.state /\ b.cb = a.cb
    BY <1>4, <2>1, <2>2 DEF Client
  <2>4. Probing(x)
    BY <1>2, <1>3, <1>4, <1>5, <2>3, SendAnnouncePacket DEF Probing, Watches
  <2> QED BY <1>2, <2>4, ProbingSane DEF Probing, StepLL
<1>6. CASE x = e
  <2>1. /\ 0 \in 0 .. (UINT8 - 1) /\ "IPV4LL_MONITOR" \in States
        /\ "ipv4ll_available" \in Callbacks /\ c.requested_ip \in AnyIp
    BY <1>2, CounterInRange DEF States, Callbacks, Client
  <2>2. e \in Client
    BY <1>4, <2>1 DEF Client
  <2>3. /\ e.type = a.type /\ e.requested_ip = a.requested_ip
        /\ e.state = "IPV4LL_MONITOR" /\ e.cb = "ipv4ll_available"
        /\ e.assigned_ip = c.requested_ip /\ e.timeout = a.timeout
    BY <1>4 DEF Client
  <2> HIDE DEF e
  <2>4. SaneLL(e)
    BY <1>2, <1>3, <1>4, <2>2, <2>3 DEF SaneLL, Watches
  <2> QED BY <1>2, <1>6, <2>3, <2>4 DEF StepLL, Watches
<1> QED BY <1>1, <1>5, <1>6

LEMMA DefendTimeoutStep ==
  ASSUME NEW c, SaneLL(c), c.timeout = "ipv4ll_defend_timeout"
  PROVE  StepLL(c, ipv4ll_defend_timeout(c))
<1> DEFINE a == TimeoutFired(c)
           e == [a EXCEPT !.conflicts = 0, !.state = "IPV4LL_MONITOR"]
<1>1. ipv4ll_defend_timeout(c) = e
  BY DEF ipv4ll_defend_timeout
<1>2. Watches(c) /\ c \in Client /\ c.type = "IPV4LL" /\ c.requested_ip \notin Ips
  BY DEF SaneLL
<1>3. Same(c, a, {"timeout", "cb"}) /\ a.timeout = "none" /\ a.cb = "none"
  BY <1>2, Fired
<1>4. a \in Client /\ a.type = "IPV4LL" /\ a.requested_ip = c.requested_ip
  BY <1>2, <1>3 DEF Same, Fields
<1> HIDE DEF a
<1>5. 0 \in 0 .. (UINT8 - 1) /\ "IPV4LL_MONITOR" \in States
  BY CounterInRange DEF States
<1>6. e \in Client
  BY <1>4, <1>5 DEF Client
<1>7. /\ e.type = a.type /\ e.requested_ip = a.requested_ip
      /\ e.state = "IPV4LL_MONITOR" /\ e.cb = a.cb /\ e.timeout = a.timeout
  BY <1>4 DEF Client
<1> HIDE DEF e
<1> QED BY <1>1, <1>2, <1>3, <1>4, <1>6, <1>7 DEF StepLL, SaneLL, Watches

LEMMA StopLL ==
  ASSUME NEW c \in Client, c.type = "IPV4LL"
  PROVE  LET d == ipv4ll_stop(c)
         IN  /\ d \in Client /\ d.type = "IPV4LL" /\ d.requested_ip = NoIp
             /\ d.state = "IPV4LL_PROBE" /\ d.cb = c.cb /\ d.timeout = "none"
<1> DEFINE r == remove_timeouts(c)
           s == switch_listening_mode(r, "L_NONE", TRUE)
           d == [s EXCEPT !.state = "IPV4LL_PROBE", !.retry_times = 0,
                          !.requested_ip = NoIp, !.assigned_ip = NoIp]
<1>1. ipv4ll_stop(c) = d
  BY DEF ipv4ll_stop
<1>2. Same(c, r, Timers) /\ NoTimers(r)
  BY RemoveTimeouts
<1> HIDE DEF r
<1>3. Same(r, s, {"listen_mode", "listener_watch"})
  BY <1>2, SwitchListeningMode DEF Same, Modes
<1> HIDE DEF s
<1>4. s \in Client /\ s.type = "IPV4LL" /\ s.cb = c.cb /\ s.timeout = "none"
  BY <1>2, <1>3 DEF Same, Fields, Timers, NoTimers
<1>5. 0 \in 0 .. (UINT8 - 1) /\ "IPV4LL_PROBE" \in States /\ NoIp \in AnyIp
  BY CounterInRange DEF States, AnyIp
<1>6. d \in Client
  BY <1>4, <1>5 DEF Client
<1>7. /\ d.type = s.type /\ d.requested_ip = NoIp /\ d.state = "IPV4LL_PROBE"
      /\ d.cb = s.cb /\ d.timeout = s.timeout
  BY <1>4 DEF Client
<1> HIDE DEF d
<1> QED BY <1>1, <1>4, <1>6, <1>7

LEMMA ArpPacketStep ==
  ASSUME NEW c, SaneLL(c), NEW source \in BOOLEAN
  PROVE  StepLL(c, ipv4ll_recv_arp_packet(c, source))
<1> DEFINE x == ipv4ll_recv_arp_packet(c, source)
           n == (c.conflicts + 1) % UINT8
           d == [c EXCEPT !.conflicts = n, !.cb = "none"]
           f == [d EXCEPT !.state = "IPV4LL_DEFEND"]
           s == ipv4ll_stop(d)
           g == [s EXCEPT !.retry_times = 1, !.timeout = "send_probe_packet"]
           h == [s EXCEPT !.cb = "no_lease"]
           e == IF d.conflicts < MAX_CONFLICTS THEN g ELSE h
           lost == [e EXCEPT !.cb = "ipv4ll_lost"]
<1>1. c \in Client /\ c.type = "IPV4LL" /\ c.requested_ip \notin Ips
  BY DEF SaneLL
<1>2. [c EXCEPT !.conflicts = (@ + 1) % UINT8, !.cb = "none"] = d
  BY <1>1 DEF Client
<1>3. /\ Watches(c) /\ ~source => x = d
      /\ c.state = "IPV4LL_MONITOR" /\ source => x = send_announce_packet(f)
      /\ c.state = "IPV4LL_DEFEND" /\ source => x = lost
      /\ ~Watches(c) => x = e
  BY <1>2 DEF ipv4ll_recv_arp_packet, Watches
<1>4. n \in 0 .. (UINT8 - 1)
  <2>1. c.conflicts + 1 \in Nat
    BY <1>1, ClientAssumption DEF Client
  <2> QED BY <2>1, CounterInRange
<1> HIDE DEF n
<1>5. /\ d \in Client /\ d.type = "IPV4LL" /\ d.requested_ip = c.requested_ip
      /\ d.state = c.state /\ d.cb = "none" /\ d.timeout = c.timeout
  BY <1>1, <1>4 DEF Client, Callbacks
<1> SUFFICES StepLL(c, x)
  OBVIOUS
<1> HIDE DEF d, x
<1>6. CASE Watches(c) /\ ~source
  BY <1>1, <1>3, <1>5, <1>6 DEF SaneLL, StepLL, Watches
<1>7. CASE c.state = "IPV4LL_MONITOR" /\ source
  <2>1. /\ f \in Client /\ f.type = d.type /\ f.requested_ip = d.requested_ip
        /\ f.state = "IPV4LL_DEFEND" /\ f.cb = d.cb
    BY <1>5, "IPV4LL_DEFEND" \in States DEF Client, States
  <2> HIDE DEF f
  <2> QED BY <1>1, <1>3, <1>5, <1>7, <2>1, SendAnnouncePacket DEF SaneLL, StepLL, Watches
<1>8. /\ s \in Client /\ s.type = "IPV4LL" /\ s.requested_ip = NoIp
      /\ s.state = "IPV4LL_PROBE" /\ s.cb = "none" /\ s.timeout = "none"
  BY <1>5, StopLL
<1> HIDE DEF s
<1>9. Probing(e) /\ NoIp \notin Ips
  <2>1. 1 \in 0 .. (UINT8 - 1) /\ "send_probe_packet" \in Timeouts /\ NoIp \notin Ips
        /\ "no_lease" \in Callbacks
    BY CounterInRange, ClientAssumption DEF Timeouts, Callbacks
  <2>2. /\ g \in Client /\ g.type = s.type /\ g.requested_ip = s.requested_ip
        /\ g.state = s.state /\ g.cb = s.cb /\ g.timeout = "send_probe_packet"
    BY <1>8, <2>1 DEF Client
  <2>3. /\ h \in Client /\ h.type = s.type /\ h.requested_ip = s.requested_ip
        /\ h.state = s.state /\ h.cb = "no_lease" /\ h.timeout = s.timeout
    BY <1>8, <2>1 DEF Client
  <2> HIDE DEF g, h
  <2> QED BY <1>8, <2>1, <2>2, <2>3 DEF Probing, Watches
<1> HIDE DEF e
<1>10. CASE ~Watches(c)
  BY <1>3, <1>9, <1>10, ProbingSane DEF Probing, StepLL
<1>11. CASE c.state = "IPV4LL_DEFEND" /\ source
  <2>1. "ipv4ll_lost" \in Callbacks
    BY DEF Callbacks
  <2>2. /\ lost \in Client /\ lost.type = e.type /\ lost.requested_ip = e.requested_ip
        /\ lost.state = e.state /\ lost.cb = "ipv4ll_lost" /\ lost.timeout = e.timeout
    BY <1>9, <2>1 DEF Probing, Client
  <2> HIDE DEF lost
  <2> QED BY <1>3, <1>9, <1>11, <2>2 DEF Probing, SaneLL, StepLL, Watches
<1> QED BY <1>6, <1>7, <1>10, <1>11 DEF Watches

LEMMA ArpErrorStep ==
  ASSUME NEW c, SaneLL(c)
  PROVE  StepLL(c, listener_error(c))
<1> DEFINE w == FALSE
           d == [c EXCEPT !.listener_watch = w, !.cb = "none"]
<1>1. w \in BOOLEAN /\ listener_error(c) = d /\ c \in Client
  BY DEF listener_error, SaneLL
<1> HIDE DEF w
<1>2. /\ d \in Client /\ d.type = c.type /\ d.requested_ip = c.requested_ip
      /\ d.state = c.state /\ d.cb = "none" /\ d.timeout = c.timeout
  BY <1>1 DEF Client, Callbacks
<1> HIDE DEF d
<1> QED BY <1>1, <1>2 DEF SaneLL, StepLL, Watches
=============================================================================
