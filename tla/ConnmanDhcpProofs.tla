-------------------------- MODULE ConnmanDhcpProofs --------------------------
(***************************************************************************)
(* Proofs about ConnmanDhcp.  A step changes one interface i, from Dhcp(i)   *)
(* to a record e that it stores: the lemmas say what the functions of dhcp.c *)
(* do to such a record, and EveryStep that each action is one of their uses. *)
(***************************************************************************)
EXTENDS ConnmanDhcp, GDHCPClientProofs

DhcpClients == {c \in Client : c.type = "IPV4"} \cup {NULL}
LLClients == {c \in Client : c.type = "IPV4LL"} \cup {NULL}
LeaseIps == Ips \cup {NoIp}

Iface == [dhcp_client : DhcpClients, ipv4ll_client : LLClients, timeout : BOOLEAN,
          local : AnyIp, dhcp_address : AnyIp, ipv4ll_running : BOOLEAN,
          lease : LeaseIps]

\* What dhcp.c relies on for one interface.
DhcpOK(d) ==
    /\ d.dhcp_client # NULL => Sane(d.dhcp_client)
    /\ d.timeout => d.dhcp_client # NULL
    /\ d.ipv4ll_client # NULL => SaneLL(d.ipv4ll_client) /\ d.ipv4ll_running
    /\ d.dhcp_client # NULL /\ Holds(d.dhcp_client)
         => d.local = d.dhcp_client.assigned_ip /\ d.ipv4ll_client = NULL
    /\ d.local \in LinkLocal => d.ipv4ll_client # NULL /\ Watches(d.ipv4ll_client)
    /\ d.ipv4ll_client # NULL =>
         /\ d.local \notin Ips
         /\ Watches(d.ipv4ll_client) => d.local = d.ipv4ll_client.requested_ip

IInv ==
    /\ TypeOK
    /\ FlagOwned
    /\ \A i \in Ifaces : DhcpOK(Dhcp(i))

\* The shared flag changes with this interface's IPv4LL client and only then.
FlagStep(d, e) ==
    \/ (e.ipv4ll_client = NULL <=> d.ipv4ll_client = NULL)
       /\ e.ipv4ll_running = d.ipv4ll_running
    \/ d.ipv4ll_client = NULL /\ ~d.ipv4ll_running
       /\ e.ipv4ll_client # NULL /\ e.ipv4ll_running
    \/ d.ipv4ll_client # NULL /\ e.ipv4ll_client = NULL /\ ~e.ipv4ll_running

\* The client listens where it must, and something will wake it up.
Alive(d) ==
    d.dhcp_client # NULL =>
        /\ Listens(d.dhcp_client)
        /\ d.dhcp_client.timeout # "none" \/ d.dhcp_client.lease_timeout # "none"
           \/ d.timeout

\* It has a watch on the socket it listens on.
Attentive(d) == d.dhcp_client # NULL => Watched(d.dhcp_client)

\* A handler takes the watch away only to report an error of the socket.
Attends(c, d) == WatchOk \subseteq {TRUE} /\ Watched(c) => Watched(d)

Cleared(d) ==
    d.dhcp_client # NULL /\ d.dhcp_client.cb = "no_lease" => d.local \notin Ips

\* One step of an interface.  It stays alive while sockets can be opened, keeps
\* its watch while they report no error, and stays cleared unless the IPv4LL client of another interface runs.
DhcpStep(d, e) ==
    /\ e \in Iface /\ DhcpOK(e) /\ FlagStep(d, e)
    /\ SocketOk \subseteq {TRUE} /\ Alive(d) => Alive(e)
    /\ WatchOk \subseteq {TRUE} /\ Attentive(d) => Attentive(e)
    /\ (d.ipv4ll_running => d.ipv4ll_client # NULL) /\ Cleared(d) => Cleared(e)

-----------------------------------------------------------------------------
(***************************************************************************)
(* The functions of dhcp.c.                                                 *)
(***************************************************************************)
LEMMA NotNull ==
  /\ \A c : Sane(c) => c # NULL /\ c \in DhcpClients
  /\ \A c : SaneLL(c) => c # NULL /\ c \in LLClients
  /\ NULL \in DhcpClients /\ NULL \in LLClients
  /\ NoIp \in AnyIp /\ NoIp \in LeaseIps /\ NoIp \notin LinkLocal /\ NoIp \notin Ips
  /\ \A c : Sane(c) => c.assigned_ip \in AnyIp
  /\ \A c : SaneLL(c) => c.requested_ip \in AnyIp \ Ips
  /\ Ips \subseteq LeaseIps /\ Ips \subseteq AnyIp /\ Ips \cap LinkLocal = {}
  /\ \A ip \in AnyIp \ Ips : ip = NoIp \/ ip \in LinkLocal
<1>1. \A c \in Client : c # NULL /\ c.assigned_ip \in AnyIp /\ c.requested_ip \in AnyIp
  BY NullAssumption DEF Client
<1> QED BY <1>1, ClientAssumption DEF Sane, SaneLL, DhcpClients, LLClients, LeaseIps, AnyIp

LEMMA StopIface ==
  ASSUME NEW d \in Iface, NEW e, e = __connman_dhcp_stop(d), d.dhcp_client # NULL,
         d.ipv4ll_client # NULL => d.ipv4ll_running
  PROVE  /\ e \in Iface /\ DhcpOK(e) /\ FlagStep(d, e)
         /\ e.dhcp_client = NULL /\ e.ipv4ll_client = NULL
<1> DEFINE r == [d EXCEPT !.timeout = FALSE, !.dhcp_client = NULL]
           s == [r EXCEPT !.ipv4ll_client = NULL, !.ipv4ll_running = FALSE]
           q == IF d.ipv4ll_client = NULL THEN r ELSE s
           v == [q EXCEPT !.dhcp_address = q.local, !.local = NoIp]
<1>1. r \in Iface /\ r.dhcp_client = NULL /\ r.ipv4ll_client = d.ipv4ll_client
      /\ r.ipv4ll_running = d.ipv4ll_running /\ ~r.timeout
  BY NotNull DEF Iface
<1>2. s \in Iface /\ s.dhcp_client = NULL /\ s.ipv4ll_client = NULL /\ ~s.ipv4ll_running
      /\ ~s.timeout
  BY NotNull DEF Iface
<1>3. dhcp_release(d) = q
  BY <1>1 DEF dhcp_release, ipv4ll_stop_client
<1> HIDE DEF r, s
<1>4. q \in Iface /\ q.dhcp_client = NULL /\ q.ipv4ll_client = NULL /\ FlagStep(d, q)
      /\ ~q.timeout
  BY <1>1, <1>2 DEF FlagStep
<1> HIDE DEF q
<1>5. e = [v EXCEPT !.lease = NoIp]
  BY <1>3 DEF __connman_dhcp_stop, dhcp_invalidate
<1>6. e \in Iface /\ e.dhcp_client = NULL /\ e.ipv4ll_client = NULL /\ e.local = NoIp
      /\ e.ipv4ll_running = q.ipv4ll_running /\ ~e.timeout
  BY <1>4, <1>5, NotNull DEF Iface
<1> QED BY <1>4, <1>6, NotNull DEF DhcpOK, FlagStep

\* A handler has left the DHCP client as c, and dhcp.c has not been told yet.
Leaves(d, c) ==
    /\ Sane(c)
    /\ Holds(c) /\ c.cb # "lease_available"
         => d.local = c.assigned_ip /\ d.ipv4ll_client = NULL
    /\ c.cb = "lease_lost" => d.ipv4ll_client = NULL

\* What the callbacks make of it: the client stays, or the network is stopped.
Told(d, c, e) ==
    /\ e \in Iface /\ DhcpOK(e) /\ FlagStep(d, e)
    /\ e.dhcp_client \in {c, NULL}
    /\ e.dhcp_client # NULL /\ (d.timeout \/ c.cb = "no_lease") => e.timeout
    /\ (d.ipv4ll_running => d.ipv4ll_client # NULL) => Cleared(e)

LEMMA NoLease ==
  ASSUME NEW d \in Iface, DhcpOK(d), NEW c, Leaves(d, c), c.cb = "no_lease",
         NEW up \in BOOLEAN, NEW ip \in LinkLocal
  PROVE  Told(d, c, no_lease_cb([d EXCEPT !.dhcp_client = c], up, ip))
<1> DEFINE b == [d EXCEPT !.dhcp_client = c]
           a == [b EXCEPT !.timeout = TRUE]
           l == g_dhcp_client_start(g_dhcp_client_new("IPV4LL"), NoIp, TRUE, ip)
           s == [a EXCEPT !.ipv4ll_client = l, !.ipv4ll_running = TRUE]
           q == IF a.ipv4ll_client # NULL \/ ~up THEN a ELSE s
           e == [q EXCEPT !.dhcp_address = q.local, !.local = NoIp]
<1>1. Sane(c) /\ ~Holds(c) /\ c # NULL /\ c \in DhcpClients
  BY NotNull DEF Leaves, Sane, Reports
<1>2. SaneLL(l) /\ ~Watches(l) /\ l # NULL /\ l \in LLClients
  <2>1. Probing(l)
    BY LinkLocalStart
  <2> HIDE DEF l
  <2>2. SaneLL(l) /\ ~Watches(l)
    BY <2>1, ProbingSane DEF Probing
  <2> QED BY <2>2, NotNull
<1> HIDE DEF l
<1>3. /\ a \in Iface /\ a.dhcp_client = c /\ a.timeout /\ a.ipv4ll_client = d.ipv4ll_client
      /\ a.ipv4ll_running = d.ipv4ll_running /\ a.local = d.local
  BY <1>1 DEF Iface
<1>4. /\ s \in Iface /\ s.dhcp_client = c /\ s.timeout /\ s.ipv4ll_client = l
      /\ s.ipv4ll_running
  BY <1>1, <1>2 DEF Iface
<1>5. no_lease_cb([d EXCEPT !.dhcp_client = c], up, ip) = IF a.ipv4ll_running THEN a ELSE e
  BY DEF no_lease_cb, dhcp_invalidate, ipv4ll_start_client, l
<1> HIDE DEF a, s
<1>6. CASE a.ipv4ll_running
  BY <1>1, <1>3, <1>5, <1>6 DEF Told, DhcpOK, FlagStep, Cleared
<1>7. CASE ~a.ipv4ll_running
  <2>1. d.ipv4ll_client = NULL /\ ~d.ipv4ll_running
    BY <1>3, <1>7 DEF DhcpOK
  <2>2. /\ q \in Iface /\ q.dhcp_client = c /\ q.timeout
        /\ q.ipv4ll_client # NULL => SaneLL(q.ipv4ll_client) /\ ~Watches(q.ipv4ll_client)
        /\ q.ipv4ll_client # NULL <=> q.ipv4ll_running
    BY <1>2, <1>3, <1>4, <2>1
  <2> HIDE DEF q
  <2>3. /\ e \in Iface /\ e.dhcp_client = c /\ e.timeout /\ e.local = NoIp
        /\ e.ipv4ll_client = q.ipv4ll_client /\ e.ipv4ll_running = q.ipv4ll_running
    BY <2>2, NotNull DEF Iface
  <2> HIDE DEF e
  <2>4. FlagStep(d, e)
    BY <2>1, <2>2, <2>3 DEF FlagStep, Iface
  <2>5. DhcpOK(e)
    BY <1>1, <2>2, <2>3, NotNull DEF DhcpOK
  <2> QED BY <1>5, <1>7, <2>3, <2>4, <2>5, NotNull DEF Told, Cleared
<1> QED BY <1>6, <1>7

LEMMA LeaseLost ==
  ASSUME NEW d \in Iface, DhcpOK(d), NEW c, Leaves(d, c), c.cb = "lease_lost"
  PROVE  Told(d, c, lease_lost_cb([[d EXCEPT !.dhcp_client = c] EXCEPT !.lease = NoIp]))
<1> DEFINE b == [[d EXCEPT !.dhcp_client = c] EXCEPT !.lease = NoIp]
           e == [b EXCEPT !.dhcp_address = b.local, !.local = NoIp]
<1>1. Sane(c) /\ ~Holds(c) /\ c # NULL /\ c \in DhcpClients /\ d.ipv4ll_client = NULL
  BY NotNull DEF Leaves, Sane, Reports
<1>2. /\ b \in Iface /\ b.dhcp_client = c /\ b.timeout = d.timeout
      /\ b.ipv4ll_client = NULL /\ b.ipv4ll_running = d.ipv4ll_running
  BY <1>1, NotNull DEF Iface
<1>3. lease_lost_cb(b) = e
  BY DEF lease_lost_cb, dhcp_invalidate
<1> HIDE DEF b
<1>4. /\ e \in Iface /\ e.dhcp_client = c /\ e.timeout = d.timeout /\ e.local = NoIp
      /\ e.ipv4ll_client = NULL /\ e.ipv4ll_running = d.ipv4ll_running
  BY <1>2, NotNull DEF Iface
<1> HIDE DEF e
<1> QED BY <1>1, <1>3, <1>4, NotNull DEF Told, DhcpOK, FlagStep, Cleared, b

LEMMA LeaseAvailable ==
  ASSUME NEW d \in Iface, DhcpOK(d), NEW c, Leaves(d, c), c.cb = "lease_available",
         NEW added \in BOOLEAN
  PROVE  Told(d, c, lease_available_cb(
             [[d EXCEPT !.dhcp_client = c] EXCEPT !.lease = c.assigned_ip], added))
<1> DEFINE b == [[d EXCEPT !.dhcp_client = c] EXCEPT !.lease = c.assigned_ip]
           s == [b EXCEPT !.ipv4ll_client = NULL, !.ipv4ll_running = FALSE]
           v == [s EXCEPT !.dhcp_address = s.local, !.local = NoIp]
           q == IF b.ipv4ll_client = NULL THEN b ELSE v
           w == [q EXCEPT !.dhcp_address = c.assigned_ip, !.local = c.assigned_ip]
           x == __connman_dhcp_stop(w)
           e == lease_available_cb(b, added)
<1>1. Sane(c) /\ Holds(c) /\ c # NULL /\ c \in DhcpClients /\ c.assigned_ip \in Ips
  BY NotNull DEF Leaves, Sane, Reports
<1>2. /\ b \in Iface /\ b.dhcp_client = c /\ b.timeout = d.timeout
      /\ b.ipv4ll_client = d.ipv4ll_client /\ b.ipv4ll_running = d.ipv4ll_running
  BY <1>1, NotNull DEF Iface
<1>3. e = IF added THEN w ELSE x
  BY <1>2 DEF lease_available_cb, dhcp_valid, dhcp_invalidate, ipv4ll_stop_client
<1> HIDE DEF b
<1>4. /\ s \in Iface /\ s.dhcp_client = c /\ s.timeout = d.timeout
      /\ s.ipv4ll_client = NULL /\ ~s.ipv4ll_running
  BY <1>2, NotNull DEF Iface
<1> HIDE DEF s
<1>5. /\ v \in Iface /\ v.dhcp_client = c /\ v.timeout = d.timeout
      /\ v.ipv4ll_client = NULL /\ ~v.ipv4ll_running
  BY <1>4, NotNull DEF Iface
<1> HIDE DEF v
<1>6. /\ q \in Iface /\ q.dhcp_client = c /\ q.timeout = d.timeout
      /\ q.ipv4ll_client = NULL /\ FlagStep(d, q)
  BY <1>2, <1>5 DEF FlagStep
<1> HIDE DEF q
<1>7. /\ w \in Iface /\ w.dhcp_client = c /\ w.timeout = d.timeout
      /\ w.ipv4ll_client = NULL /\ w.local = c.assigned_ip
      /\ w.ipv4ll_running = q.ipv4ll_running
  BY <1>1, <1>6, NotNull DEF Iface
<1> HIDE DEF w
<1>8. FlagStep(d, w) /\ DhcpOK(w)
  BY <1>1, <1>6, <1>7, NotNull DEF FlagStep, DhcpOK
<1>9. x \in Iface /\ DhcpOK(x) /\ FlagStep(w, x) /\ x.dhcp_client = NULL /\ x.ipv4ll_client = NULL
  BY <1>1, <1>7, StopIface
<1> HIDE DEF x
<1>10. FlagStep(d, x)
  BY <1>7, <1>8, <1>9 DEF FlagStep
<1>11. Told(d, c, w) /\ Told(d, c, x)
  BY <1>1, <1>7, <1>8, <1>9, <1>10 DEF Told, Cleared
<1> QED BY <1>3, <1>11 DEF b

LEMMA RunsCallback ==
  ASSUME NEW d \in Iface, DhcpOK(d), NEW c, Leaves(d, c),
         NEW up \in BOOLEAN, NEW ip \in LinkLocal, NEW added \in BOOLEAN
  PROVE  Told(d, c, Runs(d, c, up, ip, added))
<1> DEFINE b == [d EXCEPT !.dhcp_client = c]
<1>1. c.cb \in {"none", "no_lease", "lease_available", "lease_lost"}
  BY DEF Leaves, Sane, Reports
<1>2. CASE c.cb = "no_lease"
  BY <1>2, NoLease DEF Runs
<1>3. CASE c.cb = "lease_lost"
  BY <1>3, LeaseLost DEF Runs
<1>4. CASE c.cb = "lease_available"
  BY <1>4, LeaseAvailable DEF Runs
<1>5. CASE c.cb = "none"
  <2>1. Sane(c) /\ c # NULL /\ c \in DhcpClients
        /\ (Holds(c) => d.local = c.assigned_ip /\ d.ipv4ll_client = NULL)
    BY <1>5, NotNull DEF Leaves
  <2>2. /\ b \in Iface /\ b.dhcp_client = c /\ b.timeout = d.timeout /\ b.local = d.local
        /\ b.ipv4ll_client = d.ipv4ll_client /\ b.ipv4ll_running = d.ipv4ll_running
    BY <2>1 DEF Iface
  <2>3. Runs(d, c, up, ip, added) = b
    BY <1>5 DEF Runs
  <2> HIDE DEF b
  <2>4. DhcpOK(b)
    BY <2>1, <2>2 DEF DhcpOK
  <2> QED BY <1>5, <2>1, <2>2, <2>3, <2>4 DEF Told, FlagStep, Cleared
<1> QED BY <1>1, <1>2, <1>3, <1>4, <1>5

\* The same for the IPv4LL client, whose callbacks leave the DHCP client alone
\* unless they stop the network.
ToldLL(d, e) ==
    /\ e \in Iface /\ DhcpOK(e) /\ FlagStep(d, e)
    /\ \/ e.dhcp_client = NULL
       \/ e.dhcp_client = d.dhcp_client /\ e.timeout = d.timeout
    /\ e.local \notin Ips

LEMMA LinkLocalLost ==
  ASSUME NEW d \in Iface, DhcpOK(d), d.ipv4ll_client # NULL,
         NEW c, StepLL(d.ipv4ll_client, c), c.cb = "ipv4ll_lost"
  PROVE  ToldLL(d, ipv4ll_lost_cb([d EXCEPT !.ipv4ll_client = c]))
<1> DEFINE b == [d EXCEPT !.ipv4ll_client = c]
           s == [b EXCEPT !.ipv4ll_client = NULL, !.ipv4ll_running = FALSE]
           e == [s EXCEPT !.dhcp_address = s.local, !.local = NoIp]
<1>1. SaneLL(c) /\ c # NULL /\ c \in LLClients
  BY NotNull DEF StepLL
<1>2. /\ b \in Iface /\ b.dhcp_client = d.dhcp_client /\ b.timeout = d.timeout
      /\ b.ipv4ll_client = c
  BY <1>1 DEF Iface
<1>3. ipv4ll_lost_cb(b) = e
  BY <1>1, <1>2 DEF ipv4ll_lost_cb, ipv4ll_stop_client, dhcp_invalidate
<1> HIDE DEF b
<1>4. /\ s \in Iface /\ s.dhcp_client = d.dhcp_client /\ s.timeout = d.timeout
      /\ s.ipv4ll_client = NULL /\ ~s.ipv4ll_running
  BY <1>2, NotNull DEF Iface
<1> HIDE DEF s
<1>5. /\ e \in Iface /\ e.dhcp_client = d.dhcp_client /\ e.timeout = d.timeout
      /\ e.ipv4ll_client = NULL /\ ~e.ipv4ll_running /\ e.local = NoIp
  BY <1>4, NotNull DEF Iface
<1> HIDE DEF e
<1>6. DhcpOK(e) /\ FlagStep(d, e)
  BY <1>5, NotNull DEF DhcpOK, FlagStep
<1> QED BY <1>3, <1>5, <1>6, NotNull DEF ToldLL, b

LEMMA LinkLocalAvailable ==
  ASSUME NEW d \in Iface, DhcpOK(d), d.ipv4ll_client # NULL, NEW added \in BOOLEAN,
         NEW c, StepLL(d.ipv4ll_client, c), c.cb = "ipv4ll_available"
  PROVE  ToldLL(d, ipv4ll_available_cb([d EXCEPT !.ipv4ll_client = c], added))
<1> DEFINE b == [d EXCEPT !.ipv4ll_client = c]
           w == [b EXCEPT !.local = c.assigned_ip]
           x == __connman_dhcp_stop(w)
<1>1. /\ SaneLL(c) /\ c # NULL /\ c \in LLClients /\ Watches(c)
      /\ c.assigned_ip = c.requested_ip /\ c.assigned_ip \in AnyIp \ Ips
  BY NotNull DEF StepLL, SaneLL
<1>2. /\ b \in Iface /\ b.dhcp_client = d.dhcp_client /\ b.timeout = d.timeout
      /\ b.ipv4ll_client = c /\ b.ipv4ll_running = d.ipv4ll_running
  BY <1>1 DEF Iface
<1>3. ipv4ll_available_cb(b, added) = IF added THEN w ELSE x
  BY <1>2 DEF ipv4ll_available_cb, dhcp_valid
<1> HIDE DEF b
<1>4. /\ w \in Iface /\ w.dhcp_client = d.dhcp_client /\ w.timeout = d.timeout
      /\ w.ipv4ll_client = c /\ w.ipv4ll_running = d.ipv4ll_running
      /\ w.local = c.assigned_ip
  BY <1>1, <1>2 DEF Iface
<1> HIDE DEF w
<1>5. DhcpOK(w) /\ FlagStep(d, w)
  BY <1>1, <1>4 DEF DhcpOK, FlagStep
<1>6. ToldLL(d, w)
  BY <1>1, <1>4, <1>5 DEF ToldLL
<1>7. ToldLL(d, x)
  <2>1. CASE w.dhcp_client = NULL
    BY <1>6, <2>1 DEF __connman_dhcp_stop
  <2>2. CASE w.dhcp_client # NULL
    <3>1. /\ x \in Iface /\ DhcpOK(x) /\ FlagStep(w, x)
          /\ x.dhcp_client = NULL /\ x.ipv4ll_client = NULL
      BY <1>4, <1>5, <2>2, StopIface DEF DhcpOK
    <3>2. x.local = NoIp
      BY <1>4, <2>2 DEF __connman_dhcp_stop, dhcp_release, dhcp_invalidate,
                        ipv4ll_stop_client, Iface
    <3> HIDE DEF x
    <3>3. FlagStep(d, x)
      BY <1>1, <1>4, <3>1 DEF FlagStep
    <3> QED BY <3>1, <3>2, <3>3, NotNull DEF ToldLL
  <2> QED BY <2>1, <2>2
<1> QED BY <1>3, <1>6, <1>7 DEF b

LEMMA RunsCallbackLL ==
  ASSUME NEW d \in Iface, DhcpOK(d), d.ipv4ll_client # NULL, NEW added \in BOOLEAN,
         NEW c, StepLL(d.ipv4ll_client, c)
  PROVE  ToldLL(d, RunsLL(d, c, added))
<1> DEFINE b == [d EXCEPT !.ipv4ll_client = c]
<1>1. CASE c.cb = "ipv4ll_lost"
  BY <1>1, LinkLocalLost DEF RunsLL
<1>2. CASE c.cb = "ipv4ll_available"
  BY <1>2, LinkLocalAvailable DEF RunsLL
<1>3. CASE c.cb \notin {"ipv4ll_lost", "ipv4ll_available"}
  <2>1. SaneLL(c) /\ c # NULL /\ c \in LLClients
    BY NotNull DEF StepLL
  <2>2. /\ b \in Iface /\ b.dhcp_client = d.dhcp_client /\ b.timeout = d.timeout
        /\ b.ipv4ll_client = c /\ b.ipv4ll_running = d.ipv4ll_running /\ b.local = d.local
    BY <2>1 DEF Iface
  <2>3. RunsLL(d, c, added) = b
    BY <1>3 DEF RunsLL
  <2> HIDE DEF b
  <2>4. DhcpOK(b) /\ b.local \notin Ips
    BY <1>3, <2>1, <2>2 DEF DhcpOK, StepLL
  <2> QED BY <2>1, <2>2, <2>3, <2>4 DEF ToldLL, FlagStep
<1> QED BY <1>1, <1>2, <1>3

-----------------------------------------------------------------------------
(***************************************************************************)
(* The actions.                                                             *)
(***************************************************************************)
LEMMA IfaceTyped ==
  ASSUME IInv, NEW i \in Ifaces
  PROVE  /\ Dhcp(i) \in Iface /\ DhcpOK(Dhcp(i))
         /\ Dhcp(i).dhcp_client = dhcp_client[i]
         /\ Dhcp(i).ipv4ll_client = ipv4ll_client[i]
         /\ Dhcp(i).dhcp_address = dhcp_address[i] /\ Dhcp(i).timeout = timeout[i]
         /\ dhcp_client[i] # NULL => Sane(dhcp_client[i])
         /\ ipv4ll_client[i] # NULL => SaneLL(ipv4ll_client[i])
<1>1. Dhcp(i) \in Iface /\ DhcpOK(Dhcp(i))
  BY DEF IInv, TypeOK, Dhcp, Iface, DhcpClients, LLClients, LeaseIps
<1>2. /\ Dhcp(i).dhcp_client = dhcp_client[i]
      /\ Dhcp(i).ipv4ll_client = ipv4ll_client[i]
      /\ Dhcp(i).dhcp_address = dhcp_address[i] /\ Dhcp(i).timeout = timeout[i]
  BY DEF Dhcp
<1> QED BY <1>1, <1>2 DEF DhcpOK

\* A handler of the DHCP client that is one of its steps.
LEMMA HandlerStep ==
  ASSUME IInv, NEW i \in Ifaces, dhcp_client[i] # NULL,
         NEW ok \in SocketOk, NEW up \in IfaceUp, NEW ip \in LinkLocal, NEW added \in AddressOk,
         NEW c, Step(dhcp_client[i], c), ok => Awake(dhcp_client[i], c),
         Attends(dhcp_client[i], c)
  PROVE  DhcpStep(Dhcp(i), Runs(Dhcp(i), c, up, ip, added))
<1> DEFINE d == Dhcp(i)
           e == Runs(d, c, up, ip, added)
<1>1. d \in Iface /\ DhcpOK(d) /\ d.dhcp_client = dhcp_client[i]
  BY IfaceTyped
<1>2. up \in BOOLEAN /\ added \in BOOLEAN /\ ok \in BOOLEAN
  BY GlueAssumption
<1> HIDE DEF d
<1>3. Leaves(d, c)
  BY <1>1 DEF Leaves, Step, DhcpOK
<1>4. Told(d, c, e)
  BY <1>1, <1>2, <1>3, RunsCallback
<1> HIDE DEF e
<1>5. ASSUME SocketOk \subseteq {TRUE}, Alive(d), e.dhcp_client # NULL
      PROVE  Alive(e)
  <2>1. Awake(dhcp_client[i], c) /\ e.dhcp_client = c
    BY <1>4, <1>5 DEF Told
  <2>2. Listens(c)
    BY <1>1, <1>5, <2>1 DEF Awake, Alive
  <2>3. c.timeout # "none" \/ c.lease_timeout # "none" \/ e.timeout
    BY <1>1, <1>4, <1>5, <2>1 DEF Awake, Alive, Wakes, Told
  <2> QED BY <2>1, <2>2, <2>3 DEF Alive
<1>6. SocketOk \subseteq {TRUE} /\ Alive(d) => Alive(e)
  BY <1>5 DEF Alive
<1>7. WatchOk \subseteq {TRUE} /\ Attentive(d) => Attentive(e)
  BY <1>1, <1>4 DEF Attends, Attentive, Told
<1> QED BY <1>4, <1>6, <1>7 DEF DhcpStep, Told, d, e

LEMMA HandlerStepLL ==
  ASSUME IInv, NEW i \in Ifaces, ipv4ll_client[i] # NULL, NEW added \in AddressOk,
         NEW c, StepLL(ipv4ll_client[i], c)
  PROVE  DhcpStep(Dhcp(i), RunsLL(Dhcp(i), c, added))
<1> DEFINE d == Dhcp(i)
           e == RunsLL(d, c, added)
<1>1. d \in Iface /\ DhcpOK(d) /\ d.ipv4ll_client = ipv4ll_client[i] /\ added \in BOOLEAN
  BY IfaceTyped, GlueAssumption
<1> HIDE DEF d
<1>2. ToldLL(d, e)
  BY <1>1, RunsCallbackLL
<1> HIDE DEF e
<1> QED BY <1>2 DEF ToldLL, DhcpStep, Alive, Attentive, Cleared, d, e

\* What Next leaves to show: one interface makes such a step.
Steps(i, e) ==
    /\ Store(i, e) /\ DhcpStep(Dhcp(i), e)
    /\ starts' \in [Ifaces -> 0 .. MaxStarts] /\ fault' \in Callbacks

\* A handler of a client ran, with the callback it makes.
Handled(i) ==
    \E ok, up, ip, added, c :
        /\ ok \in SocketOk /\ up \in IfaceUp /\ ip \in LinkLocal /\ added \in AddressOk
        /\ Step(dhcp_client[i], c) /\ (ok => Awake(dhcp_client[i], c))
        /\ Attends(dhcp_client[i], c)
        /\ Store(i, Runs(Dhcp(i), c, up, ip, added))
        /\ fault' \in Callbacks /\ UNCHANGED starts

HandledLL(i) ==
    \E added, c :
        /\ added \in AddressOk
        /\ StepLL(ipv4ll_client[i], c)
        /\ Store(i, RunsLL(Dhcp(i), c, added))
        /\ fault' \in Callbacks /\ UNCHANGED starts

LEMMA HandledSteps ==
  ASSUME IInv, NEW i \in Ifaces, dhcp_client[i] # NULL, Handled(i)
  PROVE  \E e : Steps(i, e)
<1>1. PICK ok, up, ip, added, c :
        /\ ok \in SocketOk /\ up \in IfaceUp /\ ip \in LinkLocal /\ added \in AddressOk
        /\ Step(dhcp_client[i], c) /\ (ok => Awake(dhcp_client[i], c))
        /\ Attends(dhcp_client[i], c)
        /\ Store(i, Runs(Dhcp(i), c, up, ip, added))
        /\ fault' \in Callbacks /\ UNCHANGED starts
  BY DEF Handled
<1>2. DhcpStep(Dhcp(i), Runs(Dhcp(i), c, up, ip, added))
  BY <1>1, HandlerStep
<1>3. starts' \in [Ifaces -> 0 .. MaxStarts]
  BY <1>1 DEF IInv, TypeOK
<1> QED BY <1>1, <1>2, <1>3 DEF Steps

LEMMA HandledStepsLL ==
  ASSUME IInv, NEW i \in Ifaces, ipv4ll_client[i] # NULL, HandledLL(i)
  PROVE  \E e : Steps(i, e)
<1>1. PICK added, c :
        /\ added \in AddressOk
        /\ StepLL(ipv4ll_client[i], c)
        /\ Store(i, RunsLL(Dhcp(i), c, added))
        /\ fault' \in Callbacks /\ UNCHANGED starts
  BY DEF HandledLL
<1>2. DhcpStep(Dhcp(i), RunsLL(Dhcp(i), c, added))
  BY <1>1, HandlerStepLL
<1>3. starts' \in [Ifaces -> 0 .. MaxStarts]
  BY <1>1 DEF IInv, TypeOK
<1> QED BY <1>1, <1>2, <1>3 DEF Steps

LEMMA TimeoutSteps ==
  ASSUME IInv, NEW i \in Ifaces,
         DiscoverTimeout(i) \/ RebootTimeout(i) \/ RequestTimeout(i) \/ RestartTimeout(i)
  PROVE  dhcp_client[i] # NULL /\ Handled(i)
<1> DEFINE p == dhcp_client[i]
<1>0. p # NULL
  BY DEF DiscoverTimeout, RebootTimeout, RequestTimeout, RestartTimeout, Armed
<1>1. p # NULL /\ Sane(p)
  BY <1>0, IfaceTyped
<1>2. PICK ok, up, ip, added, c :
        /\ ok \in SocketOk /\ up \in IfaceUp /\ ip \in LinkLocal /\ added \in AddressOk
        /\ \/ p.timeout = "discover_timeout" /\ c = discover_timeout(p, ok)
           \/ p.timeout = "reboot_timeout" /\ c = reboot_timeout(p, ok)
           \/ p.timeout = "request_timeout" /\ c = request_timeout(p, ok)
           \/ p.timeout = "restart_dhcp_timeout" /\ c = restart_dhcp_timeout(p, ok)
        /\ Store(i, Runs(Dhcp(i), c, up, ip, added))
        /\ fault' \in Callbacks /\ UNCHANGED starts
  BY DEF DiscoverTimeout, RebootTimeout, RequestTimeout, RestartTimeout, Armed, Handle,
         UseAfterFree, Callbacks
<1>3. Step(p, c) /\ (ok => Awake(p, c)) /\ Attends(p, c)
  <2>1. ok \in BOOLEAN
    BY <1>2, GlueAssumption
  <2> HIDE DEF p
  <2>2. CASE p.timeout = "discover_timeout" /\ c = discover_timeout(p, ok)
    BY <1>1, <2>1, <2>2, DiscoverTimeoutStep, TimeoutWatched DEF Attends
  <2>3. CASE p.timeout = "reboot_timeout" /\ c = reboot_timeout(p, ok)
    BY <1>1, <2>1, <2>3, RebootTimeoutStep, TimeoutWatched DEF Attends
  <2>4. CASE p.timeout = "request_timeout" /\ c = request_timeout(p, ok)
    BY <1>1, <2>1, <2>4, RequestTimeoutStep, TimeoutWatched DEF Attends
  <2>5. CASE p.timeout = "restart_dhcp_timeout" /\ c = restart_dhcp_timeout(p, ok)
    BY <1>1, <2>1, <2>5, RestartTimeoutStep, TimeoutWatched DEF Attends
  <2> QED BY <1>2, <2>2, <2>3, <2>4, <2>5
<1> QED BY <1>1, <1>2, <1>3 DEF Handled

LEMMA LeaseTimerSteps ==
  ASSUME IInv, NEW i \in Ifaces,
         \/ StartRenew(i) \/ ContinueRenew(i) \/ StartRebound(i) \/ ContinueRebound(i)
         \/ StartExpire(i)
  PROVE  dhcp_client[i] # NULL /\ Handled(i)
<1> DEFINE p == dhcp_client[i]
<1>0. p # NULL
  BY DEF StartRenew, ContinueRenew, StartRebound, ContinueRebound, StartExpire, Armed
<1>1. p # NULL /\ Sane(p)
  BY <1>0, IfaceTyped
<1>2. PICK ok, up, ip, added, c :
        /\ ok \in SocketOk /\ up \in IfaceUp /\ ip \in LinkLocal /\ added \in AddressOk
        /\ \/ p.t1_timeout = "start_renew" /\ c = start_renew(p, ok)
           \/ p.t1_timeout = "continue_renew" /\ c = continue_renew(p, ok)
           \/ p.t2_timeout = "start_rebound" /\ c = start_rebound(p, ok)
           \/ p.t2_timeout = "continue_rebound" /\ c = continue_rebound(p, ok)
           \/ p.lease_timeout = "start_expire" /\ c = start_expire(p, ok)
        /\ Store(i, Runs(Dhcp(i), c, up, ip, added))
        /\ fault' \in Callbacks /\ UNCHANGED starts
  BY DEF StartRenew, ContinueRenew, StartRebound, ContinueRebound, StartExpire, Armed,
         Handle, UseAfterFree, Callbacks
<1>3. Step(p, c) /\ (ok => Awake(p, c)) /\ Attends(p, c)
  <2>1. ok \in BOOLEAN
    BY <1>2, GlueAssumption
  <2> HIDE DEF p
  <2>2. CASE p.t1_timeout = "start_renew" /\ c = start_renew(p, ok)
    BY <1>1, <2>1, <2>2, RenewStep, PhaseWatched DEF Attends
  <2>3. CASE p.t1_timeout = "continue_renew" /\ c = continue_renew(p, ok)
    BY <1>1, <2>1, <2>3, RenewStep, LeaseTimerWatched DEF Attends
  <2>4. CASE p.t2_timeout = "start_rebound" /\ c = start_rebound(p, ok)
    BY <1>1, <2>1, <2>4, ReboundStep, PhaseWatched DEF Attends
  <2>5. CASE p.t2_timeout = "continue_rebound" /\ c = continue_rebound(p, ok)
    BY <1>1, <2>1, <2>5, ReboundStep, LeaseTimerWatched DEF Attends
  <2>6. CASE p.lease_timeout = "start_expire" /\ c = start_expire(p, ok)
    BY <1>1, <2>1, <2>6, StartExpireStep, LeaseTimerWatched DEF Attends
  <2> QED BY <1>2, <2>2, <2>3, <2>4, <2>5, <2>6
<1> QED BY <1>1, <1>2, <1>3 DEF Handled

LEMMA SocketSteps ==
  ASSUME IInv, NEW i \in Ifaces, Packet(i) \/ ListenerError(i)
  PROVE  dhcp_client[i] # NULL /\ Handled(i)
<1> DEFINE p == dhcp_client[i]
<1>0. p # NULL
  BY DEF Packet, ListenerError
<1>1. p # NULL /\ Sane(p)
  BY <1>0, IfaceTyped
<1>2. PICK ok, up, ip, added, c :
        /\ ok \in SocketOk /\ up \in IfaceUp /\ ip \in LinkLocal /\ added \in AddressOk
        /\ \/ \E type \in {"OFFER", "ACK", "NAK"}, yiaddr \in Ips, l \in LeaseTimes :
                c = dhcp_packet(p, type, yiaddr, l, ok)
           \/ ListenerError(i) /\ c = listener_error(p)
        /\ Store(i, Runs(Dhcp(i), c, up, ip, added))
        /\ fault' \in Callbacks /\ UNCHANGED starts
  <2>1. CASE Packet(i)
    BY <2>1 DEF Packet, Handle, UseAfterFree, Callbacks
  <2>2. CASE ListenerError(i)
    <3>1. Handle(i, LAMBDA ok : listener_error(p))
      BY <2>2 DEF ListenerError
    <3> QED BY <2>2, <3>1 DEF Handle, UseAfterFree, Callbacks
  <2> QED BY <2>1, <2>2
<1>3. Step(p, c) /\ (ok => Awake(p, c)) /\ Attends(p, c)
  <2>1. ok \in BOOLEAN
    BY <1>2, GlueAssumption
  <2> HIDE DEF p
  <2>2. CASE ListenerError(i) /\ c = listener_error(p)
    <3>1. FALSE \in WatchOk
      BY <2>2 DEF ListenerError
    <3> QED BY <1>1, <2>2, <3>1, ListenerErrorStep DEF Attends
  <2>3. ASSUME NEW type \in {"OFFER", "ACK", "NAK"}, NEW yiaddr \in Ips, NEW l \in LeaseTimes,
               c = dhcp_packet(p, type, yiaddr, l, ok)
        PROVE  Step(p, c) /\ (ok => Awake(p, c)) /\ Attends(p, c)
    <3>1. l = NULL \/ l \in Nat
      BY GlueAssumption
    <3> QED BY <1>1, <2>1, <2>3, <3>1, PacketStep, PacketWatched DEF Attends
  <2> QED BY <1>2, <2>2, <2>3
<1> QED BY <1>1, <1>2, <1>3 DEF Handled

LEMMA LinkLocalSteps ==
  ASSUME IInv, NEW i \in Ifaces,
         \/ SendProbe(i) \/ ProbeTimeout(i) \/ AnnounceTimeout(i) \/ DefendTimeout(i)
         \/ ArpPacket(i) \/ ArpError(i)
  PROVE  ipv4ll_client[i] # NULL /\ HandledLL(i)
<1> DEFINE p == ipv4ll_client[i]
<1>0. p # NULL
  BY DEF SendProbe, ProbeTimeout, AnnounceTimeout, DefendTimeout, ArpPacket, ArpError, ArmedLL
<1>1. p # NULL /\ SaneLL(p)
  BY <1>0, IfaceTyped
<1>2. PICK ok, ip, added, c :
        /\ ok \in SocketOk /\ ip \in LinkLocal /\ added \in AddressOk
        /\ \/ p.timeout = "send_probe_packet" /\ c = send_probe_packet(p, ok, ip)
           \/ p.timeout = "ipv4ll_probe_timeout" /\ c = ipv4ll_probe_timeout(p, ok, ip)
           \/ p.timeout = "ipv4ll_announce_timeout" /\ c = ipv4ll_announce_timeout(p)
           \/ p.timeout = "ipv4ll_defend_timeout" /\ c = ipv4ll_defend_timeout(p)
           \/ \E source \in BOOLEAN : c = ipv4ll_recv_arp_packet(p, source)
           \/ c = listener_error(p)
        /\ Store(i, RunsLL(Dhcp(i), c, added))
        /\ fault' \in Callbacks /\ UNCHANGED starts
  BY DEF SendProbe, ProbeTimeout, AnnounceTimeout, DefendTimeout, ArpPacket, ArpError,
         ArmedLL, HandleLL, UseAfterFree, Callbacks
<1>3. StepLL(p, c)
  <2>1. ok \in BOOLEAN
    BY <1>2, GlueAssumption
  <2> HIDE DEF p
  <2>2. CASE p.timeout = "send_probe_packet" /\ c = send_probe_packet(p, ok, ip)
    BY <1>2, <1>1, <2>1, <2>2, SendProbeStep
  <2>3. CASE p.timeout = "ipv4ll_probe_timeout" /\ c = ipv4ll_probe_timeout(p, ok, ip)
    BY <1>2, <1>1, <2>1, <2>3, ProbeTimeoutStep
  <2>4. CASE p.timeout = "ipv4ll_announce_timeout" /\ c = ipv4ll_announce_timeout(p)
    BY <1>1, <2>4, AnnounceTimeoutStep
  <2>5. CASE p.timeout = "ipv4ll_defend_timeout" /\ c = ipv4ll_defend_timeout(p)
    BY <1>1, <2>5, DefendTimeoutStep
  <2>6. ASSUME NEW source \in BOOLEAN, c = ipv4ll_recv_arp_packet(p, source)
        PROVE  StepLL(p, c)
    BY <1>1, <2>6, ArpPacketStep
  <2>7. CASE c = listener_error(p)
    BY <1>1, <2>7, ArpErrorStep
  <2> QED BY <1>2, <2>2, <2>3, <2>4, <2>5, <2>6, <2>7
<1> QED BY <1>1, <1>2, <1>3 DEF HandledLL

\* dhcp.c's own calls: the client starts again, or the network is stopped.
LEMMA RetrySteps ==
  ASSUME IInv, NEW i \in Ifaces, dhcp_retry_cb(i)
  PROVE  \E e : Steps(i, e)
<1> DEFINE p == dhcp_client[i]
           d == Dhcp(i)
           b == [d EXCEPT !.timeout = FALSE]
<1>1. /\ d \in Iface /\ DhcpOK(d) /\ d.dhcp_client = p /\ d.timeout
      /\ dhcp_address[i] \in AnyIp
  BY IfaceTyped DEF dhcp_retry_cb, IInv, TypeOK
<1>2. p # NULL /\ Sane(p)
  BY <1>1 DEF DhcpOK
<1>3. PICK ok, up, ip, c :
        /\ ok \in SocketOk /\ up \in IfaceUp /\ ip \in LinkLocal
        /\ c = g_dhcp_client_start([p EXCEPT !.cb = "none"], dhcp_address[i], ok, ip)
        /\ Store(i, Runs(b, c, up, ip, TRUE))
        /\ UNCHANGED <<starts, fault>>
  BY DEF dhcp_retry_cb
<1>4. Restarted(c) /\ (ok => Wakes(c)) /\ (ok /\ Listens(p) => Listens(c))
  <2>1. ok \in BOOLEAN
    BY <1>3, GlueAssumption
  <2> HIDE DEF p
  <2> QED BY <1>1, <1>2, <1>3, <2>1, ClientStart
<1> DEFINE e == Runs(b, c, up, ip, TRUE)
<1> HIDE DEF d, p
<1>5. b \in Iface /\ DhcpOK(b) /\ FlagStep(d, b) /\ b.ipv4ll_client = d.ipv4ll_client
      /\ b.ipv4ll_running = d.ipv4ll_running
  <2>1. /\ b \in Iface /\ b.dhcp_client = d.dhcp_client /\ b.local = d.local /\ ~b.timeout
        /\ b.ipv4ll_client = d.ipv4ll_client /\ b.ipv4ll_running = d.ipv4ll_running
    BY <1>1 DEF Iface
  <2> HIDE DEF b
  <2> QED BY <1>1, <2>1 DEF DhcpOK, FlagStep
<1>6. Leaves(b, c)
  BY <1>4 DEF Leaves, Restarted
<1> HIDE DEF b
<1>7. Told(b, c, e)
  <2>1. up \in BOOLEAN /\ TRUE \in BOOLEAN
    BY <1>3, GlueAssumption
  <2> QED BY <1>3, <1>5, <1>6, <2>1, RunsCallback
<1> HIDE DEF e
<1>8. ASSUME SocketOk \subseteq {TRUE}, Alive(d), e.dhcp_client # NULL
      PROVE  Alive(e)
  <2>1. ok
    BY <1>3, <1>8
  <2>2. e.dhcp_client = c /\ Listens(c)
    BY <1>1, <1>2, <1>4, <1>7, <1>8, <2>1 DEF Told, Alive
  <2>3. c.timeout # "none" \/ c.lease_timeout # "none" \/ e.timeout
    BY <1>4, <1>7, <1>8, <2>1 DEF Wakes, Told
  <2> QED BY <2>2, <2>3 DEF Alive
<1>9. SocketOk \subseteq {TRUE} /\ Alive(d) => Alive(e)
  BY <1>8 DEF Alive
<1>10. WatchOk \subseteq {TRUE} /\ Attentive(d) => Attentive(e)
  <2>1. ok \in BOOLEAN /\ p.type = "IPV4"
    BY <1>2, <1>3, GlueAssumption DEF Sane
  <2>2. Watched(p) => Watched(c)
    BY <1>3, <2>1, StartWatched
  <2> QED BY <1>1, <1>2, <1>7, <2>2 DEF Attentive, Told
<1>11. DhcpStep(d, e)
  BY <1>5, <1>7, <1>9, <1>10 DEF DhcpStep, Told, FlagStep
<1>12. starts' \in [Ifaces -> 0 .. MaxStarts] /\ fault' \in Callbacks
  BY <1>3 DEF IInv, TypeOK
<1> QED BY <1>3, <1>11, <1>12 DEF Steps, d, b, e

LEMMA StartSteps ==
  ASSUME IInv, NEW i \in Ifaces, __connman_dhcp_start(i)
  PROVE  \E e : Steps(i, e)
<1> DEFINE p == IF dhcp_client[i] = NULL THEN g_dhcp_client_new("IPV4") ELSE dhcp_client[i]
           q == [p EXCEPT !.cb = "none"]
           d == Dhcp(i)
<1>1. /\ d \in Iface /\ DhcpOK(d) /\ d.dhcp_client = dhcp_client[i]
      /\ dhcp_address[i] \in AnyIp
  BY IfaceTyped DEF IInv, TypeOK
<1>2. Sane(p) /\ (dhcp_client[i] = NULL => p.retry_times = 0)
      /\ (dhcp_client[i] # NULL => p = dhcp_client[i])
  <2>1. Sane(g_dhcp_client_new("IPV4")) /\ g_dhcp_client_new("IPV4").retry_times = 0
    BY NewClient
  <2> QED BY <1>1, <2>1 DEF DhcpOK
<1>3. g_dhcp_client_new("IPV4") = [g_dhcp_client_new("IPV4") EXCEPT !.cb = "none"]
  <2> DEFINE n == g_dhcp_client_new("IPV4")
  <2>1. n \in Client /\ n.cb = "none"
    BY NewClient
  <2> HIDE DEF n
  <2>2. n = [n EXCEPT !.cb = "none"]
    BY <2>1 DEF Client
  <2> QED BY <2>2 DEF n
<1>4. PICK ok \in SocketOk, up \in IfaceUp, ip \in LinkLocal :
        Store(i, IF StartFails(q, ok)
                 THEN __connman_dhcp_stop([d EXCEPT !.dhcp_client = q])
                 ELSE Runs(d, g_dhcp_client_start(q, dhcp_address[i], ok, ip), up, ip, TRUE))
  BY <1>3 DEF __connman_dhcp_start
<1>5. starts' \in [Ifaces -> 0 .. MaxStarts] /\ fault' \in Callbacks
  BY GlueAssumption DEF __connman_dhcp_start, IInv, TypeOK
<1> HIDE DEF p, d
<1> DEFINE s == [d EXCEPT !.dhcp_client = q]
           x == __connman_dhcp_stop(s)
           c == g_dhcp_client_start(q, dhcp_address[i], ok, ip)
           e == Runs(d, c, up, ip, TRUE)
<1>6. DhcpStep(d, x)
  <2>1. q \in DhcpClients /\ q # NULL
    BY <1>2, NullAssumption DEF Sane, DhcpClients, Client, Callbacks
  <2> HIDE DEF q
  <2>2. /\ s \in Iface /\ s.dhcp_client = q /\ s.ipv4ll_client = d.ipv4ll_client
        /\ s.ipv4ll_running = d.ipv4ll_running
    BY <1>1, <2>1 DEF Iface
  <2> HIDE DEF s
  <2>3. /\ x \in Iface /\ DhcpOK(x) /\ FlagStep(s, x) /\ x.dhcp_client = NULL
    BY <1>1, <2>1, <2>2, StopIface DEF DhcpOK
  <2> HIDE DEF x
  <2> QED BY <2>2, <2>3 DEF DhcpStep, FlagStep, Alive, Attentive, Cleared
<1>7. WatchOk \subseteq {TRUE} /\ Attentive(d) => Watched(c)
  <2>1. ok \in BOOLEAN /\ p.type = "IPV4"
    BY <1>2, GlueAssumption DEF Sane
  <2>2. Watched(p) => Watched(c)
    BY <2>1, StartWatched
  <2>3. Attentive(d) => Watched(p)
    BY <1>1, NewWatched DEF Attentive, p
  <2> QED BY <2>2, <2>3
<1>8. DhcpStep(d, e)
  <2>1. ok \in BOOLEAN /\ up \in BOOLEAN /\ TRUE \in BOOLEAN
    BY GlueAssumption
  <2>2. /\ Restarted(c) /\ (ok => Wakes(c))
        /\ ok /\ (p.retry_times = 0 \/ Listens(p)) => Listens(c)
    BY <1>1, <1>2, <2>1, ClientStart
  <2> HIDE DEF c
  <2>3. Leaves(d, c)
    BY <2>2 DEF Leaves, Restarted
  <2>4. Told(d, c, e)
    BY <1>1, <2>1, <2>3, RunsCallback
  <2> HIDE DEF e
  <2>5. ASSUME SocketOk \subseteq {TRUE}, Alive(d), e.dhcp_client # NULL
        PROVE  Alive(e)
    <3>1. ok
      BY <2>5
    <3>2. p.retry_times = 0 \/ Listens(p)
      BY <1>1, <1>2, <2>5 DEF Alive
    <3>3. e.dhcp_client = c /\ Listens(c)
      BY <2>2, <2>4, <2>5, <3>1, <3>2 DEF Told
    <3>4. c.timeout # "none" \/ c.lease_timeout # "none" \/ e.timeout
      BY <2>2, <2>4, <2>5, <3>1 DEF Wakes, Told
    <3> QED BY <3>3, <3>4 DEF Alive
  <2>6. SocketOk \subseteq {TRUE} /\ Alive(d) => Alive(e)
    BY <2>5 DEF Alive
  <2>7. WatchOk \subseteq {TRUE} /\ Attentive(d) => Attentive(e)
    BY <1>1, <1>7, <2>1, <2>4 DEF Attentive, Told
  <2> QED BY <2>4, <2>6, <2>7 DEF DhcpStep, Told
<1>9. Store(i, x) \/ Store(i, e)
  BY <1>4
<1> QED BY <1>5, <1>6, <1>8, <1>9 DEF Steps, d

LEMMA StopSteps ==
  ASSUME IInv, NEW i \in Ifaces, Disconnect(i) \/ LeaseRunsOut(i)
  PROVE  \E e : Steps(i, e)
<1> DEFINE d == Dhcp(i)
           x == __connman_dhcp_stop(d)
           r == [d EXCEPT !.lease = NoIp]
<1>1. d \in Iface /\ DhcpOK(d) /\ d.dhcp_client = dhcp_client[i]
  BY IfaceTyped
<1>2. starts' \in [Ifaces -> 0 .. MaxStarts] /\ fault' \in Callbacks
  BY DEF IInv, TypeOK, Disconnect, LeaseRunsOut
<1>3. CASE Disconnect(i)
  <2>1. Store(i, x) /\ d.dhcp_client # NULL
    BY <1>1, <1>3 DEF Disconnect
  <2> HIDE DEF d
  <2>2. /\ x \in Iface /\ DhcpOK(x) /\ FlagStep(d, x) /\ x.dhcp_client = NULL
    BY <1>1, <2>1, StopIface DEF DhcpOK
  <2> HIDE DEF x
  <2>3. DhcpStep(d, x)
    BY <2>2 DEF DhcpStep, Alive, Attentive, Cleared
  <2> QED BY <1>2, <2>1, <2>3 DEF Steps, d
<1>4. CASE LeaseRunsOut(i)
  <2>1. Store(i, r)
    BY <1>4 DEF LeaseRunsOut
  <2> HIDE DEF d
  <2>2. /\ r \in Iface /\ r.dhcp_client = d.dhcp_client /\ r.timeout = d.timeout
        /\ r.local = d.local /\ r.ipv4ll_client = d.ipv4ll_client
        /\ r.ipv4ll_running = d.ipv4ll_running
    BY <1>1, NotNull DEF Iface
  <2> HIDE DEF r
  <2>3. DhcpStep(d, r)
    BY <1>1, <2>2 DEF DhcpStep, DhcpOK, FlagStep, Alive, Attentive, Cleared
  <2> QED BY <1>2, <2>1, <2>3 DEF Steps, d
<1> QED BY <1>3, <1>4

\* Every action stores, for one interface, what one such step makes of it.
LEMMA EveryStep ==
  ASSUME IInv, Next
  PROVE  \E i \in Ifaces : \E e : Steps(i, e)
<1>1. PICK i \in Ifaces : Timer(i) \/ TimerLL(i) \/ Environment(i)
  BY DEF Next
<1>2. CASE DiscoverTimeout(i) \/ RebootTimeout(i) \/ RequestTimeout(i) \/ RestartTimeout(i)
  BY <1>2, TimeoutSteps, HandledSteps
<1>3. CASE \/ StartRenew(i) \/ ContinueRenew(i) \/ StartRebound(i) \/ ContinueRebound(i)
           \/ StartExpire(i)
  BY <1>3, LeaseTimerSteps, HandledSteps
<1>4. CASE Packet(i) \/ ListenerError(i)
  BY <1>4, SocketSteps, HandledSteps
<1>5. CASE \/ SendProbe(i) \/ ProbeTimeout(i) \/ AnnounceTimeout(i) \/ DefendTimeout(i)
           \/ ArpPacket(i) \/ ArpError(i)
  BY <1>5, LinkLocalSteps, HandledStepsLL
<1>6. CASE dhcp_retry_cb(i)
  BY <1>6, RetrySteps
<1>7. CASE __connman_dhcp_start(i)
  BY <1>7, StartSteps
<1>8. CASE Disconnect(i) \/ LeaseRunsOut(i)
  BY <1>8, StopSteps
<1> QED BY <1>1, <1>2, <1>3, <1>4, <1>5, <1>6, <1>7, <1>8 DEF Timer, TimerLL, Environment

-----------------------------------------------------------------------------
(***************************************************************************)
(* The inductive invariant and what follows from it.                        *)
(***************************************************************************)
LEMMA Stored ==
  ASSUME IInv, NEW i \in Ifaces, NEW e, Store(i, e), e \in Iface
  PROVE  /\ Dhcp(i)' = e
         /\ \A j \in Ifaces \ {i} :
               Dhcp(j)' = [Dhcp(j) EXCEPT !.ipv4ll_running = e.ipv4ll_running]
<1>1. Dhcp(i)' = e
  BY DEF IInv, TypeOK, Store, Dhcp, Iface
<1>2. ASSUME NEW j \in Ifaces \ {i}
      PROVE  Dhcp(j)' = [Dhcp(j) EXCEPT !.ipv4ll_running = e.ipv4ll_running]
  BY DEF IInv, TypeOK, Store, Dhcp
<1> QED BY <1>1, <1>2

LEMMA StepKeepsInvariant ==
  ASSUME IInv, NEW i \in Ifaces, NEW e, Steps(i, e)
  PROVE  IInv'
<1> DEFINE d == Dhcp(i)
<1>1. /\ Store(i, e) /\ e \in Iface /\ DhcpOK(e) /\ FlagStep(d, e)
      /\ starts' \in [Ifaces -> 0 .. MaxStarts] /\ fault' \in Callbacks
  BY DEF Steps, DhcpStep
<1>2. /\ d \in Iface /\ DhcpOK(d) /\ d.ipv4ll_client = ipv4ll_client[i]
      /\ d.ipv4ll_running = ipv4ll_running
  BY IfaceTyped DEF Dhcp
<1> HIDE DEF d
<1>3. TypeOK'
  BY <1>1 DEF IInv, TypeOK, Store, Iface, DhcpClients, LLClients, LeaseIps
<1>4. /\ \A j \in Ifaces : ipv4ll_client'[j] =
                             IF j = i THEN e.ipv4ll_client ELSE ipv4ll_client[j]
      /\ ipv4ll_running' = e.ipv4ll_running
  BY <1>1 DEF Store, IInv, TypeOK
<1>5. FlagOwned'
  BY <1>1, <1>2, <1>4 DEF IInv, FlagOwned, FlagStep
<1>6. ASSUME NEW j \in Ifaces
      PROVE  DhcpOK(Dhcp(j)')
  <2>1. CASE j = i
    BY <1>1, <2>1, Stored
  <2>2. CASE j # i
    <3> DEFINE a == Dhcp(j)
               b == [a EXCEPT !.ipv4ll_running = e.ipv4ll_running]
    <3>1. /\ a \in Iface /\ DhcpOK(a) /\ a.ipv4ll_client = ipv4ll_client[j]
          /\ a.ipv4ll_running = ipv4ll_running
      BY IfaceTyped DEF Dhcp
    <3>2. Dhcp(j)' = b
      BY <1>1, <2>2, Stored
    <3> HIDE DEF a
    <3>3. /\ b.dhcp_client = a.dhcp_client /\ b.ipv4ll_client = a.ipv4ll_client
          /\ b.local = a.local /\ b.timeout = a.timeout
          /\ b.ipv4ll_running = e.ipv4ll_running
      BY <3>1 DEF Iface
    <3> HIDE DEF b
    <3>4. a.ipv4ll_client # NULL => b.ipv4ll_running
      BY <1>4, <1>5, <2>2, <3>1, <3>3 DEF FlagOwned
    <3> QED BY <3>1, <3>2, <3>3, <3>4 DEF DhcpOK
  <2> QED BY <2>1, <2>2
<1> QED BY <1>3, <1>5, <1>6 DEF IInv

LEMMA Invariance ==
  Spec => []IInv
<1>1. Init => IInv
  <2> SUFFICES ASSUME Init PROVE IInv
    OBVIOUS
  <2>1. TypeOK
    <3>1. /\ timeout \in [Ifaces -> BOOLEAN] /\ ipv4ll_running \in BOOLEAN
          /\ fault \in Callbacks
      BY Zenon DEF Init, Callbacks
    <3>2. /\ local \in [Ifaces -> AnyIp] /\ dhcp_address \in [Ifaces -> AnyIp]
          /\ lease \in [Ifaces -> Ips \cup {NoIp}]
      BY DEF Init, AnyIp
    <3>3. starts \in [Ifaces -> 0 .. MaxStarts]
      BY GlueAssumption DEF Init
    <3>4. /\ dhcp_client \in [Ifaces -> {c \in Client : c.type = "IPV4"} \cup {NULL}]
          /\ ipv4ll_client \in [Ifaces -> {c \in Client : c.type = "IPV4LL"} \cup {NULL}]
      BY DEF Init
    <3> QED BY <3>1, <3>2, <3>3, <3>4 DEF TypeOK
  <2>2. FlagOwned
    BY DEF Init, FlagOwned
  <2>3. ASSUME NEW i \in Ifaces PROVE DhcpOK(Dhcp(i))
    BY NotNull DEF Init, DhcpOK, Dhcp
  <2> QED BY <2>1, <2>2, <2>3 DEF IInv
<1>2. IInv /\ [Next]_vars => IInv'
  <2> SUFFICES ASSUME IInv, [Next]_vars PROVE IInv'
    OBVIOUS
  <2>1. CASE Next
    BY <2>1, EveryStep, StepKeepsInvariant
  <2>2. CASE UNCHANGED vars
    BY <2>2 DEF IInv, TypeOK, FlagOwned, Dhcp, vars
  <2> QED BY <2>1, <2>2
<1> QED BY <1>1, <1>2, PTL DEF Spec

\* Every client keeps its type, its timers and counters their ranges, and the
\* interface an address the code knows, whatever handlers run in which order
\* and whichever sockets and addresses cannot be set up.
THEOREM TypeCorrect == Spec => []TypeOK
<1>1. IInv => TypeOK
  BY DEF IInv
<1> QED BY <1>1, Invariance, PTL

\* The flag ipv4ll_running, shared by all interfaces, says whether there is an
\* IPv4LL client, and there is never more than one (no_lease_cb,
\* ipv4ll_start_client, ipv4ll_stop_client).
THEOREM FlagIsShared == Spec => []FlagOwned
<1>1. IInv => FlagOwned
  BY DEF IInv
<1> QED BY <1>1, Invariance, PTL

\* While a client holds a lease, through renewing and rebinding, the interface
\* uses the leased address and a timer will end the lease (start_bound,
\* lease_available_cb, start_expire).
THEOREM LeasedAddressUsed == Spec => []BoundInUse
<1>1. ASSUME IInv, NEW i \in Ifaces, Bound(i)
      PROVE  /\ local[i] = dhcp_client[i].assigned_ip
             /\ ipv4ll_client[i] = NULL
             /\ \/ dhcp_client[i].lease_timeout = "start_expire"
                \/ dhcp_client[i].timeout = "restart_dhcp_timeout"
  <2>1. dhcp_client[i] # NULL /\ Sane(dhcp_client[i]) /\ Holds(dhcp_client[i])
    BY <1>1, IfaceTyped DEF Bound, Holds
  <2>2. local[i] = dhcp_client[i].assigned_ip /\ ipv4ll_client[i] = NULL
    BY <1>1, <2>1, IfaceTyped DEF DhcpOK, Dhcp
  <2> QED BY <2>1, <2>2 DEF Sane, LeaseTimers
<1>2. IInv => BoundInUse
  BY <1>1 DEF BoundInUse
<1> QED BY <1>2, Invariance, PTL

LEMMA LinkLocalAgrees ==
  ASSUME IInv, NEW i \in Ifaces
  PROVE  /\ local[i] \in LinkLocal => ipv4ll_client[i] # NULL /\ Watches(ipv4ll_client[i])
         /\ ipv4ll_client[i] # NULL /\ Watches(ipv4ll_client[i])
              => local[i] = ipv4ll_client[i].requested_ip
<1>1. DhcpOK(Dhcp(i)) /\ Dhcp(i).local = local[i]
      /\ Dhcp(i).ipv4ll_client = ipv4ll_client[i]
  BY DEF IInv, Dhcp
<1> QED BY <1>1 DEF DhcpOK

\* A link-local address in use is one the IPv4LL client has announced and still
\* watches over: no callback leaves such an address behind when its client
\* loses it, is stopped or gives way to a lease (ipv4ll_lost_cb, dhcp_release,
\* lease_available_cb).
THEOREM LinkLocalIsWatched == Spec => []LinkLocalWatched
<1>1. IInv => LinkLocalWatched
  BY LinkLocalAgrees DEF LinkLocalWatched, Watches
<1> QED BY <1>1, Invariance, PTL

\* No IPv4LL client defends an address the interface does not use: what runs in
\* between, a retry of DHCP or a callback, never takes the address away and
\* leaves the client (ipv4ll_available_cb, no_lease_cb, lease_lost_cb).
THEOREM WatchedIsUsed == Spec => []LinkLocalInUse
<1>1. IInv => LinkLocalInUse
  BY LinkLocalAgrees DEF LinkLocalInUse, Watches
<1> QED BY <1>1, Invariance, PTL

\* Every REQUEST, after whatever restarts, names an address that a server
\* handed out (send_request).
THEOREM RequestsNameAddress == Spec => []RequestNamesAddress
<1>1. ASSUME IInv, NEW i \in Ifaces, dhcp_client[i] # NULL,
             dhcp_client[i].sent.type = "REQUEST"
      PROVE  dhcp_client[i].sent.ip \in Ips
  BY <1>1, IfaceTyped DEF Sane, Requests
<1>2. IInv => RequestNamesAddress
  BY <1>1 DEF RequestNamesAddress
<1> QED BY <1>2, Invariance, PTL

-----------------------------------------------------------------------------
(***************************************************************************)
(* What needs every socket to open, or one interface only.                  *)
(***************************************************************************)
LEMMA StayAlive ==
  ASSUME SocketOk \subseteq {TRUE}
  PROVE  Spec => [](\A i \in Ifaces : Alive(Dhcp(i)))
<1> DEFINE A == \A i \in Ifaces : Alive(Dhcp(i))
<1>1. Init => A
  BY DEF Init, Alive, Dhcp
<1>2. IInv /\ A /\ [Next]_vars => A'
  <2> SUFFICES ASSUME IInv, A, [Next]_vars, NEW j \in Ifaces PROVE Alive(Dhcp(j)')
    OBVIOUS
  <2>1. CASE Next
    <3>1. PICK i, e : i \in Ifaces /\ Steps(i, e)
      BY <2>1, EveryStep
    <3>2. Store(i, e) /\ e \in Iface /\ Alive(e)
      BY <3>1 DEF Steps, DhcpStep
    <3>3. CASE j = i
      BY <3>2, <3>3, Stored
    <3>4. CASE j # i
      <4>1. Dhcp(j)' = [Dhcp(j) EXCEPT !.ipv4ll_running = e.ipv4ll_running]
        BY <3>1, <3>2, <3>4, Stored
      <4>2. Dhcp(j)'.dhcp_client = Dhcp(j).dhcp_client /\ Dhcp(j)'.timeout = Dhcp(j).timeout
        BY <4>1 DEF Dhcp
      <4> QED BY <4>2 DEF Alive
    <3> QED BY <3>3, <3>4
  <2>2. CASE UNCHANGED vars
    BY <2>2 DEF vars, Dhcp
  <2> QED BY <2>1, <2>2
<1> HIDE DEF A
<1>3. Spec => []A
  BY <1>1, <1>2, Invariance, PTL DEF Spec
<1> QED BY <1>3 DEF A

LEMMA StayAttentive ==
  ASSUME WatchOk \subseteq {TRUE}
  PROVE  Spec => [](\A i \in Ifaces : Attentive(Dhcp(i)))
<1> DEFINE A == \A i \in Ifaces : Attentive(Dhcp(i))
<1>1. Init => A
  BY DEF Init, Attentive, Dhcp
<1>2. IInv /\ A /\ [Next]_vars => A'
  <2> SUFFICES ASSUME IInv, A, [Next]_vars, NEW j \in Ifaces PROVE Attentive(Dhcp(j)')
    OBVIOUS
  <2>1. CASE Next
    <3>1. PICK i, e : i \in Ifaces /\ Steps(i, e)
      BY <2>1, EveryStep
    <3>2. Store(i, e) /\ e \in Iface /\ Attentive(e)
      BY <3>1 DEF Steps, DhcpStep
    <3>3. CASE j = i
      BY <3>2, <3>3, Stored
    <3>4. CASE j # i
      <4>1. Dhcp(j)' = [Dhcp(j) EXCEPT !.ipv4ll_running = e.ipv4ll_running]
        BY <3>1, <3>2, <3>4, Stored
      <4>2. Dhcp(j)'.dhcp_client = Dhcp(j).dhcp_client
        BY <4>1 DEF Dhcp
      <4> QED BY <4>2 DEF Attentive
    <3> QED BY <3>3, <3>4
  <2>2. CASE UNCHANGED vars
    BY <2>2 DEF vars, Dhcp
  <2> QED BY <2>1, <2>2
<1> HIDE DEF A
<1>3. Spec => []A
  BY <1>1, <1>2, Invariance, PTL DEF Spec
<1> QED BY <1>3 DEF A

\* While every socket can be opened and none reports an error, a client that
\* waits for an answer has a live watch where its server will answer: on L2
\* before it has an address and when rebinding, on L3 when renewing
\* (switch_listening_mode and its callers).  After one error it may not: the
\* watch is gone and listen_mode says that the socket is open (listener_event).
THEOREM AnswersHeard ==
  ASSUME SocketOk \subseteq {TRUE}, WatchOk \subseteq {TRUE}
  PROVE  Spec => []ListensForAnswer
<1>1. ASSUME NEW i \in Ifaces, Alive(Dhcp(i)), Attentive(Dhcp(i)), dhcp_client[i] # NULL
      PROVE  Listens(dhcp_client[i]) /\ Watched(dhcp_client[i])
  BY <1>1 DEF Alive, Attentive, Dhcp
<1>2. /\ \A i \in Ifaces : Alive(Dhcp(i))
      /\ \A i \in Ifaces : Attentive(Dhcp(i))
      => ListensForAnswer
  BY <1>1 DEF ListensForAnswer, Listens, Watched
<1> QED BY <1>2, StayAlive, StayAttentive, PTL

\* While every socket can be opened no client is ever left without a timer
\* that will wake it, its own or dhcp.c's.
THEOREM SomethingWakesIt ==
  ASSUME SocketOk \subseteq {TRUE}
  PROVE  Spec => []NeverStuck
<1>1. (\A i \in Ifaces : Alive(Dhcp(i))) => NeverStuck
  BY DEF Alive, NeverStuck, Dhcp
<1> QED BY <1>1, StayAlive, PTL

\* With one interface, no leased address stays in use once DHCP has given up.
\* (With several, no_lease_cb returns early while another interface's IPv4LL
\* client runs.)
THEOREM GivingUpClears ==
  ASSUME \A i, j \in Ifaces : i = j
  PROVE  Spec => []NoLeaseCleared
<1> DEFINE C == \A i \in Ifaces : Cleared(Dhcp(i))
<1>1. Init => C
  BY DEF Init, Cleared, Dhcp
<1>2. IInv /\ C /\ [Next]_vars => C'
  <2> SUFFICES ASSUME IInv, C, [Next]_vars, NEW j \in Ifaces PROVE Cleared(Dhcp(j)')
    OBVIOUS
  <2>1. CASE Next
    <3>1. PICK i, e : i \in Ifaces /\ Steps(i, e)
      BY <2>1, EveryStep
    <3>2. Dhcp(i).ipv4ll_running => Dhcp(i).ipv4ll_client # NULL
      BY <3>1 DEF IInv, FlagOwned, Dhcp
    <3>3. Store(i, e) /\ e \in Iface /\ Cleared(e)
      BY <3>1, <3>2 DEF Steps, DhcpStep
    <3> QED BY <3>1, <3>3, Stored
  <2>2. CASE UNCHANGED vars
    BY <2>2 DEF vars, Dhcp
  <2> QED BY <2>1, <2>2
<1>3. C => NoLeaseCleared
  BY DEF Cleared, NoLeaseCleared, Dhcp
<1> HIDE DEF C
<1> QED BY <1>1, <1>2, <1>3, Invariance, PTL DEF Spec
=============================================================================
