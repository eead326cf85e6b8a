------------------------------ MODULE DnsProxy ------------------------------
(***************************************************************************)
(* The requests of the DNS proxy (src/dnsproxy.c): queries that clients     *)
(* send over UDP and TCP, the name servers they are forwarded to, the       *)
(* replies, and the timer that every waiting request owns.  A TCP query     *)
(* opens a connection to every enabled name server and is sent on each once *)
(* it is established, on the connections other queries opened too; a        *)
(* connection ends with its first reply.                                    *)
(*                                                                          *)
(* The cache is a lookup that hits or misses (see DnsCache) and the server  *)
(* list changes as its users please (see Resolver).  Message identifiers    *)
(* are taken as distinct.  A query is one member of UdpReqs or TcpReqs.     *)
(***************************************************************************)
EXTENDS Integers, Sequences, FiniteSets

CONSTANTS
    NULL,            \* the null pointer
    UdpReqs,         \* queries that arrive over UDP
    TcpReqs,         \* queries that arrive over TCP
    Servers,         \* name servers
    DomainServers,   \* those with a search domain
    MaxMsgs          \* bound: messages sent, and replies counted, per query

ASSUME ReqsDisjoint == UdpReqs \cap TcpReqs = {} /\ DomainServers \subseteq Servers
ASSUME BoundAssumption == MaxMsgs \in Nat /\ IsFiniteSet(Servers)

Reqs == UdpReqs \cup TcpReqs
Conns == Servers \X TcpReqs    \* TCP connections: the server, the query that opened it

VARIABLES
    asked,           \* history: the queries that were received
    listed,          \* request_list
    req,             \* struct request_data, NULL when it is not allocated
    timer,           \* requests whose request_timeout is armed
    udp,             \* UDP server_data of each server, NULL when not in server_list
    connecting,      \* TCP server_data not connected yet
    connected,       \* TCP server_data in server_list
    network,         \* requests under way to a server, or their replies back
    sent,            \* history: the responses sent to the client of each query
    best             \* history: the best a server said of each query: "found" (or
                     \* known not to exist), "error", NULL

requests == <<listed, req, timer>>
servers == <<udp, connecting, connected>>
vars == <<asked, requests, servers, network, sent, best>>

\* Replies: records found, none found, an error code; the last two are replies
\* to a name with an appended domain that cannot be cut back to the name asked
\* for: the records do not unpack, or the name is not in them.
Kinds == {"answer", "empty", "error", "mangled", "corrupt"}

ServerData == [enabled : BOOLEAN, channel : BOOLEAN]
RequestData == [numserv : Nat, numresp : Nat, append_domain : BOOLEAN,
                resp : {"answer", "empty", "error", NULL}]
ASSUME NullAssumption ==
    NULL \notin ServerData \cup RequestData
                  \cup {"found", "error", "answer", "empty", "cached", "servfail"}

NewRequest == [numserv |-> 0, numresp |-> 0, append_domain |-> FALSE, resp |-> NULL]
Messages == [to : Servers \cup Conns, req : Reqs, alt : BOOLEAN]

Live == {s \in Servers : udp[s] # NULL}
Enabled == {s \in Live : udp[s].enabled}
ServerListEmpty == Live = {} /\ connected = {}

\* The responses that go out in one step: a function from requests to kinds.
Sends(out) ==
    sent' = [r \in Reqs |-> IF r \in DOMAIN out THEN Append(sent[r], out[r]) ELSE sent[r]]

\* (Fault: the timer of a freed request keeps running.)
destroy_request_keeping_timer(R) ==
    /\ listed' = listed \ R
    /\ req' = [r \in Reqs |-> IF r \in R THEN NULL ELSE req[r]]
    /\ UNCHANGED timer

\* The requests R leave request_list and are freed: destroy_request_data.
destroy_request_data(R) ==
    /\ listed' = listed \ R
    /\ req' = [r \in Reqs |-> IF r \in R THEN NULL ELSE req[r]]
    /\ timer' = timer \ R

-----------------------------------------------------------------------------
(***************************************************************************)
(* Sending a request to a server: ns_resolv without a cache hit.  A request *)
(* for a short name goes out again with each search domain of the server.   *)
(***************************************************************************)
Domain(to) == (IF to \in Servers THEN to ELSE to[1]) \in DomainServers

\* The messages of r to a server; a TCP request that is sent to a UDP server
\* arrives as garbage, which no reply ever answers.
Sent(r, to, short) ==
    IF r \in TcpReqs /\ to \in Servers THEN {}
    ELSE {[to |-> to, req |-> r, alt |-> alt] : alt \in {FALSE, short /\ Domain(to)}}

\* The request after it went to the servers in T.
ns_resolv(data, T, short) ==
    LET D == {to \in T : short /\ Domain(to)}
    IN  [data EXCEPT !.numserv = @ + Cardinality(T) + Cardinality(D),
                     !.append_domain = @ \/ D # {}]

Dropped(to) == {m \in network : m.to = to}

-----------------------------------------------------------------------------
(***************************************************************************)
(* Queries.                                                                 *)
(***************************************************************************)
\* The query cannot be parsed or there is no server: send_response, which leaves
\* a query that is too short for a header unanswered.
Refused(r) ==
    /\ asked' = asked \cup {r}
    /\ Sends([q \in {r} |-> "servfail"]) \/ UNCHANGED sent
    /\ UNCHANGED <<requests, servers, network, best>>

\* The cache holds an answer: send_cached_response.
Cached(r) ==
    /\ asked' = asked \cup {r}
    /\ Sends([q \in {r} |-> "cached"])
    /\ UNCHANGED <<requests, connecting, connected, network, best>>

\* udp_listener_event: sockets are reopened where they are missing, unless that
\* fails (the servers closed), and sending may fail.  The request waits even
\* when it could not be sent to anybody.
UdpQuery(r) ==
    /\ r \in UdpReqs \ asked
    /\ \/ Refused(r)
       \/ /\ ~ServerListEmpty
          /\ \E closed \in SUBSET {s \in Enabled : ~udp[s].channel} :
             LET ready == Enabled \ closed
             IN  /\ udp' = [s \in Servers |->
                        IF s \in ready THEN [udp[s] EXCEPT !.channel = TRUE] ELSE udp[s]]
                 /\ \/ ready # {} /\ Cached(r)
                    \/ \E T \in SUBSET ready, short \in BOOLEAN :
                         /\ asked' = asked \cup {r} /\ listed' = listed \cup {r}
                         /\ req' = [req EXCEPT ![r] = ns_resolv(NewRequest, T, short)]
                         /\ timer' = timer \cup {r}
                         /\ network' = network \cup UNION {Sent(r, s, short) : s \in T}
                         /\ UNCHANGED <<connecting, connected, sent, best>>

\* read_tcp_data: a connection to every enabled server, where one can be opened.
TcpQuery(r) ==
    /\ r \in TcpReqs \ asked
    /\ \/ Refused(r)
       \/ ~ServerListEmpty /\ Cached(r) /\ UNCHANGED udp
       \/ /\ ~ServerListEmpty
          /\ \E T \in SUBSET Enabled \ {{}} :
               /\ connecting' = connecting \cup {<<s, r>> : s \in T}
               /\ asked' = asked \cup {r} /\ listed' = listed \cup {r}
               /\ req' = [req EXCEPT ![r] = NewRequest] /\ timer' = timer \cup {r}
               /\ UNCHANGED <<udp, connected, network, sent, best>>

-----------------------------------------------------------------------------
(***************************************************************************)
(* Replies.                                                                 *)
(***************************************************************************)
Better(old, kind) ==
    IF kind \in {"answer", "empty"} THEN "found"
    ELSE IF kind = "error" /\ old = NULL THEN "error" ELSE old

\* (Fault: every reply replaces the one that is kept.)
kept_reply_overwritten(data, kind) ==
    IF kind \in {"answer", "empty", "error"} THEN kind ELSE data.resp

\* The reply that is kept: an error never replaces anything else.
kept_reply(data, kind) ==
    IF kind \in {"answer", "empty"} \/ (kind = "error" /\ data.resp = NULL)
    THEN kind ELSE data.resp

\* (Fault: the request stays in the list after its reply was forwarded.)
forward_dns_reply_listed(r, kind) ==
    /\ best' = [best EXCEPT ![r] = Better(@, kind)]
    /\ req' = [req EXCEPT ![r].numresp = @ + 1, ![r].resp = kept_reply(req[r], kind)]
    /\ Sends([q \in {r} |-> kind])
    /\ UNCHANGED <<listed, timer>>

\* forward_dns_reply, for a request that is still listed.
forward_dns_reply(r, kind) ==
    LET data == [req[r] EXCEPT !.numresp = @ + 1, !.resp = kept_reply(req[r], kind)]
        waits == data.numresp < data.numserv /\
                   (kind = "error" \/ (kind = "empty" /\ data.append_domain))
    IN  /\ best' = [best EXCEPT ![r] = Better(@, kind)]
        /\ \/ /\ kind = "corrupt" \/ waits
              /\ req' = [req EXCEPT ![r] = data]
              /\ UNCHANGED <<listed, timer, sent>>
           \/ /\ kind # "corrupt" /\ ~waits
              /\ destroy_request_data({r})
              /\ Sends([q \in {r} |-> data.resp])

\* The reply to m arrives.
Forwarded(m, kind) ==
    \/ /\ m.req \in listed
       /\ req[m.req].numresp < MaxMsgs
       /\ kind \in {"mangled", "corrupt"} => m.alt
       /\ forward_dns_reply(m.req, kind)
    \/ /\ m.req \notin listed
       /\ UNCHANGED <<requests, sent, best>>

\* udp_server_event with a reply, which the network may deliver again.
UdpReply(m, kind) ==
    /\ m \in network /\ m.to \in Servers
    /\ Forwarded(m, kind)
    /\ network' \in {network, network \ {m}}
    /\ UNCHANGED <<asked, servers>>

\* udp_server_event with an error: the socket is closed, the server stays.
UdpServerError(s) ==
    /\ s \in Live /\ udp[s].channel
    /\ udp' = [udp EXCEPT ![s].channel = FALSE]
    /\ network' = network \ Dropped(s)
    /\ UNCHANGED <<asked, requests, connecting, connected, sent, best>>

\* tcp_server_event with a reply: the connection is closed after it, whoever
\* else is waiting on it.
TcpReply(m, kind) ==
    /\ m \in network /\ m.to \in connected
    /\ Forwarded(m, kind)
    /\ connected' = connected \ {m.to} /\ network' = network \ Dropped(m.to)
    /\ UNCHANGED <<asked, udp, connecting>>

\* The reply breaks off or matches no request.
TcpNoise(c) ==
    /\ c \in connected
    /\ connected' = connected \ {c} /\ network' = network \ Dropped(c)
    /\ UNCHANGED <<asked, requests, udp, connecting, sent, best>>

-----------------------------------------------------------------------------
(***************************************************************************)
(* TCP connections.                                                         *)
(***************************************************************************)
\* tcp_server_event on a connection that is established: the waiting TCP
\* requests are answered from the cache (H), sent (T) with a fresh timer, or
\* left as they are; without a request to send the connection is given up.
TcpConnected(c, short) ==
    /\ c \in connecting
    /\ connecting' = connecting \ {c}
    /\ \E H \in SUBSET (listed \cap TcpReqs) :
       \E T \in SUBSET ((listed \cap TcpReqs) \ H) :
         /\ \A r \in T : req[r].numserv < MaxMsgs
         /\ connected' = IF T = {} THEN connected ELSE connected \cup {c}
         /\ network' = network \cup UNION {Sent(r, c, short) : r \in T}
         /\ listed' = listed \ H
         /\ req' = [r \in Reqs |-> IF r \in H THEN NULL ELSE
                      IF r \in T THEN ns_resolv(req[r], {c}, short) ELSE req[r]]
         /\ timer' = (timer \ H) \cup T
         /\ Sends([r \in H |-> "cached"])
    /\ UNCHANGED <<asked, udp, best>>

\* (Fault: a request that was not sent yet is counted down too.)
hangup_unguarded(c) ==
    LET failed == {r \in listed \cap TcpReqs : req[r].numserv = 1}
    IN  /\ listed' = listed \ failed
        /\ req' = [r \in Reqs |-> IF r \in listed \cap TcpReqs
                     THEN [req[r] EXCEPT !.numserv = @ - 1] ELSE req[r]]
        /\ Sends([r \in failed |-> "servfail"])
        /\ UNCHANGED timer

\* tcp_server_event on a connection that fails or is closed: every waiting TCP
\* request counts one server less and fails when none is left.  A failed
\* request leaves the list but is not freed: its timer still runs.
hangup(c) ==
    LET failed == {r \in listed \cap TcpReqs : req[r].numserv <= 1}
    IN  /\ listed' = listed \ failed
        /\ req' = [r \in Reqs |-> IF r \in listed \cap TcpReqs
                     THEN [req[r] EXCEPT !.numserv = IF @ = 0 THEN 0 ELSE @ - 1] ELSE req[r]]
        /\ Sends([r \in failed |-> "servfail"])
        /\ UNCHANGED timer

TcpHangup(c) ==
    /\ c \in connecting \cup connected
    /\ hangup(c)
    /\ connecting' = connecting \ {c} /\ connected' = connected \ {c}
    /\ network' = network \ Dropped(c)
    /\ UNCHANGED <<asked, udp, best>>

\* tcp_idle_timeout, which only runs until the connection is established.
TcpIdle(c) ==
    /\ c \in connecting
    /\ connecting' = connecting \ {c}
    /\ UNCHANGED <<asked, requests, udp, connected, network, sent, best>>

-----------------------------------------------------------------------------
(***************************************************************************)
(* The request timer, the server list and the listeners.                    *)
(***************************************************************************)
\* request_timeout: the best reply so far, or an error.
RequestTimeout(r) ==
    /\ r \in timer
    /\ Sends([q \in {r} |-> IF req[r].resp # NULL THEN req[r].resp ELSE "servfail"])
    /\ destroy_request_data({r})
    /\ UNCHANGED <<asked, servers, network, best>>

\* (Fault: a request that cannot be sent stays, with its timer stopped.)
AppendServer_kept(s, enabled, short) ==
    /\ udp[s] = NULL
    /\ udp' = [udp EXCEPT ![s] = [enabled |-> enabled, channel |-> TRUE]]
    /\ timer' = timer \ listed
    /\ UNCHANGED <<asked, listed, req, connecting, connected, network, sent, best>>

\* __connman_dnsproxy_append creates the server and flush_requests sends it the
\* waiting requests: all those that could be sent (T) get a fresh timer, those
\* the cache answers (H) and those that cannot be sent are released.
AppendServer(s, enabled, short) ==
    /\ udp[s] = NULL
    /\ \A r \in listed : req[r].numserv < MaxMsgs
    /\ udp' = [udp EXCEPT ![s] = [enabled |-> enabled, channel |-> TRUE]]
    /\ \E H \in SUBSET listed : \E T \in SUBSET (listed \ H) :
         /\ network' = network \cup UNION {Sent(r, s, short) : r \in T}
         /\ listed' = T
         /\ req' = [r \in Reqs |-> IF r \in listed \ T THEN NULL ELSE
                      IF r \in T THEN ns_resolv(req[r], {s}, short) ELSE req[r]]
         /\ timer' = (timer \ listed) \cup T
         /\ Sends([r \in H |-> "cached"])
    /\ UNCHANGED <<asked, connecting, connected, best>>

\* __connman_dnsproxy_remove takes the UDP server and one established connection.
RemoveServer(s) ==
    /\ s \in Live
    /\ udp' = [udp EXCEPT ![s] = NULL]
    /\ LET mine == {c \in connected : c[1] = s}
       IN  \E gone \in IF mine = {} THEN {{}} ELSE {{c} : c \in mine} :
             /\ connected' = connected \ gone
             /\ network' = network \ (Dropped(s) \cup UNION {Dropped(c) : c \in gone})
    /\ UNCHANGED <<asked, requests, connecting, sent, best>>

\* dnsproxy_default_changed, dnsproxy_offline_mode and enable_fallback.
EnableServers(E) ==
    /\ E \subseteq Live /\ E # Enabled
    /\ udp' = [s \in Servers |-> IF s \in Live THEN [udp[s] EXCEPT !.enabled = s \in E]
                                               ELSE udp[s]]
    /\ UNCHANGED <<asked, requests, connecting, connected, network, sent, best>>

\* destroy_listener: the requests of every listener are dropped.
RemoveListener ==
    /\ listed # {}
    /\ destroy_request_data(listed)
    /\ UNCHANGED <<asked, servers, network, sent, best>>

-----------------------------------------------------------------------------
Init ==
    /\ asked = {} /\ listed = {} /\ timer = {} /\ network = {}
    /\ req = [r \in Reqs |-> NULL] /\ udp = [s \in Servers |-> NULL]
    /\ connecting = {} /\ connected = {}
    /\ sent = [r \in Reqs |-> <<>>] /\ best = [r \in Reqs |-> NULL]

Next ==
    \/ \E r \in Reqs : UdpQuery(r) \/ TcpQuery(r) \/ RequestTimeout(r)
    \/ \E m \in network, kind \in Kinds : UdpReply(m, kind) \/ TcpReply(m, kind)
    \/ \E s \in Servers : UdpServerError(s) \/ RemoveServer(s)
    \/ \E s \in Servers, enabled \in BOOLEAN : \E short \in {FALSE, Domain(s)} :
           AppendServer(s, enabled, short)
    \/ \E c \in Conns : TcpNoise(c) \/ TcpHangup(c) \/ TcpIdle(c)
    \/ \E c \in Conns : \E short \in {FALSE, Domain(c)} : TcpConnected(c, short)
    \/ \E E \in SUBSET Servers : EnableServers(E)
    \/ RemoveListener

\* The main loop runs the timers that are due.  A timer that is armed anew, when a
\* server connects (TcpConnected) or is added (AppendServer), is due later: that
\* no request is sent anew for ever, which would put its timer off for ever, is
\* the environment's part, here MaxMsgs.
Fairness == \A r \in Reqs : WF_vars(RequestTimeout(r))

Spec == Init /\ [][Next]_vars /\ Fairness

-----------------------------------------------------------------------------
(***************************************************************************)
(* Properties.                                                              *)
(***************************************************************************)
\* Counters are naturals, lists hold allocated objects, and messages travel only
\* on sockets that are open.
TypeOK ==
    /\ asked \subseteq Reqs /\ listed \subseteq asked
    /\ req \in [Reqs -> RequestData \cup {NULL}]
    /\ timer \subseteq asked
    /\ udp \in [Servers -> ServerData \cup {NULL}]
    /\ connecting \subseteq Conns /\ connected \subseteq Conns \ connecting
    /\ network \subseteq Messages /\ best \in [Reqs -> {"found", "error", NULL}]
    /\ \A m \in network : m.to \in connected \/ (m.to \in Live /\ udp[m.to].channel)

\* A request is allocated exactly as long as its timer is armed, so a timer never
\* fires on freed memory, and a listed request always has one: replies, hangups,
\* flushes and listeners that go away all keep to that.
TimersOwned ==
    /\ timer = {r \in Reqs : req[r] # NULL}
    /\ listed \subseteq timer

\* A query gets one response, whatever the order of replies, duplicates, cache
\* hits and timeouts; only a TCP query that failed because a connection was
\* closed gets a second one, when its timer, which was left running, fires.
AnsweredOnce ==
    \A r \in Reqs : \/ Len(sent[r]) <= 1
                    \/ r \in TcpReqs /\ Len(sent[r]) = 2 /\ Head(sent[r]) = "servfail"

\* No reply that was kept is lost.  A server's error is passed on only if no
\* server had an answer, an empty message only if no reply unpacked, and once the
\* request is freed its last response is an error of the proxy's own only if no
\* reply unpacked: a TCP query that a closed connection failed still gets what
\* was kept, as a second response, from its timer (forward_dns_reply,
\* request_timeout).
BestReplyForwarded ==
    \A r \in Reqs : \A i \in DOMAIN sent[r] :
        /\ sent[r][i] = "error" => best[r] = "error"
        /\ sent[r][i] = NULL => best[r] = NULL
        /\ sent[r][i] = "servfail" /\ i = Len(sent[r]) /\ r \notin timer => best[r] = NULL

\* What the comment in request_timeout says: after "at least one reply" the proxy
\* sends "that back to client instead of more fatal server failed error".
KeptBeforeServfail ==
    \A r \in Reqs : \A i \in DOMAIN sent[r] : sent[r][i] = "servfail" => best[r] = NULL

Phase(r) == IF r \notin asked THEN "idle"
            ELSE IF r \in listed THEN "pending"
            ELSE IF sent[r] # <<>> THEN "answered" ELSE "dropped"

Service == INSTANCE DnsService WITH phase <- [r \in Reqs |-> Phase(r)]

\* The proxy implements DnsService: every query it takes is settled exactly once,
\* and thanks to the timers eventually.
ServiceSpec == Service!Spec

\* What the comment in tcp_server_event says: a closed connection fails a request
\* only "if we're not waiting for any further response from another name
\* server".
NoEarlyFailure ==
    [][ \A c \in Conns, r \in listed :
          (TcpHangup(c) /\ r \notin listed') => \A m \in network' : m.req # r ]_vars
=============================================================================
