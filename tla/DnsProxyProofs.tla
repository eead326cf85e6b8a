--------------------------- MODULE DnsProxyProofs ---------------------------
(***************************************************************************)
(* Proofs about DnsProxy, for any queries and any finite set of servers,    *)
(* however many messages a query takes, and that it implements the safety   *)
(* part of DnsService.                                                      *)
(***************************************************************************)
EXTENDS DnsProxy, FiniteSetTheorems, TLAPS

Responses == {"servfail", "cached", "answer", "empty", "error", NULL}

\* What the servers have said of a query, as far as the kept reply tells.
Said(resp) == IF resp = NULL THEN NULL ELSE IF resp = "error" THEN "error" ELSE "found"

-----------------------------------------------------------------------------
(***************************************************************************)
(* The inductive invariant: one part about each query, one about sockets    *)
(* and messages.                                                            *)
(***************************************************************************)
\* A query has sent nothing while it waits; if it left the list with its timer
\* running it is a TCP query that failed; and the reply it keeps is the best
\* there was.
Consistent(r) ==
    /\ sent[r] \in Seq(Responses)
    /\ r \in timer <=> req[r] # NULL
    /\ r \in listed => r \in timer /\ sent[r] = <<>>
    /\ r \notin asked => sent[r] = <<>> /\ best[r] = NULL
    /\ r \in timer /\ r \notin listed => r \in TcpReqs /\ sent[r] = <<"servfail">>
    /\ r \in timer => best[r] = Said(req[r].resp)

Responded(r) ==
    /\ \/ Len(sent[r]) <= 1
       \/ r \in TcpReqs /\ Len(sent[r]) = 2 /\ Head(sent[r]) = "servfail"
    /\ \A i \in DOMAIN sent[r] :
         /\ sent[r][i] = "error" => best[r] = "error"
         /\ sent[r][i] = NULL => best[r] = NULL
         /\ sent[r][i] = "servfail" /\ i = Len(sent[r]) /\ r \notin timer => best[r] = NULL

RequestsOK ==
    /\ asked \subseteq Reqs /\ listed \subseteq asked /\ timer \subseteq asked
    /\ req \in [Reqs -> RequestData \cup {NULL}]
    /\ best \in [Reqs -> {"found", "error", NULL}]
    /\ \A r \in Reqs : Consistent(r) /\ Responded(r)

\* Messages travel only on open sockets, and a connection was opened for a query
\* that was received.
ServersOK ==
    /\ udp \in [Servers -> ServerData \cup {NULL}]
    /\ connecting \subseteq Conns /\ connected \subseteq Conns
    /\ connecting \cap connected = {}
    /\ \A c \in connecting \cup connected : c[2] \in asked
    /\ network \subseteq Messages
    /\ \A m \in network : m.to \in connected \/ (m.to \in Live /\ udp[m.to].channel)

IInv == RequestsOK /\ ServersOK

\* The invariant contains what the runs check.
LEMMA IInvImplies == IInv => TypeOK /\ TimersOwned /\ AnsweredOnce /\ BestReplyForwarded
<1> SUFFICES ASSUME IInv PROVE TypeOK /\ TimersOwned /\ AnsweredOnce /\ BestReplyForwarded
  OBVIOUS
<1>1. TypeOK
  BY DEF IInv, RequestsOK, ServersOK, TypeOK
<1>2. TimersOwned
  BY DEF IInv, RequestsOK, Consistent, TimersOwned
<1>3. AnsweredOnce /\ BestReplyForwarded
  BY DEF IInv, RequestsOK, Responded, AnsweredOnce, BestReplyForwarded
<1> QED BY <1>1, <1>2, <1>3

-----------------------------------------------------------------------------
(***************************************************************************)
(* Lemmas on single queries.                                                *)
(***************************************************************************)
\* Nothing about the query r has changed.
Same(r) ==
    /\ r \in asked' <=> r \in asked
    /\ r \in listed' <=> r \in listed
    /\ r \in timer' <=> r \in timer
    /\ req'[r] = req[r] /\ sent'[r] = sent[r] /\ best'[r] = best[r]

LEMMA SameKeeps ==
  ASSUME NEW r, Consistent(r), Responded(r), Same(r)
  PROVE  Consistent(r)' /\ Responded(r)'
BY DEF Consistent, Responded, Same

LEMMA RequestsSame ==
  ASSUME RequestsOK, UNCHANGED <<asked, requests, sent, best>>
  PROVE  RequestsOK'
BY DEF RequestsOK, Consistent, Responded, requests

\* The first response to a query, x, keeps to what the servers said.
LEMMA FirstResponse ==
  ASSUME NEW r, NEW x \in Responses, sent[r] = <<>>, sent'[r] = Append(sent[r], x),
         x = "error" => best'[r] = "error",
         x = "servfail" /\ r \notin timer' => best'[r] = NULL,
         x = NULL => best'[r] = NULL
  PROVE  Responded(r)' /\ sent'[r] = <<x>> /\ sent'[r] \in Seq(Responses)
<1>1. sent'[r] = <<x>>
  OBVIOUS
<1>2. /\ Len(sent'[r]) = 1 /\ DOMAIN sent'[r] = {1} /\ sent'[r][1] = x
      /\ sent'[r] \in Seq(Responses)
  BY <1>1
<1> QED BY <1>1, <1>2 DEF Responded

\* Nothing was sent yet.
LEMMA NoResponse ==
  ASSUME NEW r, sent'[r] = <<>>
  PROVE  Responded(r)' /\ sent'[r] \in Seq(Responses)
<1>1. Len(sent'[r]) = 0 /\ DOMAIN sent'[r] = {} /\ sent'[r] \in Seq(Responses)
  OBVIOUS
<1> QED BY <1>1 DEF Responded

LEMMA Sending ==
  ASSUME NEW out, Sends(out), NEW r \in Reqs
  PROVE  /\ r \in DOMAIN out => sent'[r] = Append(sent[r], out[r])
         /\ r \notin DOMAIN out => sent'[r] = sent[r]
BY DEF Sends

\* A request that is sent to more servers keeps its reply.
LEMMA NsResolv ==
  ASSUME NEW data \in RequestData, NEW T, IsFiniteSet(T), NEW short
  PROVE  /\ ns_resolv(data, T, short) \in RequestData
         /\ ns_resolv(data, T, short).resp = data.resp
<1> DEFINE D == {to \in T : short /\ Domain(to)}
<1>1. Cardinality(T) \in Nat /\ Cardinality(D) \in Nat
  <2>1. IsFiniteSet(D)
    BY FS_Subset, D \in SUBSET T
  <2> QED BY <2>1, FS_CardinalityType
<1> DEFINE n == data.numserv + Cardinality(T) + Cardinality(D)
           appended == data.append_domain \/ D # {}
<1>2. ns_resolv(data, T, short) = [data EXCEPT !.numserv = n, !.append_domain = appended]
  BY DEF ns_resolv
<1>3. n \in Nat
  BY <1>1 DEF RequestData
<1>4. appended \in BOOLEAN
  BY Zenon
<1> HIDE DEF n, appended
<1> QED BY <1>2, <1>3, <1>4 DEF RequestData

LEMMA NotNull == \A data \in RequestData : data # NULL
BY NullAssumption

-----------------------------------------------------------------------------
(***************************************************************************)
(* Queries.                                                                 *)
(***************************************************************************)
\* A new query is answered at once.
LEMMA AnsweredAtOnce ==
  ASSUME RequestsOK, NEW r \in Reqs \ asked, NEW x \in {"servfail", "cached"},
         asked' = asked \cup {r}, Sends([q \in {r} |-> x]), UNCHANGED <<requests, best>>
  PROVE  RequestsOK'
<1>1. /\ listed' = listed /\ req' = req /\ timer' = timer /\ best' = best
  BY DEF requests
<1>2. ASSUME NEW q \in Reqs, q # r
      PROVE  Consistent(q)' /\ Responded(q)'
  <2>1. Same(q)
    BY <1>1, <1>2, Sending DEF Same
  <2> QED BY <2>1, SameKeeps DEF RequestsOK
<1>3. Consistent(r)' /\ Responded(r)'
  <2>1. r \notin listed /\ r \notin timer /\ req[r] = NULL /\ sent[r] = <<>> /\ best[r] = NULL
    BY DEF RequestsOK, Consistent
  <2>2. sent'[r] = Append(sent[r], x)
    BY Sending
  <2>3. Responded(r)' /\ sent'[r] \in Seq(Responses)
    BY <1>1, <2>1, <2>2, x # "error", x # NULL \/ best'[r] = NULL, FirstResponse DEF Responses
  <2> QED BY <1>1, <2>1, <2>3 DEF Consistent
<1> QED BY <1>1, <1>2, <1>3 DEF RequestsOK

\* A new query is too short to be answered.
LEMMA LeftUnanswered ==
  ASSUME RequestsOK, NEW r \in Reqs \ asked,
         asked' = asked \cup {r}, UNCHANGED <<requests, sent, best>>
  PROVE  RequestsOK'
<1>1. /\ listed' = listed /\ req' = req /\ timer' = timer /\ best' = best /\ sent' = sent
  BY DEF requests
<1>2. ASSUME NEW q \in Reqs
      PROVE  Consistent(q)' /\ Responded(q)'
  <2>1. Consistent(q) /\ Responded(q)
    BY DEF RequestsOK
  <2> QED BY <1>1, <2>1 DEF Consistent, Responded
<1> QED BY <1>1, <1>2 DEF RequestsOK

LEMMA RefusedStep ==
  ASSUME RequestsOK, NEW r \in Reqs \ asked, Refused(r)
  PROVE  RequestsOK'
<1>1. asked' = asked \cup {r} /\ UNCHANGED <<requests, best>>
  BY DEF Refused
<1>2. CASE Sends([q \in {r} |-> "servfail"])
  BY <1>1, <1>2, AnsweredAtOnce
<1>3. CASE UNCHANGED sent
  BY <1>1, <1>3, LeftUnanswered
<1> QED BY <1>2, <1>3 DEF Refused

\* A new query waits, with a timer.
LEMMA StartsWaiting ==
  ASSUME RequestsOK, NEW r \in Reqs \ asked, NEW data \in RequestData, data.resp = NULL,
         asked' = asked \cup {r}, listed' = listed \cup {r}, timer' = timer \cup {r},
         req' = [req EXCEPT ![r] = data], UNCHANGED <<sent, best>>
  PROVE  RequestsOK'
<1>1. ASSUME NEW q \in Reqs, q # r
      PROVE  Consistent(q)' /\ Responded(q)'
  <2>1. Same(q)
    BY <1>1 DEF Same, RequestsOK
  <2> QED BY <2>1, SameKeeps DEF RequestsOK
<1>2. Consistent(r)' /\ Responded(r)'
  <2>1. sent[r] = <<>> /\ best[r] = NULL
    BY DEF RequestsOK, Consistent
  <2>2. Responded(r)' /\ sent'[r] \in Seq(Responses)
    BY <2>1, NoResponse
  <2>3. req'[r] = data
    BY DEF RequestsOK
  <2> QED BY <2>1, <2>2, <2>3, NotNull DEF Consistent, Said
<1>3. req' \in [Reqs -> RequestData \cup {NULL}]
  BY DEF RequestsOK
<1> QED BY <1>1, <1>2, <1>3 DEF RequestsOK

\* Messages of r on open sockets.
LEMMA SentMessages ==
  ASSUME NEW r \in Reqs, NEW to \in Servers \cup Conns, NEW short \in BOOLEAN,
         NEW m \in Sent(r, to, short)
  PROVE  m \in Messages /\ m.to = to
<1>1. PICK alt \in {FALSE, short /\ Domain(to)} : m = [to |-> to, req |-> r, alt |-> alt]
  BY DEF Sent
<1>2. alt \in BOOLEAN
  BY <1>1, Zenon
<1> QED BY <1>1, <1>2 DEF Messages

LEMMA NewRequestOK == NewRequest \in RequestData /\ NewRequest.resp = NULL
BY DEF NewRequest, RequestData

\* The servers do not change while a query is received.
LEMMA AskedGrows ==
  ASSUME ServersOK, UNCHANGED <<servers, network>>, asked \subseteq asked'
  PROVE  ServersOK'
BY DEF ServersOK, servers, Live

LEMMA UdpQueryStep ==
  ASSUME IInv, NEW r \in Reqs, UdpQuery(r)
  PROVE  IInv'
<1>1. r \in Reqs \ asked
  BY DEF UdpQuery
<1>2. CASE Refused(r)
  <2>1. RequestsOK'
    BY <1>1, <1>2, RefusedStep DEF IInv
  <2>2. ServersOK'
    BY <1>2, AskedGrows DEF IInv, Refused
  <2> QED BY <2>1, <2>2 DEF IInv
<1>3. ASSUME NEW closed \in SUBSET {s \in Enabled : ~udp[s].channel},
             udp' = [s \in Servers |-> IF s \in Enabled \ closed
                                      THEN [udp[s] EXCEPT !.channel = TRUE] ELSE udp[s]]
      PROVE  /\ udp' \in [Servers -> ServerData \cup {NULL}]
             /\ \A s \in Enabled \ closed : udp'[s] # NULL /\ udp'[s].channel
             /\ \A s \in Live : udp[s].channel => udp'[s] # NULL /\ udp'[s].channel
  <2>1. ASSUME NEW s \in Servers
        PROVE  /\ udp'[s] \in ServerData \cup {NULL}
               /\ s \in Enabled \ closed => udp'[s] # NULL /\ udp'[s].channel
               /\ s \in Live /\ udp[s].channel => udp'[s] # NULL /\ udp'[s].channel
    <3>1. CASE s \in Enabled \ closed
      <4>1. udp[s] \in ServerData
        BY <3>1 DEF Enabled, Live, IInv, ServersOK
      <4>2. udp'[s] = [udp[s] EXCEPT !.channel = TRUE]
        BY <1>3, <3>1
      <4>3. udp'[s] \in ServerData /\ udp'[s].channel = TRUE
        BY <4>1, <4>2 DEF ServerData
      <4> QED BY <4>3, NullAssumption
    <3>2. CASE s \notin Enabled \ closed
      <4>1. udp'[s] = udp[s]
        BY <1>3, <3>2
      <4> QED BY <4>1, <3>2 DEF Live, IInv, ServersOK
    <3> QED BY <3>1, <3>2
  <2>2. udp' \in [Servers -> ServerData \cup {NULL}]
    BY <1>3, <2>1
  <2> QED BY <2>1, <2>2 DEF Enabled, Live
<1>4. ASSUME NEW closed \in SUBSET {s \in Enabled : ~udp[s].channel},
             udp' = [s \in Servers |-> IF s \in Enabled \ closed
                                      THEN [udp[s] EXCEPT !.channel = TRUE] ELSE udp[s]],
             Cached(r)
      PROVE  IInv'
  <2>1. RequestsOK'
    BY <1>1, <1>4, AnsweredAtOnce DEF IInv, Cached
  <2>2. ServersOK'
    BY <1>3, <1>4 DEF IInv, ServersOK, Live, Cached
  <2> QED BY <2>1, <2>2 DEF IInv
<1>5. ASSUME NEW closed \in SUBSET {s \in Enabled : ~udp[s].channel},
             udp' = [s \in Servers |-> IF s \in Enabled \ closed
                                      THEN [udp[s] EXCEPT !.channel = TRUE] ELSE udp[s]],
             NEW T \in SUBSET (Enabled \ closed), NEW short \in BOOLEAN,
             asked' = asked \cup {r}, listed' = listed \cup {r},
             req' = [req EXCEPT ![r] = ns_resolv(NewRequest, T, short)],
             timer' = timer \cup {r},
             network' = network \cup UNION {Sent(r, s, short) : s \in T},
             UNCHANGED <<connecting, connected, sent, best>>
      PROVE  IInv'
  <2>1. T \subseteq Servers /\ IsFiniteSet(T)
    BY BoundAssumption, FS_Subset DEF Enabled, Live
  <2>2. RequestsOK'
    BY <1>1, <1>5, <2>1, NsResolv, NewRequestOK, StartsWaiting DEF IInv
  <2>3. \A m \in network' \ network : m \in Messages /\ m.to \in T
    BY <1>5, <2>1, SentMessages
  <2>4. ServersOK'
    <3>1. \A m \in network' : m.to \in connected' \/ (m.to \in Live' /\ udp'[m.to].channel)
      BY <1>3, <1>5, <2>1, <2>3 DEF IInv, ServersOK, Live
    <3>2. network' \subseteq Messages
      BY <2>3 DEF IInv, ServersOK
    <3> QED BY <3>1, <3>2, <1>3, <1>5 DEF IInv, ServersOK
  <2> QED BY <2>2, <2>4 DEF IInv
<1> QED BY <1>2, <1>4, <1>5 DEF UdpQuery

LEMMA TcpQueryStep ==
  ASSUME IInv, NEW r \in Reqs, TcpQuery(r)
  PROVE  IInv'
<1>1. r \in Reqs \ asked /\ r \in TcpReqs
  BY DEF TcpQuery, Reqs
<1>2. CASE Refused(r) \/ (Cached(r) /\ UNCHANGED udp)
  <2>1. RequestsOK'
    BY <1>1, <1>2, RefusedStep, AnsweredAtOnce DEF IInv, Cached
  <2>2. ServersOK'
    BY <1>2, AskedGrows DEF IInv, Refused, Cached, servers
  <2> QED BY <2>1, <2>2 DEF IInv
<1>3. ASSUME NEW T \in SUBSET Enabled,
             connecting' = connecting \cup {<<s, r>> : s \in T},
             asked' = asked \cup {r}, listed' = listed \cup {r},
             req' = [req EXCEPT ![r] = NewRequest], timer' = timer \cup {r},
             UNCHANGED <<udp, connected, network, sent, best>>
      PROVE  IInv'
  <2>1. RequestsOK'
    BY <1>1, <1>3, NewRequestOK, StartsWaiting DEF IInv
  <2>2. \A c \in connecting' \ connecting : c \in Conns /\ c[2] = r
    BY <1>1, <1>3 DEF Conns, Enabled, Live
  <2>3. connecting' \cap connected' = {}
    BY <1>1, <1>3, <2>2 DEF IInv, ServersOK
  <2>4. ServersOK'
    BY <1>3, <2>2, <2>3 DEF IInv, ServersOK, Live
  <2> QED BY <2>1, <2>4 DEF IInv
<1> QED BY <1>2, <1>3 DEF TcpQuery

-----------------------------------------------------------------------------
(***************************************************************************)
(* Replies.                                                                 *)
(***************************************************************************)
\* The kept reply follows the best one.
LEMMA KeptIsBest ==
  ASSUME NEW data \in RequestData, NEW kind \in Kinds
  PROVE  /\ kept_reply(data, kind) \in {"answer", "empty", "error", NULL}
         /\ Said(kept_reply(data, kind)) = Better(Said(data.resp), kind)
BY NullAssumption DEF Kinds, RequestData, kept_reply, Said, Better

LEMMA ForwardStep ==
  ASSUME RequestsOK, NEW r \in listed, NEW kind \in Kinds, forward_dns_reply(r, kind),
         UNCHANGED asked
  PROVE  RequestsOK'
<1> DEFINE resp == kept_reply(req[r], kind)
           data == [req[r] EXCEPT !.numresp = @ + 1, !.resp = resp]
<1>1. /\ r \in Reqs /\ r \in timer /\ r \in asked /\ req[r] \in RequestData
      /\ sent[r] = <<>> /\ best[r] = Said(req[r].resp)
  BY DEF RequestsOK, Consistent
<1>2. resp \in {"answer", "empty", "error", NULL} /\ Said(resp) = Better(best[r], kind)
  BY <1>1, KeptIsBest
<1> HIDE DEF resp
<1>3. data \in RequestData /\ data.resp = resp
  <2> DEFINE n == req[r].numresp + 1
  <2>1. n \in Nat
    BY <1>1 DEF RequestData
  <2>2. data = [req[r] EXCEPT !.numresp = n, !.resp = resp]
    OBVIOUS
  <2> HIDE DEF n
  <2> QED BY <1>1, <1>2, <2>1, <2>2 DEF RequestData
<1>4. best' = [best EXCEPT ![r] = Better(@, kind)]
  BY DEF forward_dns_reply
<1>5. /\ best'[r] = Said(resp) /\ \A q \in Reqs \ {r} : best'[q] = best[q]
      /\ best' \in [Reqs -> {"found", "error", NULL}]
  <2>1. Better(best[r], kind) \in {"found", "error", NULL}
    BY <1>2 DEF Said
  <2> QED BY <1>1, <1>2, <1>4, <2>1 DEF RequestsOK
<1> HIDE DEF data
<1>6. CASE req' = [req EXCEPT ![r] = data] /\ UNCHANGED <<listed, timer, sent>>
  <2>1. /\ req'[r] = data /\ \A q \in Reqs \ {r} : req'[q] = req[q]
        /\ req' \in [Reqs -> RequestData \cup {NULL}]
    BY <1>1, <1>3, <1>6 DEF RequestsOK
  <2>2. ASSUME NEW q \in Reqs, q # r
        PROVE  Consistent(q)' /\ Responded(q)'
    <3>1. Same(q)
      BY <1>5, <1>6, <2>1, <2>2 DEF Same
    <3> QED BY <3>1, SameKeeps DEF RequestsOK
  <2>3. Consistent(r)' /\ Responded(r)'
    <3>1. Responded(r)' /\ sent'[r] \in Seq(Responses)
      BY <1>1, <1>6, NoResponse
    <3> QED BY <1>1, <1>3, <1>5, <1>6, <2>1, <3>1, NotNull DEF Consistent
  <2> QED BY <1>5, <1>6, <2>1, <2>2, <2>3 DEF RequestsOK
<1>7. CASE destroy_request_data({r}) /\ Sends([q \in {r} |-> data.resp])
  <2>1. /\ listed' = listed \ {r} /\ timer' = timer \ {r} /\ req'[r] = NULL
        /\ \A q \in Reqs \ {r} : req'[q] = req[q]
        /\ req' \in [Reqs -> RequestData \cup {NULL}]
    BY <1>1, <1>7 DEF RequestsOK, destroy_request_data
  <2>2. ASSUME NEW q \in Reqs, q # r
        PROVE  Consistent(q)' /\ Responded(q)'
    <3>1. sent'[q] = sent[q]
      BY <1>7, <2>2, Sending
    <3>2. Same(q)
      BY <1>5, <2>1, <2>2, <3>1 DEF Same
    <3> QED BY <3>2, SameKeeps DEF RequestsOK
  <2>3. Consistent(r)' /\ Responded(r)'
    <3>1. sent'[r] = Append(sent[r], resp)
      BY <1>1, <1>3, <1>7, Sending
    <3>2. /\ resp \in Responses /\ resp # "servfail"
          /\ resp = "error" => best'[r] = "error"
          /\ resp = NULL => best'[r] = NULL
      <4>1. resp # "servfail"
        BY <1>2, NullAssumption
      <4>2. resp = "error" => best'[r] = "error"
        BY <1>5, NullAssumption DEF Said
      <4> QED BY <1>2, <1>5, <4>1, <4>2 DEF Said, Responses
    <3>3. Responded(r)' /\ sent'[r] \in Seq(Responses)
      BY <1>1, <3>1, <3>2, FirstResponse
    <3> QED BY <1>1, <2>1, <3>3 DEF Consistent
  <2> QED BY <1>5, <2>1, <2>2, <2>3 DEF RequestsOK
<1> QED BY <1>6, <1>7 DEF forward_dns_reply, data, resp

LEMMA ForwardedStep ==
  ASSUME IInv, NEW m \in network, NEW kind \in Kinds, Forwarded(m, kind), UNCHANGED asked
  PROVE  RequestsOK'
<1>1. CASE m.req \in listed /\ forward_dns_reply(m.req, kind)
  BY <1>1, ForwardStep DEF IInv
<1>2. CASE UNCHANGED <<requests, sent, best>>
  BY <1>2, RequestsSame DEF IInv
<1> QED BY <1>1, <1>2 DEF Forwarded

\* A connection goes away, with the messages on it.
LEMMA ConnectionGone ==
  ASSUME ServersOK, NEW c \in Conns, connecting' \subseteq connecting,
         connected' = connected \ {c}, network' = network \ Dropped(c),
         UNCHANGED <<asked, udp>>
  PROVE  ServersOK'
BY DEF ServersOK, Live, Dropped

LEMMA ReplySteps ==
  ASSUME IInv, NEW m \in network, NEW kind \in Kinds, UdpReply(m, kind) \/ TcpReply(m, kind)
  PROVE  IInv'
<1>1. RequestsOK'
  BY ForwardedStep DEF UdpReply, TcpReply
<1>2. CASE UdpReply(m, kind)
  BY <1>1, <1>2 DEF UdpReply, IInv, ServersOK, servers, Live
<1>3. CASE TcpReply(m, kind)
  <2>1. m.to \in Conns
    BY <1>3 DEF TcpReply, IInv, ServersOK
  <2>2. ServersOK'
    BY <1>3, <2>1, ConnectionGone DEF TcpReply, IInv
  <2> QED BY <1>1, <2>2 DEF IInv
<1> QED BY <1>2, <1>3

LEMMA UdpServerErrorStep ==
  ASSUME IInv, NEW s \in Servers, UdpServerError(s)
  PROVE  IInv'
<1>1. RequestsOK'
  BY RequestsSame DEF UdpServerError, IInv
<1>2. udp[s] \in ServerData /\ udp' = [udp EXCEPT ![s].channel = FALSE]
  BY DEF UdpServerError, Live, IInv, ServersOK
<1>3. /\ \A t \in Servers \ {s} : udp'[t] = udp[t]
      /\ udp' \in [Servers -> ServerData \cup {NULL}]
  <2>1. [udp[s] EXCEPT !.channel = FALSE] \in ServerData
    BY <1>2 DEF ServerData
  <2> QED BY <1>2, <2>1 DEF IInv, ServersOK
<1>4. ServersOK'
  <2>1. UNCHANGED <<asked, connecting, connected>> /\ network' = network \ Dropped(s)
    BY DEF UdpServerError
  <2>2. \A m \in network' : m.to \in connected' \/ (m.to \in Live' /\ udp'[m.to].channel)
    BY <1>3, <2>1 DEF IInv, ServersOK, Live, Dropped
  <2> QED BY <1>3, <2>1, <2>2 DEF IInv, ServersOK
<1> QED BY <1>1, <1>4 DEF IInv

LEMMA TcpNoiseStep ==
  ASSUME IInv, NEW c \in Conns, TcpNoise(c)
  PROVE  IInv'
<1>1. RequestsOK'
  BY RequestsSame DEF TcpNoise, IInv
<1>2. ServersOK'
  BY ConnectionGone DEF TcpNoise, IInv
<1> QED BY <1>1, <1>2 DEF IInv

-----------------------------------------------------------------------------
(***************************************************************************)
(* One event that touches many requests: what may become of each.           *)
(***************************************************************************)
\* It went to one more server.
Resent(r) ==
    /\ r \in listed /\ r \in listed' /\ r \in timer'
    /\ req'[r] \in RequestData /\ req'[r].resp = req[r].resp
    /\ sent'[r] = sent[r] /\ best'[r] = best[r]

\* It was freed, answered from the cache or without a response.
Released(r) ==
    /\ r \in listed /\ r \notin listed' /\ r \notin timer' /\ req'[r] = NULL
    /\ sent'[r] = sent[r] \/ sent'[r] = Append(sent[r], "cached")
    /\ best'[r] = best[r]

\* It failed over TCP, and its timer goes on.
Failed(r) ==
    /\ r \in listed \cap TcpReqs /\ r \notin listed' /\ r \in timer'
    /\ req'[r] \in RequestData /\ req'[r].resp = req[r].resp
    /\ sent'[r] = Append(sent[r], "servfail")
    /\ best'[r] = best[r]

LEMMA ManyRequests ==
  ASSUME RequestsOK, asked' = asked, listed' \subseteq asked, timer' \subseteq asked,
         req' \in [Reqs -> RequestData \cup {NULL}],
         best' \in [Reqs -> {"found", "error", NULL}],
         \A r \in Reqs : Same(r) \/ Resent(r) \/ Released(r) \/ Failed(r)
  PROVE  RequestsOK'
<1>1. ASSUME NEW r \in Reqs
      PROVE  Consistent(r)' /\ Responded(r)'
  <2>1. CASE Same(r)
    BY <2>1, SameKeeps DEF RequestsOK
  <2>2. CASE r \in listed /\ (Resent(r) \/ Released(r) \/ Failed(r))
    <3>1. /\ r \in asked /\ r \in timer /\ req[r] \in RequestData /\ sent[r] = <<>>
          /\ best[r] = Said(req[r].resp)
      BY <2>2 DEF RequestsOK, Consistent
    <3>2. CASE Resent(r)
      <4>1. Responded(r)' /\ sent'[r] \in Seq(Responses)
        BY <3>1, <3>2, NoResponse DEF Resent
      <4> QED BY <3>1, <3>2, <4>1, NotNull DEF Resent, Consistent
    <3>3. CASE Released(r)
      <4>1. Responded(r)' /\ sent'[r] \in Seq(Responses)
        <5>1. CASE sent'[r] = sent[r]
          BY <3>1, <5>1, NoResponse
        <5>2. CASE sent'[r] = Append(sent[r], "cached")
          BY <3>1, <5>2, FirstResponse, NullAssumption DEF Responses
        <5> QED BY <3>3, <5>1, <5>2 DEF Released
      <4> QED BY <3>1, <3>3, <4>1 DEF Released, Consistent
    <3>4. CASE Failed(r)
      <4>1. r \in timer' /\ r \in TcpReqs
        BY <3>1, <3>4 DEF Failed
      <4>2. Responded(r)' /\ sent'[r] = <<"servfail">> /\ sent'[r] \in Seq(Responses)
        BY <3>1, <3>4, <4>1, FirstResponse, NullAssumption DEF Responses, Failed
      <4> QED BY <3>1, <3>4, <4>1, <4>2, NotNull DEF Failed, Consistent
    <3> QED BY <2>2, <3>2, <3>3, <3>4
  <2> QED BY <2>1, <2>2 DEF Resent, Released, Failed
<1> QED BY <1>1 DEF RequestsOK

-----------------------------------------------------------------------------
(***************************************************************************)
(* TCP connections.                                                         *)
(***************************************************************************)
LEMMA TcpConnectedStep ==
  ASSUME IInv, NEW c \in Conns, NEW short \in BOOLEAN, TcpConnected(c, short)
  PROVE  IInv'
<1>1. PICK H \in SUBSET (listed \cap TcpReqs), T \in SUBSET (listed \cap TcpReqs) :
        /\ T \cap H = {}
        /\ connected' = IF T = {} THEN connected ELSE connected \cup {c}
        /\ network' = network \cup UNION {Sent(r, c, short) : r \in T}
        /\ listed' = listed \ H
        /\ req' = [r \in Reqs |-> IF r \in H THEN NULL ELSE
                     IF r \in T THEN ns_resolv(req[r], {c}, short) ELSE req[r]]
        /\ timer' = (timer \ H) \cup T
        /\ Sends([r \in H |-> "cached"])
  BY DEF TcpConnected
<1>2. /\ c \in connecting /\ connecting' = connecting \ {c}
      /\ asked' = asked /\ udp' = udp /\ best' = best
  BY DEF TcpConnected
<1>3. RequestsOK'
  <2>1. ASSUME NEW r \in Reqs
        PROVE  /\ Same(r) \/ Resent(r) \/ Released(r) \/ Failed(r)
               /\ req'[r] \in RequestData \cup {NULL}
    <3>1. CASE r \in H
      <4>1. sent'[r] = Append(sent[r], "cached")
        BY <1>1, <3>1, Sending
      <4> QED BY <1>1, <1>2, <3>1, <4>1 DEF Released
    <3>2. CASE r \in T
      <4>1. r \in listed /\ req[r] \in RequestData
        BY <3>2 DEF IInv, RequestsOK, Consistent
      <4>2. IsFiniteSet({c}) /\ req'[r] = ns_resolv(req[r], {c}, short)
        BY <1>1, <3>2, FS_Singleton
      <4>3. req'[r] \in RequestData /\ req'[r].resp = req[r].resp
        BY <4>1, <4>2, NsResolv
      <4>4. sent'[r] = sent[r]
        BY <1>1, <3>2, Sending
      <4> QED BY <1>1, <1>2, <3>2, <4>1, <4>3, <4>4 DEF Resent
    <3>3. CASE r \notin H /\ r \notin T
      <4>1. sent'[r] = sent[r]
        BY <1>1, <3>3, Sending
      <4> QED BY <1>1, <1>2, <3>3, <4>1 DEF Same, IInv, RequestsOK
    <3> QED BY <3>1, <3>2, <3>3
  <2>2. req' \in [Reqs -> RequestData \cup {NULL}]
    BY <1>1, <2>1
  <2> QED BY <1>1, <1>2, <2>1, <2>2, ManyRequests DEF IInv, RequestsOK
<1>4. ServersOK'
  <2>1. \A m \in network' \ network : m \in Messages /\ m.to = c /\ T # {}
    <3>1. T \subseteq Reqs
      BY DEF Reqs
    <3> QED BY <1>1, <3>1, SentMessages
  <2>2. connecting' \cap connected' = {} /\ connected' \subseteq connected \cup {c}
        /\ connected \subseteq connected'
    BY <1>1, <1>2 DEF IInv, ServersOK
  <2>3. \A m \in network' : m.to \in connected' \/ (m.to \in Live' /\ udp'[m.to].channel)
    BY <1>1, <1>2, <2>1, <2>2 DEF IInv, ServersOK, Live
  <2>4. network' \subseteq Messages
    BY <2>1 DEF IInv, ServersOK
  <2> QED BY <1>2, <2>2, <2>3, <2>4 DEF IInv, ServersOK
<1> QED BY <1>3, <1>4 DEF IInv

LEMMA TcpHangupStep ==
  ASSUME IInv, NEW c \in Conns, TcpHangup(c)
  PROVE  IInv'
<1> DEFINE failed == {r \in listed \cap TcpReqs : req[r].numserv <= 1}
<1>1. /\ listed' = listed \ failed
      /\ req' = [r \in Reqs |-> IF r \in listed \cap TcpReqs
                   THEN [req[r] EXCEPT !.numserv = IF @ = 0 THEN 0 ELSE @ - 1] ELSE req[r]]
      /\ Sends([r \in failed |-> "servfail"])
      /\ timer' = timer
  BY DEF TcpHangup, hangup
<1>2. asked' = asked /\ best' = best
  BY DEF TcpHangup
<1>3. RequestsOK'
  <2>1. ASSUME NEW r \in Reqs
        PROVE  /\ Same(r) \/ Resent(r) \/ Released(r) \/ Failed(r)
               /\ req'[r] \in RequestData \cup {NULL}
    <3>1. CASE r \in listed \cap TcpReqs
      <4>1. r \in timer /\ req[r] \in RequestData
        BY <3>1 DEF IInv, RequestsOK, Consistent
      <4> DEFINE n == IF req[r].numserv = 0 THEN 0 ELSE req[r].numserv - 1
      <4>2. n \in Nat
        BY <4>1 DEF RequestData
      <4>3. req'[r] = [req[r] EXCEPT !.numserv = n]
        BY <1>1, <3>1
      <4> HIDE DEF n
      <4>4. req'[r] \in RequestData /\ req'[r].resp = req[r].resp
        BY <4>1, <4>2, <4>3 DEF RequestData
      <4>5. r \in failed => sent'[r] = Append(sent[r], "servfail")
        BY <1>1, Sending
      <4>6. r \notin failed => sent'[r] = sent[r]
        BY <1>1, Sending
      <4> HIDE DEF failed
      <4> QED BY <1>1, <1>2, <3>1, <4>1, <4>4, <4>5, <4>6 DEF Resent, Failed
    <3>2. CASE r \notin listed \cap TcpReqs
      <4>1. sent'[r] = sent[r] /\ r \notin failed
        BY <1>1, <3>2, Sending
      <4> QED BY <1>1, <1>2, <3>2, <4>1 DEF Same, IInv, RequestsOK
    <3> QED BY <3>1, <3>2
  <2>2. req' \in [Reqs -> RequestData \cup {NULL}]
    BY <1>1, <2>1
  <2> QED BY <1>1, <1>2, <2>1, <2>2, ManyRequests DEF IInv, RequestsOK
<1>4. ServersOK'
  BY ConnectionGone DEF TcpHangup, IInv
<1> QED BY <1>3, <1>4 DEF IInv

LEMMA TcpIdleStep ==
  ASSUME IInv, NEW c \in Conns, TcpIdle(c)
  PROVE  IInv'
<1>1. RequestsOK'
  BY RequestsSame DEF TcpIdle, IInv
<1>2. ServersOK'
  BY DEF TcpIdle, IInv, ServersOK, Live
<1> QED BY <1>1, <1>2 DEF IInv

-----------------------------------------------------------------------------
(***************************************************************************)
(* The request timer, the server list and the listeners.                    *)
(***************************************************************************)
\* The second response to a TCP query that had failed.
LEMMA SecondResponse ==
  ASSUME NEW r, r \in TcpReqs, NEW x \in Responses, x # NULL,
         x = "error" => best'[r] = "error", x = "servfail" => best'[r] = NULL,
         sent[r] = <<"servfail">>, sent'[r] = Append(sent[r], x)
  PROVE  Responded(r)' /\ sent'[r] \in Seq(Responses)
<1>1. sent[r] \in Seq(Responses) /\ Len(sent[r]) = 1 /\ sent[r][1] = "servfail"
  BY DEF Responses
<1>2. /\ Len(sent'[r]) = 2 /\ Head(sent'[r]) = "servfail"
      /\ DOMAIN sent'[r] = 1 .. 2 /\ sent'[r][1] = "servfail" /\ sent'[r][2] = x
      /\ sent'[r] \in Seq(Responses)
  <2> DEFINE s == sent[r]
             t == sent'[r]
  <2> SUFFICES ASSUME s \in Seq(Responses), Len(s) = 1, s[1] = "servfail", t = Append(s, x)
               PROVE  /\ Len(t) = 2 /\ Head(t) = "servfail" /\ DOMAIN t = 1 .. 2
                      /\ t[1] = "servfail" /\ t[2] = x /\ t \in Seq(Responses)
    BY <1>1
  <2> HIDE DEF s, t
  <2> QED OBVIOUS
<1> QED BY <1>2, NullAssumption DEF Responded

LEMMA RequestTimeoutStep ==
  ASSUME IInv, NEW r \in Reqs, RequestTimeout(r)
  PROVE  IInv'
<1> DEFINE x == IF req[r].resp # NULL THEN req[r].resp ELSE "servfail"
<1>1. /\ r \in timer /\ r \in asked /\ req[r] \in RequestData
      /\ best[r] = Said(req[r].resp) /\ asked' = asked /\ best' = best
  BY DEF IInv, RequestsOK, Consistent, RequestTimeout
<1>2. /\ listed' = listed \ {r} /\ timer' = timer \ {r} /\ req'[r] = NULL
      /\ \A q \in Reqs \ {r} : req'[q] = req[q]
      /\ req' \in [Reqs -> RequestData \cup {NULL}]
  BY DEF IInv, RequestsOK, RequestTimeout, destroy_request_data
<1>3. /\ sent'[r] = Append(sent[r], x) /\ \A q \in Reqs \ {r} : sent'[q] = sent[q]
  BY Sending DEF RequestTimeout
<1>4. /\ x \in Responses /\ x # NULL
      /\ x = "error" => best'[r] = "error"
      /\ x = "servfail" => best'[r] = NULL
  <2>1. req[r].resp \in {"answer", "empty", "error", NULL}
    BY <1>1 DEF RequestData
  <2> QED BY <1>1, <2>1, NullAssumption DEF Said, Responses
<1> HIDE DEF x
<1>5. Responded(r)' /\ sent'[r] \in Seq(Responses)
  <2>1. CASE r \in listed
    <3>1. sent[r] = <<>>
      BY <2>1 DEF IInv, RequestsOK, Consistent
    <3> QED BY <1>3, <1>4, <3>1, FirstResponse
  <2>2. CASE r \notin listed
    <3>1. r \in TcpReqs /\ sent[r] = <<"servfail">>
      BY <1>1, <2>2 DEF IInv, RequestsOK, Consistent
    <3> QED BY <1>3, <1>4, <3>1, SecondResponse
  <2> QED BY <2>1, <2>2
<1>6. Consistent(r)'
  BY <1>1, <1>2, <1>5 DEF Consistent
<1>7. ASSUME NEW q \in Reqs, q # r
      PROVE  Consistent(q)' /\ Responded(q)'
  <2>1. Same(q)
    BY <1>1, <1>2, <1>3, <1>7 DEF Same
  <2> QED BY <2>1, SameKeeps DEF IInv, RequestsOK
<1>8. RequestsOK'
  BY <1>1, <1>2, <1>5, <1>6, <1>7 DEF IInv, RequestsOK
<1>9. ServersOK'
  BY AskedGrows DEF RequestTimeout, IInv
<1> QED BY <1>8, <1>9 DEF IInv

LEMMA AppendServerStep ==
  ASSUME IInv, NEW s \in Servers, NEW enabled \in BOOLEAN, NEW short \in BOOLEAN,
         AppendServer(s, enabled, short)
  PROVE  IInv'
<1>1. PICK H \in SUBSET listed, T \in SUBSET listed :
        /\ T \cap H = {}
        /\ network' = network \cup UNION {Sent(r, s, short) : r \in T}
        /\ listed' = T
        /\ req' = [r \in Reqs |-> IF r \in listed \ T THEN NULL ELSE
                     IF r \in T THEN ns_resolv(req[r], {s}, short) ELSE req[r]]
        /\ timer' = (timer \ listed) \cup T
        /\ Sends([r \in H |-> "cached"])
  BY DEF AppendServer
<1>2. /\ udp' = [udp EXCEPT ![s] = [enabled |-> enabled, channel |-> TRUE]]
      /\ asked' = asked /\ connecting' = connecting /\ connected' = connected /\ best' = best
  BY DEF AppendServer
<1>3. RequestsOK'
  <2>1. ASSUME NEW r \in Reqs
        PROVE  /\ Same(r) \/ Resent(r) \/ Released(r) \/ Failed(r)
               /\ req'[r] \in RequestData \cup {NULL}
    <3>1. CASE r \in listed \ T
      <4>1. sent'[r] = sent[r] \/ sent'[r] = Append(sent[r], "cached")
        BY <1>1, Sending
      <4> QED BY <1>1, <1>2, <3>1, <4>1 DEF Released
    <3>2. CASE r \in T
      <4>1. r \in listed /\ req[r] \in RequestData
        BY <3>2 DEF IInv, RequestsOK, Consistent
      <4>2. IsFiniteSet({s}) /\ req'[r] = ns_resolv(req[r], {s}, short)
        BY <1>1, <3>2, FS_Singleton
      <4>3. req'[r] \in RequestData /\ req'[r].resp = req[r].resp
        BY <4>1, <4>2, NsResolv
      <4>4. sent'[r] = sent[r]
        BY <1>1, <3>2, Sending
      <4> QED BY <1>1, <1>2, <3>2, <4>1, <4>3, <4>4 DEF Resent
    <3>3. CASE r \notin listed
      <4>1. sent'[r] = sent[r] /\ r \notin T
        BY <1>1, <3>3, Sending
      <4> QED BY <1>1, <1>2, <3>3, <4>1 DEF Same, IInv, RequestsOK
    <3> QED BY <3>1, <3>2, <3>3
  <2>2. req' \in [Reqs -> RequestData \cup {NULL}]
    BY <1>1, <2>1
  <2> QED BY <1>1, <1>2, <2>1, <2>2, ManyRequests DEF IInv, RequestsOK
<1>4. ServersOK'
  <2>1. [enabled |-> enabled, channel |-> TRUE] \in ServerData
    BY DEF ServerData
  <2>2. /\ udp' \in [Servers -> ServerData \cup {NULL}]
        /\ udp'[s] # NULL /\ udp'[s].channel = TRUE
        /\ \A t \in Servers \ {s} : udp'[t] = udp[t]
    BY <1>2, <2>1, NullAssumption DEF IInv, ServersOK
  <2>3. \A m \in network' \ network : m \in Messages /\ m.to = s
    <3>1. T \subseteq Reqs
      BY DEF IInv, RequestsOK
    <3> QED BY <1>1, <3>1, SentMessages
  <2>4. \A m \in network' : m.to \in connected' \/ (m.to \in Live' /\ udp'[m.to].channel)
    BY <1>1, <1>2, <2>2, <2>3 DEF IInv, ServersOK, Live
  <2>5. network' \subseteq Messages
    BY <2>3 DEF IInv, ServersOK
  <2> QED BY <1>2, <2>2, <2>4, <2>5 DEF IInv, ServersOK
<1> QED BY <1>3, <1>4 DEF IInv

LEMMA RemoveServerStep ==
  ASSUME IInv, NEW s \in Servers, RemoveServer(s)
  PROVE  IInv'
<1>1. RequestsOK'
  BY RequestsSame DEF RemoveServer, IInv
<1>2. PICK gone \in SUBSET connected :
        /\ connected' = connected \ gone
        /\ network' = network \ (Dropped(s) \cup UNION {Dropped(c) : c \in gone})
  BY DEF RemoveServer
<1>3. /\ udp' = [udp EXCEPT ![s] = NULL]
      /\ asked' = asked /\ connecting' = connecting
  BY DEF RemoveServer
<1>4. ServersOK'
  <2>1. \A m \in network' : m \in network /\ m.to # s /\ m.to \notin gone
    BY <1>2 DEF Dropped
  <2>2. /\ udp' \in [Servers -> ServerData \cup {NULL}]
        /\ \A t \in Servers \ {s} : udp'[t] = udp[t]
    BY <1>3 DEF IInv, ServersOK
  <2>3. \A m \in network' : m.to \in connected' \/ (m.to \in Live' /\ udp'[m.to].channel)
    BY <1>2, <2>1, <2>2 DEF IInv, ServersOK, Live
  <2> QED BY <1>2, <1>3, <2>1, <2>2, <2>3 DEF IInv, ServersOK
<1> QED BY <1>1, <1>4 DEF IInv

LEMMA EnableServersStep ==
  ASSUME IInv, NEW E, EnableServers(E)
  PROVE  IInv'
<1>1. RequestsOK'
  BY RequestsSame DEF EnableServers, IInv
<1>2. /\ udp' = [s \in Servers |-> IF s \in Live THEN [udp[s] EXCEPT !.enabled = s \in E]
                                              ELSE udp[s]]
      /\ UNCHANGED <<asked, connecting, connected, network>>
  BY DEF EnableServers
<1>3. ASSUME NEW s \in Servers
      PROVE  /\ udp'[s] \in ServerData \cup {NULL}
             /\ s \in Live => udp'[s] # NULL /\ udp'[s].channel = udp[s].channel
  <2>1. CASE s \in Live
    <3> DEFINE e == s \in E
    <3>1. e \in BOOLEAN
      OBVIOUS
    <3>2. udp[s] \in ServerData /\ udp'[s] = [udp[s] EXCEPT !.enabled = e]
      BY <1>2, <2>1 DEF Live, IInv, ServersOK
    <3> HIDE DEF e
    <3>3. udp'[s] \in ServerData /\ udp'[s].channel = udp[s].channel
      BY <3>1, <3>2 DEF ServerData
    <3> QED BY <3>3, NullAssumption
  <2>2. CASE s \notin Live
    BY <1>2, <2>2 DEF IInv, ServersOK
  <2> QED BY <2>1, <2>2
<1>4. udp' \in [Servers -> ServerData \cup {NULL}]
  BY <1>2, <1>3
<1>5. \A m \in network' : m.to \in connected' \/ (m.to \in Live' /\ udp'[m.to].channel)
  BY <1>2, <1>3 DEF IInv, ServersOK, Live
<1>6. ServersOK'
  BY <1>2, <1>4, <1>5 DEF IInv, ServersOK
<1> QED BY <1>1, <1>6 DEF IInv

LEMMA RemoveListenerStep ==
  ASSUME IInv, RemoveListener
  PROVE  IInv'
<1>1. /\ listed' = {} /\ timer' = timer \ listed
      /\ req' = [r \in Reqs |-> IF r \in listed THEN NULL ELSE req[r]]
      /\ asked' = asked /\ sent' = sent /\ best' = best
  BY DEF RemoveListener, destroy_request_data
<1>2. \A r \in Reqs : Same(r) \/ Released(r)
  BY <1>1 DEF Same, Released
<1>3. RequestsOK'
  BY <1>1, <1>2, ManyRequests DEF IInv, RequestsOK
<1>4. ServersOK'
  BY AskedGrows DEF RemoveListener, IInv
<1> QED BY <1>3, <1>4 DEF IInv

-----------------------------------------------------------------------------
(***************************************************************************)
(* The theorems.                                                            *)
(***************************************************************************)
LEMMA InitIInv == Init => IInv
<1> SUFFICES ASSUME Init PROVE IInv
  OBVIOUS
<1>1. ASSUME NEW r \in Reqs
      PROVE  Consistent(r) /\ Responded(r)
  <2>1. /\ sent[r] = <<>> /\ req[r] = NULL /\ best[r] = NULL
        /\ asked = {} /\ timer = {} /\ listed = {}
    BY DEF Init
  <2>2. Len(sent[r]) = 0 /\ DOMAIN sent[r] = {} /\ sent[r] \in Seq(Responses)
    BY <2>1
  <2> QED BY <2>1, <2>2 DEF Consistent, Responded
<1> QED BY <1>1 DEF Init, IInv, RequestsOK, ServersOK

LEMMA DomainBoolean ==
  ASSUME NEW to, NEW short \in {FALSE, Domain(to)}
  PROVE  short \in BOOLEAN
<1>1. Domain(to) \in BOOLEAN
  BY DEF Domain
<1> QED BY <1>1

LEMMA NextIInv == IInv /\ [Next]_vars => IInv'
<1> SUFFICES ASSUME IInv, [Next]_vars PROVE IInv'
  OBVIOUS
<1>1. CASE UNCHANGED vars
  <2>1. RequestsOK'
    BY <1>1, RequestsSame DEF vars, IInv
  <2>2. ServersOK'
    BY <1>1, AskedGrows DEF vars, IInv
  <2> QED BY <2>1, <2>2 DEF IInv
<1>2. CASE \E r \in Reqs : UdpQuery(r) \/ TcpQuery(r) \/ RequestTimeout(r)
  BY <1>2, UdpQueryStep, TcpQueryStep, RequestTimeoutStep
<1>3. CASE \E m \in network, kind \in Kinds : UdpReply(m, kind) \/ TcpReply(m, kind)
  BY <1>3, ReplySteps
<1>4. CASE \E s \in Servers : UdpServerError(s) \/ RemoveServer(s)
  BY <1>4, UdpServerErrorStep, RemoveServerStep
<1>5. ASSUME NEW s \in Servers, NEW enabled \in BOOLEAN, NEW short \in {FALSE, Domain(s)},
             AppendServer(s, enabled, short)
      PROVE  IInv'
  <2>1. short \in BOOLEAN
    BY DomainBoolean
  <2> QED BY <1>5, <2>1, AppendServerStep
<1>6. CASE \E c \in Conns : TcpNoise(c) \/ TcpHangup(c) \/ TcpIdle(c)
  BY <1>6, TcpNoiseStep, TcpHangupStep, TcpIdleStep
<1>7. ASSUME NEW c \in Conns, NEW short \in {FALSE, Domain(c)}, TcpConnected(c, short)
      PROVE  IInv'
  <2>1. short \in BOOLEAN
    BY DomainBoolean
  <2> QED BY <1>7, <2>1, TcpConnectedStep
<1>8. CASE \E E \in SUBSET Servers : EnableServers(E)
  BY <1>8, EnableServersStep
<1>9. CASE RemoveListener
  BY <1>9, RemoveListenerStep
<1> QED BY <1>1, <1>2, <1>3, <1>4, <1>5, <1>6, <1>7, <1>8, <1>9 DEF Next

LEMMA Inductive == Spec => []IInv
BY InitIInv, NextIInv, PTL DEF Spec

\* Counters stay naturals, lists hold allocated objects and messages travel only on
\* open sockets, whatever servers come, go, fail and reconnect.
THEOREM TypeCorrect == Spec => []TypeOK
BY Inductive, IInvImplies, PTL

\* A request is allocated exactly as long as its timer is armed: replies, hangups,
\* flushed requests and listeners that go away never free one without the other.
THEOREM TimersNeverDangle == Spec => []TimersOwned
BY Inductive, IInvImplies, PTL

\* A query gets one response, a second only after a TCP failure.
THEOREM AtMostOneAnswer == Spec => []AnsweredOnce
BY Inductive, IInvImplies, PTL

\* No kept reply is lost: a server's error is forwarded only if no server had an
\* answer, an empty message only if no reply unpacked, and the last response to a
\* query is the proxy's own error only if no reply unpacked.  (A hang-up may send
\* that error to a TCP client earlier, with the kept reply after it.)
THEOREM BestReplyWins == Spec => []BestReplyForwarded
BY Inductive, IInvImplies, PTL

-----------------------------------------------------------------------------
(***************************************************************************)
(* The refinement of DnsService.                                            *)
(***************************************************************************)
\* What every step but the arrival of a query does: requests leave the list, and
\* only they, or those that were answered before, get responses.
Settles ==
    /\ asked' = asked /\ listed' \subseteq listed
    /\ \A r \in asked \ listed : sent'[r] = <<>> <=> sent[r] = <<>>

LEMMA SendsSettles ==
  ASSUME RequestsOK, asked' = asked, listed' \subseteq listed,
         NEW out, Sends(out), DOMAIN out \subseteq listed \cup timer
  PROVE  Settles
<1>1. ASSUME NEW r \in asked \ listed
      PROVE  sent'[r] = <<>> <=> sent[r] = <<>>
  <2>1. r \in Reqs
    BY DEF RequestsOK
  <2>2. CASE r \in DOMAIN out
    <3>1. sent[r] = <<"servfail">>
      BY <1>1, <2>1, <2>2 DEF RequestsOK, Consistent
    <3>2. sent'[r] = Append(sent[r], out[r])
      BY <2>1, <2>2, Sending
    <3>3. Append(<<"servfail">>, out[r]) # <<>> /\ <<"servfail">> # <<>>
      OBVIOUS
    <3> QED BY <3>1, <3>2, <3>3
  <2>3. CASE r \notin DOMAIN out
    BY <2>1, <2>3, Sending
  <2> QED BY <2>2, <2>3
<1> QED BY <1>1 DEF Settles

LEMMA ForwardedSettles ==
  ASSUME RequestsOK, NEW m, NEW kind, Forwarded(m, kind), UNCHANGED asked
  PROVE  Settles
<1>1. CASE m.req \in listed /\ forward_dns_reply(m.req, kind)
  <2>1. CASE UNCHANGED <<listed, timer, sent>>
    BY <2>1 DEF Settles
  <2>2. CASE ~UNCHANGED <<listed, timer, sent>>
    <3> DEFINE r == m.req
               x == [req[r] EXCEPT !.numresp = @ + 1, !.resp = kept_reply(req[r], kind)].resp
    <3>1. destroy_request_data({r}) /\ Sends([q \in {r} |-> x])
      BY <1>1, <2>2 DEF forward_dns_reply
    <3> QED BY <1>1, <3>1, SendsSettles DEF destroy_request_data
  <2> QED BY <2>1, <2>2
<1>2. CASE UNCHANGED <<requests, sent, best>>
  BY <1>2 DEF Settles, requests
<1> QED BY <1>1, <1>2 DEF Forwarded

LEMMA OtherSteps ==
  ASSUME IInv, [Next]_vars, ~ \E r \in Reqs : UdpQuery(r) \/ TcpQuery(r)
  PROVE  Settles
<1> USE DEF IInv
<1>1. CASE UNCHANGED vars
  BY <1>1 DEF vars, requests, Settles
<1>2. ASSUME NEW r \in Reqs, RequestTimeout(r)
      PROVE  Settles
  <2>1. PICK x : Sends([q \in {r} |-> x])
    BY <1>2 DEF RequestTimeout
  <2> QED BY <1>2, <2>1, SendsSettles DEF RequestTimeout, destroy_request_data
<1>3. CASE \E m \in network, kind \in Kinds : UdpReply(m, kind) \/ TcpReply(m, kind)
  BY <1>3, ForwardedSettles DEF UdpReply, TcpReply
<1>4. CASE \E s \in Servers : UdpServerError(s) \/ RemoveServer(s)
  BY <1>4 DEF UdpServerError, RemoveServer, Settles, requests
<1>5. ASSUME NEW s \in Servers, NEW enabled \in BOOLEAN, NEW short,
             AppendServer(s, enabled, short)
      PROVE  Settles
  <2>1. PICK H \in SUBSET listed : Sends([r \in H |-> "cached"])
    BY <1>5 DEF AppendServer
  <2> QED BY <1>5, <2>1, SendsSettles DEF AppendServer
<1>6. CASE \E c \in Conns : TcpNoise(c) \/ TcpIdle(c)
  BY <1>6 DEF TcpNoise, TcpIdle, Settles, requests
<1>7. ASSUME NEW c \in Conns, TcpHangup(c)
      PROVE  Settles
  <2>1. PICK failed \in SUBSET listed : Sends([r \in failed |-> "servfail"])
    BY <1>7 DEF TcpHangup, hangup
  <2> QED BY <1>7, <2>1, SendsSettles DEF TcpHangup, hangup
<1>8. ASSUME NEW c \in Conns, NEW short, TcpConnected(c, short)
      PROVE  Settles
  <2>1. PICK H \in SUBSET listed : Sends([r \in H |-> "cached"])
    BY <1>8 DEF TcpConnected
  <2> QED BY <1>8, <2>1, SendsSettles DEF TcpConnected
<1>9. CASE \E E \in SUBSET Servers : EnableServers(E)
  BY <1>9 DEF EnableServers, Settles, requests
<1>10. CASE RemoveListener
  BY <1>10 DEF RemoveListener, destroy_request_data, Settles
<1> QED BY <1>1, <1>2, <1>3, <1>4, <1>5, <1>6, <1>7, <1>8, <1>9, <1>10 DEF Next

\* A query that arrives is idle, and then answered, pending or, without a header,
\* dropped; no other changes.
LEMMA QueryAsks ==
  ASSUME IInv, NEW r \in Reqs, UdpQuery(r) \/ TcpQuery(r)
  PROVE  /\ Phase(r) = "idle" /\ Phase(r)' \in {"pending", "answered", "dropped"}
         /\ \A q \in Reqs \ {r} : Phase(q)' = Phase(q)
<1>1. r \notin asked /\ r \notin listed /\ sent[r] = <<>>
  BY DEF UdpQuery, TcpQuery, IInv, RequestsOK, Consistent
<1>2. ASSUME NEW x, asked' = asked \cup {r}, Sends([q \in {r} |-> x]), listed' = listed
      PROVE  /\ Phase(r)' = "answered" /\ \A q \in Reqs \ {r} : Phase(q)' = Phase(q)
  <2>1. sent'[r] = Append(sent[r], x) /\ \A q \in Reqs \ {r} : sent'[q] = sent[q]
    BY <1>2, Sending
  <2>2. sent'[r] # <<>>
    BY <1>1, <2>1
  <2> QED BY <1>1, <1>2, <2>1, <2>2 DEF Phase
<1>3. CASE asked' = asked \cup {r} /\ listed' = listed \cup {r} /\ sent' = sent
  BY <1>1, <1>3 DEF Phase
<1>4. \/ asked' = asked \cup {r} /\ listed' = listed \cup {r} /\ sent' = sent
      \/ Refused(r) \/ Cached(r)
  BY DEF UdpQuery, TcpQuery
<1>5. CASE Refused(r) \/ Cached(r)
  <2>1. asked' = asked \cup {r} /\ listed' = listed
    BY <1>5 DEF Refused, Cached, requests
  <2>2. CASE \E x : Sends([q \in {r} |-> x])
    BY <1>1, <1>2, <2>1, <2>2 DEF Phase
  <2>3. CASE sent' = sent
    BY <1>1, <2>1, <2>3 DEF Phase
  <2> QED BY <1>5, <2>2, <2>3 DEF Refused, Cached
<1>6. Phase(r) = "idle"
  BY <1>1 DEF Phase
<1> QED BY <1>3, <1>4, <1>5, <1>6 DEF Phase

\* A settling step settles the requests that left the list.
LEMMA SettlesPhases ==
  ASSUME IInv, Settles
  PROVE  /\ \A r \in listed \ listed' : /\ Phase(r) = "pending"
                                        /\ Phase(r)' \in {"answered", "dropped"}
         /\ \A r \in Reqs \ (listed \ listed') : Phase(r)' = Phase(r)
BY DEF IInv, RequestsOK, Settles, Phase

LEMMA StepRefines ==
  ASSUME IInv, [Next]_vars
  PROVE  [Service!Next]_[r \in Reqs |-> Phase(r)]
<1> DEFINE phase == [r \in Reqs |-> Phase(r)]
<1>1. ASSUME NEW r \in Reqs, UdpQuery(r) \/ TcpQuery(r)
      PROVE  Service!Ask(r)
  <2>1. phase' = [phase EXCEPT ![r] = Phase(r)']
    BY <1>1, QueryAsks
  <2> QED BY <1>1, <2>1, QueryAsks DEF Service!Ask
<1>2. CASE Settles
  <2> DEFINE R == listed \ listed'
             out == [r \in R |-> Phase(r)']
  <2>1. R \in SUBSET Reqs /\ \A r \in R : phase[r] = "pending"
    BY SettlesPhases, <1>2 DEF IInv, RequestsOK
  <2>2. out \in [R -> {"answered", "dropped"}]
    BY SettlesPhases, <1>2
  <2>3. phase' = [r \in Reqs |-> IF r \in R THEN out[r] ELSE phase[r]]
    BY SettlesPhases, <1>2
  <2>4. CASE R = {}
    BY <2>3, <2>4
  <2>5. CASE R # {}
    <3>1. Service!Settle(R)
      BY <2>1, <2>2, <2>3, <2>5 DEF Service!Settle
    <3> QED BY <2>1, <3>1 DEF Service!Next
  <2> QED BY <2>4, <2>5
<1> QED BY <1>1, <1>2, OtherSteps DEF Service!Next

\* The proxy implements the safety part of DnsService: a query it takes is settled
\* once, by a response or by being given up, and stays settled.
THEOREM Refinement == Spec => Service!Safe
<1>1. Init => Service!Init
  BY DEF Init, Service!Init, Phase
<1> QED BY <1>1, StepRefines, Inductive, PTL DEF Spec, Service!Safe
=============================================================================
