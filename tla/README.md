# A verification of connman's DHCPv4, DNS and tethering

The repository is a fuzzing workshop. Next to short lab texts and three teaching
scripts it carries the source of several programs the labs work on; the one with
a large stateful core, and the one whose DHCP client and DNS proxy the labs are
about, is **connman** (`src/connman/connman`), a daemon that manages network
connections. The project models how connman hands out and obtains IPv4 addresses
and how it answers DNS queries: the DHCP server it runs for tethered devices; the
DHCP client it runs on its own interfaces, with the IPv4 link-local fallback and
the glue to the rest of the daemon; the pools of private addresses and the
tethering built on them; the DNS proxy with its cache; and the resolver, which
decides whom the proxy asks.

## Inventory

| Part | State | Operations | Hard because |
|---|---|---|---|
| DHCP server, `gdhcp/server.c` | lease objects, expiry-sorted list, hash by address, started flag, listener | DISCOVER, REQUEST, DECLINE, RELEASE, INFORM; new, start, stop, unref | lease objects are recycled between clients, two indexes kept by hand, times compared as absolute and truncated values, nothing persisted |
| DHCPv4 client, `gdhcp/client.c` | state, listen mode, four timers, retry counters, addresses | start, stop, eight timers, OFFER/ACK/NAK | late and repeated answers, timers that race with answers, callbacks in the middle of handlers, sockets that fail |
| IPv4LL, `gdhcp/client.c`, `gdhcp/ipv4ll.c` | same object, other states | probe, announce, monitor, defend | conflicts in every state, giving up |
| DHCP glue, `src/dhcp.c` | per interface two clients and a retry timer; one shared flag | start, stop, retry, five callbacks | frees clients from inside their own handlers, state shared between interfaces |
| Address pools, `src/ippool.c` | list of taken blocks with use counts, block assigned last | create, unref, address added, address removed | the search has to find its own end; a collision is noticed after the pool is in use and handled by a callback |
| Tethering and private networks, `src/tethering.c` | counter, bridge, pool, DHCP server; one pool per private network | enable, disable, restart, request, release | a counter shared by technologies, starts that fail half-way, a restart from inside a callback, reports that come late |
| DNS proxy, `src/dnsproxy.c` | request list with timers, UDP servers, TCP connections, listeners | query, reply, hang-up, time out, append and remove a server | several servers answer one request, six ways to free it, a connection shared by requests |
| DNS cache, `src/dnsproxy.c` | table of answers, size, reference count, clean-up and refresh times | look up, store, refresh, invalidate, clean up, drop | two answers per entry with their own times, a count kept apart from the table, a table that comes and goes |
| Resolver, `src/resolver.c` | entries with and without a lifetime, fallback servers | append, announce, withdraw, expire, remove, redo | the same server from two sources, flags that follow the default service |
| DHCPv6, `src/dhcpv6.c` | one client per network, retransmission timers, prefixes | information, solicit, request, confirm, renew, rebind, release | same callbacks and timers, eight message exchanges |
| Network and device, `src/network.c`, `src/device.c` | connecting, connected, associating | connect, disconnect, errors | errors reported from inside callbacks |
| Service, `src/service.c` | state per address family, order, pending requests | connect, disconnect, autoconnect | many triggers for one state machine |
| Sessions, agent, peers, time servers, portal detection, VPN, plugins, D-Bus | | | see `PROJECT.json`, which lists every part and why it is not modelled |

How the modelled parts interact: `network.c` calls `__connman_dhcp_start` and
`__connman_dhcp_stop` in `dhcp.c`. `dhcp.c` owns the clients, starts and frees
them, and receives their events as plain function calls made from inside the
clients' handlers. Everything runs on one GLib main loop: handlers do not
preempt each other, but timers, sockets and user requests come in any order.
The DHCP server is a separate object, created by tethering and by peers, that sees
only packets. Tethering takes its addresses from a pool; the kernel reports every
address that appears or goes on any interface through `ipconfig.c` to the pools,
connman's own addresses included, and a pool whose block is taken calls back its
owner. `resolver.c` tells the proxy which name servers exist; the notifier tells it
which service is the default; each change of the default invalidates the cache.

What makes each part correct:

* Server: list and hash describe the same live leases, one per client; an address
  is never in two clients' hands; a granted lease survives everything other
  clients send; an expired lease can be reused; an offer holds; a renewal is
  answered.
* Client and glue: the address the interface uses always belongs to the client
  object that answers for it (a lease with its timers, or a link-local address
  that is being watched); a client is never left without a timer and hears the answer
  it waits for; every interface ends up with some address; an address is not used past its lease; a callback
  does not pull the client from under its handler.
* Pools and tethering: what the counter says is what runs; no two pools share a
  block; a block is given back when nobody uses it; connman gives way to a network
  that turns up on its block; the search for a block ends.
* DNS proxy: a query is settled once, and eventually; no reply worth keeping is lost,
  and the client gets an error only when no server had an answer; a timer never
  outlives its request.
* DNS cache: the count is the number of entries; no answer outlives its lifetime or
  a change of the default service; a full cache makes room.
* Resolver: the proxy asks exactly the servers some entry stands for, those of the
  default service among them, and the fallback servers only when there are no others.

## Modules

`DhcpServer` models `gdhcp/server.c`. The heap of lease objects is the partial
function `lease`; `lease_list` and `nip_lease_hash` hold pointers into it, as in
the code, so dangling, leaked or doubly listed objects can be expressed. A
handler is one action (`Discover`, `Request`, `Decline`, `Release`, `Inform`);
malformed or foreign packets go to `Ignore`, a socket error to `ListenerError`,
the API calls have actions of their own, `Tick` moves the clock. Addresses are
integers in host order; a field the code reads without `ntohl` passes through
`Raw`, which reverses the bytes on a little-endian host. `ToInt` is the
truncation of a time difference to `gint`. `granted` is a history variable: what
each client was last told it may use, and until when. `g_list_insert_sorted` is
GLib's and marked external.

`GDHCPClient` models `gdhcp/client.c` for DHCPv4 and IPv4LL. A client is a record
with the fields of `struct _GDHCPClient` that decide what it does; every C handler
is an operator of the same name from the record before to the record after. The
results of opening a socket and of picking a random address are parameters. A
timer field holds the name of the handler it is armed with; the numeric source id
is abstracted, and an id left behind after its timer ran counts as no timer, since
removing it again has no effect on the program. `cb` is the callback the handler
made and `sent` the last packet. Callbacks are not always the last thing a handler
does, but what follows them only touches the client itself, so running them after
the operator is the same, unless the callback has freed the client; that case is
`UseAfterFree` in the next module.

`ConnmanDhcp` models `src/dhcp.c` and the two functions of `network.c` that call
it, and gives every timer and input an action. Functions of `dhcp.c` are operators
on the record `Dhcp(i)`, what the code reaches through `struct connman_dhcp` and
the shared flag. `local` is the address of the ipconfig. `lease` is a history
variable, the address of a lease whose time has not run out; `LeaseRunsOut` lets
the time of a lease pass that no timer watches over. If a handler goes on with a
freed client its behaviour is undefined in C, so `fault` records the handler and
the behaviour ends there. The other properties speak about everything up to that
point.

Timers are not given durations. Any armed timer may run at any time, except that
T1, T2 and the expiry of a lease come in this order: T1 is half, T2 seven eighths
of the lease, and the retransmissions in between are halvings of the time left.

`IpPool` models `src/ippool.c`: the list `allocated_blocks`, newest entry first, and
the search of `get_free_block`, one step per block (`SearchFor`, then `Advance` until
`Found` or `Exhausted`), because whether it ends is a question. Blocks are numbered
in the order of their addresses and every block has two addresses, the first and one
that stands for the others. The module has operators, no specification of its own.

`Tethering` extends it with `src/tethering.c`, the call in `technology.c` that counts
technologies, and the part of `ipconfig.c` that passes addresses on. `Enable`,
`Disable`, `RequestPrivate`, `setup_tun_interface` and `ReleasePrivate` are the calls;
the ends of a start are `Started`, `NoBlock` and `Failed(stage)`, one stage for each
step that can fail. While a search runs no other action is enabled, so a call and its
search are one handler. `newaddr` runs the collision callback inside the step, as the
code does. `events` holds the reports on connman's own addresses, which arrive in
order and late; foreign addresses are reported at once. Alike addresses (one network,
one interface) come and go in a fixed order. `tolerated` is a history variable, the
networks that no pool gave way to.

`DnsService` is the abstract specification of the proxy: a query is idle, pending, and
then answered or dropped, once, and no query is pending for ever.

`DnsProxy` models the requests of `src/dnsproxy.c` and refines `DnsService`. A query
is a constant, over UDP or TCP; `req` is its `struct request_data`, `listed` the
request list, `timer` the requests whose timer is armed. `udp` are the name servers,
`connecting` and `connected` the TCP connections. `network` holds what may still be
answered; a reply over UDP may come several times or never. `sent` and `best` are
history variables: the responses to the client, and the best a server said. Whether
a lookup hits the cache, whether sending succeeds and whether the name is short (so
that search domains are appended) are nondeterministic. Message identifiers are taken
as distinct, sending to one server succeeds or fails as a whole, and a TCP request
that `flush_requests` sends to a UDP server is never answered, because its length
prefix makes it garbage.

`DnsCache` models the cache of the same file, with the real arithmetic of lifetimes.
`Lookup` is `cache_check` with the hit its callers count, `Update` is `cache_update`
(clean-up, refresh, storing), `ServerSocket`, `DestroyServer` and `try_remove_cache`
are the references, `LandscapeChanged` is an invalidation by the default service or
offline mode. `changed` is a history variable. The operators on entries keep the
names of the functions.

`Resolver` models `src/resolver.c` together with the part of the proxy that keeps the
server list and its enabled flags. An entry is counted (`fixed`) or has a lifetime
(`timed`, with the timer it runs). `DnsProxy` in turn lets servers come, go and be
enabled in any way, so it covers whatever `Resolver` does to it; the two and
`DnsCache` share no state beyond what is described here.

The proofs of a module `M` are in `MProofs`, those of `IpPool` and `Tethering` both in
`TetheringProofs`. `GDHCPClientProofs` has no theorem about a specification: it states
what each handler of the client does to its record, and `ConnmanDhcpProofs` builds on
it. `ListLemmas` has the facts about GLib lists that the server and the pools share.

The `MC` modules give the constants values. Operators marked `(Fault: ...)` are wrong variants of the definition that
follows them; `PROJECT.json` lists, for every property, the variant that breaks it.

## Runs

| Run | Result | What it shows |
|---|---|---|
| `server_table` | passes | consistency of the table, one lease per client, grants stay backed, addresses exclusive, expired leases reclaimed, renewals answered (big-endian host) |
| `server_renew` | `RenewAnswered` fails | on a little-endian host `ciaddr` is compared in the wrong byte order and renewals get no answer |
| `client_lease` | passes | the address in use belongs to a live lease client or to a watching IPv4LL client; REQUESTs name an address; a timer is always armed; a client that waits for an answer has a live watch where it will come in; giving up clears the address; a started interface eventually has an address |
| `client_silent` | passes | two interfaces without a server: the shared flag is exact, one IPv4LL client at most, its address is in use; an interface lacks an address only while IPv4LL runs on the other |
| `client_nak` | `AddressLeased` fails | a NAK during renewal removes the lease timer; the address stays beyond the lease |
| `tethering_pools` | passes | the counter tells what runs through failed starts and restarts, pools stay apart, blocks are given back, connman gives way, every search ends |
| `tethering_exhausted` | `SearchEnds` fails | networks over all private addresses before the first pool was made keep `get_free_block` going for ever |
| `dns_requests` | passes | a query of each protocol and two servers: timers belong to requests, one response, no kept reply is lost; the proxy implements `DnsService` |
| `dns_hangup` | `NoEarlyFailure` fails | a refused connection fails a TCP query that another server has accepted |
| `dns_cache` | passes | size and references are exact, answers are neither stale nor from before a change, a full cache makes room |
| `resolver_servers` | passes | no orphaned server, fallback servers only without others, servers of the default service enabled, announced servers forgotten when routers fall silent |
| `resolver_fallback` | `FallbackUsed` fails | the fallback servers appended when the last name server goes stay disabled |

The failing runs state what a comment or the configuration file says; `findings` in
`PROJECT.json` quotes it.

Two passing properties state what the code does where a text of the repository says
otherwise. `FullCacheYields`: a reply that meets a full cache is stored whenever something
can go, also before the time in `max_timeout`; the comment at `dnsproxy.c:1241` says that
the clean-up shall "do nothing if we have not yet reached it", to "prevent constant
traversal of the cache if it is full", but only the first of the two passes looks at
`max_timeout`. `CleanupWaits` states the comment and fails. `FallbackExclusive`: fallback
servers are there only while no service has a name server, as `main.conf:30` says ("used
if no nameservers are otherwise provided by the service"); the manual page,
`doc/connman.conf.5.in:58`, has them "appended to the list of nameservers given by the
service". `FallbackAppended` states the manual page and fails.

Exceptions that the passing properties spell out are what the code does and are worth
knowing: a TCP query whose connection was closed is answered a second time when its
timer fires (`AnsweredOnce`); before that it has been sent a server failure, even when a
reply was kept for it, and `BestReplyForwarded` only says that the kept reply still
follows (`KeptBeforeServfail`, below, is about the failure); an unpackable reply makes the proxy send an
empty message, if no other unpacked (`BestReplyForwarded`); a query may be dropped
without a response when a server is appended, and one too short for a header on arrival
(`DnsService` allows both); an interface whose DHCP attempts fail gets no address while
IPv4LL runs on another interface (`GetsAddress`); with two technologies tethering a collision changes
nothing, because the restart only counts down and up (`PoolsYield`); a failed start
leaves the counter to go below zero (`TypeOK` of `Tethering`).

Further definitions state what a comment or the manual page says, or what one would
expect, and the models refute them; they are not runs of their own. To see one fail, put
it in the cfg named.

| Definition | Where | Why it fails |
|---|---|---|
| `OfferReserved` | `DhcpServer_table.cfg` | `OFFER_TIME` is stored as an absolute time, so an offer has expired when it is made and the next client is offered the same address |
| `AckExclusiveAcrossRestart` | `DhcpServer_table.cfg` | leases are never saved or loaded; a new server ACKs an address in use |
| `RetryBetweenAttempts` | `ConnmanDhcp_lease.cfg` | a late ACK leaves the retry timer armed, which restarts a bound client |
| `NoUseAfterFree` | `ConnmanDhcp_lease.cfg` | losing a link-local address frees the client that is still running its handler |
| `FailureReported` | `ConnmanDhcp_lease.cfg` | after `MAX_CONFLICTS` IPv4LL ends and nobody is told |
| `ListensForAnswer` | `ConnmanDhcp_lease.cfg` with `WatchOk <- MayFail` | a socket error removes the watch and leaves `listen_mode`, so the socket is never opened again and the client stays deaf |
| `EachGetsAddress` | `ConnmanDhcp_silent.cfg` | `no_lease_cb` returns while IPv4LL runs on another interface, at every failure of this one |
| `NoLeaseCleared` | `ConnmanDhcp_silent.cfg` with a lease time | with IPv4LL on another interface, an interface that loses its lease keeps the address and nobody is told |
| `KeptBeforeServfail` | `DnsProxy_hangup.cfg` | a closed connection sends a server failure although another server's reply is kept for the query (comment at `dnsproxy.c:555`) |
| `CleanupWaits` | `DnsCache_lifetimes.cfg` | the second pass of `cache_cleanup` does not look at `max_timeout` |
| `FallbackAppended` | `Resolver_servers.cfg` | the first name server of an interface removes the fallback servers (`resolver.c:395`) |

### Bounds

*Server.* Three clients and three addresses, so that the pool is full with every
client served and a client can also take the place of another; one address of the
pool ends in the broadcast octet. Two lives of the server. Lease time 1 and four
ticks let a lease be granted, expire, be recycled and expire again. `BYTE` is small
so that the byte order changes addresses visibly.

*Client.* The retry constants are scaled down (`DISCOVER_RETRIES` 2 or 3 for 6,
`REQUEST_RETRIES` 1 for 3, and so on), keeping `REQUEST_RETRIES` below
`DISCOVER_RETRIES`, because the code leaves the one counter where the other test
finds it. `UINT8` is 4 in `client_lease`, so that `ack_retry_times` and `retry_times` pass
the tests they are meant to meet, and wrap. The lease of `client_lease`
is long enough for retransmissions of both renewing and rebinding. Two addresses
let an ACK carry another address than the one in use. `MaxStarts` is 1 in
`client_lease`, where the glue's own retries restart the client; it is 2 in
`client_silent`, which allows a start while a client exists, as happens when the IPv6
settings of a connected service change. In `client_silent` no packet arrives
(`LeaseTimes` is empty), which keeps two interfaces within reach while all of IPv4LL
and its conflicts happen. `SocketOk`, `WatchOk`, `IfaceUp` and `AddressOk`
are the outcomes of calls into the system and of watching a socket. In both runs sockets
open and interfaces are up, without which no liveness is to be had, and configuring an
address may fail; sockets report errors in `client_silent` only, since `ListensForAnswer`
does not survive one. The theorems below hold for
all outcomes, apart from the two whose hypotheses name `SocketOk` and `WatchOk`.
Deadlock is not checked in these runs: after a fault the behaviour ends.

*Pools and tethering.* One block in each of the three private ranges makes every turn
of `next_block` happen and lets pools run out. Two technologies are enough for the
counter to mean something, one private network competes for blocks, and two foreign
addresses on one network exercise the use counts; in `tethering_exhausted` two wide
networks cover everything. `MaxBridges` 3 interface indexes allow a restart while
reports on the two bridges before it are still on their way; `MaxEvents` 2 holds new
starts back, not reports.

*DNS requests.* One query of each protocol, so that UDP and TCP share the list, the
timers and `flush_requests`; two servers, one with a search domain, so that a query
waits for one reply while another arrives, and a short name is sent twice to one of
them. `MaxMsgs` 2 bounds what is sent to and counted for a request beyond that.
`dns_hangup` has two TCP queries. With a single one, as in `dns_requests`, a failure over a
kept reply does not occur, since the first reply on a connection closes it; that
`BestReplyForwarded` survives it is proved.

*DNS cache.* The bounds on lifetimes, the rounding and the delay of refreshes are the
real ones; a TTL of two hours is capped, and the instants are the insertion, one when
the next refresh is due, and one after half an hour, in which the cached answer has
expired and the original has not. Two names fill a cache of two; the thresholds for
hits are scaled from 2 and 4 to 0 and 1 so that unpopular, popular and kept entries
all occur with `MaxHits` 4. `MaxRefs` 2 lets the table be shared, freed and created
again.

*Resolver.* Two name servers on one interface and one on a VPN with split routing, two
fallback servers, and `MaxFixed` 2 entries without a lifetime per server, since
withdrawals of unknown servers append one each.

### Fairness

`FairSpec` of `ConnmanDhcp` asks for weak fairness of the timers of each interface, of
the DHCP side and of the IPv4LL side: the main loop runs every timer that stays armed.
Nothing is assumed of servers or neighbours. `GetsAddress` excuses an interface that is
disconnected, a fault, the end of IPv4LL after `MAX_CONFLICTS`, and an interface that
fails while IPv4LL runs on another one. `DnsProxy` is fair to the request timers and to
nothing else: a query is settled because of its timer. The code arms that timer anew
when a TCP connection is made (`dnsproxy.c:2355`) and when a new server is asked
(`dnsproxy.c:2748`), so weak fairness is justified only because this cannot go on for
ever: `MaxMsgs` bounds how often a request is sent again. Servers that come, accept a
connection and go within every timeout without end are outside of what is checked. `Resolver` is fair to the lifetime timers; `SilentRouterForgotten`
assumes that announcements cease. `Tethering` is fair to the search loop: it is running
code that nothing interrupts.

### Refinement

`DnsProxy` implements `DnsService` under the mapping `Phase`: a query is pending while
it is in the request list, afterwards answered if a response went out and dropped if
not. `ServiceSpec` in `dns_requests` checks every step and, with the timers' fairness,
that no query is pending for ever. A query too short for
a header is dropped on arrival. The second response to a failed TCP query is a
stutter of `DnsService`; `AnsweredOnce` is about it.

## Proofs

Every invariant of a passing run is stated by a theorem, for every value of the
constants that satisfies the assumptions of the modules; so is the safety half of the
refinement of `DnsService`. `theorems` in `PROJECT.json` lists them. All have the same
shape: an inductive invariant `IInv`, that `Init` implies it, one step per action of
`Next` that it is kept, and that it implies what the runs check. TLC checked each `IInv`
on the instances of the runs too.

### DHCP server

`TypeCorrect`, `TableConsistent` (`IndexesAgree`), `OneLeaseEach`, `GrantsStayBacked`,
`AddressExclusive`, `RenewalsAnswered` and `ExpiredReclaimed`.

The inductive invariant is the conjunction of the type invariant, `IndexesAgree`,
`OneLeasePerMac`, `GrantBacked` and `AckExclusive`. None is inductive alone: that two
clients never share an address follows from `GrantBacked` (each running grant has a
lease object with its address) and the indexes (one object per address), and
`GrantBacked` is preserved because the code only recycles an object that has expired,
which the grant's own time excludes. Lemmas state what `add_lease`, `remove_lease`,
`lease_set_expire` and the sorted insertion do to the table. The assumptions on
constants are those of the module: a pool that does not start at 0, a `NULL` outside the
heap, natural numbers, and a clock past the first five minutes of 1970.

Two theorems have a hypothesis. `RenewalsAnswered` is about big-endian hosts, since
`server_renew` refutes it for the others. `ExpiredReclaimed` assumes `NoWrap`: every
time and every lease end fits in a `gint`, which with 32 bits holds until 2038. It
needs `Ordered`, that the list is sorted by expiry; `compare_expire` sorts by a
difference truncated to `gint`, so without `NoWrap` the list may be out of order, the
search may stop at a lease that still runs, and expired ones behind it are not reused.

### DHCP client and glue

`TypeCorrect`, `FlagIsShared` (`FlagOwned`), `LeasedAddressUsed` (`BoundInUse`),
`LinkLocalIsWatched`, `WatchedIsUsed` (`LinkLocalInUse`), `RequestsNameAddress`,
`AnswersHeard` (`ListensForAnswer`), `SomethingWakesIt` (`NeverStuck`) and
`GivingUpClears` (`NoLeaseCleared`).

The lemmas of `GDHCPClientProofs` describe a handler by the states and timers a
client may have afterwards (`Sane` and `SaneLL`: a timer is armed with a handler that
the state expects, a client that holds a lease has its address, one that requests has
an address to request). `DhcpOK` adds, for one interface, how the two clients, the
retry timer and the address in use fit together, and `IInv` is `TypeOK`, `FlagOwned`
and `DhcpOK` of every interface. `EveryStep` shows that each action replaces the record
of one interface by another one (`DhcpStep`), of which the callbacks' effect is a part,
so every theorem needs one argument about a record and one about the shared flag
(`FlagStep`). The flag is why the invariant has to speak of all interfaces: a client
may only be started when no other interface has one.

`AnswersHeard` and `SomethingWakesIt` assume that every socket can be opened
(`SocketOk \subseteq {TRUE}`); when one cannot, `restart_dhcp` ignores it and no timer
is armed (`hazards` names the line). `AnswersHeard` also assumes that no socket reports an
error (`WatchOk \subseteq {TRUE}`): `listener_event` then drops the watch and keeps
`listen_mode`, and the client is deaf for good. It joins two
invariants: `Alive`, by which a client that waits for an answer has the listen mode the
answer comes in, and `Attentive`, by which a client with a listen mode has its watch
(`Watched`); only `switch_listening_mode` changes either, and it changes both. `GivingUpClears` assumes a single interface; with
two it is false, see the table above. The runs check them under the same conditions.

### DNS proxy and cache

`TypeCorrect`, `TimersNeverDangle` (`TimersOwned`), `AtMostOneAnswer`
(`AnsweredOnce`), `BestReplyWins` (`BestReplyForwarded`) and `Refinement`, for any
queries, any finite set of servers and any `MaxMsgs`. `IInv` says of each query what
its place in the request list means: listed requests have a timer and have sent nothing;
a request off the list whose timer still runs is a TCP query that was failed and has
sent exactly that failure; the reply it keeps is the best any server gave. So
`BestReplyWins` says that no kept reply is lost, not that none is preceded by a failure:
that is false over TCP (`KeptBeforeServfail`). Without the
middle clause the second response of `AnsweredOnce` could not be bounded. The part about
sockets says that messages travel only on open ones, and connections were opened for
queries that were received.

`Refinement` is `Spec => Service!Safe`: every step of the proxy is a step or a stutter of
`DnsService` under `Phase`, several queries settled by one event included. `DnsService`
states safety (`Safe`) and liveness (`Live`) apart for this; the run checks both.

`DnsCacheProofs`: `TypeCorrect`, `SizeIsAccounted`, `NothingStaleServed`,
`NothingOutdatedServed`, `FullCacheMakesRoom`, for any finite set of names, TTLs, times
and limits. `IInv` says that the table maps names to entries whose answers are within
their lifetime, within `MAX_CACHE_TTL` and learnt after the last change, and that size
and references are exact. The lemmas state what cleaning up, refreshing and storing do
to a table.

### Resolver

`TypeCorrect`, `ServersHaveEntries` (`NoOrphan`), `FallbackOnlyAlone` and
`DefaultAlwaysServed`. The conjunction of the four is inductive; the lemmas are about
the server list, which the code edits in one order and `recreate`
(`__connman_resolver_redo_servers`) rebuilds in another.

### Pools and tethering

`TypeCorrect`, `ResourcesCounted` (`RunningCounted`), `PoolsStayApart`,
`BlocksAreCounted`, `PoolsGiveWay` (`PoolsYield`), for any finite set of technologies,
any private networks, blocks and foreign addresses, and any number of reports on their
way. The properties are far from inductive, because entries are looked up by interface
and network, and the reports that add and remove them come late. `IInv` has

* `CountOK`: with *n* tethering technologies out of *N*, the counter is between *n - N*
  and *n* (a failed start counts down without a technology that tethers);
* `SearchOK`: the interface a block is searched for is new, no address or report
  mentions it, and a search for the bridge is made with the counter at one;
* `TetherOK`: what runs, in terms of the counter, as in `RunningCounted`;
* `Ledger`: no two entries are for the same interface and network; each of connman's own
  addresses is reported once, as new and then as gone; an entry counts exactly the
  addresses known on it; every address has an entry, unless its pool is gone and the
  report of its removal is still queued; every pool belongs to the bridge or to the
  private network that owns it, and its address is there or on its way;
* `YieldOK`: the statement of `PoolsYield`.

`IndexAssumption` says that interfaces have indexes of their own, as the kernel's are,
and `NullAssumption` that `NULL` is none of the values it is compared with.

### Only model-checked

Liveness is out of the prover's reach: `GetsAddress`, `SearchEnds`,
`SilentRouterForgotten` and the liveness half of the refinement (`Service!Live`) stay
with TLC, under the fairness above. The expected violations are counterexamples that
TLC finds; a theorem cannot show them.

## Not modelled

* DHCP: packet layout and option codecs, the payload options (name servers, MTU,
  proxies), the RELEASE a stopped client sends, broadcast flags, name lookups of
  services that do not exist, out-of-memory paths.
* DNS proxy: names, compression and the cutting of domains (a reply that cannot be cut
  back is a kind of its own), colliding message identifiers, the framing and time-out
  of TCP clients, the failure of one of several messages to a server, creation of
  listeners (their removal is modelled), and the lookups that a refresh sends.
* Resolver: search domains, the resolv.conf file, RTNL watches.
* Tethering: the NAT table, of which only success or failure matters here (`hazards`
  names what its single entry leads to), the DNS proxy's listener, IPv6 prefix
  delegation, the cleanup at exit, prefixes of 32 bits, and the D-Bus side of private
  networks: the reply to the caller, and the watch on the owner, which outlives a request
  that found no block (`tethering.c:509`).
* All parts listed as `not_modelled` in `PROJECT.json`: drivers, D-Bus front ends and
  file formats, whose behaviour is that of external programs, and DHCPv6, services and
  networks, which are next.

## Plan

1. Action properties, with the inductive invariants at hand: what a step may never do to
   another client's grant (server), to another interface (glue), to a settled query
   (proxy).
2. `DhcpSystem`: clients and server composed over a network that loses, repeats and
   reorders packets, with an abstract specification of "an address has one holder" that
   the composition implements; the lemmas of `DhcpServerProofs` carry over.
3. DHCPv6 (`gdhcp/client.c`, `src/dhcpv6.c`): retransmission, renew, rebind, release,
   the widths of the timer arithmetic.
4. Service and network state machines.
