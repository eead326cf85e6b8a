----------------------------- MODULE MCDnsProxy -----------------------------
(***************************************************************************)
(* Instances of DnsProxy for TLC: one query of each protocol, or two that   *)
(* share TCP connections, and two name servers, one with a search domain.   *)
(***************************************************************************)
EXTENDS DnsProxy

CONSTANTS u1, t1, t2, s1, s2

NoReqs == {}
OneUdp == {u1}
OneTcp == {t1}
TwoTcp == {t1, t2}
TwoServers == {s1, s2}
OneDomain == {s2}
=============================================================================
