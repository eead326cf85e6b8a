---------------------------- MODULE MCConnmanDhcp ----------------------------
(***************************************************************************)
(* ConnmanDhcp with values for TLC.  One lease time is below the minimum of  *)
(* get_lease, the other long enough for one retransmission by continue_renew *)
(* and one by continue_rebound.                                              *)
(***************************************************************************)
EXTENDS ConnmanDhcp

CONSTANTS eth0, wlan0, a1, a2, ll1

OneIface == {eth0}
TwoIfaces == {eth0, wlan0}
OneIp == {a1}
TwoIps == {a1, a2}
LinkLocalIps == {ll1}
NoLease == {}
ShortLease == {5}
LongLease == {1000}
Works == {TRUE}
MayFail == {TRUE, FALSE}
=============================================================================
