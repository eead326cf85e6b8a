----------------------------- MODULE MCResolver -----------------------------
(***************************************************************************)
(* Instances of Resolver for TLC: two interfaces, the second a VPN with     *)
(* split routing, two name servers on the first and one on the second, and  *)
(* two fallback servers.                                                    *)
(***************************************************************************)
EXTENDS Resolver

CONSTANTS a1, a2, b1, f1, f2, wlan, vpn

ThreeServers == {a1, a2, b1}
TwoFallbacks == {f1, f2}
TwoIndexes == {wlan, vpn}
Placement == [k \in ThreeServers |-> IF k = b1 THEN vpn ELSE wlan]
VpnOnly == {vpn}
=============================================================================
