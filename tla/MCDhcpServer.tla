---------------------------- MODULE MCDhcpServer ----------------------------
(* Instances of DhcpServer for TLC: 4-bit bytes, the pool 10.0.0.13-10.0.0.15 *)
EXTENDS DhcpServer, TLC

CONSTANTS m1, m2, m3, bcast, p1, p2, p3

Net == 10 * BYTE^3          \* 10.0.0.0
FirstIp == Net + 13
LastIp == Net + 15
Others == {0, FirstIp, LastIp}
InPool == {0} \cup (FirstIp .. LastIp)

Symmetry == Permutations(Macs) \cup Permutations(Pointers)
=============================================================================
