---------------------------- MODULE MCTethering -----------------------------
(***************************************************************************)
(* Instances of Tethering for TLC: one block in each of the three private   *)
(* ranges.                                                                  *)
(***************************************************************************)
EXTENDS Tethering

CONSTANTS t1, t2, p1, eth, vpn

Addr(index, start, end, nr) == [index |-> index, start |-> start, end |-> end, nr |-> nr]

\* Two addresses on one network, in the block that the first search takes.
TwoAddrs == {Addr(eth, 4, 5, 1), Addr(eth, 4, 5, 2)}

\* All of the private ranges: 10.0.0.0/8 with 172.16.0.0/12, and 192.168.0.0/16.
AllAddrs == {Addr(vpn, 0, 3, 1), Addr(eth, 4, 5, 1)}
=============================================================================
