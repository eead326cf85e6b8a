----------------------------- MODULE MCDnsCache -----------------------------
(***************************************************************************)
(* Instances of DnsCache for TLC.  The bounds on lifetimes are the real     *)
(* ones: an answer lives the maximum of half an hour, rounded down, and the *)
(* instants are the insertion, half a minute later, when the next refresh   *)
(* is due, and just past half an hour after the insertion.                  *)
(***************************************************************************)
EXTENDS DnsCache, TLC

CONSTANTS n1, n2

TwoNames == {n1, n2}
NameSymmetry == Permutations(Names)

FewTtls == {0, 7200}
FewInstants == {1003, 1034, 2804}
=============================================================================
