-------------------------- MODULE DhcpServerProofs --------------------------
(***************************************************************************)
(* Proofs about DhcpServer, for every pool, every set of clients and every  *)
(* lease time.                                                              *)
(***************************************************************************)
EXTENDS DhcpServer, ListLemmas

-----------------------------------------------------------------------------
(***************************************************************************)
(* The list operations of GLib.                                             *)
(***************************************************************************)

\* Removing one entry of a duplicate-free list (g_list_remove).
LEMMA RemoveFirstProperties ==
  ASSUME NEW S, NEW s \in Seq(S), IsInjective(s), NEW e
  PROVE  /\ RemoveFirst(s, e) \in Seq(S)
         /\ IsInjective(RemoveFirst(s, e))
         /\ ToSet(RemoveFirst(s, e)) = ToSet(s) \ {e}
<1>1. CASE ~ \E i \in 1 .. Len(s) : s[i] = e
  BY <1>1 DEF RemoveFirst, ToSet
<1>2. CASE \E i \in 1 .. Len(s) : s[i] = e
  <2> DEFINE I == {i \in 1 .. Len(s) : s[i] = e}
             k == Min(I)
             r == RemoveAt(s, k)
  <2>1. k \in 1 .. Len(s) /\ s[k] = e
    <3>1. I \subseteq Nat /\ I # {}
      BY <1>2
    <3>2. k \in I
      BY <3>1, MinOfPositions
    <3> QED BY <3>2
  <2>2. RemoveFirst(s, e) = r
    BY <1>2 DEF RemoveFirst, SelectInSeq
  <2> HIDE DEF k
  <2>3. /\ r \in Seq(S) /\ Len(r) = Len(s) - 1
        /\ \A i \in 1 .. Len(s) - 1 : r[i] = IF i < k THEN s[i] ELSE s[i + 1]
    BY <2>1, RemoveAtElements
  <2>4. IsInjective(r)
    BY <2>1, <2>3 DEF IsInjective
  <2>5. ToSet(r) = ToSet(s) \ {e}
    <3>1. ASSUME NEW i \in 1 .. Len(r)
          PROVE  r[i] \in ToSet(s) /\ r[i] # e
      <4> DEFINE j == IF i < k THEN i ELSE i + 1
      <4>1. j \in 1 .. Len(s) /\ j # k /\ r[i] = s[j]
        BY <2>1, <2>3
      <4> QED BY <4>1, <2>1 DEF ToSet, IsInjective
    <3>2. ASSUME NEW j \in 1 .. Len(s), s[j] # e
          PROVE  s[j] \in ToSet(r)
      <4>1. CASE j < k
        BY <4>1, <2>1, <2>3, r[j] = s[j] DEF ToSet
      <4>2. CASE j > k
        BY <4>2, <2>1, <2>3, r[j - 1] = s[j] DEF ToSet
      <4> QED BY <4>1, <4>2, <2>1, <3>2
    <3> QED BY <3>1, <3>2, <2>3 DEF ToSet
  <2> QED BY <2>2, <2>3, <2>4, <2>5
<1> QED BY <1>1, <1>2

\* The entries of a list with e at k.
LEMMA InsertAtElements ==
  ASSUME NEW S, NEW s \in Seq(S), NEW e \in S, NEW k \in 1 .. Len(s) + 1
  PROVE  /\ InsertAt(s, k, e) \in Seq(S) /\ Len(InsertAt(s, k, e)) = Len(s) + 1
         /\ \A i \in 1 .. Len(s) + 1 :
              InsertAt(s, k, e)[i] = IF i < k THEN s[i] ELSE IF i = k THEN e ELSE s[i - 1]
<1> DEFINE r == InsertAt(s, k, e)
<1> DEFINE a == SubSeq(s, 1, k - 1)
           b == SubSeq(s, k, Len(s))
           c == a \o <<e>>
<1>1. /\ a \in Seq(S) /\ Len(a) = k - 1
      /\ \A i \in 1 .. k - 1 : a[i] = s[i]
  OBVIOUS
<1>2. /\ b \in Seq(S) /\ Len(b) = Len(s) - k + 1
      /\ \A i \in 1 .. Len(s) - k + 1 : b[i] = s[k + i - 1]
  OBVIOUS
<1>3. r = c \o b
  BY DEF InsertAt
<1> HIDE DEF a, b, r
<1>4. /\ c \in Seq(S) /\ Len(c) = k
      /\ \A i \in 1 .. k : c[i] = IF i < k THEN s[i] ELSE e
  BY <1>1
<1> HIDE DEF c
<1>5. /\ r \in Seq(S) /\ Len(r) = Len(s) + 1
      /\ \A i \in 1 .. Len(c) + Len(b) :
           r[i] = IF i <= Len(c) THEN c[i] ELSE b[i - Len(c)]
  BY <1>2, <1>3, <1>4, ConcatProperties
<1>6. ASSUME NEW i \in 1 .. Len(s) + 1, i <= k
      PROVE  r[i] = IF i < k THEN s[i] ELSE e
  BY <1>2, <1>4, <1>5, <1>6
<1>7. ASSUME NEW i \in 1 .. Len(s) + 1, i > k
      PROVE  r[i] = s[i - 1]
  <2>1. r[i] = b[i - k]
    BY <1>2, <1>4, <1>5, <1>7
  <2>2. i - k \in 1 .. Len(s) - k + 1 /\ k + (i - k) - 1 = i - 1
    BY <1>7
  <2> QED BY <2>1, <2>2, <1>2
<1> QED BY <1>5, <1>6, <1>7 DEF r

\* Inserting a new entry into a duplicate-free list.
LEMMA InsertAtProperties ==
  ASSUME NEW S, NEW s \in Seq(S), IsInjective(s), NEW e \in S, e \notin ToSet(s),
         NEW k \in 1 .. Len(s) + 1
  PROVE  /\ InsertAt(s, k, e) \in Seq(S)
         /\ IsInjective(InsertAt(s, k, e))
         /\ ToSet(InsertAt(s, k, e)) = ToSet(s) \cup {e}
<1> DEFINE r == InsertAt(s, k, e)
<1>1. /\ r \in Seq(S) /\ Len(r) = Len(s) + 1
      /\ \A i \in 1 .. Len(s) + 1 :
           r[i] = IF i < k THEN s[i] ELSE IF i = k THEN e ELSE s[i - 1]
  BY InsertAtElements, SMTT(30)
<1> HIDE DEF r
<1>2. IsInjective(r)
  <2>1. ASSUME NEW i \in 1 .. Len(r), NEW j \in 1 .. Len(r), i < j
        PROVE  r[i] # r[j]
    <3>1. CASE i = k
      BY <3>1, <2>1, <1>1, r[j] = s[j - 1], r[i] = e DEF ToSet
    <3>2. CASE j = k
      BY <3>2, <2>1, <1>1, r[i] = s[i], r[j] = e DEF ToSet
    <3>3. CASE i # k /\ j # k
      <4> DEFINE x == IF i < k THEN i ELSE i - 1
                 y == IF j < k THEN j ELSE j - 1
      <4>1. /\ x \in 1 .. Len(s) /\ y \in 1 .. Len(s) /\ x # y
            /\ r[i] = s[x] /\ r[j] = s[y]
        BY <3>3, <2>1, <1>1
      <4> HIDE DEF x, y
      <4> QED BY <4>1 DEF IsInjective
    <3> QED BY <3>1, <3>2, <3>3
  <2>2. ASSUME NEW i \in 1 .. Len(r), NEW j \in 1 .. Len(r), r[i] = r[j]
        PROVE  i = j
    BY <2>1, <2>2
  <2> QED BY <2>2, <1>1 DEF IsInjective
<1>3. ToSet(r) = ToSet(s) \cup {e}
  <2>1. ToSet(r) \subseteq ToSet(s) \cup {e}
    BY <1>1 DEF ToSet
  <2>2. e \in ToSet(r)
    BY <1>1 DEF ToSet
  <2>3. ASSUME NEW j \in 1 .. Len(s)
        PROVE  s[j] \in ToSet(r)
    <3>1. CASE j < k
      BY <3>1, <1>1, r[j] = s[j] DEF ToSet
    <3>2. CASE j >= k
      BY <3>2, <1>1, r[j + 1] = s[j] DEF ToSet
    <3> QED BY <3>1, <3>2
  <2> QED BY <2>1, <2>2, <2>3 DEF ToSet
<1> QED BY <1>1, <1>2, <1>3 DEF r

\* g_list_insert_sorted, wherever the comparison puts the new entry.
LEMMA InsertSortedProperties ==
  ASSUME NEW S, NEW s \in Seq(S), IsInjective(s), NEW e \in S, e \notin ToSet(s),
         NEW heap
  PROVE  /\ insert_sorted(s, e, heap) \in Seq(S)
         /\ IsInjective(insert_sorted(s, e, heap))
         /\ ToSet(insert_sorted(s, e, heap)) = ToSet(s) \cup {e}
<1> DEFINE I == {i \in 1 .. Len(s) : compare_expire(heap[e], heap[s[i]]) <= 0}
           j == IF I # {} THEN Min(I) ELSE 0
           k == IF j = 0 THEN Len(s) + 1 ELSE j
<1>1. insert_sorted(s, e, heap) = InsertAt(s, k, e)
  BY DEF insert_sorted, SelectInSeq
<1>2. k \in 1 .. Len(s) + 1
  <2>1. CASE I = {}
    BY <2>1
  <2>2. CASE I # {}
    <3>1. I \subseteq Nat
      OBVIOUS
    <3>2. Min(I) \in I
      BY <2>2, <3>1, MinOfPositions
    <3> QED BY <3>2, <2>2
  <2> QED BY <2>1, <2>2
<1> HIDE DEF k
<1> QED BY <1>1, <1>2, InsertAtProperties

-----------------------------------------------------------------------------
(***************************************************************************)
(* The lease table.                                                         *)
(***************************************************************************)
TableInv == TableTypeOK /\ IndexesAgree /\ OneLeasePerMac

LEMMA FindByMac ==
  ASSUME TableInv, NEW mac
  PROVE  \/ /\ find_lease_by_mac(mac) = NULL
            /\ \A p \in DOMAIN lease : lease[p].mac # mac
         \/ /\ find_lease_by_mac(mac) # NULL
            /\ find_lease_by_mac(mac) \in DOMAIN lease
            /\ lease[find_lease_by_mac(mac)].mac = mac
<1> DEFINE I == {i \in 1 .. Len(lease_list) : lease[lease_list[i]].mac = mac}
           k == IF I # {} THEN Min(I) ELSE 0
<1>1. find_lease_by_mac(mac) = IF k = 0 THEN NULL ELSE lease_list[k]
  BY DEF find_lease_by_mac, SelectInSeq
<1>2. /\ lease_list \in Seq(Pointers)
      /\ \A p : p \in DOMAIN lease <=> \E i \in 1 .. Len(lease_list) : lease_list[i] = p
  BY DEF TableInv, TableTypeOK, IndexesAgree, ToSet
<1>3. CASE I = {}
  <2>1. \A p \in DOMAIN lease : lease[p].mac # mac
    BY <1>3, <1>2
  <2> QED BY <2>1, <1>1, <1>3
<1>4. CASE I # {}
  <2>1. I \subseteq Nat /\ Min(I) \in I
    BY <1>4, MinOfPositions, I \subseteq Nat
  <2>2. k \in 1 .. Len(lease_list) /\ lease[lease_list[k]].mac = mac
    BY <2>1, <1>4
  <2> HIDE DEF k
  <2>3. lease_list[k] \in DOMAIN lease
    BY <2>2, <1>2
  <2>4. lease_list[k] # NULL
    BY <2>3, PointerAssumption DEF TableInv, TableTypeOK
  <2> QED BY <2>2, <2>3, <2>4, <1>1
<1> QED BY <1>3, <1>4

LEMMA FindByNip ==
  ASSUME TableInv, NEW nip
  PROVE  \/ /\ find_lease_by_nip(nip) = NULL
            /\ \A p \in DOMAIN lease : lease[p].nip # nip
         \/ /\ find_lease_by_nip(nip) # NULL
            /\ find_lease_by_nip(nip) \in DOMAIN lease
            /\ lease[find_lease_by_nip(nip)].nip = nip
BY PointerAssumption DEF TableInv, TableTypeOK, IndexesAgree, find_lease_by_nip

\* The heap that add_lease leaves: the client's lease, and every lease of
\* another client except the one whose object was recycled.
AddedLease(p, expire, mac, yiaddr) ==
    /\ p \in DOMAIN lease'
    /\ lease'[p] = [mac |-> mac, nip |-> yiaddr,
                    expire |-> IF expire = 0 THEN now + LeaseSeconds ELSE expire]
    /\ \A q \in DOMAIN lease' \ {p} :
         q \in DOMAIN lease /\ lease'[q] = lease[q] /\ lease[q].mac # mac
    /\ \A q \in DOMAIN lease \ {p} : lease[q].mac # mac => q \in DOMAIN lease'

LEMMA AddLease ==
  ASSUME TableInv, now \in Nat, NEW mac \in Macs, NEW yiaddr \in Pool,
         NEW expire \in Nat, NEW p \in get_lease(yiaddr, mac),
         add_lease(p, expire, mac, yiaddr)
  PROVE  TableInv' /\ AddedLease(p, expire, mac, yiaddr)
<1> DEFINE lm == find_lease_by_mac(mac)
           ln == find_lease_by_nip(yiaddr)
           new == [mac |-> mac, nip |-> yiaddr,
                   expire |-> IF expire = 0 THEN now + LeaseSeconds ELSE expire]
           heap == [q \in (DOMAIN lease \ {lm}) \cup {p} |->
                      IF q = p THEN new ELSE lease[q]]
           unhashed == IF lm = NULL THEN {} ELSE {lease[lm].nip}
           rest == RemoveFirst(RemoveFirst(lease_list, p), lm)
<1>1. /\ lease' = heap
      /\ lease_list' = insert_sorted(rest, p, heap)
      /\ nip_lease_hash' = [n \in (DOMAIN nip_lease_hash \ unhashed) \cup {yiaddr} |->
                              IF n = yiaddr THEN p ELSE nip_lease_hash[n]]
  BY DEF add_lease
<1>2. \/ lm = NULL /\ \A q \in DOMAIN lease : lease[q].mac # mac
      \/ lm # NULL /\ lm \in DOMAIN lease /\ lease[lm].mac = mac
  BY FindByMac
<1>3. \/ ln = NULL /\ \A q \in DOMAIN lease : lease[q].nip # yiaddr
      \/ ln # NULL /\ ln \in DOMAIN lease /\ lease[ln].nip = yiaddr
  BY FindByNip
<1>4. \/ ln # NULL /\ p = ln
      \/ ln = NULL /\ lm # NULL /\ p = lm
      \/ ln = NULL /\ lm = NULL /\ p \in Pointers \ DOMAIN lease
  BY DEF get_lease
<1> HIDE DEF lm, ln
<1> NULL \notin DOMAIN lease
  BY PointerAssumption DEF TableInv, TableTypeOK
<1>5. p \in Pointers
  BY <1>2, <1>3, <1>4 DEF TableInv, TableTypeOK
<1>6. new \in Lease
  BY TimeAssumption DEF Lease
<1>7. /\ lease_list \in Seq(Pointers) /\ IsInjective(lease_list)
      /\ ToSet(lease_list) = DOMAIN lease
  BY DEF TableInv, TableTypeOK, IndexesAgree
<1>8. /\ rest \in Seq(Pointers) /\ IsInjective(rest)
      /\ ToSet(rest) = (DOMAIN lease \ {p}) \ {lm}
  BY <1>7, RemoveFirstProperties
<1> HIDE DEF rest, new
<1>9. /\ lease_list' \in Seq(Pointers) /\ IsInjective(lease_list')
      /\ ToSet(lease_list') = (DOMAIN lease \ {lm}) \cup {p}
  <2> HIDE DEF heap
  <2> QED BY <1>1, <1>5, <1>8, InsertSortedProperties
<1>10. /\ DOMAIN lease' = (DOMAIN lease \ {lm}) \cup {p}
       /\ lease'[p] = new
       /\ \A q \in DOMAIN lease' \ {p} : lease'[q] = lease[q]
  BY <1>1
<1>11. \A q \in DOMAIN lease' \ {p} :
         /\ q \in DOMAIN lease /\ lease[q].mac # mac /\ lease[q].nip # yiaddr
  <2> TAKE q \in DOMAIN lease' \ {p}
  <2>1. q \in DOMAIN lease /\ q # lm
    BY <1>10
  <2>2. lease[q].mac # mac
    BY <2>1, <1>2 DEF TableInv, OneLeasePerMac
  <2>3. lease[q].nip # yiaddr
    BY <2>1, <1>3, <1>4 DEF TableInv, IndexesAgree
  <2> QED BY <2>1, <2>2, <2>3
<1>12. TableTypeOK'
  <2>1. lease' \in [DOMAIN lease' -> Lease] /\ DOMAIN lease' \subseteq Pointers
    BY <1>1, <1>5, <1>6 DEF TableInv, TableTypeOK
  <2>2. /\ nip_lease_hash' \in [DOMAIN nip_lease_hash' -> Pointers]
        /\ DOMAIN nip_lease_hash' \subseteq Pool
    BY <1>1, <1>5 DEF TableInv, TableTypeOK
  <2> QED BY <2>1, <2>2, <1>9 DEF TableTypeOK
<1>13. OneLeasePerMac'
  <2>1. lease'[p].mac = mac
    BY <1>10 DEF new
  <2>2. \A q \in DOMAIN lease' \ {p} : lease'[q].mac # mac
    BY <1>10, <1>11
  <2>3. \A q, r \in DOMAIN lease' \ {p} : lease'[q].mac = lease'[r].mac => q = r
    BY <1>10, <1>11 DEF TableInv, OneLeasePerMac
  <2> QED BY <2>1, <2>2, <2>3 DEF OneLeasePerMac
<1>14. IndexesAgree'
  <2>1. lease'[p].nip = yiaddr
    BY <1>10 DEF new
  <2>2. \A q \in DOMAIN lease' \ {p} :
          /\ lease'[q].nip = lease[q].nip /\ lease[q].nip # yiaddr
          /\ lease[q].nip \notin unhashed /\ lease[q].nip \in DOMAIN nip_lease_hash
    BY <1>2, <1>10, <1>11 DEF TableInv, IndexesAgree
  <2>3. \A n \in DOMAIN nip_lease_hash \ (unhashed \cup {yiaddr}) :
          /\ nip_lease_hash[n] \in DOMAIN lease' \ {p}
          /\ lease[nip_lease_hash[n]].nip = n
    <3> SUFFICES ASSUME NEW n \in DOMAIN nip_lease_hash, n \notin unhashed, n # yiaddr
                 PROVE  /\ nip_lease_hash[n] \in DOMAIN lease' \ {p}
                        /\ lease[nip_lease_hash[n]].nip = n
      OBVIOUS
    <3>1. PICK q \in DOMAIN lease : lease[q].nip = n /\ nip_lease_hash[n] = q
      BY DEF TableInv, IndexesAgree
    <3>2. q # lm /\ q # p
      BY <3>1, <1>3, <1>4
    <3> QED BY <3>1, <3>2, <1>10
  <2>4. DOMAIN nip_lease_hash' = {lease'[q].nip : q \in DOMAIN lease'}
    <3>1. DOMAIN nip_lease_hash' = (DOMAIN nip_lease_hash \ unhashed) \cup {yiaddr}
      BY <1>1
    <3>2. ASSUME NEW n \in DOMAIN nip_lease_hash'
          PROVE  \E q \in DOMAIN lease' : lease'[q].nip = n
      <4>1. CASE n = yiaddr
        BY <4>1, <2>1, <1>10
      <4>2. CASE n # yiaddr
        <5>1. n \in DOMAIN nip_lease_hash \ (unhashed \cup {yiaddr})
          BY <4>2, <3>1
        <5> QED BY <5>1, <2>2, <2>3
      <4> QED BY <4>1, <4>2
    <3>3. ASSUME NEW q \in DOMAIN lease'
          PROVE  lease'[q].nip \in DOMAIN nip_lease_hash'
      BY <2>1, <2>2, <3>1
    <3> QED BY <3>2, <3>3
  <2>5. \A q \in DOMAIN lease' : nip_lease_hash'[lease'[q].nip] = q
    BY <2>1, <2>2, <1>1, <1>11 DEF TableInv, IndexesAgree
  <2> QED BY <2>4, <2>5, <1>9, <1>10 DEF IndexesAgree
<1>15. AddedLease(p, expire, mac, yiaddr)
  <2>1. \A q \in DOMAIN lease \ {p} : lease[q].mac # mac => q \in DOMAIN lease'
    BY <1>2, <1>10
  <2> QED BY <2>1, <1>10, <1>11 DEF AddedLease, new
<1> QED BY <1>12, <1>13, <1>14, <1>15 DEF TableInv

LEMMA RemoveLease ==
  ASSUME TableInv, NEW p \in DOMAIN lease, remove_lease(p)
  PROVE  /\ TableInv'
         /\ DOMAIN lease' = DOMAIN lease \ {p}
         /\ \A q \in DOMAIN lease' : lease'[q] = lease[q]
<1>1. /\ lease_list' \in Seq(Pointers) /\ IsInjective(lease_list')
      /\ ToSet(lease_list') = DOMAIN lease \ {p}
  BY RemoveFirstProperties
     DEF remove_lease, TableInv, TableTypeOK, IndexesAgree
<1>2. /\ DOMAIN lease' = DOMAIN lease \ {p}
      /\ \A q \in DOMAIN lease' : lease'[q] = lease[q]
      /\ DOMAIN nip_lease_hash' = DOMAIN nip_lease_hash \ {lease[p].nip}
      /\ \A n \in DOMAIN nip_lease_hash' : nip_lease_hash'[n] = nip_lease_hash[n]
  BY DEF remove_lease, Restrict
<1>3. TableTypeOK'
  BY <1>1, Zenon DEF remove_lease, Restrict, TableInv, TableTypeOK
<1>4. OneLeasePerMac'
  BY <1>2 DEF TableInv, OneLeasePerMac
<1>5. \A q \in DOMAIN lease' : /\ lease[q].nip # lease[p].nip
                                /\ lease[q].nip \in DOMAIN nip_lease_hash
  BY <1>2 DEF TableInv, IndexesAgree
<1>6. DOMAIN nip_lease_hash' = {lease'[q].nip : q \in DOMAIN lease'}
  <2>1. ASSUME NEW n \in DOMAIN nip_lease_hash'
        PROVE  \E q \in DOMAIN lease' : lease'[q].nip = n
    <3>1. PICK q \in DOMAIN lease : lease[q].nip = n
      BY <1>2 DEF TableInv, IndexesAgree
    <3> QED BY <3>1, <1>2
  <2>2. ASSUME NEW q \in DOMAIN lease'
        PROVE  lease'[q].nip \in DOMAIN nip_lease_hash'
    BY <1>2, <1>5
  <2> QED BY <2>1, <2>2
<1>7. \A q \in DOMAIN lease' : nip_lease_hash'[lease'[q].nip] = q
  BY <1>2, <1>5 DEF TableInv, IndexesAgree
<1> QED BY <1>1, <1>2, <1>3, <1>4, <1>6, <1>7 DEF TableInv, IndexesAgree

LEMMA LeaseSetExpire ==
  ASSUME TableInv, NEW p \in DOMAIN lease, NEW expire \in Nat,
         lease_set_expire(p, expire)
  PROVE  /\ TableInv'
         /\ DOMAIN lease' = DOMAIN lease
         /\ \A q \in DOMAIN lease \ {p} : lease'[q] = lease[q]
<1> DEFINE heap == [lease EXCEPT ![p].expire = expire]
           rest == RemoveFirst(lease_list, p)
<1>1. /\ lease' = heap /\ UNCHANGED nip_lease_hash
      /\ lease_list' = insert_sorted(rest, p, heap)
  BY DEF lease_set_expire
<1>2. /\ rest \in Seq(Pointers) /\ IsInjective(rest)
      /\ ToSet(rest) = DOMAIN lease \ {p}
  BY RemoveFirstProperties DEF TableInv, TableTypeOK, IndexesAgree
<1>3. /\ lease_list' \in Seq(Pointers) /\ IsInjective(lease_list')
      /\ ToSet(lease_list') = DOMAIN lease
  <2> HIDE DEF heap, rest
  <2>1. p \in Pointers
    BY DEF TableInv, TableTypeOK
  <2>2. /\ lease_list' \in Seq(Pointers) /\ IsInjective(lease_list')
        /\ ToSet(lease_list') = ToSet(rest) \cup {p}
    BY <1>1, <1>2, <2>1, p \notin ToSet(rest), InsertSortedProperties
  <2> QED BY <1>2, <2>2
<1>4. /\ DOMAIN lease' = DOMAIN lease
      /\ \A q \in DOMAIN lease \ {p} : lease'[q] = lease[q]
      /\ \A q \in DOMAIN lease : /\ lease'[q] \in Lease
                                 /\ lease'[q].mac = lease[q].mac
                                 /\ lease'[q].nip = lease[q].nip
  BY <1>1 DEF TableInv, TableTypeOK, Lease
<1>5. TableTypeOK'
  <2>1. lease' \in [DOMAIN lease' -> Lease]
    BY <1>1, <1>4 DEF TableInv, TableTypeOK
  <2> QED BY <2>1, <1>1, <1>3, <1>4 DEF TableInv, TableTypeOK
<1>6. OneLeasePerMac'
  BY <1>4 DEF TableInv, OneLeasePerMac
<1>7. IndexesAgree'
  BY <1>1, <1>3, <1>4 DEF TableInv, IndexesAgree
<1> QED BY <1>4, <1>5, <1>6, <1>7 DEF TableInv

-----------------------------------------------------------------------------
(***************************************************************************)
(* The inductive invariant.                                                 *)
(***************************************************************************)
IInv == TypeOK /\ IndexesAgree /\ OneLeasePerMac /\ GrantBacked /\ AckExclusive

\* A step that leaves the table, the server object and the grants alone, except
\* that time may pass, keeps the invariant.
LEMMA QuietStep ==
  ASSUME IInv, UNCHANGED <<table, epoch, granted>>,
         now' \in Nat, now <= now', listening' \in BOOLEAN,
         state' \in {"none", "stopped", "started"}, state = "none" => state' = "none",
         listening' => state' = "started"
  PROVE  IInv'
<1>1. TypeOK' /\ IndexesAgree' /\ OneLeasePerMac'
  BY DEF IInv, table, TypeOK, TableTypeOK, IndexesAgree, OneLeasePerMac
<1>2. \A m \in Macs : Live(m)' => Live(m)
  BY DEF IInv, TypeOK, Grant, Live
<1>3. GrantBacked'
  BY <1>2 DEF IInv, table, GrantBacked
<1>4. AckExclusive'
  BY <1>2 DEF IInv, AckExclusive
<1> QED BY <1>1, <1>3, <1>4 DEF IInv

LEMMA TableInvOfIInv == ASSUME IInv PROVE TableInv
BY DEF IInv, TypeOK, TableInv

\* A client gives its address up while its own lease object, and that one
\* only, is rewritten.
LEMMA GiveUpStep ==
  ASSUME IInv, TableInv', NEW mac \in Macs, GivesUp(mac),
         UNCHANGED <<state, listening, now, epoch>>,
         \A q \in DOMAIN lease : lease[q].mac # mac /\ ~ is_expired_lease(q)
            => q \in DOMAIN lease' /\ lease'[q] = lease[q]
  PROVE  IInv'
<1>1. /\ granted' \in [Macs -> Grant]
      /\ granted'[mac] = NoGrant
      /\ \A m \in Macs \ {mac} : granted'[m] = granted[m]
  BY DEF IInv, TypeOK, GivesUp, NoGrant, Grant
<1>2. TypeOK'
  BY <1>1 DEF IInv, TypeOK, TableInv, NoGrant, Grant
<1>3. ~ Live(mac)' /\ \A m \in Macs \ {mac} : Live(m)' <=> Live(m)
  BY <1>1 DEF Live, NoGrant
<1>4. GrantBacked'
  <2> SUFFICES ASSUME NEW m \in Macs, Live(m)', granted'[m].by = epoch', state' # "none"
               PROVE  \E p \in DOMAIN lease' :
                        lease'[p] = [mac |-> m, nip |-> granted'[m].nip,
                                     expire |-> granted'[m].until]
    BY DEF GrantBacked
  <2>1. m # mac /\ Live(m) /\ granted[m] = granted'[m]
    BY <1>1, <1>3
  <2>2. PICK p \in DOMAIN lease :
          lease[p] = [mac |-> m, nip |-> granted[m].nip, expire |-> granted[m].until]
    BY <2>1 DEF IInv, GrantBacked
  <2>3. ~ is_expired_lease(p)
    BY <2>1, <2>2 DEF IInv, TypeOK, Grant, Live, is_expired_lease
  <2> QED BY <2>1, <2>2, <2>3
<1>5. AckExclusive'
  BY <1>1, <1>3 DEF IInv, AckExclusive
<1> QED BY <1>2, <1>4, <1>5 DEF IInv, TableInv

LEMMA DiscoverStep ==
  ASSUME IInv, NEW pkt \in Packet, Discover(pkt)
  PROVE  IInv'
<1> DEFINE yi == offer_nip(pkt)
           own == find_lease_by_mac(pkt.mac)
<1>1. /\ UNCHANGED <<state, listening, now, epoch>>
      /\ send_offer(pkt)
  BY DEF Discover, Accepts
<1>2. TableInv
  BY TableInvOfIInv
<1>3. CASE UNCHANGED <<table, granted>>
  BY <1>1, <1>3, QuietStep DEF IInv, TypeOK
<1>4. CASE \E p \in get_lease(yi, pkt.mac) :
             add_lease(p, OFFER_TIME, pkt.mac, yi) /\ GivesUp(pkt.mac)
  <2>1. PICK p \in get_lease(yi, pkt.mac) :
          add_lease(p, OFFER_TIME, pkt.mac, yi) /\ GivesUp(pkt.mac)
    BY <1>4
  <2>2. pkt.mac \in Macs /\ yi \in Pool
    BY <2>1 DEF get_lease, Packet, AnyPacket
  <2>3. TableInv' /\ AddedLease(p, OFFER_TIME, pkt.mac, yi)
    BY <1>2, <2>1, <2>2, TimeAssumption, AddLease DEF IInv, TypeOK
  \* The object recycled for the offer is the client's own or an expired one.
  <2>4. \A q \in DOMAIN lease :
          lease[q].nip = yi => lease[q].mac = pkt.mac \/ is_expired_lease(q)
    <3>1. CASE own # NULL
      BY <3>1, <1>2, FindByMac DEF offer_nip, TableInv, IndexesAgree
    <3>2. CASE own = NULL /\ check_requested_nip(pkt.req)
      BY <3>2, <1>2 DEF offer_nip, check_requested_nip, TableInv, IndexesAgree
    <3>3. CASE own = NULL /\ ~ check_requested_nip(pkt.req)
      <4>1. yi = find_free_or_expired_nip
        BY <3>3 DEF offer_nip
      <4> DEFINE free == Pickable \ DOMAIN nip_lease_hash
                 last == lease_list[Len(lease_list)]
      <4>2. CASE free # {}
        <5>1. free \subseteq Nat
          BY PoolAssumption DEF Pickable, Pool
        <5>2. Min(free) \in free
          BY <4>2, <5>1, MinOfPositions
        <5>3. yi \notin DOMAIN nip_lease_hash
          BY <4>1, <4>2, <5>2 DEF find_free_or_expired_nip
        <5> QED BY <5>3, <1>2 DEF TableInv, IndexesAgree
      <4>3. CASE free = {}
        <5>1. lease_list # << >> /\ is_expired_lease(last) /\ yi = lease[last].nip
          BY <4>1, <4>3, <2>2, PoolAssumption DEF find_free_or_expired_nip, Pool
        <5>2. last \in DOMAIN lease
          BY <5>1, <1>2 DEF TableInv, TableTypeOK, IndexesAgree, ToSet
        <5> QED BY <5>1, <5>2, <1>2 DEF TableInv, IndexesAgree
      <4> QED BY <4>2, <4>3
    <3> QED BY <3>1, <3>2, <3>3
  <2>5. \A q \in DOMAIN lease : lease[q].mac # pkt.mac /\ ~ is_expired_lease(q)
           => q \in DOMAIN lease' /\ lease'[q] = lease[q]
    <3> SUFFICES ASSUME NEW q \in DOMAIN lease, lease[q].mac # pkt.mac,
                        ~ is_expired_lease(q)
                 PROVE  q \in DOMAIN lease' /\ lease'[q] = lease[q]
      OBVIOUS
    <3>1. q # p
      <4>1. CASE find_lease_by_nip(yi) # NULL
        BY <4>1, <2>1, <2>4, <1>2, FindByNip DEF get_lease
      <4>2. CASE find_lease_by_nip(yi) = NULL
        BY <4>2, <2>1, <1>2, FindByMac DEF get_lease
      <4> QED BY <4>1, <4>2
    <3> QED BY <3>1, <2>3 DEF AddedLease
  <2> QED BY <2>1, <2>2, <2>3, <2>5, <1>1, GiveUpStep
<1> QED BY <1>1, <1>3, <1>4 DEF send_offer

LEMMA RequestStep ==
  ASSUME IInv, NEW pkt \in Packet, Request(pkt)
  PROVE  IInv'
<1> DEFINE own == find_lease_by_mac(pkt.mac)
           dest == requested_nip(pkt)
<1>1. UNCHANGED <<state, listening, now, epoch>> /\ state = "started"
  BY DEF Request, Accepts, IInv, TypeOK
<1>2. TableInv
  BY TableInvOfIInv
<1>3. CASE UNCHANGED <<table, granted>>
  BY <1>1, <1>3, QuietStep DEF IInv, TypeOK
<1>4. CASE request_answer(pkt) = "ACK" /\ send_ACK(pkt, dest)
  <2>1. own # NULL /\ own \in DOMAIN lease /\ lease[own].mac = pkt.mac
        /\ lease[own].nip = dest
    BY <1>4, <1>2, FindByMac DEF request_answer
  <2>2. pkt.mac \in Macs /\ dest \in Pool
    BY <2>1, <1>2 DEF TableInv, TableTypeOK, Lease
  <2>3. PICK p \in get_lease(dest, pkt.mac) : add_lease(p, 0, pkt.mac, dest)
    BY <1>4 DEF send_ACK
  <2>4. p = own
    BY <2>1, <2>2, <2>3, <1>2, FindByNip DEF get_lease, TableInv, IndexesAgree
  <2>5. TableInv' /\ AddedLease(p, 0, pkt.mac, dest)
    BY <1>2, <2>2, <2>3, AddLease DEF IInv, TypeOK
  <2> DEFINE g == [nip |-> dest, until |-> now + LeaseSeconds, by |-> epoch]
  <2>6. /\ g \in Grant
        /\ granted' \in [Macs -> Grant]
        /\ granted'[pkt.mac] = g
        /\ \A m \in Macs \ {pkt.mac} : granted'[m] = granted[m]
    <3>1. g \in Grant
      BY <2>2, TimeAssumption DEF Grant, IInv, TypeOK
    <3>2. granted' = [granted EXCEPT ![pkt.mac] = g]
      BY <1>4 DEF send_ACK
    <3> HIDE DEF g
    <3> QED BY <3>1, <3>2, <2>2 DEF IInv, TypeOK
  <2>7. TypeOK'
    <3>1. \A m \in Macs : granted'[m].by <= epoch'
      BY <2>6, <1>1 DEF IInv, TypeOK
    <3> QED BY <3>1, <2>5, <2>6, <1>1 DEF IInv, TypeOK, TableInv
  <2>8. \A m \in Macs \ {pkt.mac} : Live(m)' <=> Live(m)
    BY <2>6, <1>1 DEF Live
  <2>9. \A m \in Macs \ {pkt.mac} : Live(m) /\ granted[m].by = epoch =>
          \E q \in DOMAIN lease \ {p} :
             lease[q] = [mac |-> m, nip |-> granted[m].nip, expire |-> granted[m].until]
    BY <1>1, <2>1, <2>4 DEF IInv, GrantBacked
  <2>10. GrantBacked'
    <3>1. ASSUME NEW m \in Macs \ {pkt.mac}, Live(m)', granted'[m].by = epoch'
          PROVE  \E q \in DOMAIN lease' :
                   lease'[q] = [mac |-> m, nip |-> granted'[m].nip,
                                expire |-> granted'[m].until]
      BY <3>1, <2>5, <2>6, <2>8, <2>9, <1>1 DEF AddedLease
    <3>2. \E q \in DOMAIN lease' :
            lease'[q] = [mac |-> pkt.mac, nip |-> granted'[pkt.mac].nip,
                         expire |-> granted'[pkt.mac].until]
      BY <2>5, <2>6 DEF AddedLease
    <3> QED BY <3>1, <3>2 DEF GrantBacked
  <2>11. AckExclusive'
    \* Another client's live grant names the address of another lease object.
    <3>1. ASSUME NEW m \in Macs \ {pkt.mac}, Live(m), granted[m].by = epoch
          PROVE  granted[m].nip # dest
      <4>1. PICK q \in DOMAIN lease \ {p} : lease[q].nip = granted[m].nip
        BY <3>1, <2>9
      <4> QED BY <4>1, <2>1, <2>4, <1>2 DEF TableInv, IndexesAgree
    <3>2. ASSUME NEW m \in Macs, NEW n \in Macs \ {pkt.mac}, m # n, Live(m)', Live(n)',
                 granted'[m].by = granted'[n].by
          PROVE  granted'[m].nip # granted'[n].nip
      <4>1. CASE m = pkt.mac
        BY <4>1, <3>1, <3>2, <2>6, <2>8
      <4>2. CASE m # pkt.mac
        BY <4>2, <3>2, <2>6, <2>8 DEF IInv, AckExclusive
      <4> QED BY <4>1, <4>2
    <3> QED BY <3>2 DEF AckExclusive
  <2> QED BY <2>5, <2>7, <2>10, <2>11 DEF IInv, TableInv
<1> QED BY <1>3, <1>4 DEF Request

LEMMA DeclineStep ==
  ASSUME IInv, NEW pkt \in Packet, Decline(pkt)
  PROVE  IInv'
<1> DEFINE p == find_lease_by_mac(pkt.mac)
<1>1. UNCHANGED <<state, listening, now, epoch>>
  BY DEF Decline, Accepts
<1>2. CASE UNCHANGED <<table, granted>>
  BY <1>1, <1>2, QuietStep DEF IInv, TypeOK
<1>3. CASE p # NULL /\ remove_lease(p) /\ GivesUp(pkt.mac)
  <2>1. p \in DOMAIN lease /\ lease[p].mac = pkt.mac /\ pkt.mac \in Macs
    BY <1>3, TableInvOfIInv, FindByMac DEF TableInv, TableTypeOK, Lease
  <2>2. TableInv' /\ \A q \in DOMAIN lease \ {p} : q \in DOMAIN lease' /\ lease'[q] = lease[q]
    BY <1>3, <2>1, TableInvOfIInv, RemoveLease
  <2> QED BY <1>1, <1>3, <2>1, <2>2, GiveUpStep
<1> QED BY <1>2, <1>3 DEF Decline

LEMMA ReleaseStep ==
  ASSUME IInv, NEW pkt \in Packet, Release(pkt)
  PROVE  IInv'
<1> DEFINE p == find_lease_by_mac(pkt.mac)
<1>1. UNCHANGED <<state, listening, now, epoch>> /\ now \in Nat
  BY DEF Release, Accepts, IInv, TypeOK
<1>2. CASE UNCHANGED <<table, granted>>
  BY <1>1, <1>2, QuietStep DEF IInv, TypeOK
<1>3. CASE p # NULL /\ lease_set_expire(p, now) /\ GivesUp(pkt.mac)
  <2>1. p \in DOMAIN lease /\ lease[p].mac = pkt.mac /\ pkt.mac \in Macs
    BY <1>3, TableInvOfIInv, FindByMac DEF TableInv, TableTypeOK, Lease
  <2>2. TableInv' /\ \A q \in DOMAIN lease \ {p} : q \in DOMAIN lease' /\ lease'[q] = lease[q]
    BY <1>1, <1>3, <2>1, TableInvOfIInv, LeaseSetExpire
  <2> QED BY <1>1, <1>3, <2>1, <2>2, GiveUpStep
<1> QED BY <1>2, <1>3 DEF Release

\* Destroying the table strands the grants of the old object; none of them
\* carries the number of a later one.
LEMMA LifeStep ==
  ASSUME IInv, g_dhcp_server_new \/ g_dhcp_server_unref
  PROVE  IInv'
<1>1. /\ lease' = [p \in {} |-> p] /\ lease_list' = << >>
      /\ nip_lease_hash' = [n \in {} |-> n]
      /\ UNCHANGED <<now, granted>>
  BY DEF g_dhcp_server_new, g_dhcp_server_unref, EmptyTable
<1>2. TableTypeOK' /\ IndexesAgree' /\ OneLeasePerMac'
  <2>1. DOMAIN lease' = {} /\ DOMAIN nip_lease_hash' = {} /\ DOMAIN lease_list' = {}
    BY <1>1
  <2>2. TableTypeOK'
    BY <1>1, <2>1 DEF TableTypeOK
  <2>3. IndexesAgree'
    BY <2>1 DEF IndexesAgree, IsInjective, ToSet
  <2> QED BY <2>1, <2>2, <2>3 DEF OneLeasePerMac
<1>3. /\ epoch' \in Nat /\ epoch <= epoch'
      /\ state' \in {"none", "stopped"}
      /\ state' # "none" => epoch < epoch'
  BY DEF g_dhcp_server_new, g_dhcp_server_unref, IInv, TypeOK
<1>4. TypeOK'
  <2>1. listening' \in BOOLEAN /\ ~ listening'
    <3>1. CASE g_dhcp_server_new
      BY <3>1 DEF g_dhcp_server_new, IInv, TypeOK
    <3>2. CASE g_dhcp_server_unref
      BY <3>2, Zenon DEF g_dhcp_server_unref
    <3> QED BY <3>1, <3>2
  <2>2. \A m \in Macs : granted'[m].by <= epoch'
    BY <1>1, <1>3 DEF IInv, TypeOK, Grant
  <2> QED BY <2>1, <2>2, <1>1, <1>2, <1>3 DEF IInv, TypeOK
<1>5. GrantBacked'
  BY <1>1, <1>3 DEF IInv, TypeOK, Grant, GrantBacked
<1>6. AckExclusive'
  BY <1>1 DEF IInv, AckExclusive, Live
<1> QED BY <1>2, <1>4, <1>5, <1>6 DEF IInv

LEMMA InitIInv == Init => IInv
<1> SUFFICES ASSUME Init PROVE IInv
  OBVIOUS
<1>1. DOMAIN lease = {} /\ DOMAIN nip_lease_hash = {} /\ DOMAIN lease_list = {}
  BY DEF Init
<1>2. TableTypeOK
  BY <1>1 DEF Init, TableTypeOK
<1>3. TypeOK
  <2>1. listening \in BOOLEAN /\ ~ listening
    BY Zenon DEF Init
  <2>2. /\ state = "none" /\ now \in Nat /\ epoch = 0
        /\ granted = [m \in Macs |-> NoGrant]
    BY TimeAssumption DEF Init
  <2> QED BY <2>1, <2>2, <1>2 DEF TypeOK, Grant, NoGrant
<1>4. IndexesAgree /\ OneLeasePerMac
  BY <1>1 DEF IndexesAgree, OneLeasePerMac, IsInjective, ToSet
<1>5. \A m \in Macs : ~ Live(m)
  BY DEF Init, Live, NoGrant
<1> QED BY <1>3, <1>4, <1>5 DEF IInv, GrantBacked, AckExclusive

LEMMA NextIInv == IInv /\ [Next]_vars => IInv'
<1> SUFFICES ASSUME IInv, [Next]_vars PROVE IInv'
  OBVIOUS
<1>1. ASSUME NEW pkt \in Packet, listener_event(pkt) PROVE IInv'
  <2>1. CASE Discover(pkt)
    BY <2>1, DiscoverStep
  <2>2. CASE Request(pkt)
    BY <2>2, RequestStep
  <2>3. CASE Decline(pkt)
    BY <2>3, DeclineStep
  <2>4. CASE Release(pkt)
    BY <2>4, ReleaseStep
  <2>5. CASE Inform(pkt) \/ Ignore(pkt)
    BY <2>5, QuietStep DEF Inform, Ignore, Accepts, IInv, TypeOK
  <2> QED BY <1>1, <2>1, <2>2, <2>3, <2>4, <2>5 DEF listener_event
<1>2. CASE ListenerError
  <2>1. listening' \in BOOLEAN /\ ~ listening' /\ UNCHANGED <<state, table, now, epoch, granted>>
    BY <1>2, Zenon DEF ListenerError
  <2> QED BY <2>1, QuietStep DEF IInv, TypeOK
<1>3. CASE g_dhcp_server_new \/ g_dhcp_server_unref
  BY <1>3, LifeStep
<1>4. CASE g_dhcp_server_start \/ g_dhcp_server_stop
  <2>1. listening' \in BOOLEAN /\ (listening' => state' = "started")
    BY <1>4, Zenon DEF g_dhcp_server_start, g_dhcp_server_stop
  <2>2. /\ UNCHANGED <<table, now, epoch, granted>>
        /\ state # "none" /\ state' \in {"stopped", "started"}
    BY <1>4 DEF g_dhcp_server_start, g_dhcp_server_stop
  <2> QED BY <2>1, <2>2, QuietStep DEF IInv, TypeOK
<1>5. CASE Tick
  <2>1. now' \in Nat /\ now <= now'
    BY <1>5 DEF Tick, IInv, TypeOK
  <2> QED BY <1>5, <2>1, QuietStep DEF Tick, IInv, TypeOK
<1>6. CASE UNCHANGED vars
  BY <1>6, QuietStep DEF vars, IInv, TypeOK
<1> QED BY <1>1, <1>2, <1>3, <1>4, <1>5, <1>6 DEF Next

LEMMA Inductive == Spec => []IInv
BY InitIInv, NextIInv, PTL DEF Spec

-----------------------------------------------------------------------------
(***************************************************************************)
(* What holds of the server whatever it is sent.                            *)
(***************************************************************************)

\* The table, the object's life cycle and the clients' grants are well formed.
THEOREM TypeCorrect == Spec => []TypeOK
BY Inductive, PTL DEF IInv

\* server.c's three hand-maintained views of the lease table never diverge.
THEOREM TableConsistent == Spec => []IndexesAgree
BY Inductive, PTL DEF IInv

\* No sequence of OFFERs, ACKs and expiries leaves a client with two leases.
THEOREM OneLeaseEach == Spec => []OneLeasePerMac
BY Inductive, PTL DEF IInv

\* No packet of one client takes away the lease behind another client's
\* unexpired ACK.
THEOREM GrantsStayBacked == Spec => []GrantBacked
BY Inductive, PTL DEF IInv

\* One server object never lets two clients use an address at the same time.
THEOREM AddressExclusive == Spec => []AckExclusive
BY Inductive, PTL DEF IInv

\* On a big-endian host every unexpired lease can be renewed from RENEWING or
\* REBINDING.  (On a little-endian host TLC shows it cannot.)
THEOREM RenewalsAnswered ==
  ASSUME ~ LittleEndian
  PROVE  Spec => []RenewAnswered
<1>1. IInv => RenewAnswered
  <2> SUFFICES ASSUME IInv, NEW m \in Macs, Live(m), granted[m].by = epoch, state # "none"
               PROVE  request_answer(Renewal(m)) = "ACK"
    BY DEF RenewAnswered
  <2>1. PICK p \in DOMAIN lease :
          lease[p] = [mac |-> m, nip |-> granted[m].nip, expire |-> granted[m].until]
    BY DEF IInv, GrantBacked
  <2>2. find_lease_by_mac(m) = p
    BY <2>1, TableInvOfIInv, FindByMac DEF TableInv, OneLeasePerMac
  <2>3. p # NULL
    BY PointerAssumption DEF IInv, TypeOK, TableTypeOK
  <2>4. /\ Renewal(m).mac = m
        /\ requested_nip(Renewal(m)) = granted[m].nip /\ granted[m].nip # 0
    BY DEF Renewal, requested_nip, Raw, Live
  <2> QED BY <2>1, <2>2, <2>3, <2>4 DEF request_answer
<1> QED BY <1>1, Inductive, PTL

-----------------------------------------------------------------------------
(***************************************************************************)
(* The order of the list, as long as no difference of two expiries          *)
(* overflows a gint: with 32 bits until 2038.                               *)
(***************************************************************************)
NoWrap == BootTime <= MaxTime /\ MaxTime + LeaseSeconds <= IntMax

\* Latest expiry first.
SortedBy(s, heap) ==
    \A i, j \in 1 .. Len(s) : i < j => heap[s[j]].expire <= heap[s[i]].expire

Ordered ==
    /\ now <= MaxTime
    /\ \A p \in DOMAIN lease : lease[p].expire <= IntMax
    /\ SortedBy(lease_list, lease)

LEMMA SmallModulo ==
  ASSUME NEW a \in Nat, NEW b \in Nat, a < b
  PROVE  a % b = a
OBVIOUS

LEMMA SmallDifference ==
  ASSUME NEW x \in 0 .. IntMax, NEW y \in 0 .. IntMax
  PROVE  ToInt(y - x) = y - x
<1> DEFINE a == y - x + IntMax + 1
           b == 2 * (IntMax + 1)
<1>1. a \in Nat /\ b \in Nat /\ a < b
  BY TimeAssumption
<1>2. ToInt(y - x) = (a % b) - (IntMax + 1)
  BY DEF ToInt
<1>3. a % b = a
  <2> HIDE DEF a, b
  <2> QED BY <1>1, SmallModulo
<1>4. a - (IntMax + 1) = y - x
  BY TimeAssumption
<1> HIDE DEF a, b
<1> QED BY <1>2, <1>3, <1>4

\* Removing an entry keeps the order.
LEMMA RemoveKeepsOrder ==
  ASSUME NEW S, NEW s \in Seq(S), NEW e, NEW heap, SortedBy(s, heap)
  PROVE  SortedBy(RemoveFirst(s, e), heap)
<1>1. CASE ~ \E i \in 1 .. Len(s) : s[i] = e
  BY <1>1 DEF RemoveFirst
<1>2. CASE \E i \in 1 .. Len(s) : s[i] = e
  <2> DEFINE I == {i \in 1 .. Len(s) : s[i] = e}
             k == Min(I)
             r == RemoveAt(s, k)
  <2>1. k \in 1 .. Len(s)
    <3>1. I \subseteq Nat /\ I # {}
      BY <1>2
    <3>2. k \in I
      BY <3>1, MinOfPositions
    <3> QED BY <3>2
  <2>2. RemoveFirst(s, e) = r
    BY <1>2 DEF RemoveFirst, SelectInSeq
  <2> HIDE DEF k
  <2>3. /\ Len(r) = Len(s) - 1
        /\ \A i \in 1 .. Len(s) - 1 : r[i] = IF i < k THEN s[i] ELSE s[i + 1]
    BY <2>1, RemoveAtElements
  <2> HIDE DEF r
  <2>4. ASSUME NEW i \in 1 .. Len(r), NEW j \in 1 .. Len(r), i < j
        PROVE  heap[r[j]].expire <= heap[r[i]].expire
    <3> DEFINE x == IF i < k THEN i ELSE i + 1
               y == IF j < k THEN j ELSE j + 1
    <3>1. /\ x \in 1 .. Len(s) /\ y \in 1 .. Len(s) /\ x < y
          /\ r[i] = s[x] /\ r[j] = s[y]
      BY <2>1, <2>3, <2>4
    <3> HIDE DEF x, y
    <3> QED BY <3>1 DEF SortedBy
  <2> QED BY <2>2, <2>4 DEF SortedBy
<1> QED BY <1>1, <1>2

\* g_list_insert_sorted keeps the order.
LEMMA InsertKeepsOrder ==
  ASSUME NEW S, NEW s \in Seq(S), NEW e \in S, NEW heap, SortedBy(s, heap),
         heap[e].expire \in 0 .. IntMax,
         \A i \in 1 .. Len(s) : heap[s[i]].expire \in 0 .. IntMax
  PROVE  SortedBy(insert_sorted(s, e, heap), heap)
<1> DEFINE I == {i \in 1 .. Len(s) : compare_expire(heap[e], heap[s[i]]) <= 0}
           j0 == IF I # {} THEN Min(I) ELSE 0
           k == IF j0 = 0 THEN Len(s) + 1 ELSE j0
           r == InsertAt(s, k, e)
<1>1. insert_sorted(s, e, heap) = r
  BY DEF insert_sorted, SelectInSeq
<1>2. ASSUME NEW i \in 1 .. Len(s)
      PROVE  i \in I <=> heap[s[i]].expire <= heap[e].expire
  <2>1. compare_expire(heap[e], heap[s[i]]) = heap[s[i]].expire - heap[e].expire
    BY SmallDifference DEF compare_expire
  <2> QED BY <2>1, TimeAssumption
<1>3. /\ k \in 1 .. Len(s) + 1
      /\ k \in 1 .. Len(s) => k \in I
      /\ \A i \in 1 .. Len(s) : i < k => i \notin I
  <2>1. CASE I = {}
    BY <2>1
  <2>2. CASE I # {}
    <3>1. I \subseteq 1 .. Len(s) /\ I \subseteq Nat
      OBVIOUS
    <3>2. Min(I) \in I /\ \A i \in I : Min(I) <= i
      BY <2>2, <3>1, MinOfPositions
    <3>3. k = Min(I)
      BY <2>2, <3>2
    <3> HIDE DEF k, I
    <3>4. k \in I /\ k \in 1 .. Len(s) /\ \A i \in I : k <= i
      BY <3>1, <3>2, <3>3
    <3> QED BY <3>1, <3>4
  <2> QED BY <2>1, <2>2
<1> HIDE DEF I, k
<1>4. /\ Len(r) = Len(s) + 1
      /\ \A i \in 1 .. Len(s) + 1 :
           r[i] = IF i < k THEN s[i] ELSE IF i = k THEN e ELSE s[i - 1]
  <2>1. k \in 1 .. Len(s) + 1
    BY <1>3
  <2>2. ASSUME NEW n \in 1 .. Len(s) + 1
        PROVE  /\ Len(InsertAt(s, n, e)) = Len(s) + 1
               /\ \A i \in 1 .. Len(s) + 1 : InsertAt(s, n, e)[i] =
                    IF i < n THEN s[i] ELSE IF i = n THEN e ELSE s[i - 1]
    BY InsertAtElements, SMTT(30)
  <2> QED BY <2>1, <2>2
<1> HIDE DEF r
\* What is before the new entry expires later, what is behind it does not.
<1>5. ASSUME NEW i \in 1 .. Len(s), i < k
      PROVE  heap[e].expire <= heap[s[i]].expire
  BY <1>2, <1>3, <1>5, TimeAssumption
<1>6. ASSUME NEW i \in 1 .. Len(s), ~ i < k
      PROVE  heap[s[i]].expire <= heap[e].expire
  <2>1. k \in 1 .. Len(s) /\ heap[s[k]].expire <= heap[e].expire
    BY <1>2, <1>3, <1>6
  <2>2. i = k \/ heap[s[i]].expire <= heap[s[k]].expire
    BY <1>6, <2>1 DEF SortedBy
  <2> QED BY <2>1, <2>2, TimeAssumption
<1>7. ASSUME NEW i \in 1 .. Len(r), NEW j \in 1 .. Len(r), i < j
      PROVE  heap[r[j]].expire <= heap[r[i]].expire
  <2>1. CASE i = k
    <3>1. r[i] = e /\ r[j] = s[j - 1] /\ j - 1 \in 1 .. Len(s) /\ ~ j - 1 < k
      BY <1>3, <1>4, <1>7, <2>1
    <3> QED BY <3>1, <1>6
  <2>2. CASE j = k
    <3>1. r[i] = s[i] /\ r[j] = e /\ i \in 1 .. Len(s) /\ i < k
      BY <1>3, <1>4, <1>7, <2>2
    <3> QED BY <3>1, <1>5
  <2>3. CASE i # k /\ j # k
    <3> DEFINE x == IF i < k THEN i ELSE i - 1
               y == IF j < k THEN j ELSE j - 1
    <3>1. /\ x \in 1 .. Len(s) /\ y \in 1 .. Len(s) /\ x < y
          /\ r[i] = s[x] /\ r[j] = s[y]
      BY <1>3, <1>4, <1>7, <2>3
    <3> HIDE DEF x, y
    <3> QED BY <3>1 DEF SortedBy
  <2> QED BY <2>1, <2>2, <2>3
<1> QED BY <1>1, <1>7 DEF SortedBy

\* The same entries with other leases elsewhere in the heap.
LEMMA SameExpiries ==
  ASSUME NEW S, NEW s \in Seq(S), NEW heap, NEW old, SortedBy(s, old),
         \A p \in ToSet(s) : heap[p] = old[p]
  PROVE  SortedBy(s, heap)
<1>1. \A i \in 1 .. Len(s) : s[i] \in ToSet(s)
  BY DEF ToSet
<1> QED BY <1>1 DEF SortedBy

LEMMA AddKeepsOrder ==
  ASSUME NoWrap, TableInv, Ordered, now \in Nat, now' = now,
         NEW mac \in Macs, NEW yiaddr \in Pool, NEW expire \in {0, OFFER_TIME},
         NEW p \in get_lease(yiaddr, mac), add_lease(p, expire, mac, yiaddr)
  PROVE  Ordered'
<1> DEFINE lm == find_lease_by_mac(mac)
           until == IF expire = 0 THEN now + LeaseSeconds ELSE expire
           new == [mac |-> mac, nip |-> yiaddr, expire |-> until]
           heap == [q \in (DOMAIN lease \ {lm}) \cup {p} |-> IF q = p THEN new ELSE lease[q]]
           one == RemoveFirst(lease_list, p)
           rest == RemoveFirst(one, lm)
<1>1. lease' = heap /\ lease_list' = insert_sorted(rest, p, heap)
  BY DEF add_lease
<1>2. until \in 0 .. IntMax
  BY TimeAssumption DEF NoWrap, Ordered
<1>3. /\ lease_list \in Seq(Pointers) /\ IsInjective(lease_list)
      /\ ToSet(lease_list) = DOMAIN lease /\ SortedBy(lease_list, lease)
  BY DEF TableInv, TableTypeOK, IndexesAgree, Ordered
<1>4. /\ one \in Seq(Pointers) /\ IsInjective(one) /\ ToSet(one) = DOMAIN lease \ {p}
      /\ SortedBy(one, lease)
  BY <1>3, RemoveFirstProperties, RemoveKeepsOrder
<1> HIDE DEF one
<1>5. /\ rest \in Seq(Pointers) /\ ToSet(rest) = (DOMAIN lease \ {p}) \ {lm}
      /\ SortedBy(rest, lease)
  BY <1>4, RemoveFirstProperties, RemoveKeepsOrder
<1> HIDE DEF rest, lm, new
<1>6. /\ heap[p] = new /\ \A q \in ToSet(rest) : heap[q] = lease[q]
      /\ DOMAIN heap = (DOMAIN lease \ {lm}) \cup {p}
  BY <1>5
<1>7. ASSUME NEW q \in DOMAIN heap
      PROVE  heap[q].expire \in 0 .. IntMax
  <2>1. CASE q = p
    BY <1>2, <1>6, <2>1 DEF new
  <2>2. CASE q # p
    <3>1. heap[q] = lease[q] /\ q \in DOMAIN lease
      BY <2>2, <1>7
    <3>2. lease[q].expire \in Nat /\ lease[q].expire <= IntMax
      BY <3>1 DEF TableInv, TableTypeOK, Lease, Ordered
    <3> QED BY <3>1, <3>2, TimeAssumption
  <2> QED BY <2>1, <2>2
<1> HIDE DEF heap
<1>8. \A i \in 1 .. Len(rest) : heap[rest[i]].expire \in 0 .. IntMax
  BY <1>5, <1>6, <1>7 DEF ToSet
<1>9. p \in Pointers
  <2>1. \/ find_lease_by_nip(yiaddr) # NULL /\ p = find_lease_by_nip(yiaddr)
        \/ find_lease_by_mac(mac) # NULL /\ p = find_lease_by_mac(mac)
        \/ p \in Pointers
    BY DEF get_lease
  <2>2. p \in DOMAIN lease \/ p \in Pointers
    BY <2>1, FindByMac, FindByNip
  <2> QED BY <2>2 DEF TableInv, TableTypeOK
<1>10. SortedBy(rest, heap)
  BY <1>5, <1>6, SameExpiries
<1>11. SortedBy(lease_list', heap)
  BY <1>1, <1>5, <1>6, <1>7, <1>8, <1>9, <1>10, InsertKeepsOrder
<1> QED BY <1>1, <1>7, <1>11, TimeAssumption DEF Ordered, SortedBy

LEMMA RemoveLeaseKeepsOrder ==
  ASSUME TableInv, Ordered, now' = now, NEW p \in DOMAIN lease, remove_lease(p)
  PROVE  Ordered'
<1>1. /\ lease_list \in Seq(Pointers) /\ IsInjective(lease_list)
      /\ ToSet(lease_list) = DOMAIN lease
  BY DEF TableInv, TableTypeOK, IndexesAgree
<1>2. /\ lease_list' \in Seq(Pointers) /\ SortedBy(lease_list', lease)
      /\ ToSet(lease_list') = DOMAIN lease \ {p}
  BY <1>1, RemoveFirstProperties, RemoveKeepsOrder DEF Ordered, remove_lease
<1>3. DOMAIN lease' = DOMAIN lease \ {p} /\ \A q \in DOMAIN lease' : lease'[q] = lease[q]
  BY RemoveLease
<1>4. SortedBy(lease_list', lease')
  BY <1>2, <1>3, SameExpiries
<1> QED BY <1>3, <1>4 DEF Ordered, SortedBy

LEMMA SetExpireKeepsOrder ==
  ASSUME NoWrap, TableInv, Ordered, now \in Nat, now' = now,
         NEW p \in DOMAIN lease, lease_set_expire(p, now)
  PROVE  Ordered'
<1> DEFINE heap == [lease EXCEPT ![p].expire = now]
           rest == RemoveFirst(lease_list, p)
<1>1. lease' = heap /\ lease_list' = insert_sorted(rest, p, heap)
  BY DEF lease_set_expire
<1>2. /\ rest \in Seq(Pointers) /\ ToSet(rest) = DOMAIN lease \ {p}
      /\ SortedBy(rest, lease)
  BY RemoveFirstProperties, RemoveKeepsOrder
     DEF TableInv, TableTypeOK, IndexesAgree, Ordered
<1> HIDE DEF rest
<1>3. now \in 0 .. IntMax
  BY TimeAssumption DEF NoWrap, Ordered
<1>4. /\ DOMAIN heap = DOMAIN lease /\ heap[p].expire = now
      /\ \A q \in DOMAIN lease \ {p} : heap[q] = lease[q]
  BY DEF TableInv, TableTypeOK, Lease
<1> HIDE DEF heap
<1>5. \A q \in DOMAIN heap : heap[q].expire \in 0 .. IntMax
  BY <1>3, <1>4, TimeAssumption DEF TableInv, TableTypeOK, Lease, Ordered
<1>6. \A i \in 1 .. Len(rest) : heap[rest[i]].expire \in 0 .. IntMax
  BY <1>2, <1>4, <1>5 DEF ToSet
<1>7. p \in Pointers
  BY DEF TableInv, TableTypeOK
<1>8. SortedBy(rest, heap)
  BY <1>2, <1>4, SameExpiries
<1>9. SortedBy(lease_list', heap)
  BY <1>1, <1>2, <1>4, <1>5, <1>6, <1>7, <1>8, InsertKeepsOrder
<1> QED BY <1>1, <1>5, <1>9, TimeAssumption DEF Ordered, SortedBy

LEMMA OrderedStep ==
  ASSUME NoWrap, IInv, Ordered, [Next]_vars
  PROVE  Ordered'
<1>1. TableInv /\ now \in Nat
  BY TableInvOfIInv DEF IInv, TypeOK
<1>2. CASE UNCHANGED <<table, now>>
  BY <1>2 DEF Ordered, SortedBy, table
<1>3. ASSUME NEW pkt \in Packet, listener_event(pkt)
      PROVE  Ordered'
  <2> DEFINE own == find_lease_by_mac(pkt.mac)
  <2>1. now' = now
    BY <1>3 DEF listener_event, Discover, Request, Decline, Release, Inform, Ignore, Accepts
  <2>2. own # NULL => own \in DOMAIN lease /\ lease[own].mac = pkt.mac /\ pkt.mac \in Macs
    BY <1>1, FindByMac DEF TableInv, TableTypeOK, Lease
  <2>3. CASE Discover(pkt)
    <3> DEFINE yi == offer_nip(pkt)
    <3>1. CASE UNCHANGED table
      BY <3>1, <2>1, <1>2
    <3>2. CASE \E p \in get_lease(yi, pkt.mac) : add_lease(p, OFFER_TIME, pkt.mac, yi)
      <4>1. PICK p \in get_lease(yi, pkt.mac) : add_lease(p, OFFER_TIME, pkt.mac, yi)
        BY <3>2
      <4>2. pkt.mac \in Macs /\ yi \in Pool
        BY <4>1 DEF get_lease, Packet, AnyPacket
      <4> QED BY <4>1, <4>2, <2>1, <1>1, AddKeepsOrder
    <3> QED BY <2>3, <3>1, <3>2 DEF Discover, send_offer
  <2>4. CASE Request(pkt)
    <3> DEFINE dest == requested_nip(pkt)
    <3>1. CASE UNCHANGED table
      BY <3>1, <2>1, <1>2
    <3>2. CASE request_answer(pkt) = "ACK" /\ send_ACK(pkt, dest)
      <4>1. own # NULL /\ lease[own].nip = dest
        BY <3>2 DEF request_answer
      <4>2. pkt.mac \in Macs /\ dest \in Pool
        BY <4>1, <2>2, <1>1 DEF TableInv, TableTypeOK, Lease
      <4>3. PICK p \in get_lease(dest, pkt.mac) : add_lease(p, 0, pkt.mac, dest)
        BY <3>2 DEF send_ACK
      <4> QED BY <4>2, <4>3, <2>1, <1>1, AddKeepsOrder
    <3> QED BY <2>4, <3>1, <3>2 DEF Request
  <2>5. CASE Decline(pkt)
    <3>1. CASE UNCHANGED table
      BY <3>1, <2>1, <1>2
    <3>2. CASE own # NULL /\ remove_lease(own)
      BY <3>2, <2>1, <2>2, <1>1, RemoveLeaseKeepsOrder
    <3> QED BY <2>5, <3>1, <3>2 DEF Decline
  <2>6. CASE Release(pkt)
    <3>1. CASE UNCHANGED table
      BY <3>1, <2>1, <1>2
    <3>2. CASE own # NULL /\ lease_set_expire(own, now)
      BY <3>2, <2>1, <2>2, <1>1, SetExpireKeepsOrder
    <3> QED BY <2>6, <3>1, <3>2 DEF Release
  <2>7. CASE Inform(pkt) \/ Ignore(pkt)
    BY <2>7, <2>1, <1>2 DEF Inform, Ignore
  <2> QED BY <1>3, <2>3, <2>4, <2>5, <2>6, <2>7 DEF listener_event
<1>4. CASE g_dhcp_server_new \/ g_dhcp_server_unref
  <2>1. lease' = [p \in {} |-> p] /\ lease_list' = << >> /\ now' = now
    BY <1>4 DEF g_dhcp_server_new, g_dhcp_server_unref, EmptyTable
  <2>2. DOMAIN lease' = {} /\ Len(lease_list') = 0
    BY <2>1
  <2> QED BY <2>1, <2>2 DEF Ordered, SortedBy
<1>5. CASE Tick
  BY <1>1, <1>5, TimeAssumption DEF Tick, table, Ordered, SortedBy
<1>6. CASE ListenerError \/ g_dhcp_server_start \/ g_dhcp_server_stop \/ UNCHANGED vars
  BY <1>6, <1>2 DEF ListenerError, g_dhcp_server_start, g_dhcp_server_stop, vars
<1> QED BY <1>3, <1>4, <1>5, <1>6 DEF Next

\* With the list in order the last entry is the one that expires first.
LEMMA OrderedReclaims ==
  ASSUME IInv, Ordered
  PROVE  ReclaimsExpired
<1> DEFINE free == Pickable \ DOMAIN nip_lease_hash
           last == lease_list[Len(lease_list)]
<1>1. \A ip \in Pool : ip # 0
  BY PoolAssumption DEF Pool
<1>2. CASE free # {}
  <2>1. free \subseteq Nat
    BY PoolAssumption DEF Pickable, Pool
  <2>2. Min(free) \in free
    BY <1>2, <2>1, MinOfPositions
  <2>3. find_free_or_expired_nip = Min(free)
    BY <1>2 DEF find_free_or_expired_nip
  <2>4. Min(free) # 0
    BY <2>2, <1>1 DEF Pickable
  <2> QED BY <2>3, <2>4 DEF ReclaimsExpired
<1>3. ASSUME free = {}, NEW p \in DOMAIN lease, is_expired_lease(p)
      PROVE  find_free_or_expired_nip # 0
  <2>1. /\ lease_list \in Seq(Pointers) /\ ToSet(lease_list) = DOMAIN lease
        /\ lease \in [DOMAIN lease -> Lease] /\ now \in Nat
    BY DEF IInv, TypeOK, TableTypeOK, IndexesAgree
  <2>2. PICK i \in 1 .. Len(lease_list) : lease_list[i] = p
    BY <2>1 DEF ToSet
  <2>3. /\ lease_list # << >> /\ Len(lease_list) \in 1 .. Len(lease_list)
        /\ last \in DOMAIN lease
    BY <2>1, <2>2 DEF ToSet
  <2>4. lease[p] \in Lease /\ lease[last] \in Lease
    BY <2>1, <2>3
  <2>5. lease[last].expire <= lease[p].expire
    <3>1. CASE i = Len(lease_list)
      BY <3>1, <2>2, <2>4 DEF Lease
    <3>2. CASE i < Len(lease_list)
      BY <3>2, <2>2, <2>3 DEF Ordered, SortedBy
    <3> QED BY <3>1, <3>2, <2>1, <2>2
  <2>6. is_expired_lease(last)
    BY <1>3, <2>1, <2>4, <2>5 DEF is_expired_lease, Lease
  <2>7. find_free_or_expired_nip = lease[last].nip
    BY <1>3, <2>3, <2>6 DEF find_free_or_expired_nip
  <2> QED BY <2>4, <2>7, <1>1 DEF Lease
<1> QED BY <1>2, <1>3 DEF ReclaimsExpired

\* As long as no gint overflows, a pool with an unleased or an expired address
\* never turns a DISCOVER away: find_free_or_expired_nip looks at the last
\* list entry only, and every handler leaves the list sorted.
THEOREM ExpiredReclaimed ==
  ASSUME NoWrap
  PROVE  Spec => []ReclaimsExpired
<1>1. Init => Ordered
  <2> SUFFICES ASSUME Init PROVE Ordered
    OBVIOUS
  <2>1. DOMAIN lease = {} /\ Len(lease_list) = 0 /\ now <= MaxTime
    BY DEF Init, NoWrap
  <2> QED BY <2>1 DEF Ordered, SortedBy
<1>2. IInv /\ Ordered /\ [Next]_vars => Ordered'
  BY OrderedStep
<1>3. IInv /\ Ordered => ReclaimsExpired
  BY OrderedReclaims
<1> QED BY <1>1, <1>2, <1>3, Inductive, PTL DEF Spec
=============================================================================
