------------------------------- MODULE IpPool -------------------------------
(***************************************************************************)
(* The pool of private IPv4 blocks (src/ippool.c): which /24 blocks are     *)
(* taken, by connman's own address pools or by addresses other programs     *)
(* and networks put on an interface, and the search for a free one.         *)
(*                                                                          *)
(* Blocks are numbered in the order of their addresses, 10.0.0 first and    *)
(* 192.168.254 last; the x.y.255 blocks, which next_block skips, have no    *)
(* number.  A block has two addresses, its first one and one that stands    *)
(* for the rest, so that a network can start inside a block.                *)
(***************************************************************************)
EXTENDS Integers, Sequences, SequencesExt

CONSTANTS
    NULL,
    block_24_bits, last_24_bits,    \* first and last block of 10.0.0.0/8
    block_20_bits, last_20_bits,    \* of 172.16.0.0/12
    block_16_bits, last_16_bits     \* of 192.168.0.0/16

ASSUME BlocksAssumption ==
    /\ block_24_bits = 0
    /\ last_24_bits \in Nat /\ block_20_bits = last_24_bits + 1
    /\ last_20_bits \in Nat /\ last_20_bits >= block_20_bits
    /\ block_16_bits = last_20_bits + 1
    /\ last_16_bits \in Nat /\ last_16_bits >= block_16_bits

VARIABLES
    allocated_blocks,   \* the list of struct address_info, newest first
    last_block,         \* the block assigned last, NULL before the first
    search              \* get_free_block at work: for whom, and its block

pool_vars == <<allocated_blocks, last_block, search>>

Blocks == block_24_bits .. last_16_bits
Base(block) == 2 * block
Addresses == 0 .. 2 * last_16_bits + 1

Info(index, start, end, use_count, pool) ==
    [index |-> index, start |-> start, end |-> end,
     use_count |-> use_count, pool |-> pool]

Holds(info, address) == info.start <= address /\ address <= info.end
Infos == ToSet(allocated_blocks)

-----------------------------------------------------------------------------
(***************************************************************************)
(* The search.                                                              *)
(***************************************************************************)
\* (Fault: the 16-bit range starts over instead of handing on.)
next_block_stuck(block) ==
    CASE block = last_16_bits -> block_16_bits
      [] block = last_20_bits -> block_24_bits
      [] block = last_24_bits -> block_16_bits
      [] OTHER -> block + 1

\* (Fault: the end of the 16-bit range is not noticed.)
next_block_past_end(block) ==
    CASE block = last_20_bits -> block_24_bits
      [] block = last_24_bits -> block_16_bits
      [] OTHER -> block + 1

next_block(block) ==
    CASE block = last_16_bits -> block_20_bits
      [] block = last_20_bits -> block_24_bits
      [] block = last_24_bits -> block_16_bits
      [] OTHER -> block + 1

\* (Fault: the first address of an allocated block does not count.)
Collides_open(block) ==
    \E info \in Infos : info.start < Base(block) /\ Base(block) <= info.end

Collides(block) == \E info \in Infos : Holds(info, Base(block))

Searching(owner) == search # NULL /\ search.owner = owner

\* get_free_block begins, called by __connman_ippool_create for the owner.
SearchFor(owner) ==
    search' = [owner |-> owner,
               block |-> IF last_block = NULL THEN block_16_bits ELSE last_block]

\* One turn of the loop that goes on; the two ways out are Found and Exhausted.
Advance ==
    /\ search # NULL
    /\ Collides(search.block)
    /\ next_block(search.block) # last_block
    /\ search' = [search EXCEPT !.block = next_block(@)]
    /\ UNCHANGED <<allocated_blocks, last_block>>

Found == search # NULL /\ ~Collides(search.block)

Exhausted ==
    /\ search # NULL
    /\ Collides(search.block)
    /\ next_block(search.block) = last_block

-----------------------------------------------------------------------------
(***************************************************************************)
(* Pools and the list.                                                      *)
(***************************************************************************)
\* __connman_ippool_create found a block: the new info and the list with it.
PoolInfo(index, range, owner) ==
    Info(index, Base(search.block), Base(search.block) + range, 0, owner)

\* __connman_ippool_unref of the owner's only reference: g_slist_remove of the
\* info of its pool.
Unref(list, owner) ==
    RemoveAt(list, CHOOSE i \in DOMAIN list : list[i].pool = owner)

Matches(info, index, start) == info.index = index /\ info.start = start

\* Where lookup_info finds the network; it returns the first of these entries.
lookup_info(index, start) ==
    {i \in DOMAIN allocated_blocks : Matches(allocated_blocks[i], index, start)}

\* The list after __connman_ippool_newaddr entered the address.
Entered(index, start, end) ==
    LET at == lookup_info(index, start)
    IN  IF at # {} THEN [allocated_blocks EXCEPT ![Min(at)].use_count = @ + 1]
        ELSE <<Info(index, start, end, 1, NULL)>> \o allocated_blocks

\* The pool whose collision_cb __connman_ippool_newaddr calls: the one of the
\* newest entry that holds the first address of the new network, if any.
CollidingPool(index, start) ==
    LET hits == {i \in DOMAIN allocated_blocks : Holds(allocated_blocks[i], start)}
    IN  IF lookup_info(index, start) # {} \/ hits = {} THEN NULL
        ELSE allocated_blocks[Min(hits)].pool

\* (Fault: an entry goes with the first of its addresses.)
Deleted_at_once(index, start) ==
    SelectSeq(allocated_blocks,
              LAMBDA info : ~Matches(info, index, start) \/ info.pool # NULL)

\* The list after __connman_ippool_deladdr; an unknown start changes nothing.
Deleted(index, start) ==
    LET at == lookup_info(index, start)
        info == allocated_blocks[Min(at)]
    IN  IF at = {} THEN allocated_blocks
        ELSE IF info.pool # NULL \/ info.use_count > 1
        THEN [allocated_blocks EXCEPT ![Min(at)].use_count = @ - 1]
        ELSE RemoveAt(allocated_blocks, Min(at))
=============================================================================
