------------------------------ MODULE Synopsis ------------------------------
(***************************************************************************)
(* How two nodes find out what one of them is missing.  The asking node    *)
(* sends a synopsis of its chain: block ids that get denser towards the    *)
(* end (application.cpp, get_blockchain_synopsis, completed by node.cpp,   *)
(* create_blockchain_synopsis_for_peer).  The other node answers with the  *)
(* ids of its own chain from the last block of the synopsis that it knows  *)
(* (application.cpp, get_block_ids).                                       *)
(*                                                                         *)
(* A block id is a pair <<number, branch>>: block_header::num_from_id      *)
(* reads the number from the id.  Branch 0 is the trunk and branch k > 0   *)
(* leaves it after block k, so an id determines the chain below it.        *)
(***************************************************************************)
EXTENDS Integers, Sequences, FiniteSetsExt

CONSTANTS
    Undo,   \* blocks the undo history reaches back (GRAPHENE_MAX_UNDO_HISTORY)
    Limit   \* ids in one answer (2000 in the code)

\* item_hash_t(): the id of no block, the parent of the first
NoBlock == <<0, 0>>

num_from_id(b) == b[1]

\* get_block_id_for_num on the chain that ends in h
BlockAt(h, n) == IF n <= h[2] THEN <<n, 0>> ELSE <<n, h[2]>>

Parent(b) == BlockAt(b, b[1] - 1)

OnChain(h, b) == b[1] <= h[1] /\ BlockAt(h, b[1]) = b

\* the number of the last block two chains share
CommonNumber(g, h) ==
    IF g[2] = h[2]
    THEN Min({g[1], h[1]})
    ELSE Min({g[1], h[1]} \cup ({g[2], h[2]} \ {0}))

LastNonUndoable(h) == IF h[1] > Undo THEN h[1] - Undo ELSE 0

\* do { ... low += (top - low + 2) / 2 } while( low <= top )
Numbers(low, top) ==
    LET from[l \in Nat] == IF l > top THEN << >>
                           ELSE <<l>> \o from[l + (top - l + 2) \div 2]
    IN  from[low]

\* is the reference point on a fork that leaves our chain before the blocks
\* we can undo (block_older_than_undo_history is thrown)?
TooOld(head, ref) == /\ ref # NoBlock
                     /\ ~ OnChain(head, ref)
                     /\ CommonNumber(head, ref) < LastNonUndoable(head)

\* the first number of the synopsis
LowFor(head, ref) ==
    LET low == LastNonUndoable(head)
        cut == IF ref # NoBlock /\ OnChain(head, ref) /\ ref[1] < low
               THEN ref[1] ELSE low
    IN  IF cut = 0 THEN 1 ELSE cut

\* the synopsis of our chain up to the reference point, with room for the
\* blocks that follow it
get_blockchain_synopsis(head, ref, after) ==
    LET last == IF ref = NoBlock THEN head ELSE ref
        nums == Numbers(LowFor(head, ref), last[1] + after)
        low  == SelectSeq(nums, LAMBDA n : n <= last[1])
    IN  IF last = NoBlock THEN << >>
        ELSE [i \in 1 .. Len(low) |-> BlockAt(last, low[i])]

\* ... completed by the network code with the ids the peer has announced
create_blockchain_synopsis_for_peer(head, ref, ids) ==
    LET own   == get_blockchain_synopsis(head, ref, Len(ids))
        first == num_from_id(ids[1])
        low   == IF own = << >> THEN 1 ELSE num_from_id(own[1])
        nums  == SelectSeq(Numbers(low, first + Len(ids) - 1), LAMBDA n : n >= first)
    IN  IF ids = << >> THEN own
        ELSE own \o [i \in 1 .. Len(nums) |-> ids[nums[i] - first + 1]]

\* the blocks of a synopsis the answering node has on its chain
Recognised(head, synopsis) ==
    {i \in 1 .. Len(synopsis) : synopsis[i] = NoBlock \/ OnChain(head, synopsis[i])}

\* none of the blocks is known: peer_is_on_an_unreachable_fork is thrown and
\* the answer is an empty list
Unreachable(head, synopsis) == synopsis # << >> /\ Recognised(head, synopsis) = {}

last_known_block(head, synopsis) ==
    IF synopsis = << >> THEN NoBlock ELSE synopsis[Max(Recognised(head, synopsis))]

\* the first number of the answer
start_at(known) == IF known = 0 THEN 1 ELSE known

\* the ids of the answering node from the last block the asker knows on
get_block_ids(head, synopsis) ==
    IF head = NoBlock \/ Unreachable(head, synopsis) THEN << >>
    ELSE LET from  == start_at(last_known_block(head, synopsis)[1])
             n     == Min({Limit, head[1] - from + 1})
         IN  [i \in 1 .. n |-> BlockAt(head, from + i - 1)]

\* the ids of the chain that are not in the answer
remaining_item_count(head, answer) ==
    IF answer = << >> THEN 0 ELSE head[1] - num_from_id(answer[Len(answer)])
=============================================================================
