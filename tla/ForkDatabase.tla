----------------------------- MODULE ForkDatabase -----------------------------
(***************************************************************************)
(* The fork database (libraries/chain/fork_database.cpp): the recent       *)
(* blocks of every branch.  A block is known by its id; the number and the *)
(* previous id are part of it.  An item points to the item of its previous *)
(* block with a weak pointer, which dies when that item is erased and does *)
(* not come back when the block is pushed again.                           *)
(***************************************************************************)
EXTENDS Integers, Sequences, FiniteSets

CONSTANTS Block,     \* the blocks there are
          Genesis,   \* the zero id, previous of the blocks numbered one
          NoBlock,   \* a null pointer
          Parent,    \* previous
          Num        \* block_num()

ASSUME BlockAssumption ==
   /\ Genesis \notin Block
   /\ NoBlock \notin Block \cup {Genesis}
   /\ Parent \in [Block -> Block \cup {Genesis}]
   /\ Num \in [Block \cup {Genesis} -> Nat]
   /\ Num[Genesis] = 0
   /\ \A b \in Block : Num[b] = Num[Parent[b]] + 1

\* The members of fork_database; links are the items whose prev is alive.
Forks == [index : SUBSET Block,
          links : SUBSET Block,
          head : Block \cup {NoBlock},
          max_size : Nat]

\* reset(): the size limit is kept.
EmptyForks(max_size) ==
   [index |-> {}, links |-> {}, head |-> NoBlock, max_size |-> max_size]

\* Items are erased: pointers to them die.
Erase(f, gone) ==
   [f EXCEPT !.index = @ \ gone,
             !.links = {b \in @ \ gone : Parent[b] \notin gone}]

start_block_unindexed(f, b) == [f EXCEPT !.head = b]

start_block(f, b) ==
   [f EXCEPT !.index = @ \cup {b}, !.head = b]

\* set_max_size: items far below the head are lopped off.
set_max_size(f, s) ==
   LET g == [f EXCEPT !.max_size = s] IN
   IF f.head = NoBlock THEN g
   ELSE Erase(g, {b \in f.index : Num[b] < Num[f.head] - s})

\* The block is not too old, and its previous block is known.
Accepts(f, b) ==
   f.head # NoBlock =>
      /\ Num[b] > Num[f.head] - f.max_size
      /\ Parent[b] # Genesis => Parent[b] \in f.index

push_block_late(f, b) ==
   LET new == b \notin f.index
       g == [f EXCEPT !.index = @ \cup {b},
                      !.links = IF new /\ f.head # NoBlock /\ Parent[b] # Genesis
                                THEN @ \cup {b} ELSE @]
   IN  IF f.head = NoBlock THEN [g EXCEPT !.head = b]
       ELSE IF Num[b] > Num[f.head] + 1
       THEN Erase([g EXCEPT !.head = b],
                  {c \in g.index : Num[c] < Num[b] - f.max_size})
       ELSE g

\* A block already in the index is not inserted again, but becomes the head
\* when it is higher.
push_block(f, b) ==
   LET new == b \notin f.index
       g == [f EXCEPT !.index = @ \cup {b},
                      !.links = IF new /\ f.head # NoBlock /\ Parent[b] # Genesis
                                THEN @ \cup {b} ELSE @]
   IN  IF f.head = NoBlock THEN [g EXCEPT !.head = b]
       ELSE IF Num[b] > Num[f.head]
       THEN Erase([g EXCEPT !.head = b],
                  {c \in g.index : Num[c] < Num[b] - f.max_size})
       ELSE g

CanPop_unchecked(f) == f.head # NoBlock

CanPop(f) == f.head # NoBlock /\ f.head \in f.links

pop_block(f) == [f EXCEPT !.head = Parent[@]]

set_head(f, b) == [f EXCEPT !.head = b]

\* Removing the head pops it, or resets it when it has no previous item.
remove(f, b) ==
   [Erase(f, {b}) EXCEPT
      !.head = IF @ # b THEN @ ELSE IF CanPop(f) THEN Parent[b] ELSE NoBlock]

\* The item k pointers below b, NoBlock where a pointer is dead.
Below(f, b) ==
   LET p[k \in 0..Num[b]] ==
          IF k = 0 THEN b
          ELSE LET above == p[k - 1]
               IN  IF above \in f.links THEN Parent[above] ELSE NoBlock
   IN  p

\* The items of the branch of b from b down to height n.
Branch(f, b, n) == LET p == Below(f, b) IN [k \in 1..Num[b] - n + 1 |-> p[k - 1]]

\* Heights at which the two branches have items with the same previous block.
Meets(f, x, y) ==
   LET p == Below(f, x)
       q == Below(f, y)
   IN  {n \in 1..Num[x] :
          /\ n <= Num[y]
          /\ LET c == p[Num[x] - n]
                 d == q[Num[y] - n]
             IN  NoBlock \notin {c, d} /\ Parent[c] = Parent[d]}

\* fetch_branch_from throws unless both ends are known and the branches meet.
CanFetch(f, x, y) == {x, y} \subseteq f.index /\ Meets(f, x, y) # {}

\* Both branches, highest block first, down to their highest meeting.
fetch_branch_from(f, x, y) ==
   LET n == CHOOSE n \in Meets(f, x, y) : \A k \in Meets(f, x, y) : k <= n
   IN  [first |-> Branch(f, x, n), second |-> Branch(f, y, n)]
=============================================================================
