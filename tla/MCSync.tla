------------------------------- MODULE MCSync -------------------------------
(* Two peers on forks that part after block 1; the first may get a longer  *)
(* chain of the other fork.                                                *)
EXTENDS Sync

MCOurs == <<1, 0>>
MCForked == [p \in Peers |-> IF p = 1 THEN <<3, 0>> ELSE <<2, 1>>]
MCLater == [p \in Peers |-> IF p = 1 THEN {<<4, 0>>, <<4, 1>>} ELSE {}]
=============================================================================
