---------------------------- MODULE MCUndoDatabase ----------------------------
(* Instances of UndoDatabase for TLC. *)
EXTENDS UndoDatabase, TLC

Symmetry == Permutations(Value)
=============================================================================
