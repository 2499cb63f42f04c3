---------------------------- MODULE SnapshotStack ----------------------------
(***************************************************************************)
(* What the undo history of the object database promises to its callers,   *)
(* without saying how: a stack of complete snapshots of the database.      *)
(* The implementation (UndoDatabase) keeps only differences.               *)
(***************************************************************************)
EXTENDS Naturals, Sequences

CONSTANTS Database,        \* the possible contents of the object database
          InitialDatabase  \* its contents before the first operation

VARIABLES current,   \* the contents now
          saved,     \* snapshots, oldest first
          open       \* number of sessions neither undone, merged nor committed

vars == <<current, saved, open>>

Init == /\ current = InitialDatabase
        /\ saved = << >>
        /\ open = 0

\* The database changes.  A change outside every session may open a history.
Write == /\ current' \in Database
         /\ \/ saved' = saved
            \/ saved = << >> /\ open = 0 /\ saved' = <<current>>
         /\ UNCHANGED open

\* A session remembers the contents at its start.  Only snapshots that belong
\* to no open session may be forgotten to make room.
Start == /\ \E n \in 0..Len(saved) :
               /\ n + open <= Len(saved)
               /\ saved' = Append(SubSeq(saved, n + 1, Len(saved)), current)
         /\ open' = open + 1
         /\ UNCHANGED current

\* The snapshots without the newest.
Older == SubSeq(saved, 1, Len(saved) - 1)

\* A session is abandoned: the contents at its start come back.
Undo == /\ open > 0
        /\ saved # << >>
        /\ current' = saved[Len(saved)]
        /\ saved' = Older
        /\ open' = open - 1

\* The changes of a session become changes of the enclosing one.
Merge == /\ open > 0
         /\ saved # << >>
         /\ saved' = Older
         /\ open' = open - 1
         /\ UNCHANGED current

\* The changes of a session are kept, and can still be reverted later.
Commit == /\ open > 0
          /\ open' = open - 1
          /\ UNCHANGED <<current, saved>>

\* The newest committed session is reverted.
PopCommit == /\ open = 0
             /\ saved # << >>
             /\ current' = saved[Len(saved)]
             /\ saved' = Older
             /\ UNCHANGED open

Next == Write \/ Start \/ Undo \/ Merge \/ Commit \/ PopCommit

Spec == Init /\ [][Next]_vars
=============================================================================
