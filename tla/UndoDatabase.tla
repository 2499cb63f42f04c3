----------------------------- MODULE UndoDatabase -----------------------------
(***************************************************************************)
(* The undo history of the object database (libraries/db).  Every change   *)
(* of an object made while recording is enabled leaves its inverse in the  *)
(* newest undo_state; undo(), merge() and pop_commit() work on these       *)
(* differences only.  The history variable `snapshots' holds what the      *)
(* database contained when each undo_state was pushed; it is not part of   *)
(* the program.                                                            *)
(***************************************************************************)
EXTENDS Naturals, Sequences

CONSTANTS Index,        \* the indexes (one per object space and type)
          MaxInstance,  \* bound: instances 0 .. MaxInstance - 1 in each index
          Value,        \* contents an object can have
          Null,         \* no entry
          Sizes,        \* values given to set_max_size
          MaxSessions   \* bound: how deep callers nest sessions

\* Nested sessions fit in the smallest history: otherwise the trimming loop of
\* start_undo_session drops the state of a session that is still open.
ASSUME UndoAssumption ==
   /\ MaxInstance \in Nat
   /\ Null \notin Value
   /\ Null \notin 0..MaxInstance
   /\ Sizes \subseteq Nat
   /\ MaxSessions \in Nat
   /\ \A n \in Sizes : MaxSessions <= n + 1

VARIABLES db,               \* the objects and the next id of every index
          stack,            \* _stack
          active_sessions,  \* _active_sessions
          disabled,         \* _disabled
          max_size,         \* _max_size
          disable_on_exit,  \* _disable_on_exit of the outermost session
          snapshots         \* history: db when each state was pushed

vars == <<db, stack, active_sessions, disabled, max_size, disable_on_exit,
          snapshots>>

Id == Index \X (0..MaxInstance - 1)

Content == Value \cup {Null}

\* Contents of the object database: Null where no object has that id.
Database == [obj : [Id -> Content], next : [Index -> 0..MaxInstance]]

EmptyDatabase == [obj |-> [i \in Id |-> Null], next |-> [x \in Index |-> 0]]

\* undo_state; a map is total with Null for a missing key.
UndoState == [old_values : [Id -> Content],
              old_index_next_ids : [Index -> 0..MaxInstance \cup {Null}],
              new_ids : SUBSET Id,
              removed : [Id -> Content]]

EmptyState == [old_values |-> [i \in Id |-> Null],
               old_index_next_ids |-> [x \in Index |-> Null],
               new_ids |-> {},
               removed |-> [i \in Id |-> Null]]

-----------------------------------------------------------------------------
(* Recording.  i is the id of the object, d the database before the change. *)

on_create(s, i) ==
   [s EXCEPT !.old_index_next_ids[i[1]] = IF @ = Null THEN i[2] ELSE @,
             !.new_ids = @ \cup {i}]

\* Mutant: a second change of an object overwrites its saved value.
on_modify_overwrites(s, i, d) ==
   IF i \in s.new_ids THEN s ELSE [s EXCEPT !.old_values[i] = d.obj[i]]

on_modify(s, i, d) ==
   IF i \in s.new_ids \/ s.old_values[i] # Null
   THEN s
   ELSE [s EXCEPT !.old_values[i] = d.obj[i]]

\* Mutant: a removed new object stays in new_ids.
on_remove_keeps_new_id(s, i, d) ==
   IF i \in s.new_ids \/ s.removed[i] # Null THEN s
   ELSE IF s.old_values[i] # Null
   THEN [s EXCEPT !.removed[i] = s.old_values[i], !.old_values[i] = Null]
   ELSE [s EXCEPT !.removed[i] = d.obj[i]]

on_remove(s, i, d) ==
   IF i \in s.new_ids
   THEN [s EXCEPT !.new_ids = @ \ {i}]
   ELSE IF s.old_values[i] # Null
   THEN [s EXCEPT !.removed[i] = s.old_values[i], !.old_values[i] = Null]
   ELSE IF s.removed[i] # Null
   THEN s
   ELSE [s EXCEPT !.removed[i] = d.obj[i]]

\* The loops of undo() and pop_commit(): old values are written back, new
\* objects removed, next ids reset and removed objects inserted again.
Restored(s, d) ==
   [obj |-> [i \in Id |-> IF s.removed[i] # Null THEN s.removed[i]
                          ELSE IF i \in s.new_ids THEN Null
                          ELSE IF s.old_values[i] # Null THEN s.old_values[i]
                          ELSE d.obj[i]],
    next |-> [x \in Index |-> IF s.old_index_next_ids[x] # Null
                              THEN s.old_index_next_ids[x] ELSE d.next[x]]]

\* The state that stands for prev_state followed by state.
Merged(prev_state, state) ==
   [old_values |->
      [i \in Id |->
         IF state.removed[i] # Null THEN Null
         ELSE IF i \in prev_state.new_ids \/ prev_state.old_values[i] # Null
         THEN prev_state.old_values[i]
         ELSE state.old_values[i]],
    old_index_next_ids |->
      [x \in Index |-> IF prev_state.old_index_next_ids[x] = Null
                       THEN state.old_index_next_ids[x]
                       ELSE prev_state.old_index_next_ids[x]],
    new_ids |->
      (prev_state.new_ids \cup state.new_ids)
         \ {i \in Id : state.removed[i] # Null},
    removed |->
      [i \in Id |->
         IF state.removed[i] = Null \/ i \in prev_state.new_ids
         THEN prev_state.removed[i]
         ELSE IF prev_state.old_values[i] # Null
         THEN prev_state.old_values[i]
         ELSE state.removed[i]]]

-----------------------------------------------------------------------------
(* The object database: every change is recorded in the newest state; the   *)
(* first change recorded with no state at all pushes one.                   *)

Recorded == IF stack = << >> THEN <<EmptyState>> ELSE stack

Top == Recorded[Len(Recorded)]

Record(s) ==
   /\ stack' = IF disabled THEN stack
               ELSE [Recorded EXCEPT ![Len(Recorded)] = s]
   /\ snapshots' = IF ~disabled /\ stack = << >> THEN <<db>> ELSE snapshots
   /\ UNCHANGED <<active_sessions, disabled, max_size, disable_on_exit>>

create(x, v) ==
   /\ db.next[x] < MaxInstance
   /\ db' = [obj |-> [db.obj EXCEPT ![<<x, db.next[x]>>] = v],
             next |-> [db.next EXCEPT ![x] = @ + 1]]
   /\ Record(on_create(Top, <<x, db.next[x]>>))

modify(i, v) ==
   /\ db.obj[i] # Null
   /\ db' = [db EXCEPT !.obj[i] = v]
   /\ Record(on_modify(Top, i, db))

remove(i) ==
   /\ db.obj[i] # Null
   /\ db' = [db EXCEPT !.obj[i] = Null]
   /\ Record(on_remove(Top, i, db))

\* The history plugins skip an id without recording anything; they do so only
\* after a create in the same session, or while nothing is recorded.
use_next_id(x) ==
   /\ db.next[x] < MaxInstance
   /\ disabled \/ (stack # << >> /\ Top.old_index_next_ids[x] # Null)
   /\ db' = [db EXCEPT !.next[x] = @ + 1]
   /\ UNCHANGED <<stack, active_sessions, disabled, max_size,
                  disable_on_exit, snapshots>>

-----------------------------------------------------------------------------
(* Sessions.                                                                *)

\* pop_front until no more than n entries are left.
Newest(n, s) == IF Len(s) > n THEN SubSeq(s, Len(s) - n + 1, Len(s)) ELSE s

\* Mutant: the trimming loop leaves one state too few.
start_undo_session_trims_more(force_enable) ==
   /\ active_sessions < MaxSessions
   /\ disabled => force_enable
   /\ stack' = Append(Newest(max_size - 1, stack), EmptyState)
   /\ snapshots' = Append(Newest(max_size - 1, snapshots), db)
   /\ active_sessions' = active_sessions + 1
   /\ disable_on_exit' = (disable_on_exit \/ disabled)
   /\ disabled' = FALSE
   /\ UNCHANGED <<db, max_size>>

\* Only push_proposal forces recording on; every other caller starts its
\* session while recording is enabled, so the early return is not taken.
start_undo_session(force_enable) ==
   /\ active_sessions < MaxSessions
   /\ disabled => force_enable
   /\ stack' = Append(Newest(max_size, stack), EmptyState)
   /\ snapshots' = Append(Newest(max_size, snapshots), db)
   /\ active_sessions' = active_sessions + 1
   /\ disable_on_exit' = (disable_on_exit \/ disabled)
   /\ disabled' = FALSE
   /\ UNCHANGED <<db, max_size>>

\* The end of a session that was started with recording disabled disables it.
EndSession ==
   /\ active_sessions' = active_sessions - 1
   /\ disable_on_exit' = (disable_on_exit /\ active_sessions > 1)
   /\ disabled' = (disable_on_exit /\ active_sessions = 1)

PopState ==
   /\ stack' = SubSeq(stack, 1, Len(stack) - 1)
   /\ snapshots' = SubSeq(snapshots, 1, Len(stack) - 1)

\* Mutant: undo() does not reset the next ids.
undo_keeps_next_ids ==
   /\ ~disabled
   /\ active_sessions > 0
   /\ stack # << >>
   /\ db' = [Restored(stack[Len(stack)], db) EXCEPT !.next = db.next]
   /\ PopState
   /\ EndSession
   /\ UNCHANGED max_size

undo ==
   /\ ~disabled
   /\ active_sessions > 0
   /\ stack # << >>
   /\ db' = Restored(stack[Len(stack)], db)
   /\ PopState
   /\ EndSession
   /\ UNCHANGED max_size

\* Mutant: merge() does not pop the merged state.
merge_keeps_state ==
   /\ active_sessions > 0
   /\ LET n == Len(stack) IN
      /\ n >= 2
      /\ stack' = [stack EXCEPT ![n - 1] = Merged(stack[n - 1], stack[n])]
   /\ EndSession
   /\ UNCHANGED <<db, max_size, snapshots>>

merge ==
   /\ active_sessions > 0
   /\ \/ /\ active_sessions = 1
         /\ Len(stack) = 1
         /\ PopState
      \/ LET n == Len(stack) IN
         /\ n >= 2
         /\ stack' = [SubSeq(stack, 1, n - 1) EXCEPT
                        ![n - 1] = Merged(stack[n - 1], stack[n])]
         /\ snapshots' = SubSeq(snapshots, 1, n - 1)
   /\ EndSession
   /\ UNCHANGED <<db, max_size>>

\* Mutant: commit() without its assertion that a session is active.
commit_unchecked ==
   /\ ~disable_on_exit
   /\ active_sessions' = active_sessions - 1
   /\ UNCHANGED <<db, stack, disabled, max_size, disable_on_exit, snapshots>>

\* Only the session of a block is committed; it is the only one then and was
\* started with recording enabled.
commit ==
   /\ active_sessions = 1
   /\ ~disable_on_exit
   /\ active_sessions' = active_sessions - 1
   /\ UNCHANGED <<db, stack, disabled, max_size, disable_on_exit, snapshots>>

pop_commit ==
   /\ active_sessions = 0
   /\ stack # << >>
   /\ db' = Restored(stack[Len(stack)], db)
   /\ PopState
   /\ disabled' = FALSE
   /\ UNCHANGED <<active_sessions, max_size, disable_on_exit>>

set_max_size(n) ==
   /\ max_size' = n
   /\ UNCHANGED <<db, stack, active_sessions, disabled, disable_on_exit,
                  snapshots>>

\* init_genesis and reindex disable recording before there is any history.
disable ==
   /\ active_sessions = 0
   /\ stack = << >>
   /\ disabled' = TRUE
   /\ UNCHANGED <<db, stack, active_sessions, max_size, disable_on_exit,
                  snapshots>>

enable ==
   /\ active_sessions = 0
   /\ disabled' = FALSE
   /\ UNCHANGED <<db, stack, active_sessions, max_size, disable_on_exit,
                  snapshots>>

-----------------------------------------------------------------------------
Init ==
   /\ db = EmptyDatabase
   /\ stack = << >>
   /\ active_sessions = 0
   /\ disabled = FALSE
   /\ max_size \in Sizes
   /\ disable_on_exit = FALSE
   /\ snapshots = << >>

Change ==
   \/ \E x \in Index, v \in Value : create(x, v)
   \/ \E i \in Id, v \in Value : modify(i, v)
   \/ \E i \in Id : remove(i)
   \/ \E x \in Index : use_next_id(x)

Next ==
   \/ Change
   \/ \E force_enable \in BOOLEAN : start_undo_session(force_enable)
   \/ undo
   \/ merge
   \/ commit
   \/ pop_commit
   \/ \E n \in Sizes : set_max_size(n)
   \/ disable
   \/ enable

Spec == Init /\ [][Next]_vars

-----------------------------------------------------------------------------
\* The shapes of the objects, the sessions and the undo records of undo_database.cpp.
TypeOK ==
   /\ db \in Database
   /\ stack \in Seq(UndoState)
   /\ active_sessions \in 0..MaxSessions
   /\ disabled \in BOOLEAN
   /\ max_size \in Sizes
   /\ disable_on_exit \in BOOLEAN
   /\ snapshots \in Seq(Database)

\* The contents a state was recorded against: the snapshot above it, or the
\* database itself for the newest.
After(k) == IF k = Len(stack) THEN db ELSE snapshots[k + 1]

\* Undoing any number of states brings back exactly the objects and the next
\* ids there were when the oldest of them was pushed: the maps filled by
\* on_create, on_modify, on_remove and merge lose nothing.
UndoRestores ==
   /\ Len(snapshots) = Len(stack)
   /\ \A k \in 1..Len(stack) : Restored(stack[k], After(k)) = snapshots[k]

\* The lookups and inserts of undo() and pop_commit() cannot throw: an object
\* to write back or to remove exists, one to insert does not.
AppliesCleanly(s, d) ==
   \A i \in Id : /\ s.old_values[i] # Null \/ i \in s.new_ids
                       => d.obj[i] # Null
                 /\ s.removed[i] # Null => d.obj[i] = Null

\* undo and pop_commit find what they write back: an object to restore or remove exists,
\* one to insert again does not, in every state on the stack.
UndoNeverThrows ==
   \A k \in 1..Len(stack) : AppliesCleanly(stack[k], After(k))

\* The cells of merge()'s table marked N/A never occur: an id created in a
\* session is unknown to the session before it, and an object removed by a
\* session is not touched by the next one (ids are never used again).
NoCausalViolation ==
   \A k \in 2..Len(stack), i \in Id :
      LET A == stack[k - 1]
          B == stack[k]
      IN  /\ i \in B.new_ids => /\ i \notin A.new_ids
                                /\ A.old_values[i] = Null
                                /\ A.removed[i] = Null
          /\ A.removed[i] # Null => B.old_values[i] = Null /\ B.removed[i] = Null

\* Every session still open has its own state in the history, so undo() and
\* merge() never take the back of an empty deque or another session's state.
SessionsBacked == active_sessions <= Len(stack)

\* Objects have ids below the next id of their index.
Sane(d) == \A i \in Id : d.obj[i] # Null => i[2] < d.next[i[1]]

\* s is a complete account of how the database went from old to new.
Describes(s, old, new) ==
   /\ \A x \in Index :
         /\ old.next[x] <= new.next[x]
         /\ old.next[x] = IF s.old_index_next_ids[x] # Null
                         THEN s.old_index_next_ids[x] ELSE new.next[x]
   /\ \A i \in Id :
         /\ i \in s.new_ids =>
               /\ old.next[i[1]] <= i[2]
               /\ old.obj[i] = Null /\ new.obj[i] # Null
               /\ s.old_values[i] = Null /\ s.removed[i] = Null
         /\ s.old_values[i] # Null =>
               /\ old.obj[i] = s.old_values[i] /\ new.obj[i] # Null
               /\ s.removed[i] = Null
         /\ s.removed[i] # Null =>
               old.obj[i] = s.removed[i] /\ new.obj[i] = Null
         /\ i \notin s.new_ids /\ s.old_values[i] = Null /\ s.removed[i] = Null
               => old.obj[i] = new.obj[i]

\* The inductive invariant: every state describes what happened between its
\* snapshot and the next one, and recording is only off without a history.
HistoryInv ==
   /\ Sane(db)
   /\ Len(snapshots) = Len(stack)
   /\ \A k \in 1..Len(stack) : /\ Sane(snapshots[k])
                               /\ Describes(stack[k], snapshots[k], After(k))
   /\ active_sessions <= Len(stack)
   /\ disabled => stack = << >> /\ ~disable_on_exit
   /\ disable_on_exit => active_sessions > 0 /\ Len(stack) = active_sessions

\* The differences implement a stack of snapshots.
Abstract == INSTANCE SnapshotStack
   WITH InitialDatabase <- EmptyDatabase, current <- db, saved <- snapshots,
        open <- active_sessions

\* Every operation of the undo database is one of a stack of full snapshots.
ImplementsSnapshotStack == Abstract!Spec
=============================================================================
