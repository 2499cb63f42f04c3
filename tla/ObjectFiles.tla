----------------------------- MODULE ObjectFiles ------------------------------
(***************************************************************************)
(* The object database on disk: one file for each index in the directory   *)
(* object_database, written through object_database.tmp and                *)
(* object_database.old, read when the node starts and wiped when its       *)
(* version does not match or a replay is asked for.  The process may die   *)
(* at every step; what it had handed to the file system stays.             *)
(*                                                                         *)
(* The contents of an index are reduced to the number of the state they    *)
(* belong to: Empty without objects, Genesis after init_genesis.           *)
(***************************************************************************)
EXTENDS Integers

CONSTANTS Properties,    \* the index of global_property_object
          Others         \* the indexes of the other object types

Index == {Properties} \cup Others

Empty == 0
Genesis == 1
Torn == -1               \* written in part

States == Nat \ {Empty}
Files == {Torn, Empty} \cup States    \* of an index: Empty also if there is no file

VARIABLES mem,           \* the indexes of the running process
          obj, tmp, old, \* files of the three directories
          there,         \* those of "obj", "tmp" and "old" that exist
          locked,        \* those of them that hold the file lock
          version_ok,    \* db_version is that of the program
          replay,        \* the wipe of a replay is not complete
          pc,            \* what the process does
          left           \* indexes still to be saved or removed

vars == <<mem, obj, tmp, old, there, locked, version_ok, replay, pc, left>>

disk == <<obj, tmp, old, there, locked>>

None == [i \in Index |-> Empty]

\* The shapes of the indexes in memory, the three directories and the step of the process.
TypeOK ==
   /\ mem \in [Index -> Files]
   /\ obj \in [Index -> Files] /\ tmp \in [Index -> Files] /\ old \in [Index -> Files]
   /\ there \subseteq {"obj", "tmp", "old"}
   /\ locked \subseteq {"obj", "tmp", "old"}
   /\ {version_ok, replay} \subseteq BOOLEAN
   /\ pc \in {"down", "up", "wipe", "open", "save", "swap", "install", "clean"}
   /\ left \subseteq Index

Init ==
   /\ mem = None /\ obj = None /\ tmp = None /\ old = None
   /\ there = {} /\ locked = {} /\ version_ok = FALSE /\ replay = FALSE
   /\ pc = "down" /\ left = {}

-----------------------------------------------------------------------------
\* The start: application::startup wipes for a replay, database::open for another
\* version, before anything is read.  A replay that was cut off is asked for again.
start ==
   /\ pc = "down"
   /\ replay' \in {replay, TRUE}
   /\ IF replay' \/ ~version_ok
      THEN pc' = "wipe" /\ left' = Index
      ELSE pc' = "open" /\ UNCHANGED left
   /\ UNCHANGED <<mem, disk, version_ok>>

\* remove_all takes one file after the other.
wipe_file(i) ==
   /\ pc = "wipe" /\ i \in left
   /\ obj' = [obj EXCEPT ![i] = Empty]
   /\ left' = left \ {i}
   /\ UNCHANGED <<mem, tmp, old, there, locked, version_ok, replay, pc>>

\* The directory goes, and db_version is written, only when all is removed.
wipe_end ==
   /\ pc = "wipe" /\ left = {}
   /\ there' = there \ {"obj"} /\ locked' = locked \ {"obj"}
   /\ version_ok' = TRUE /\ replay' = FALSE
   /\ pc' = "open"
   /\ UNCHANGED <<mem, obj, tmp, old, left>>

\* database::open: every index file there is, then the genesis state when there are no
\* global properties; genesis objects are added to what was read.  A
\* locked directory is left alone.
open ==
   /\ pc = "open"
   /\ LET read == IF "obj" \in there \ locked THEN obj ELSE None
      IN  mem' = IF read[Properties] = Empty
                 THEN [i \in Index |-> IF read[i] = Empty THEN Genesis ELSE read[i]] ELSE read
   /\ pc' = "up"
   /\ UNCHANGED <<disk, version_ok, replay, left>>

\* Blocks are applied or popped: all indexes are of one state again.
change(s) ==
   /\ pc = "up"
   /\ mem' = [i \in Index |-> s]
   /\ UNCHANGED <<disk, version_ok, replay, pc, left>>

-----------------------------------------------------------------------------
flush ==
   /\ pc = "up"
   /\ there' = there \cup {"tmp"} /\ locked' = locked \cup {"tmp"}
   /\ pc' = "save" /\ left' = Index
   /\ UNCHANGED <<mem, obj, tmp, old, version_ok, replay>>

save_begin(i) ==
   /\ pc = "save" /\ i \in left
   /\ tmp' = [tmp EXCEPT ![i] = Torn]
   /\ UNCHANGED <<mem, obj, old, there, locked, version_ok, replay, pc, left>>

save_end(i) ==
   /\ pc = "save" /\ i \in left /\ tmp[i] = Torn
   /\ tmp' = [tmp EXCEPT ![i] = mem[i]]
   /\ left' = left \ {i}
   /\ UNCHANGED <<mem, obj, old, there, locked, version_ok, replay, pc>>

unlock ==
   /\ pc = "save" /\ left = {}
   /\ locked' = locked \ {"tmp"}
   /\ pc' = "swap"
   /\ UNCHANGED <<mem, obj, tmp, old, there, version_ok, replay, left>>

moved(set, from, to) == (set \ {from, to}) \cup (IF from \in set THEN {to} ELSE {})

\* A rename replaces an empty directory and throws on any other.
CanReplaceOld == "old" \in there => old = None

swap ==
   /\ pc = "swap" /\ ("obj" \in there => CanReplaceOld)
   /\ IF "obj" \in there
      THEN old' = obj /\ obj' = None /\ there' = moved(there, "obj", "old")
           /\ locked' = moved(locked, "obj", "old")
      ELSE UNCHANGED <<obj, old, there, locked>>
   /\ pc' = "install"
   /\ UNCHANGED <<mem, tmp, version_ok, replay, left>>

\* What a crash has left of an earlier object_database.old is in the way.
swap_throws ==
   /\ pc = "swap" /\ "obj" \in there /\ ~CanReplaceOld
   /\ pc' = "down" /\ mem' = None
   /\ UNCHANGED <<disk, version_ok, replay, left>>

install ==
   /\ pc = "install"
   /\ obj' = tmp /\ tmp' = None
   /\ there' = moved(there, "tmp", "obj") /\ locked' = moved(locked, "tmp", "obj")
   /\ pc' = "clean"
   /\ UNCHANGED <<mem, old, version_ok, replay, left>>

clean_file(i) ==
   /\ pc = "clean" /\ old[i] # Empty
   /\ old' = [old EXCEPT ![i] = Empty]
   /\ UNCHANGED <<mem, obj, tmp, there, locked, version_ok, replay, pc, left>>

\* The end of a flush while the node runs, during a replay, or of close().
clean_end ==
   /\ pc = "clean" /\ old = None
   /\ there' = there \ {"old"} /\ locked' = locked \ {"old"}
   /\ \/ pc' = "up" /\ UNCHANGED mem
      \/ pc' = "down" /\ mem' = None
   /\ UNCHANGED <<obj, tmp, old, version_ok, replay, left>>

crash ==
   /\ pc # "down"
   /\ pc' = "down" /\ mem' = None /\ left' = {}
   /\ UNCHANGED <<disk, version_ok, replay>>

\* Another program is installed, or db_version is lost.
upgrade ==
   /\ pc = "down"
   /\ version_ok' = FALSE
   /\ UNCHANGED <<mem, disk, replay, pc, left>>

Next ==
   \/ start \/ wipe_end \/ open
   \/ \E s \in States : change(s)
   \/ flush \/ unlock \/ swap \/ swap_throws \/ install \/ clean_end
   \/ \E i \in Index : wipe_file(i) \/ save_begin(i) \/ save_end(i) \/ clean_file(i)
   \/ crash \/ upgrade

Spec == Init /\ [][Next]_vars

-----------------------------------------------------------------------------
\* However the process died before, while it flushed, wiped or replayed, a running node
\* has all its indexes from one state of the chain: no file of an interrupted flush or
\* wipe is ever mixed with others.
Consistent == pc = "up" => \E s \in States : mem = [i \in Index |-> s]

\* The inductive invariant behind Consistent.
Whole(f) == \E s \in States : f = [i \in Index |-> s]

\* Outside a wipe object_database is absent or whole; it may be in pieces only when the next
\* start wipes it first.
IInv ==
   /\ TypeOK
   /\ "obj" \in there => Whole(obj) \/ replay \/ ~version_ok
   /\ pc = "wipe" => replay \/ ~version_ok
   /\ pc = "open" => ~replay /\ version_ok
   /\ pc \in {"up", "save", "swap", "install", "clean"} => Whole(mem)
   /\ pc \in {"up", "save", "swap", "install", "clean"} => ~replay /\ version_ok
   /\ pc = "save" => \A i \in Index \ left : tmp[i] = mem[i]
   /\ pc \in {"swap", "install"} => tmp = mem
=============================================================================
