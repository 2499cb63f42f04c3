-------------------------------- MODULE Chain --------------------------------
(***************************************************************************)
(* The chain database of one node: push_block with its fork switch, the    *)
(* undo history, the irreversible block, the block log on disk, shutdown,  *)
(* crash and restart.  The chain thread runs one operation at a time; its  *)
(* loops are separate steps because the node can die between them.         *)
(*                                                                         *)
(* The undo history is the stack of snapshots UndoDatabase implements.  Of *)
(* the object database only what decides the fork choice is kept.          *)
(***************************************************************************)
EXTENDS ForkDatabase

CONSTANTS Valid,           \* blocks apply_block accepts on their branch
          Producer,        \* the witness that signed a block
          Witness,         \* active_witnesses
          Nesting,         \* sessions inside the pending one: 1 for a transaction,
                           \* 2 when it executes a proposal
          MinUndoHistory,  \* GRAPHENE_MIN_UNDO_HISTORY
          MaxUndoHistory,  \* GRAPHENE_MAX_UNDO_HISTORY
          UndoPoint,       \* blocks reindex replays with undo history (50)
          FlushPoint,      \* reindex flushes this far below the end (10000)
          MaxRestarts,     \* bound: how often the node stops
          StateOf          \* what applying the branch of a block leads to

ASSUME ChainAssumption ==
   /\ Valid \subseteq Block
   /\ IsFiniteSet(Witness) /\ Witness # {}
   /\ Producer \in [Block -> Witness]
   /\ Nesting \subseteq {1, 2}
   /\ {MaxUndoHistory, UndoPoint, FlushPoint, MaxRestarts} \subseteq Nat
   /\ UndoPoint <= FlushPoint
   /\ MinUndoHistory \in Nat /\ MinUndoHistory > 1

VARIABLES db,        \* object database: head, lib, confirmed
          undo,      \* snapshots of db, oldest first
          undo_max,  \* _max_size of the undo database
          pending,   \* _pending_tx_session is open: the newest of undo is its
          fork,      \* _fork_db
          log,       \* _block_id_to_block: the id and the data of each number
          job,       \* what the chain thread is doing
          disk,      \* the object database as last flushed
          restarts,  \* how often the node stopped
          unsaved,   \* the last store, which may still be in a buffer
          expected,  \* history: the block a restart must not lose
          final      \* history: the highest number ever irreversible

memory == <<db, undo, undo_max, pending, fork>>
files == <<log, disk, unsaved>>
vars == <<memory, files, job, restarts, expected, final>>

head_block == db.head

-----------------------------------------------------------------------------
(* Applying a block.                                                        *)

\* The witnesses that may lag behind: 30% of them, rounded down.
Offset == (3 * Cardinality(Witness)) \div 10

\* nth_element at Offset: the highest number up to top that all witnesses but
\* Offset have confirmed, or 0.
Irreversible(confirmed, top) ==
   LET common == {0} \cup {n \in 1..top :
                   Cardinality({w \in Witness : confirmed[w] < n}) <= Offset}
   IN  CHOOSE n \in common : \A m \in common : m <= n

\* What is kept of the object database.
States == [head : Block \cup {Genesis}, lib : Nat, confirmed : [Witness -> Nat]]

GenesisState == [head |-> Genesis, lib |-> 0, confirmed |-> [w \in Witness |-> 0]]

\* validate_block_header, and the check of the undo history.
HeaderApplies(d, b) ==
   /\ b \in Block
   /\ Parent[b] = d.head
   /\ Num[b] - d.lib < MaxUndoHistory

Applies(d, b) == b \in Valid /\ HeaderApplies(d, b)

Applied(d, b) ==
   LET confirmed == [d.confirmed EXCEPT ![Producer[b]] = Num[b]]
       n == Irreversible(confirmed, Num[b])
   IN  [head |-> b, confirmed |-> confirmed, lib |-> IF n > d.lib THEN n ELSE d.lib]

ASSUME StateOfAssumption ==
   /\ StateOf \in [Block \cup {Genesis} -> States]
   /\ StateOf[Genesis] = GenesisState
   /\ \A b \in Block : StateOf[b] = Applied(StateOf[Parent[b]], b)

UndoSize_short(d, b) == Num[b] - d.lib

\* The sizes are set with the irreversible number from before the block.
UndoSize(d, b) == Num[b] - d.lib + 1

ForkSize(d, b, f) ==
   (IF f.head # NoBlock /\ Num[f.head] > Num[b] THEN Num[f.head] ELSE Num[b])
      - d.lib + 1

Newest_pops_back(n, s) == IF Len(s) > n THEN SubSeq(s, 1, n) ELSE s

\* The trimming loop of start_undo_session.
Newest(n, s) == IF Len(s) > n THEN SubSeq(s, Len(s) - n + 1, Len(s)) ELSE s

\* What k nested sessions, all ended, leave of the history.
Nested(k, s) == Newest(undo_max + 1 - k, s)

\* apply_block in a session that is committed.
apply_block(b) ==
   /\ db' = Applied(db, b)
   /\ undo' = Append(Newest(undo_max, undo), db)
   /\ undo_max' = UndoSize(db, b)
   /\ fork' = set_max_size(fork, ForkSize(db, b, fork))

apply_fails_commits(b, sized) ==
   /\ sized => HeaderApplies(db, b)
   /\ undo' = Append(Newest(undo_max, undo), db)
   /\ undo_max' = IF sized THEN UndoSize(db, b) ELSE undo_max
   /\ db' = db

\* apply_block that throws: the session is undone.  The size limits stay as the
\* block set them, if it got so far (sized).
apply_fails(b, sized) ==
   /\ sized => HeaderApplies(db, b)
   /\ undo' = Nested(1, undo)
   /\ undo_max' = IF sized THEN UndoSize(db, b) ELSE undo_max
   /\ db' = db

ForksAfter(b, sized) ==
   IF sized THEN set_max_size(fork, ForkSize(db, b, fork)) ELSE fork

store_keeps(id, b) ==
   /\ log' = [log EXCEPT ![Num[id]] =
                 IF @.id = NoBlock THEN [id |-> id, data |-> b] ELSE @]
   /\ unsaved' = [num |-> Num[id], was |-> log[Num[id]]]

\* block_database::store: the place is that of the id, the data is the block's.
store(id, b) ==
   /\ log' = [log EXCEPT ![Num[id]] = [id |-> id, data |-> b]]
   /\ unsaved' = [num |-> Num[id], was |-> log[Num[id]]]

Missing == [id |-> NoBlock, data |-> NoBlock]

Saved == [num |-> 0, was |-> Missing]

\* fetch_optional and fetch_by_number check the id of the data they read.
Intact(n) == n \in DOMAIN log /\ log[n] # Missing /\ log[n].id = log[n].data

-----------------------------------------------------------------------------
(* The chain thread.                                                        *)

Idle == [pc |-> "idle", failed |-> FALSE]

Down(failed) == [pc |-> "down", failed |-> failed]

\* reindex is at number next of a log that ends with number last.
Replay(next, last) ==
   [pc |-> "replay", next |-> next, last |-> last, failed |-> FALSE]

NoReplay == Replay(0, 0)

\* A push of block b that began in state start; replay says where reindex is.
Push(pc, b, first, second, start, replay) ==
   [pc |-> pc, block |-> b, first |-> first, second |-> second,
    start |-> start, replay |-> replay, failed |-> FALSE]

Throw == job' = [job EXCEPT !.pc = "done", !.failed = TRUE]

Higher_by_two(b) == Num[b] > Num[head_block] + 1

\* Forks are switched only to a branch that is higher than the chain.
Higher(b) == Num[b] > Num[head_block]

\* _fork_db.push_block and the choice between appending and switching; s is
\* the undo history left when the pending transactions are cleared.
Link(b, s, replay) ==
   LET f == push_block(fork, b)
       j(pc, first, second) == Push(pc, b, first, second, db, replay)
   IN
   /\ undo' = s
   /\ pending' = FALSE
   /\ UNCHANGED <<db, undo_max>>
   /\ \/ /\ ~Accepts(fork, b)
         /\ fork' = fork
         /\ job' = [j("done", << >>, << >>) EXCEPT !.failed = TRUE]
      \/ /\ Accepts(fork, b)
         /\ fork' = f
         /\ \/ /\ Parent[f.head] = head_block
               /\ job' = j("append", << >>, << >>)
            \/ /\ Parent[f.head] # head_block /\ ~Higher(f.head)
               /\ job' = j("done", << >>, << >>)
            \/ /\ Parent[f.head] # head_block /\ Higher(f.head)
               /\ IF CanFetch(f, f.head, head_block)
                  THEN LET br == fetch_branch_from(f, f.head, head_block)
                       IN  job' = j("pop", br.first, br.second)
                  ELSE job' = [j("done", << >>, << >>) EXCEPT !.failed = TRUE]

\* The blocks of the branch of b, Genesis included.
Ancestors[b \in Block \cup {Genesis}] ==
   IF b = Genesis THEN {b} ELSE {b} \cup Ancestors[Parent[b]]

\* clear_pending: the state of the pending session is undone.
Cleared == IF pending THEN SubSeq(undo, 1, Len(undo) - 1) ELSE undo

\* A block from the network, which delivers the blocks of a branch in order:
\* the previous block is in the fork database or in the chain.
push_block_begin(b) ==
   /\ job.pc = "idle"
   /\ Parent[b] \in fork.index \cup Ancestors[head_block]
   /\ Link(b, Cleared, NoReplay)
   /\ UNCHANGED <<files, restarts, expected>>

\* A fresh pending session in which the pending transactions are applied anew,
\* k deep (0 when there are none), and which is then dropped.
Rebuilt(k) == Nested(k + 1, Cleared)

\* A block of this node, made of the pending transactions, is pushed.
generate_block(b, k) ==
   /\ job.pc = "idle"
   /\ b \in Valid
   /\ Parent[b] = head_block
   /\ Link(b, Rebuilt(k), NoReplay)
   /\ UNCHANGED <<files, restarts, expected>>

\* The block turns out too large: the pending session is not restored, though
\* the pending transactions are kept.
generate_block_throws(k) ==
   /\ job.pc = "idle"
   /\ undo' = Rebuilt(k)
   /\ pending' = FALSE
   /\ UNCHANGED <<db, undo_max, fork, files, job, restarts, expected>>

append ==
   /\ job.pc = "append"
   /\ \/ /\ Applies(db, job.block)
         /\ apply_block(job.block)
         /\ store(job.block, job.block)
         /\ job' = [job EXCEPT !.pc = "done"]
      \/ /\ ~Applies(db, job.block)
         /\ \E sized \in BOOLEAN :
               /\ apply_fails(job.block, sized)
               /\ fork' = remove(ForksAfter(job.block, sized), job.block)
         /\ Throw
         /\ UNCHANGED <<log, unsaved>>
   /\ UNCHANGED <<pending, disk, restarts, expected>>

\* fetch_block_by_id looks in the fork database, then in the log.
Fetchable(b) == b \in fork.index \/ (Intact(Num[b]) /\ log[Num[b]].id = b)

CanPopBlock == Fetchable(head_block) /\ CanPop(fork) /\ undo # << >>

\* What a database::pop_block that throws has done to the fork database.
HalfPopped ==
   IF Fetchable(head_block) /\ CanPop(fork) THEN pop_block(fork) ELSE fork

ForkPoint == Parent[job.second[Len(job.second)]]

pop_keeps_lib(next) ==
   /\ pending' = FALSE
   /\ UNCHANGED <<undo_max, files, restarts, expected>>
   /\ \/ /\ head_block = ForkPoint
         /\ job' = [job EXCEPT !.pc = next]
         /\ UNCHANGED <<db, undo, fork>>
      \/ /\ head_block # ForkPoint
         /\ fork' = HalfPopped
         /\ IF CanPopBlock
            THEN /\ db' = [undo[Len(undo)] EXCEPT !.lib = db.lib]
                 /\ undo' = SubSeq(undo, 1, Len(undo) - 1)
                 /\ job' = job
            ELSE Throw /\ UNCHANGED <<db, undo>>

\* database::pop_block: the fork database moves first.
pop(next) ==
   /\ pending' = FALSE
   /\ UNCHANGED <<undo_max, files, restarts, expected>>
   /\ \/ /\ head_block = ForkPoint
         /\ job' = [job EXCEPT !.pc = next]
         /\ UNCHANGED <<db, undo, fork>>
      \/ /\ head_block # ForkPoint
         /\ fork' = HalfPopped
         /\ IF CanPopBlock
            THEN /\ db' = undo[Len(undo)]
                 /\ undo' = SubSeq(undo, 1, Len(undo) - 1)
                 /\ job' = job
            ELSE Throw /\ UNCHANGED <<db, undo>>

pop_to_fork == job.pc = "pop" /\ pop("apply")

\* The blocks of the new branch, oldest first.  The first that fails is
\* removed with all above it.
apply_fork ==
   /\ job.pc = "apply"
   /\ LET n == Len(job.first)
          b == job.first[n]
          rest == {job.first[k] : k \in 1..n}
      IN
      \/ /\ Applies(db, b)
         /\ apply_block(b)
         /\ store(b, b)
         /\ job' = [job EXCEPT !.first = SubSeq(@, 1, n - 1),
                               !.pc = IF n = 1 THEN "done" ELSE @]
      \/ /\ ~Applies(db, b)
         /\ \E sized \in BOOLEAN :
               /\ apply_fails(b, sized)
               /\ fork' = set_head(Erase(ForksAfter(b, sized), rest), job.start.head)
         /\ job' = [job EXCEPT !.pc = "unwind"]
         /\ UNCHANGED <<log, unsaved>>
   /\ UNCHANGED <<pending, disk, restarts, expected>>

unwind_skipped ==
   /\ job.pc = "unwind"
   /\ Throw
   /\ UNCHANGED <<memory, files, restarts, expected>>

unwind_unpopped ==
   /\ job.pc = "unwind"
   /\ job' = [job EXCEPT !.pc = "restore"]
   /\ UNCHANGED <<memory, files, restarts, expected>>

unwind_retries == job.pc = "unwind" /\ pop("apply")

unwind == job.pc = "unwind" /\ pop("restore")

\* The blocks of the old branch are applied again.  They are stored under the
\* id of the block that was pushed.
restore ==
   /\ job.pc = "restore"
   /\ LET n == Len(job.second)
          b == job.second[n]
      IN
      /\ Applies(db, b)
      /\ apply_block(b)
      /\ store(job.block, b)
      /\ job' = [job EXCEPT !.second = SubSeq(@, 1, n - 1),
                            !.pc = IF n = 1 THEN "done" ELSE @,
                            !.failed = TRUE]
   /\ UNCHANGED <<pending, disk, restarts, expected>>

\* The pending session is opened and a transaction applied in it, k deep.
Reopened(k, s) == Nested(k, Append(Newest(undo_max, s), db))

push_block_end_repeats ==
   /\ job.pc = "done"
   /\ \/ undo' = undo /\ pending' = FALSE
      \/ /\ job.replay = NoReplay
         /\ \E k \in Nesting : undo' = Reopened(k, undo)
         /\ pending' = TRUE
   /\ job' = IF job.replay = NoReplay THEN Idle
             ELSE IF job.failed THEN Down(TRUE) ELSE job.replay
   /\ UNCHANGED <<db, undo_max, fork, files, restarts, expected>>

\* The end of push_block: popped and pending transactions that are not known
\* to the chain are pushed again, if there are any; in reindex there are none.
\* An exception in reindex ends the program.
push_block_end ==
   /\ job.pc = "done"
   /\ \/ undo' = undo /\ pending' = FALSE
      \/ /\ job.replay = NoReplay
         /\ \E k \in Nesting : undo' = Reopened(k, undo)
         /\ pending' = TRUE
   /\ job' = IF job.replay = NoReplay THEN Idle
             ELSE IF job.failed THEN Down(TRUE)
             ELSE Replay(job.replay.next + 1, job.replay.last)
   /\ UNCHANGED <<db, undo_max, fork, files, restarts, expected>>

\* _push_transaction, whether or not the transaction turns out to be valid.
push_transaction(k) ==
   /\ job.pc = "idle"
   /\ undo' = IF pending THEN Nested(k, undo) ELSE Reopened(k, undo)
   /\ pending' = TRUE
   /\ UNCHANGED <<db, undo_max, fork, files, job, restarts, expected>>

\* validate_transaction: the same without a pending session.
validate_transaction(k) ==
   /\ job.pc = "idle"
   /\ undo' = Nested(k, undo)
   /\ UNCHANGED <<db, undo_max, pending, fork, files, job, restarts, expected>>

-----------------------------------------------------------------------------
(* Stopping and starting.                                                   *)

\* The memory of a new process, with the flushed object database loaded.
Loaded(d) ==
   /\ db' = d
   /\ undo' = << >>
   /\ undo_max' = MinUndoHistory
   /\ pending' = FALSE

NoForks == EmptyForks(1024)

close ==
   /\ job.pc = "idle"
   /\ restarts < MaxRestarts
   /\ job' = [pc |-> "rewind", cutoff |-> db.lib, failed |-> FALSE]
   /\ undo' = Cleared
   /\ pending' = FALSE
   /\ expected' = head_block
   /\ UNCHANGED <<db, undo_max, fork, files, restarts>>

rewind_retries ==
   /\ job.pc = "rewind"
   /\ Num[head_block] > job.cutoff
   /\ IF CanPopBlock
      THEN /\ fork' = remove(pop_block(fork), head_block)
           /\ db' = undo[Len(undo)]
           /\ undo' = SubSeq(undo, 1, Len(undo) - 1)
      ELSE /\ fork' = HalfPopped
           /\ UNCHANGED <<db, undo>>
   /\ UNCHANGED <<undo_max, pending, files, job, restarts, expected>>

\* close() pops the reversible blocks, until an exception.
rewind ==
   /\ job.pc = "rewind"
   /\ Num[head_block] > job.cutoff
   /\ IF CanPopBlock
      THEN /\ fork' = remove(pop_block(fork), head_block)
           /\ db' = undo[Len(undo)]
           /\ undo' = SubSeq(undo, 1, Len(undo) - 1)
           /\ job' = job
      ELSE /\ fork' = HalfPopped
           /\ job' = [job EXCEPT !.cutoff = Num[head_block]]
           /\ UNCHANGED <<db, undo>>
   /\ UNCHANGED <<undo_max, pending, files, restarts, expected>>

flush_partly ==
   /\ job.pc = "rewind"
   /\ Num[head_block] <= job.cutoff
   /\ disk' = [db EXCEPT !.confirmed = disk.confirmed]
   /\ Loaded(disk')
   /\ fork' = NoForks
   /\ job' = Down(FALSE)
   /\ unsaved' = Saved
   /\ restarts' = restarts + 1
   /\ UNCHANGED <<log, expected>>

flush ==
   /\ job.pc = "rewind"
   /\ Num[head_block] <= job.cutoff
   /\ disk' = db
   /\ Loaded(db)
   /\ fork' = NoForks
   /\ job' = Down(FALSE)
   /\ unsaved' = Saved
   /\ restarts' = restarts + 1
   /\ UNCHANGED <<log, expected>>

\* The program dies.  Of the last store the index entry, or the data it points
\* to, may be lost.
LogAfterCrash ==
   IF unsaved = Saved THEN {log}
   ELSE {log, [log EXCEPT ![unsaved.num] = unsaved.was],
              [log EXCEPT ![unsaved.num].data = NoBlock]}

\* The block before b: the last store may be lost.
Before(b) == IF b = Genesis THEN b ELSE Parent[b]

\* reindex writes the log again: only the flushed state is certain.
Flushed == IF expected = NoBlock THEN NoBlock ELSE disk.head

\* What a crash now must not lose; nothing while a switch rewrites the log.
Surviving ==
   CASE job.pc = "idle" -> Before(head_block)
     [] job.pc = "rewind" -> Before(expected)
     [] job.pc = "replay" -> Flushed
     [] OTHER ->
          IF job.replay # NoReplay THEN Flushed
          ELSE IF job.pc \in {"append", "done"} THEN Before(head_block)
          ELSE IF job.pc = "pop" THEN Before(job.start.head) ELSE NoBlock

crash ==
   /\ job.pc # "down"
   /\ restarts < MaxRestarts
   /\ Loaded(disk)
   /\ fork' = NoForks
   /\ job' = Down(FALSE)
   /\ log' \in LogAfterCrash
   /\ unsaved' = Saved
   /\ restarts' = restarts + 1
   /\ expected' = Surviving
   /\ UNCHANGED disk

\* last_index_entry: entries at the end that do not check out are dropped.
IsLast(n) ==
   /\ n = 0 \/ Intact(n)
   /\ \A k \in DOMAIN log : Intact(k) => k <= n

UpTo(n) == [k \in DOMAIN log |-> IF k <= n THEN log[k] ELSE Missing]

\* reindex keeps undo history from this number on.
undo_point(last) == IF last < UndoPoint THEN 0 ELSE last - UndoPoint

flush_point_late(last) == last

\* reindex flushes the object database before this number.
flush_point(last) == IF last < FlushPoint THEN 0 ELSE last - FlushPoint

open ==
   /\ job.pc = "down"
   /\ Loaded(disk)
   /\ \E last \in {k \in {0} \cup DOMAIN log : IsLast(k)} :
      LET n == Num[disk.head]
          linked == n > 0 /\ n >= undo_point(last)
      IN
      /\ log' = UpTo(last)
      /\ \/ \* nothing to replay
            /\ last \in {0, n}
            /\ job' = Idle
            /\ fork' = NoForks
         \/ \* the log ends below the flushed state, or in another block
            /\ last # 0
            /\ last < n \/ (last = n /\ log[n].id # disk.head)
            /\ job' = Down(TRUE)
            /\ fork' = NoForks
         \/ \* the last flushed block is taken from the log
            /\ last > n
            /\ job' = IF linked /\ ~Intact(n) THEN Down(TRUE) ELSE Replay(n + 1, last)
            /\ fork' = IF linked /\ Intact(n) THEN start_block(NoForks, log[n].data)
                       ELSE NoForks
   /\ unsaved' = Saved
   /\ UNCHANGED <<disk, restarts, expected>>

\* One turn of reindex's loop.  Below undo_point the block is applied without
\* a session; at a gap the rest of the log is dropped.
reindex ==
   /\ job.pc = "replay"
   /\ LET n == job.next
          b == log[n].data
      IN
      \/ /\ n > job.last
         /\ job' = Idle
         /\ UNCHANGED <<memory, log>>
      \/ /\ n <= job.last /\ ~Intact(n)
         /\ log' = UpTo(n - 1)
         /\ job' = Idle
         /\ UNCHANGED memory
      \/ /\ n <= job.last /\ Intact(n) /\ n < undo_point(job.last)
         /\ IF Applies(db, b)
            THEN /\ db' = Applied(db, b)
                 /\ undo_max' = UndoSize(db, b)
                 /\ fork' = set_max_size(fork, ForkSize(db, b, fork))
                 /\ job' = Replay(n + 1, job.last)
            ELSE /\ job' = Down(TRUE)
                 /\ UNCHANGED <<db, undo_max, fork>>
         /\ UNCHANGED <<undo, pending, log>>
      \/ /\ n <= job.last /\ Intact(n) /\ n >= undo_point(job.last)
         /\ Link(b, Cleared, job)
         /\ UNCHANGED log
   /\ disk' = IF job.next = flush_point(job.last) THEN db ELSE disk
   /\ UNCHANGED <<unsaved, restarts, expected>>

-----------------------------------------------------------------------------
Init ==
   /\ db = GenesisState
   /\ undo = << >>
   /\ undo_max = MinUndoHistory
   /\ pending = FALSE
   /\ fork = NoForks
   /\ log = [n \in {Num[b] : b \in Block} |-> Missing]
   /\ job = Idle
   /\ disk = GenesisState
   /\ restarts = 0
   /\ unsaved = Saved
   /\ expected = NoBlock
   /\ final = 0

Observe == final' = IF db'.lib > final THEN db'.lib ELSE final

\* What the chain thread does next on its own.
Step ==
   /\ \/ append \/ pop_to_fork \/ apply_fork \/ unwind \/ restore
      \/ push_block_end \/ rewind \/ flush \/ reindex
   /\ Observe

\* What others make it do.
Call ==
   /\ \/ \E b \in Block : push_block_begin(b)
      \/ \E b \in Block, k \in Nesting \cup {0} : generate_block(b, k)
      \/ \E k \in Nesting : \/ push_transaction(k) \/ validate_transaction(k)
                            \/ generate_block_throws(k)
      \/ close \/ crash \/ open
   /\ Observe

Next == Step \/ Call

Spec == Init /\ [][Next]_vars

\* The chain thread runs until its operation is over.
FairSpec == Spec /\ WF_vars(Step)

-----------------------------------------------------------------------------
\* The shapes of the block log, the fork database, the undo history and the operation in
\* progress.
TypeOK ==
   /\ db \in States
   /\ undo \in Seq(States)
   /\ undo_max \in Nat
   /\ pending \in BOOLEAN
   /\ fork \in Forks
   /\ \A n \in DOMAIN log : log[n] \in [id : Block \cup {NoBlock},
                                        data : Block \cup {NoBlock}]
   /\ disk \in States
   /\ restarts \in 0..MaxRestarts
   /\ expected \in Block \cup {Genesis, NoBlock}
   /\ final \in Nat

\* The snapshots of the undo history, without that of the pending session.
Committed == Len(undo) - IF pending THEN 1 ELSE 0

\* The state is determined by the head: whatever was switched, popped, flushed
\* or replayed, the object database is what applying the branch of the head to
\* the genesis state gives.
StateMatchesHead == db = StateOf[head_block]

\* Popping blocks walks back along the chain: every committed snapshot is the
\* state in which the block above it was applied.
UndoFollowsChain ==
   \A k \in 1..Committed :
      LET above == IF k = Committed THEN db ELSE undo[k + 1]
      IN  /\ above.head \in Block
          /\ Parent[above.head] = undo[k].head
          /\ above = Applied(undo[k], above.head)

\* "Push block may fail in which case every partial change is unwound": when
\* push_block throws, the node is where it was before (db_block.cpp:112).
PushUnwinds == job.pc = "done" /\ job.failed => db = job.start

\* The blocks of the old branch can be applied again: push_block does it in an exception
\* handler, where another exception would leave the node between the branches
\* (db_block.cpp:186).
RestoreApplies ==
   job.pc = "restore" => Applies(db, job.second[Len(job.second)])

\* Between operations the block log holds the chain: the entry of each number
\* has the id and the data of the block of the chain with this number.
LogHoldsChain ==
   job.pc = "idle" =>
      \A b \in Ancestors[head_block] \ {Genesis} :
         log[Num[b]] = [id |-> b, data |-> b]

\* The node follows the longest branch it knows: no known block is higher than
\* the head of the chain.
AdoptsHighest ==
   job.pc = "idle" => \A b \in fork.index : Num[b] <= Num[head_block]

\* A valid block on top of the head is adopted, whatever branches are known.
ExtendsHead ==
   job.pc = "done" /\ job.block \in Valid /\ Parent[job.block] = job.start.head
      => db.head = job.block

\* The undo history reaches back to the last irreversible block, or to the
\* block the node was started with, whatever sessions were opened since.
UndoReachesIrreversible ==
   job.pc = "idle" =>
      \/ Committed >= Num[head_block] - final
      \/ Committed >= Num[head_block] - Num[disk.head]

\* However many blocks a switch, its unwinding or a shutdown pops, the head stays
\* at or above the block whose state is on disk: reindex flushes that state only
\* while there is no undo history yet.
UndoAboveFlushed == Num[disk.head] + Committed <= Num[head_block]

\* A restart loses no block, but for the last one when the node crashed: open()
\* does not throw and reindex ends at or above the block expected.
RestartRecovers ==
   [][expected # NoBlock =>
         /\ job.pc \in {"down", "replay"} /\ job'.pc = "idle"
               => expected \in Ancestors[db'.head]
         /\ job'.pc = "down" => ~job'.failed]_vars

\* "Every time a block is pushed into the fork DB the block with the highest
\* block_num will be returned" (fork_database.hpp:65): what push_block returns
\* is its head, and no item is higher.
ForkHeadIsHighest ==
   [][job.pc = "idle" /\ job'.pc \in {"append", "pop", "done"} /\ ~job'.failed =>
         \A b \in fork'.index : Num[b] <= Num[fork'.head]]_vars

\* "As long as blocks are pushed in order the fork database will maintain a
\* linked tree" (fork_database.hpp:59): an item above the lowest ones is linked
\* to the item of its previous block.
LinkedTree ==
   job.pc = "idle" =>
      \A b \in fork.index : (\E c \in fork.index : Num[c] < Num[b]) => b \in fork.links

\* "pop all of the blocks that we can given our undo history" (db_management
\* .cpp:215): shutdown stops at an irreversible block, or when the history is
\* used up.  Block 1, which no undo history can pop, is left aside.
ShutdownRewinds ==
   [][job.pc = "rewind" /\ job'.pc = "down" /\ disk' # disk =>
         undo = << >> \/ Num[head_block] <= final \/ Num[head_block] = 1]_vars

\* Every push, shutdown and replay ends.
ThreadReturns == job.pc # "idle" ~> job.pc \in {"idle", "down"}
=============================================================================
