---------------------------- MODULE ChainRecords ----------------------------
(***************************************************************************)
(* What a node can go back to, for every tree of blocks: the undo history  *)
(* reaches the irreversible block but no block below the state on disk, and *)
(* the block log holds the chain.                                          *)
(***************************************************************************)
EXTENDS ChainProofs

-----------------------------------------------------------------------------
(* How far back the undo history reaches.                                   *)

\* reindex has an undo session for every block it applies.
Recorded == job.pc = "replay" => job.next >= undo_point(job.last)

\* The irreversible numbers in memory and on disk have been observed.  The history, if
\* there is one, may grow to one snapshot more than it needs, which is what a pending
\* session takes; and it reaches back, whatever the thread is doing.
ReachInv ==
   /\ final \in Nat /\ db.lib <= final /\ disk.lib <= final
   /\ Len(Cleared) = 0 \/ undo_max > Num[db.head] - final
   /\ \/ Len(Cleared) >= Num[db.head] - final
      \/ Len(Cleared) >= Num[db.head] - Num[disk.head]

\* The numbers the invariant compares.
LEMMA ReachTypes ==
   ASSUME IInv
   PROVE  /\ Num[db.head] \in Nat /\ Num[disk.head] \in Nat /\ undo_max \in Nat
          /\ undo_max > 1 /\ db.lib \in Nat /\ disk.lib \in Nat
          /\ Cleared \in Seq(States) /\ Len(Cleared) \in Nat
<1>1. db \in States /\ disk \in States /\ Cleared \in Seq(States)
   BY Zenon DEF IInv, Good, Chained
<1> QED
   BY <1>1, BlockAssumption DEF IInv, States

\* The arithmetic of it, for histories that lose what does not fit.
LEMMA TrimArithmetic ==
   ASSUME NEW c \in Nat, NEW d \in Nat, NEW h \in Nat, NEW n \in Nat, NEW m \in Nat,
          NEW f \in Nat, NEW g \in Nat, g >= f, d <= c, d >= c \/ d >= m - 1,
          c = 0 \/ m > h - f, c >= h - f \/ c >= h - n
   PROVE  /\ d = 0 \/ m > h - g
          /\ d >= h - g \/ d >= h - n
<1>1. d = 0 \/ m > h - g
   OBVIOUS
<1>2. CASE d >= c
   BY <1>1, <1>2
<1>3. CASE c = 0
   BY <1>1, <1>3
<1>4. CASE d >= m - 1 /\ m > h - f
   BY <1>1, <1>4
<1> QED
   BY <1>2, <1>3, <1>4, Zenon

\* Sessions that came and went took at most the snapshots beyond undo_max - 1.
LEMMA ReachTrimmed ==
   ASSUME IInv, ReachInv, IInv', db' = db, disk' = disk, undo_max' = undo_max,
          final' \in Nat, final' >= final
   PROVE  /\ Len(Cleared') <= Len(Cleared)
          /\ Len(Cleared') >= Len(Cleared) \/ Len(Cleared') >= undo_max - 1
          => ReachInv'
<1> DEFINE c == Len(Cleared)
           d == Len(Cleared')
           h == Num[db.head]
           n == Num[disk.head]
<1>0. SUFFICES ASSUME d <= c, d >= c \/ d >= undo_max - 1
               PROVE  ReachInv'
   BY Zenon
<1>1. /\ h \in Nat /\ n \in Nat /\ undo_max \in Nat /\ db.lib \in Nat /\ disk.lib \in Nat
      /\ c \in Nat
   BY ReachTypes, Zenon
<1>2. d \in Nat
   BY DEF IInv, Chained
<1>3. /\ final \in Nat /\ db.lib <= final /\ disk.lib <= final
      /\ c = 0 \/ undo_max > h - final
      /\ c >= h - final \/ c >= h - n
   BY Zenon DEF ReachInv
<1> HIDE DEF c, d, h, n
<1>4. /\ d = 0 \/ undo_max > h - final'
      /\ d >= h - final' \/ d >= h - n
   BY <1>0, <1>1, <1>2, <1>3, TrimArithmetic, Zenon
<1>6. db.lib <= final' /\ disk.lib <= final'
   BY <1>1, <1>3
<1> QED
   BY <1>4, <1>6, Zenon DEF ReachInv, d, h, n

\* The length of what the sessions of a transaction leave.
LEMMA NestedLength ==
   ASSUME IInv, NEW s \in Seq(States), NEW k \in 1..3
   PROVE  /\ Nested(k, s) \in Seq(States)
          /\ Len(Nested(k, s)) \in Nat /\ Len(Nested(k, s)) <= Len(s)
          /\ Len(Nested(k, s)) >= Len(s) \/ Len(Nested(k, s)) >= undo_max + 1 - k
<1> DEFINE n == undo_max + 1 - k
           t == Newest(n, s)
<1>1. undo_max \in Nat /\ undo_max > 1
   BY Zenon DEF IInv
<1>2. n \in Nat
   BY <1>1
<1>3. t \in Seq(States) /\ Len(t) = (IF Len(s) > n THEN n ELSE Len(s))
   BY <1>2, NewestSeq, Zenon
<1>4. Nested(k, s) = t
   BY Zenon DEF Nested
<1>5. Len(s) \in Nat /\ Len(t) \in Nat
   BY <1>3
<1> HIDE DEF t, n
<1>6. Len(t) <= Len(s) /\ (Len(t) >= Len(s) \/ Len(t) >= n)
   BY <1>2, <1>3, <1>5
<1> QED
   BY <1>3, <1>4, <1>5, <1>6, Zenon DEF n

\* The same of a pending session opened on a history s.
LEMMA ReopenedLength ==
   ASSUME IInv, NEW s, Chained(s, db)
   PROVE  LET t == Reopened(1, s) IN
          /\ Len(t) \in Nat /\ Len(t) - 1 <= Len(s)
          /\ Len(t) - 1 >= Len(s) \/ Len(t) - 1 >= undo_max - 1
<1> DEFINE r == Newest(undo_max, s)
           a == Append(r, db)
           t == Newest(undo_max, a)
<1>1. db \in States /\ undo_max \in Nat /\ undo_max > 1 /\ s \in Seq(States)
   BY Zenon DEF IInv, Good, Chained
<1>2. r \in Seq(States) /\ Len(r) = (IF Len(s) > undo_max THEN undo_max ELSE Len(s))
   BY <1>1, NewestSeq, Zenon
<1> HIDE DEF r
<1>3. a \in Seq(States) /\ Len(a) = Len(r) + 1
   BY <1>1, <1>2
<1> HIDE DEF a
<1>4. t \in Seq(States) /\ Len(t) = (IF Len(a) > undo_max THEN undo_max ELSE Len(a))
   BY <1>1, <1>3, NewestSeq, Zenon
<1>5. undo_max + 1 - 1 = undo_max
   BY <1>1
<1>6. Reopened(1, s) = t
   BY <1>5, Zenon DEF Reopened, Nested, t, a, r
<1>7. Len(s) \in Nat /\ Len(r) \in Nat /\ Len(a) \in Nat /\ Len(t) \in Nat
   BY <1>1, <1>2, <1>3, <1>4, SMTT(30), Z3T(30)
<1> HIDE DEF t
<1>8. Len(t) - 1 <= Len(s) /\ (Len(t) - 1 >= Len(s) \/ Len(t) - 1 >= undo_max - 1)
   BY <1>1, <1>2, <1>3, <1>4, <1>7, SMTT(30), Z3T(30)
<1> QED
   BY <1>6, <1>7, <1>8, Zenon

\* The snapshots without that of the pending session, from the length of the history.
LEMMA ClearedLength ==
   ASSUME IInv
   PROVE  Len(Cleared) = Committed
<1>1. undo \in Seq(States) /\ pending \in BOOLEAN /\ (pending => undo # << >>)
   BY Zenon DEF IInv
<1> QED
   BY <1>1, FrontSeq DEF Cleared, Committed

\* A block grows the history by one, and is one higher.
LEMMA GrowArithmetic ==
   ASSUME NEW c \in Nat, NEW d \in Nat, NEW h \in Nat, NEW n \in Nat, NEW m \in Nat,
          NEW f \in Nat, NEW g \in Nat, g >= f,
          d = c + 1 \/ (d = m + 1 /\ c # 0),
          c = 0 \/ m > h - f, c >= h - f \/ c >= h - n
   PROVE  d >= (h + 1) - g \/ d >= (h + 1) - n
OBVIOUS

\* apply_block, for the state before and the one after it.
LEMMA ReachApplied ==
   ASSUME IInv, ReachInv, IInv', ~pending, pending' = FALSE, disk' = disk, NEW b,
          Applies(db, b), apply_block(b), final' \in Nat, final' >= final,
          db'.lib <= final'
   PROVE  ReachInv'
<1> DEFINE c == Len(undo)
           d == Len(undo')
           h == Num[db.head]
           n == Num[disk.head]
<1>1. Cleared = undo /\ Cleared' = undo'
   BY Zenon DEF Cleared
<1>2. /\ h \in Nat /\ n \in Nat /\ undo_max \in Nat /\ db.lib \in Nat /\ disk.lib \in Nat
      /\ undo \in Seq(States) /\ c \in Nat
   BY <1>1, ReachTypes, Zenon
<1>3. /\ final \in Nat /\ db.lib <= final /\ disk.lib <= final
      /\ c = 0 \/ undo_max > h - final
      /\ c >= h - final \/ c >= h - n
   BY <1>1, Zenon DEF ReachInv
<1>4. b \in Block /\ Parent[b] = db.head /\ db \in States
   BY Zenon DEF Applies, HeaderApplies, IInv, Good
<1>5. Num[b] = h + 1
   BY <1>4, BlockAssumption, Zenon
<1>6. db'.head = b /\ undo_max' = (h + 1) - db.lib + 1
   <2>1. db' = Applied(db, b) /\ undo_max' = Num[b] - db.lib + 1
      BY Zenon DEF apply_block, UndoSize
   <2>2. Applied(db, b).head = b
      BY Zenon DEF Applied
   <2> HIDE DEF h
   <2> QED
      BY <1>5, <2>1, <2>2, Zenon
<1>7. d \in Nat /\ (d = c + 1 \/ (d = undo_max + 1 /\ c # 0))
   <2> DEFINE r == Newest(undo_max, undo)
   <2>1. r \in Seq(States) /\ Len(r) = (IF c > undo_max THEN undo_max ELSE c)
      BY <1>2, NewestSeq, Zenon
   <2>2. undo' = Append(r, db)
      BY Zenon DEF apply_block
   <2> HIDE DEF r
   <2>3. d = Len(r) + 1
      BY <1>4, <2>1, <2>2
   <2> QED
      BY <1>2, <2>1, <2>3, SMTT(30), Z3T(30)
<1> HIDE DEF c, d, h, n
<1>8. d >= (h + 1) - final' \/ d >= (h + 1) - n
   BY <1>2, <1>3, <1>7, GrowArithmetic, Zenon
<1>9. disk.lib <= final' /\ (h + 1) - db.lib + 1 > (h + 1) - final'
   BY <1>2, <1>3, SMTT(30), Z3T(30)
<1>10. Num[db'.head] = h + 1
   BY <1>5, <1>6, Zenon
<1>11. /\ undo_max' > Num[db'.head] - final'
       /\ Len(Cleared') >= Num[db'.head] - final' \/ Len(Cleared') >= Num[db'.head] - Num[disk'.head]
   BY <1>1, <1>6, <1>8, <1>9, <1>10, ZenonT(30) DEF d, n
<1> QED
   BY <1>9, <1>11, Zenon DEF ReachInv

\* apply_block that throws: with the size the block set, or without.
LEMMA ReachFails ==
   ASSUME IInv, ReachInv, IInv', ~pending, pending' = FALSE, disk' = disk, NEW b,
          NEW sized \in BOOLEAN, apply_fails(b, sized), final' \in Nat, final' >= final
   PROVE  ReachInv'
<1>1. /\ Cleared = undo /\ Cleared' = undo' /\ undo \in Seq(States) /\ db' = db
      /\ undo' = Nested(1, undo)
   BY Zenon DEF Cleared, IInv, apply_fails
<1>2. /\ Len(undo') \in Nat /\ Len(undo') <= Len(undo) /\ Len(undo) \in Nat
      /\ Len(undo') >= Len(undo) \/ Len(undo') >= undo_max + 1 - 1
   BY <1>1, NestedLength
<1>3. undo_max \in Nat /\ db.lib \in Nat /\ Num[db.head] \in Nat
      /\ Num[disk.head] \in Nat
   BY ReachTypes, Zenon
<1>4. Len(undo') >= Len(undo) \/ Len(undo') >= undo_max - 1
   BY <1>2, <1>3
<1>5. CASE undo_max' = undo_max
   BY <1>1, <1>2, <1>4, <1>5, ReachTrimmed, Zenon
<1>6. CASE sized
   <2>1. b \in Block /\ Parent[b] = db.head /\ undo_max' = Num[b] - db.lib + 1
      BY <1>6, Zenon DEF apply_fails, HeaderApplies, UndoSize
   <2>2. Num[b] = Num[db.head] + 1
      BY <2>1, BlockAssumption, Zenon
   <2>3. /\ final \in Nat /\ db.lib <= final /\ disk.lib <= final
         /\ disk.lib \in Nat
         /\ Len(undo) = 0 \/ undo_max > Num[db.head] - final
         /\ Len(undo) >= Num[db.head] - final \/ Len(undo) >= Num[db.head] - Num[disk.head]
      BY <1>1, ReachTypes, Zenon DEF ReachInv
   <2>4. /\ Len(undo') >= Num[db.head] - final' \/ Len(undo') >= Num[db.head] - Num[disk.head]
      BY <1>2, <1>3, <1>4, <2>3, TrimArithmetic, ZenonT(30)
   <2>5. undo_max' > Num[db.head] - final'
      BY <1>3, <2>1, <2>2, <2>3, SMTT(30), Z3T(30)
   <2>6. db.lib <= final' /\ disk.lib <= final'
      BY <1>3, <2>3
   <2> QED
      BY <1>1, <2>4, <2>5, <2>6, Zenon DEF ReachInv
<1> QED
   BY <1>5, <1>6, Zenon DEF apply_fails

\* A snapshot is taken from the history, and the head is one lower.
LEMMA ShrinkArithmetic ==
   ASSUME NEW c \in Nat, c > 0, NEW i \in Nat, NEW n \in Nat, NEW m \in Nat,
          NEW f \in Nat, NEW g \in Nat, g >= f,
          NEW h \in Nat, h = i + 1, c = 0 \/ m > h - f, c >= h - f \/ c >= h - n
   PROVE  /\ m > i - g
          /\ c - 1 >= i - g \/ c - 1 >= i - n
OBVIOUS

\* pop_block takes a snapshot, and is one lower.
LEMMA ReachPopped ==
   ASSUME IInv, ReachInv, IInv', ~pending, pending' = FALSE, disk' = disk,
          undo_max' = undo_max, undo # << >>, db' = undo[Len(undo)],
          undo' = SubSeq(undo, 1, Len(undo) - 1), final' \in Nat, final' >= final,
          db'.lib <= final'
   PROVE  ReachInv'
<1> DEFINE c == Len(undo)
           h == Num[db.head]
           i == Num[db'.head]
           n == Num[disk.head]
<1>1. Cleared = undo /\ Cleared' = undo' /\ Chained(undo, db) /\ undo \in Seq(States)
   BY Zenon DEF Cleared, IInv
<1>2. Len(undo') = c - 1 /\ c \in Nat /\ c > 0
   BY <1>1, FrontSeq
<1>3. Follows(db', db) /\ db' \in States
   BY <1>1, <1>2 DEF Chained, Good
<1>4. h = i + 1 /\ i \in Nat /\ h \in Nat
   BY <1>3, BlockAssumption, Zenon DEF Follows, States
<1>5. /\ n \in Nat /\ undo_max \in Nat /\ disk.lib \in Nat /\ final \in Nat
      /\ c = 0 \/ undo_max > h - final
      /\ c >= h - final \/ c >= h - n
      /\ disk.lib <= final
   BY <1>1, ReachTypes, Zenon DEF ReachInv
<1> HIDE DEF c, h, i, n
<1>6. disk.lib <= final'
   BY <1>5
<1>7. /\ undo_max > i - final'
      /\ c - 1 >= i - final' \/ c - 1 >= i - n
   BY <1>2, <1>4, <1>5, ShrinkArithmetic, ZenonT(30)
<1> QED
   BY <1>1, <1>2, <1>6, <1>7, Zenon DEF ReachInv, i, n

\* A process starts with a state it has on disk and without history.
LEMMA ReachLoaded ==
   ASSUME NEW d, Loaded(d), disk' = d, final' \in Nat, db'.lib <= final', Good(d)
   PROVE  ReachInv'
<1>1. Cleared' = << >> /\ db' = d
   BY Zenon DEF Cleared, Loaded
<1>2. Num[d.head] \in Nat
   BY BlockAssumption, Zenon DEF Good, States
<1>3. Len(<< >>) = 0
   BY Zenon
<1>4. 0 >= Num[d.head] - Num[d.head]
   BY <1>2
<1> QED
   BY <1>1, <1>3, <1>4, Zenon DEF ReachInv

\* What is enough for an irreversible number is enough for a higher one.
LEMMA NeedArithmetic ==
   ASSUME NEW h \in Nat, NEW m \in Nat, NEW f \in Nat, NEW g \in Nat, g >= f
   PROVE  m > h - f => m > h - g
OBVIOUS

\* The highest irreversible number only grows.
LEMMA FinalGrows ==
   ASSUME IInv, ReachInv, IInv', Observe
   PROVE  final' \in Nat /\ final' >= final /\ db'.lib <= final'
<1>1. final \in Nat /\ db'.lib \in Nat
   BY Zenon DEF ReachInv, IInv, Good, States
<1> QED
   BY <1>1 DEF Observe

\* Every step keeps the reach of the history, when the pending session holds no more
\* than one session at a time and reindex records what it applies.
LEMMA ReachStep ==
   ASSUME IInv, JobInv, ReachInv, IInv', Next, Nesting \subseteq {1}, Recorded
   PROVE  ReachInv'
<1>1. /\ final' \in Nat /\ final' >= final /\ db'.lib <= final'
      /\ Good(db) /\ Good(disk) /\ undo_max \in Nat /\ Chained(Cleared, db)
      /\ pending \in BOOLEAN /\ (pending => undo # << >>) /\ undo \in Seq(States)
      /\ Cleared \in Seq(States) /\ Len(Cleared) \in Nat
   BY FinalGrows, ReachTypes, Zenon DEF Next, Step, Call, IInv
<1>2. ASSUME Cleared' = Cleared, db' = db, disk' = disk, undo_max' = undo_max
      PROVE  ReachInv'
   BY <1>1, <1>2, ReachTrimmed, SMTT(30), Z3T(30)
<1>3. ASSUME Cleared' = Nested(1, Cleared) \/ Cleared' = Nested(2, Cleared),
             db' = db, disk' = disk, undo_max' = undo_max
      PROVE  ReachInv'
   <2>1. PICK k \in {1, 2} : Cleared' = Nested(k, Cleared)
      BY <1>3, Zenon
   <2> DEFINE d == Len(Cleared')
              c == Len(Cleared)
   <2>2. /\ d \in Nat /\ d <= c
         /\ d >= c \/ d >= undo_max + 1 - k
      BY <1>1, <2>1, NestedLength, SMTT(30), Z3T(30)
   <2> HIDE DEF d, c
   <2>3. d >= undo_max + 1 - k => d >= undo_max - 1
      BY <1>1, <2>1, <2>2, SMTT(30), Z3T(30)
   <2>4. /\ d <= c
         /\ d >= c \/ d >= undo_max - 1
      BY <2>2, <2>3, Zenon
   <2> QED
      BY <1>1, <1>3, <2>4, ReachTrimmed, Zenon DEF d, c
<1>4. ASSUME NEW s, Chained(s, db), Cleared = s, undo' = Reopened(1, s), pending' = TRUE,
             db' = db, disk' = disk, undo_max' = undo_max
      PROVE  ReachInv'
   <2> DEFINE t == Reopened(1, s)
   <2>1. undo' \in Seq(States) /\ undo' # << >>
      BY <1>4, Zenon DEF IInv
   <2>2. Cleared' = SubSeq(undo', 1, Len(undo') - 1)
      BY <1>4, Zenon DEF Cleared
   <2>3. Len(Cleared') = Len(undo') - 1
      BY <2>1, <2>2, FrontSeq, Zenon
   <2>4. /\ Len(t) - 1 <= Len(s)
         /\ Len(t) - 1 >= Len(s) \/ Len(t) - 1 >= undo_max - 1
      BY <1>4, ReopenedLength, Zenon
   <2>5. /\ Len(Cleared') <= Len(Cleared)
         /\ Len(Cleared') >= Len(Cleared) \/ Len(Cleared') >= undo_max - 1
      BY <1>4, <2>3, <2>4, Zenon
   <2> QED
      BY <1>1, <1>4, <2>5, ReachTrimmed, ZenonT(30)
<1>5. ASSUME NEW b, NEW replay, Link(b, Cleared, replay), disk' = disk PROVE ReachInv'
   <2>1. /\ undo' = Cleared /\ pending' = FALSE /\ db' = db /\ undo_max' = undo_max
      BY <1>5, Zenon DEF Link
   <2>2. Cleared' = Cleared
      BY <2>1, Zenon DEF Cleared
   <2> QED
      BY <1>2, <1>5, <2>1, <2>2, ZenonT(30)
<1>6. Nested(1, Cleared) = Rebuilt(0) /\ Nested(2, Cleared) = Rebuilt(1)
   BY DEF Rebuilt
<1>7. CASE append
   <2>1. ~pending /\ pending' = FALSE /\ disk' = disk
      BY <1>1, <1>7, Zenon DEF append, IInv
   <2>2. CASE Applies(db, job.block) /\ apply_block(job.block)
      BY <1>1, <2>1, <2>2, ReachApplied, ZenonT(30)
   <2>3. CASE \E sized \in BOOLEAN : apply_fails(job.block, sized)
      BY <1>1, <2>1, <2>3, ReachFails, ZenonT(30)
   <2> QED
      BY <1>7, <2>2, <2>3, ZenonT(30) DEF append
<1>8. CASE apply_fork
   <2> DEFINE b == job.first[Len(job.first)]
   <2>1. ~pending /\ pending' = FALSE /\ disk' = disk
      BY <1>1, <1>8, Zenon DEF apply_fork, IInv
   <2>2. (Applies(db, b) /\ apply_block(b)) \/ \E sized \in BOOLEAN : apply_fails(b, sized)
      BY <1>8, Zenon DEF apply_fork
   <2> HIDE DEF b
   <2>3. CASE Applies(db, b) /\ apply_block(b)
      BY <1>1, <2>1, <2>3, ReachApplied, Zenon
   <2>4. CASE \E sized \in BOOLEAN : apply_fails(b, sized)
      BY <1>1, <2>1, <2>4, ReachFails, ZenonT(30)
   <2> QED
      BY <2>2, <2>3, <2>4, Zenon
<1>9. CASE restore
   <2> DEFINE b == job.second[Len(job.second)]
   <2>1. ~pending /\ pending' = FALSE /\ disk' = disk
      BY <1>1, <1>9, Zenon DEF restore, IInv
   <2>2. Applies(db, b) /\ apply_block(b)
      BY <1>9, Zenon DEF restore
   <2> HIDE DEF b
   <2> QED
      BY <1>1, <2>1, <2>2, ReachApplied, ZenonT(30)
<1>10. CASE pop_to_fork \/ unwind \/ rewind
   <2>1. /\ ~pending /\ pending' = FALSE /\ disk' = disk /\ undo_max' = undo_max
      BY <1>1, <1>10, ZenonT(30) DEF pop_to_fork, unwind, rewind, pop, files, IInv
   <2>2. \/ db' = db /\ undo' = undo
         \/ undo # << >> /\ db' = undo[Len(undo)] /\ undo' = SubSeq(undo, 1, Len(undo) - 1)
      BY <1>10, Zenon DEF pop_to_fork, unwind, rewind, pop, CanPopBlock
   <2>3. CASE db' = db /\ undo' = undo
      <3>1. Cleared' = Cleared
         BY <2>1, <2>3, Zenon DEF Cleared
      <3> QED
         BY <1>2, <2>1, <2>3, <3>1, ZenonT(30)
   <2>4. CASE undo # << >> /\ db' = undo[Len(undo)] /\ undo' = SubSeq(undo, 1, Len(undo) - 1)
      BY <1>1, <2>1, <2>4, ReachPopped, ZenonT(30)
   <2> QED
      BY <2>2, <2>3, <2>4, ZenonT(30)
<1>11. CASE \E b \in Block : push_block_begin(b)
   BY <1>5, <1>11, Zenon DEF push_block_begin, files
<1>12. CASE \E b \in Block, k \in Nesting \cup {0} : generate_block(b, k)
   <2>1. PICK b \in Block, k \in {0, 1} : generate_block(b, k)
      BY <1>12, Zenon
   <2>2. /\ undo' = Rebuilt(k) /\ pending' = FALSE /\ db' = db /\ undo_max' = undo_max
         /\ disk' = disk
      BY <2>1, Zenon DEF generate_block, Link, files
   <2>3. Cleared' = Rebuilt(k)
      BY <2>2, Zenon DEF Cleared
   <2> QED
      BY <1>3, <1>6, <2>1, <2>2, <2>3, ZenonT(30)
<1>13. CASE \E k \in Nesting : generate_block_throws(k)
   <2>1. generate_block_throws(1)
      BY <1>13, Zenon
   <2>2. /\ undo' = Rebuilt(1) /\ pending' = FALSE /\ db' = db /\ undo_max' = undo_max
         /\ disk' = disk
      BY <2>1, Zenon DEF generate_block_throws, files
   <2>3. Cleared' = Rebuilt(1)
      BY <2>2, Zenon DEF Cleared
   <2> QED
      BY <1>3, <1>6, <2>2, <2>3, ZenonT(30)
<1>14. ASSUME undo' = Nested(1, undo), pending' = pending, db' = db, disk' = disk,
              undo_max' = undo_max
       PROVE  ReachInv'
   <2>1. CASE pending
      <3>1. undo_max + 1 - 1 = undo_max /\ undo_max > 0 /\ undo_max + 1 - 2 = undo_max - 1
         BY <1>1 DEF IInv
      <3>2. Nested(1, undo) = Newest(undo_max, undo)
            /\ Nested(2, Cleared) = Newest(undo_max - 1, Cleared)
         BY <3>1, Zenon DEF Nested
      <3>3. Cleared = SubSeq(undo, 1, Len(undo) - 1)
            /\ Cleared' = SubSeq(undo', 1, Len(undo') - 1)
         BY <1>14, <2>1, ZenonT(30) DEF Cleared
      <3>4. Cleared' = Nested(2, Cleared)
         BY <1>1, <1>14, <2>1, <3>1, <3>2, <3>3, NewestFront, SMTT(30), Z3T(30)
      <3> QED
         BY <1>3, <1>14, <3>4, ZenonT(30)
   <2>2. CASE ~pending
      <3>1. Cleared' = Nested(1, Cleared)
         BY <1>14, <2>2, ZenonT(30) DEF Cleared
      <3> QED
         BY <1>3, <1>14, <3>1, Zenon
   <2> QED
      BY <2>1, <2>2, Zenon
<1>15. CASE \E k \in Nesting : push_transaction(k)
   <2>1. push_transaction(1)
      BY <1>15, Zenon
   <2>2. pending' = TRUE /\ db' = db /\ disk' = disk /\ undo_max' = undo_max
         /\ undo' = IF pending THEN Nested(1, undo) ELSE Reopened(1, undo)
      BY <2>1, Zenon DEF push_transaction, files
   <2>3. CASE pending
      BY <1>1, <1>14, <2>2, <2>3, ZenonT(30)
   <2>4. CASE ~pending
      <3>1. Cleared = undo
         BY <2>4, Zenon DEF Cleared
      <3> QED
         BY <1>1, <1>4, <2>2, <2>4, <3>1, ZenonT(30)
   <2> QED
      BY <2>3, <2>4, Zenon
<1>16. CASE \E k \in Nesting : validate_transaction(k)
   <2>1. validate_transaction(1)
      BY <1>16, Zenon
   <2> QED
      BY <1>14, <2>1, ZenonT(30) DEF validate_transaction, files
<1>17. CASE push_block_end
   <2>1. ~pending /\ db' = db /\ disk' = disk /\ undo_max' = undo_max
      BY <1>1, <1>17, Zenon DEF push_block_end, files, IInv
   <2>2. Cleared = undo
      BY <2>1, Zenon DEF Cleared
   <2>3. CASE undo' = undo /\ pending' = FALSE
      <3>1. Cleared' = Cleared
         BY <2>2, <2>3, Zenon DEF Cleared
      <3> QED
         BY <1>2, <2>1, <3>1, Zenon
   <2>4. CASE undo' = Reopened(1, undo) /\ pending' = TRUE
      BY <1>1, <1>4, <2>1, <2>2, <2>4, ZenonT(30)
   <2> QED
      BY <1>17, <2>3, <2>4, ZenonT(30) DEF push_block_end
<1>18. CASE close
   <2>1. undo' = Cleared /\ pending' = FALSE /\ db' = db /\ disk' = disk
         /\ undo_max' = undo_max
      BY <1>18, Zenon DEF close, files
   <2>2. Cleared' = Cleared
      BY <2>1, Zenon DEF Cleared
   <2> QED
      BY <1>2, <2>1, <2>2, Zenon
<1>19. CASE flush
   BY <1>1, <1>19, ReachLoaded, Zenon DEF flush
<1>20. CASE crash \/ open
   BY <1>1, <1>20, ReachLoaded, ZenonT(30) DEF crash, open
<1>21. CASE reindex
   <2>1. job.pc = "replay" /\ job.next >= undo_point(job.last)
      BY <1>21, Zenon DEF reindex, Recorded
   <2>2. job.next \in Nat /\ undo_point(job.last) \in Nat
      BY <2>1, UndoPointNat, Zenon DEF JobInv, ReplayPoint
   <2>3. ~(job.next < undo_point(job.last))
      BY <2>1, <2>2, SMTT(30), Z3T(30)
   <2>4. UNCHANGED memory \/ Link(log[job.next].data, Cleared, job)
      BY <1>21, <2>3, Zenon DEF reindex
   <2>5. /\ Cleared' = Cleared /\ db' = db /\ undo_max' = undo_max
      <3>1. CASE UNCHANGED memory
         BY <3>1, Zenon DEF memory, Cleared
      <3>2. CASE Link(log[job.next].data, Cleared, job)
         <4>1. /\ undo' = Cleared /\ pending' = FALSE /\ db' = db /\ undo_max' = undo_max
            BY <3>2, ZenonT(30) DEF Link
         <4> QED
            BY <4>1, Zenon DEF Cleared
      <3> QED
         BY <2>4, <3>1, <3>2, ZenonT(30)
   <2>6. CASE disk' = disk
      BY <1>2, <2>5, <2>6, ZenonT(30)
   <2>7. CASE disk' = db
      <3> DEFINE h == Num[db.head]
      <3>1. h \in Nat /\ Len(Cleared) \in Nat /\ undo_max \in Nat
         BY ReachTypes, Zenon
      <3>2. final \in Nat /\ (Len(Cleared) = 0 \/ undo_max > h - final)
         BY Zenon DEF ReachInv
      <3> HIDE DEF h
      <3>3. Len(Cleared) = 0 \/ undo_max > h - final'
         <4>1. final' \in Nat /\ final' >= final
            BY <1>1, Zenon
         <4>2. undo_max > h - final => undo_max > h - final'
            BY <3>1, <3>2, <4>1, NeedArithmetic, ZenonT(30)
         <4> QED
            BY <3>2, <4>2, Zenon
      <3>4. Len(Cleared) >= h - h
         BY <3>1
      <3> QED
         BY <1>1, <2>5, <2>7, <3>3, <3>4, ZenonT(30) DEF ReachInv, h
   <2> QED
      BY <1>21, <2>6, <2>7, ZenonT(30) DEF reindex
<1> QED
   BY <1>7, <1>8, <1>9, <1>10, <1>11, <1>12, <1>13, <1>15, <1>16, <1>17, <1>18, <1>19,
      <1>20, <1>21, Zenon DEF Next, Step, Call

\* The undo history reaches back to the last irreversible block or to the block the node
\* was started with, through any pending and validated transactions, generated blocks,
\* switches and failed blocks (start_undo_session's trimming loop against the size
\* apply_block sets).  It takes that no transaction executes a proposal, whose second
\* nested session trims one snapshot too many, and that reindex has a session for the
\* blocks it applies, which it has for the last 50.
THEOREM UndoReaches ==
   ASSUME Nesting \subseteq {1}
   PROVE  Spec /\ []Recorded => []UndoReachesIrreversible
<1>1. Init => ReachInv
   <2> SUFFICES ASSUME Init PROVE ReachInv
      BY Zenon
   <2>1. Cleared = << >> /\ db = GenesisState /\ disk = GenesisState /\ final = 0
      BY Zenon DEF Init, Cleared
   <2>2. GenesisState.head = Genesis /\ GenesisState.lib = 0
      BY Zenon DEF GenesisState
   <2>3. Num[db.head] = 0 /\ Len(Cleared) = 0
      BY <2>1, <2>2, BlockAssumption, Zenon
   <2> QED
      BY <2>1, <2>2, <2>3, SMTT(30), Z3T(30) DEF ReachInv
<1>2. ASSUME ReachInv, UNCHANGED vars PROVE ReachInv'
   BY <1>2, Zenon DEF ReachInv, Cleared, vars, memory, files
<1>3. Recorded /\ ReachInv /\ (IInv /\ JobInv)
         /\ (IInv /\ JobInv)' /\ [Next]_vars => ReachInv'
   <2>1. ASSUME Recorded, ReachInv, IInv, JobInv, IInv', Next
         PROVE  ReachInv'
      BY <2>1, ReachStep, Zenon
   <2> QED
      BY <1>2, <2>1, Zenon
<1>4. IInv /\ ReachInv => UndoReachesIrreversible
   BY ClearedLength, Zenon DEF ReachInv, UndoReachesIrreversible, head_block
<1> QED
   BY <1>1, <1>3, <1>4, InvariantHolds, PTL DEF Spec

-----------------------------------------------------------------------------
(* The branch of a block.                                                   *)

\* The definition of the branch is that of a function: the smallest closed sets
\* satisfy its equation.
LEMMA Branches ==
   /\ Ancestors[Genesis] = {Genesis}
   /\ \A b \in Block : Ancestors[b] = {b} \cup Ancestors[Parent[b]]
<1> DEFINE A(b) == {c \in Known : \A S \in SUBSET Known : b \in S /\ Closed(S) => c \in S}
           Eq(f) == f = [b \in Known |-> IF b = Genesis THEN {b} ELSE {b} \cup f[Parent[b]]]
           f0 == [b \in Known |-> A(b)]
<1>1. A(Genesis) = {Genesis}
   <2>1. {Genesis} \in SUBSET Known /\ Closed({Genesis})
      BY Zenon DEF Known, Closed
   <2> QED
      BY <2>1, Zenon DEF Known
<1>2. ASSUME NEW b \in Block PROVE A(b) = {b} \cup A(Parent[b])
   <2> DEFINE T == {b} \cup A(Parent[b])
   <2>1. b \in Known /\ b # Genesis /\ Parent[b] \in Known
      BY BlockAssumption, Zenon DEF Known
   <2>2. T \subseteq A(b)
      <3>1. b \in A(b)
         BY <2>1, Zenon
      <3>2. ASSUME NEW c \in A(Parent[b]), NEW S \in SUBSET Known, b \in S, Closed(S)
            PROVE  c \in S
         <4>1. Parent[b] \in S
            BY <2>1, <3>2, Zenon DEF Closed
         <4> QED
            BY <3>2, <4>1, ZenonT(30)
      <3> QED
         BY <3>1, <3>2, ZenonT(30)
   <2>3. T \in SUBSET Known
      BY <2>1, ZenonT(30)
   <2>4. Closed(T)
      <3>1. Parent[b] \in A(Parent[b])
         BY <2>1, Zenon
      <3>2. ASSUME NEW c \in A(Parent[b]), c # Genesis PROVE Parent[c] \in A(Parent[b])
         <4>1. c \in Block /\ Parent[c] \in Known
            BY <3>2, BlockAssumption, Zenon DEF Known
         <4>2. ASSUME NEW S \in SUBSET Known, Parent[b] \in S, Closed(S)
               PROVE  Parent[c] \in S
            BY <3>2, <4>2, ZenonT(30) DEF Closed
         <4> QED
            BY <4>1, <4>2, Zenon
      <3> HIDE DEF A
      <3> QED
         BY <3>1, <3>2, ZenonT(30) DEF Closed
   <2>5. b \in T
      BY Zenon
   <2>6. A(b) \subseteq T
      BY <2>3, <2>4, <2>5, Zenon
   <2> QED
      BY <2>2, <2>6, Zenon
<1> HIDE DEF A
<1>3. Eq(f0)
   <2>1. \A b \in Block : Parent[b] \in Known
      BY BlockAssumption, Zenon DEF Known
   <2>2. ASSUME NEW b \in Known
         PROVE  A(b) = IF b = Genesis THEN {b} ELSE {b} \cup f0[Parent[b]]
      BY <1>1, <1>2, <2>1, <2>2, ZenonT(30) DEF Known
   <2> QED
      BY <2>2, Zenon
<1>4. Ancestors = CHOOSE f : Eq(f)
   BY Zenon DEF Ancestors, Known
<1> HIDE DEF f0
<1>5. Eq(Ancestors)
   <2> HIDE DEF Eq
   <2> QED
      BY <1>3, <1>4, ZenonT(30)
<1>6. Genesis \in Known /\ \A b \in Block : b \in Known /\ b # Genesis
   BY BlockAssumption, Zenon DEF Known
<1> QED
   BY <1>5, <1>6, Zenon

\* The blocks of a branch are numbered from one to the number of its head.
Numbered(h) ==
   /\ \A b \in Ancestors[h] : b \in Known /\ Num[b] <= Num[h]
   /\ \A n \in 1..Num[h] : \E b \in Ancestors[h] \ {Genesis} : Num[b] = n

LEMMA BranchNumbers ==
   ASSUME NEW h \in Known
   PROVE  Numbered(h)
<1> DEFINE T == {n \in Nat : \E b \in Known : Num[b] = n /\ ~Numbered(b)}
<1>1. SUFFICES ASSUME T # {} PROVE FALSE
   BY BlockAssumption, Zenon DEF Known
<1>2. PICK m \in T : \A k \in T : m <= k
   BY <1>1, LeastNumber, Zenon
<1>3. PICK b \in Known : Num[b] = m /\ ~Numbered(b)
   BY Zenon
<1>4. CASE b = Genesis
   <2>1. Num[b] = 0 /\ Ancestors[b] = {b} /\ b \in Known
      BY <1>4, BlockAssumption, Branches, ZenonT(30) DEF Known
   <2> QED
      BY <1>3, <2>1, SMTT(30), Z3T(30) DEF Numbered
<1>5. CASE b \in Block
   <2> DEFINE p == Parent[b]
   <2>1. p \in Known /\ Num[p] \in Nat /\ Num[b] = Num[p] + 1 /\ b # Genesis
         /\ Ancestors[b] = {b} \cup Ancestors[p]
      BY <1>5, BlockAssumption, Branches, ZenonT(30) DEF Known
   <2> HIDE DEF p
   <2>2. Numbered(p)
      <3>1. SUFFICES ASSUME ~Numbered(p) PROVE FALSE
         BY Zenon
      <3>2. Num[p] \in T
         BY <2>1, <3>1, Zenon
      <3> QED
         BY <1>2, <1>3, <2>1, <3>2, SMTT(30), Z3T(30)
   <2>3. ASSUME NEW c \in Ancestors[b] PROVE c \in Known /\ Num[c] <= Num[b]
      <3>1. CASE c = b
         BY <1>3, <2>1, <3>1, SMTT(30), Z3T(30)
      <3>2. CASE c \in Ancestors[p]
         <4>1. c \in Known /\ Num[c] <= Num[p] /\ Num[c] \in Nat
            BY <2>2, <3>2, BlockAssumption, ZenonT(30) DEF Numbered, Known
         <4> QED
            BY <2>1, <4>1, SMTT(30), Z3T(30)
      <3> QED
         BY <2>1, <3>1, <3>2, ZenonT(30)
   <2>4. ASSUME NEW n \in 1..Num[b]
         PROVE  \E c \in Ancestors[b] \ {Genesis} : Num[c] = n
      <3>1. CASE n = Num[b]
         BY <2>1, <3>1, Zenon
      <3>2. CASE n # Num[b]
         <4>1. n \in 1..Num[p]
            BY <2>1, <3>2, SMTT(30), Z3T(30)
         <4> QED
            BY <2>1, <2>2, <4>1, ZenonT(30) DEF Numbered
      <3> QED
         BY <3>1, <3>2, Zenon
   <2> QED
      BY <1>3, <2>3, <2>4, ZenonT(30) DEF Numbered
<1> QED
   BY <1>4, <1>5, Zenon DEF Known

-----------------------------------------------------------------------------
(* The undo history and the state on disk.                                  *)

\* No number of pops leads below the state on disk, and a replay that has yet to reach
\* the undo point has nothing to pop.
RootInv ==
   /\ Num[disk.head] + Len(Cleared) <= Num[db.head]
   /\ job.pc = "replay" =>
         job.next >= 1 /\ (job.next <= undo_point(job.last) => undo = << >>)

\* The snapshots that sessions leave behind are not more than there were.
LEMMA SessionsLength ==
   ASSUME IInv, IInv',
          \/ \E k \in Nesting : \/ push_transaction(k) \/ validate_transaction(k)
                                \/ generate_block_throws(k)
          \/ \E b \in Block, k \in Nesting \cup {0} : generate_block(b, k)
          \/ push_block_end
   PROVE  Len(Cleared') \in Nat /\ Len(Cleared') <= Len(Cleared)
<1>1. /\ undo \in Seq(States) /\ Cleared \in Seq(States) /\ pending \in BOOLEAN
      /\ (pending => undo # << >> /\ job.pc = "idle") /\ db \in States
      /\ undo' \in Seq(States) /\ (pending' => undo' # << >>) /\ undo_max \in Nat
      /\ Chained(Cleared, db)
   BY Zenon DEF IInv, Chained, Good
<1>2. /\ Len(Cleared) = Len(undo) - (IF pending THEN 1 ELSE 0)
      /\ Len(Cleared') = Len(undo') - (IF pending' THEN 1 ELSE 0)
      /\ Len(Cleared) \in Nat /\ Len(undo) \in Nat /\ Len(undo') \in Nat
      /\ Len(Cleared') \in Nat
   BY <1>1, FrontSeq, SMTT(30), Z3T(30) DEF Cleared
<1>3. ASSUME NEW k \in 1..3, undo' = Nested(k, Cleared), pending' = FALSE
      PROVE  Len(Cleared') <= Len(Cleared)
   BY <1>1, <1>2, <1>3, NestedLength, SMTT(30), Z3T(30)
<1>4. ASSUME NEW k \in {1, 2}, undo' = Nested(k, undo), pending' = pending
      PROVE  Len(Cleared') <= Len(Cleared)
   <2>1. Len(undo') <= Len(undo)
      BY <1>1, <1>4, NestedLength, SMTT(30), Z3T(30)
   <2> QED
      BY <1>2, <1>4, <2>1, SMTT(30), Z3T(30)
<1>5. ASSUME NEW k \in {1, 2}, undo' = Reopened(k, undo), ~pending, pending' = TRUE
      PROVE  Len(Cleared') <= Len(Cleared)
   <2> DEFINE r == Newest(undo_max, undo)
   <2>1. r \in Seq(States) /\ Len(r) = (IF Len(undo) > undo_max THEN undo_max ELSE Len(undo))
      BY <1>1, NewestSeq, Zenon
   <2>2. Append(r, db) \in Seq(States) /\ Len(Append(r, db)) = Len(r) + 1
      BY <1>1, <2>1, SMTT(30), Z3T(30)
   <2>3. undo' = Nested(k, Append(r, db))
      BY <1>5, ZenonT(30) DEF Reopened
   <2> HIDE DEF r
   <2> DEFINE a == Append(r, db)
   <2>4. Len(undo') <= Len(r) + 1
      <3>1. a \in Seq(States) /\ Len(a) = Len(r) + 1 /\ undo' = Nested(k, a) /\ k \in 1..3
         BY <2>2, <2>3, SMTT(30), Z3T(30)
      <3> HIDE DEF a
      <3>2. Len(undo') <= Len(a)
         BY <3>1, NestedLength, Zenon
      <3> QED
         BY <3>1, <3>2, ZenonT(30)
   <2> QED
      BY <1>1, <1>2, <1>5, <2>1, <2>4, SMTT(30), Z3T(30)
<1>6. Nesting \subseteq {1, 2}
   BY ChainAssumption, Zenon
<1>7. CASE \E k \in Nesting : generate_block_throws(k)
   <2>1. PICK k \in {1, 2} : undo' = Nested(k + 1, Cleared) /\ pending' = FALSE
      BY <1>6, <1>7, Zenon DEF generate_block_throws, Rebuilt
   <2>2. k + 1 \in 1..3
      OBVIOUS
   <2> QED
      BY <1>2, <1>3, <2>1, <2>2, ZenonT(30)
<1>8. CASE \E b \in Block, k \in Nesting \cup {0} : generate_block(b, k)
   <2>1. PICK k \in {0, 1, 2} : undo' = Nested(k + 1, Cleared) /\ pending' = FALSE
      BY <1>6, <1>8, ZenonT(30) DEF generate_block, Link, Rebuilt
   <2>2. k + 1 \in 1..3
      OBVIOUS
   <2> QED
      BY <1>2, <1>3, <2>1, <2>2, ZenonT(30)
<1>9. CASE \E k \in Nesting : validate_transaction(k)
   BY <1>2, <1>4, <1>6, <1>9, ZenonT(30) DEF validate_transaction
<1>10. CASE \E k \in Nesting : push_transaction(k)
   <2>1. PICK k \in {1, 2} : push_transaction(k)
      BY <1>6, <1>10, Zenon
   <2>2. CASE pending
      BY <1>1, <1>2, <1>4, <2>1, <2>2, ZenonT(30) DEF push_transaction
   <2>3. CASE ~pending
      BY <1>2, <1>5, <2>1, <2>3, ZenonT(30) DEF push_transaction
   <2> QED
      BY <2>2, <2>3, Zenon
<1>11. CASE push_block_end
   <2>1. ~pending
      BY <1>1, <1>11, ZenonT(30) DEF push_block_end
   <2>2. CASE undo' = undo /\ pending' = FALSE
      BY <1>2, <2>1, <2>2, SMTT(30), Z3T(30)
   <2>3. CASE (\E k \in Nesting : undo' = Reopened(k, undo)) /\ pending' = TRUE
      BY <1>2, <1>5, <1>6, <2>1, <2>3, ZenonT(30)
   <2> QED
      BY <1>11, <2>2, <2>3, ZenonT(30) DEF push_block_end
<1> QED
   BY <1>7, <1>8, <1>9, <1>10, <1>11, ZenonT(30)

\* The arithmetic of a block applied or popped.
LEMMA RootArithmetic ==
   ASSUME NEW n \in Nat, NEW c \in Nat, NEW h \in Nat, n + c <= h, NEW d \in Nat
   PROVE  /\ d <= c => n + d <= h
          /\ d <= c + 1 => n + d <= h + 1
          /\ \A i \in Nat : h = i + 1 /\ d = c - 1 => n + d <= i
OBVIOUS

\* The job that comes after a step.
LEMMA RootJob ==
   ASSUME IInv, JobInv, RootInv, Next
   PROVE  job'.pc = "replay" =>
             job'.next >= 1 /\ (job'.next <= undo_point(job'.last) => undo' = << >>)
<1> DEFINE G == job'.pc = "replay" =>
             job'.next >= 1 /\ (job'.next <= undo_point(job'.last) => undo' = << >>)
<1>1. "pc" \in DOMAIN job /\ \A n \in Nat : undo_point(n) \in Nat
   BY UndoPointNat, Zenon DEF JobInv
<1>2. ASSUME NEW b, NEW s, NEW replay, Link(b, s, replay) PROVE job'.pc # "replay"
   BY <1>2 DEF Link, Push
<1>3. CASE \/ append \/ pop_to_fork \/ apply_fork \/ unwind \/ restore \/ rewind
   BY <1>1, <1>3, ZenonT(30) DEF append, pop_to_fork, apply_fork, unwind, restore, pop, Throw, rewind
<1>4. CASE \/ \E k \in Nesting : \/ push_transaction(k) \/ validate_transaction(k)
                                 \/ generate_block_throws(k)
           \/ flush \/ close \/ crash
   BY <1>1, <1>4, SMTT(30), Z3T(30) DEF push_transaction, validate_transaction, generate_block_throws,
      flush, close, crash, Down
<1>5. CASE \/ \E b \in Block : push_block_begin(b)
           \/ \E b \in Block, k \in Nesting \cup {0} : generate_block(b, k)
   BY <1>2, <1>5, Zenon DEF push_block_begin, generate_block
<1>6. CASE open
   <2>1. undo' = << >>
      BY <1>6, Zenon DEF open, Loaded
   <2>2. Num[disk.head] \in Nat
      BY ReachTypes, Zenon
   <2>3. job' \in {Idle, Down(TRUE)} \/ \E n \in {0} \cup DOMAIN log : job' = Replay(Num[disk.head] + 1, n)
      BY <1>6, Zenon DEF open
   <2>4. CASE job' \in {Idle, Down(TRUE)}
      BY <2>4, SMTT(30), Z3T(30) DEF Idle, Down
   <2>5. CASE \E n \in {0} \cup DOMAIN log : job' = Replay(Num[disk.head] + 1, n)
      <3>1. job'.next = Num[disk.head] + 1
         BY <2>5 DEF Replay
      <3> QED
         BY <2>1, <2>2, <3>1, SMTT(30), Z3T(30)
   <2> QED
      BY <2>3, <2>4, <2>5, ZenonT(30)
<1>7. CASE push_block_end
   <2>1. /\ job.pc \in PushPc
         /\ job' \in {Idle, Down(TRUE)}
            \/ (job.replay # NoReplay /\ job' = Replay(job.replay.next + 1, job.replay.last))
      BY <1>7, ZenonT(30) DEF push_block_end, PushPc
   <2>2. CASE job' \in {Idle, Down(TRUE)}
      BY <2>2 DEF Idle, Down
   <2>3. CASE job.replay # NoReplay /\ job' = Replay(job.replay.next + 1, job.replay.last)
      <3>1. /\ job.replay.next \in Nat /\ job.replay.last \in Nat
            /\ job.replay.next >= undo_point(job.replay.last)
         BY <2>1, <2>3, ZenonT(30) DEF JobInv, ReplayPoint
      <3>2. job'.next = job.replay.next + 1 /\ job'.last = job.replay.last
         BY <2>3, Zenon DEF Replay
      <3>3. undo_point(job.replay.last) \in Nat
         BY <1>1, <3>1, ZenonT(30)
      <3>4. job'.next >= 1 /\ ~(job'.next <= undo_point(job'.last))
         BY <3>1, <3>2, <3>3, SMTT(30), Z3T(30)
      <3> QED
         BY <3>4, Zenon
   <2> QED
      BY <2>1, <2>2, <2>3, ZenonT(30)
<1>8. CASE reindex
   <2> DEFINE n == job.next
              u == undo_point(job.last)
   <2>1. job.pc = "replay" /\ n \in Nat /\ job.last \in Nat /\ u \in Nat
      BY <1>1, <1>8, ZenonT(30) DEF reindex, JobInv, ReplayPoint
   <2>2. n >= 1 /\ (n <= u => undo = << >>)
      BY <2>1, Zenon DEF RootInv
   <2>3. \/ job' \in {Idle, Down(TRUE)}
         \/ Link(log[n].data, Cleared, job)
         \/ n < u /\ job' = Replay(n + 1, job.last) /\ undo' = undo
      BY <1>8, Zenon DEF reindex
   <2>4. CASE n < u /\ job' = Replay(n + 1, job.last) /\ undo' = undo
      <3>1. job'.next = n + 1 /\ job'.last = job.last
         BY <2>4, Zenon DEF Replay
      <3>2. n + 1 >= 1 /\ undo' = << >>
         BY <2>1, <2>2, <2>4, SMTT(30), Z3T(30)
      <3> QED
         BY <3>1, <3>2, Zenon
   <2>5. CASE Link(log[n].data, Cleared, job)
      BY <1>2, <2>5, ZenonT(30)
   <2>6. CASE job' \in {Idle, Down(TRUE)}
      BY <2>6 DEF Idle, Down
   <2> QED
      BY <2>3, <2>4, <2>5, <2>6, ZenonT(30)
<1> QED
   BY <1>3, <1>4, <1>5, <1>6, <1>7, <1>8, ZenonT(30) DEF Next, Step, Call

\* Every step keeps the history above the state on disk.
LEMMA RootStep ==
   ASSUME IInv, JobInv, RootInv, IInv', Next
   PROVE  RootInv'
<1> DEFINE n == Num[disk.head]
           c == Len(Cleared)
           h == Num[db.head]
           d == Len(Cleared')
<1>1. /\ n \in Nat /\ c \in Nat /\ h \in Nat /\ undo \in Seq(States) /\ undo_max \in Nat
      /\ pending \in BOOLEAN /\ (pending => job.pc = "idle") /\ db \in States
      /\ n + c <= h /\ Chained(Cleared, db) /\ Good(disk) /\ Good(db)
   BY ReachTypes, ZenonT(30) DEF RootInv, IInv, Good
<1>2. d \in Nat
   BY DEF IInv, Chained
<1>3. SUFFICES Num[disk'.head] + d <= Num[db'.head]
   BY RootJob, Zenon DEF RootInv
<1> HIDE DEF n, c, h, d
<1>4. ASSUME disk' = disk, db' = db, d <= c PROVE Num[disk'.head] + d <= Num[db'.head]
   <2>1. n + d <= h
      BY <1>1, <1>2, <1>4, RootArithmetic, ZenonT(30)
   <2> QED
      BY <1>4, <2>1, Zenon DEF n, h
<1>5. ASSUME disk' = disk, db' = db, Cleared' = Cleared
      PROVE  Num[disk'.head] + d <= Num[db'.head]
   <2>1. d <= c
      BY <1>1, <1>5, SMTT(30), Z3T(30) DEF c, d
   <2> QED
      BY <1>4, <1>5, <2>1, ZenonT(30)
<1>6. ASSUME NEW b, ~pending, pending' = FALSE, disk' = disk, Applies(db, b), apply_block(b)
      PROVE  Num[disk'.head] + d <= Num[db'.head]
   <2> DEFINE r == Newest(undo_max, undo)
   <2>1. Cleared = undo /\ Cleared' = undo'
      BY <1>6, Zenon DEF Cleared
   <2>2. r \in Seq(States) /\ Len(r) = (IF Len(undo) > undo_max THEN undo_max ELSE Len(undo))
      BY <1>1, NewestSeq, ZenonT(30)
   <2>3. undo' = Append(r, db) /\ db' = Applied(db, b)
      BY <1>6, Zenon DEF apply_block
   <2> HIDE DEF r
   <2>4. Len(undo') = Len(r) + 1
      BY <1>1, <2>2, <2>3, SMTT(30), Z3T(30)
   <2>5. d <= c + 1
      BY <1>1, <2>1, <2>2, <2>4, SMTT(30), Z3T(30) DEF c, d
   <2>6. Num[db'.head] = h + 1
      <3>1. b \in Block /\ Parent[b] = db.head
         BY <1>6, Zenon DEF Applies, HeaderApplies
      <3>2. db'.head = b
         BY <2>3, Zenon DEF Applied
      <3> QED
         BY <3>1, <3>2, BlockAssumption, ZenonT(30) DEF h
   <2>7. n + d <= h + 1
      BY <1>1, <1>2, <2>5, RootArithmetic, ZenonT(30)
   <2> QED
      BY <1>6, <2>6, <2>7, ZenonT(30) DEF n
<1>7. ASSUME NEW b, ~pending, pending' = FALSE, disk' = disk,
             NEW sized \in BOOLEAN, apply_fails(b, sized)
      PROVE  Num[disk'.head] + d <= Num[db'.head]
   <2>1. Cleared = undo /\ Cleared' = undo' /\ db' = db /\ undo' = Nested(1, undo)
      BY <1>7, Zenon DEF Cleared, apply_fails
   <2>2. d <= c
      BY <1>1, <2>1, NestedLength, SMTT(30), Z3T(30) DEF c, d
   <2> QED
      BY <1>4, <1>7, <2>1, <2>2, ZenonT(30)
<1>8. ASSUME NEW e, Loaded(e), disk' = e, Good(e)
      PROVE  Num[disk'.head] + d <= Num[db'.head]
   <2>1. Cleared' = << >> /\ db' = e
      BY <1>8, Zenon DEF Cleared, Loaded
   <2>2. d = 0 /\ Num[e.head] \in Nat
      BY <1>8, <2>1, BlockAssumption, ZenonT(30) DEF d, Good, States
   <2> QED
      BY <1>8, <2>1, <2>2, SMTT(30), Z3T(30)
<1>9. CASE append
   <2>1. ~pending /\ pending' = FALSE /\ disk' = disk
      BY <1>1, <1>9, ZenonT(30) DEF append
   <2> QED
      BY <1>6, <1>7, <1>9, <2>1, ZenonT(30) DEF append
<1>10. CASE apply_fork
   <2> DEFINE b == job.first[Len(job.first)]
   <2>1. ~pending /\ pending' = FALSE /\ disk' = disk
      BY <1>1, <1>10, ZenonT(30) DEF apply_fork
   <2>2. (Applies(db, b) /\ apply_block(b)) \/ \E sized \in BOOLEAN : apply_fails(b, sized)
      BY <1>10, Zenon DEF apply_fork
   <2> HIDE DEF b
   <2> QED
      BY <1>6, <1>7, <2>1, <2>2, ZenonT(30)
<1>11. CASE restore
   <2> DEFINE b == job.second[Len(job.second)]
   <2>1. ~pending /\ pending' = FALSE /\ disk' = disk
      BY <1>1, <1>11, ZenonT(30) DEF restore
   <2>2. Applies(db, b) /\ apply_block(b)
      BY <1>11, Zenon DEF restore
   <2> HIDE DEF b
   <2> QED
      BY <1>6, <2>1, <2>2, ZenonT(30)
<1>12. CASE pop_to_fork \/ unwind \/ rewind
   <2>1. ~pending /\ pending' = FALSE /\ disk' = disk
      BY <1>1, <1>12, ZenonT(30) DEF pop_to_fork, unwind, rewind, pop, files
   <2>2. Cleared = undo /\ Cleared' = undo'
      BY <2>1, Zenon DEF Cleared
   <2>3. \/ db' = db /\ undo' = undo
         \/ undo # << >> /\ db' = undo[Len(undo)] /\ undo' = SubSeq(undo, 1, Len(undo) - 1)
      BY <1>12, ZenonT(30) DEF pop_to_fork, unwind, rewind, pop, CanPopBlock
   <2>4. CASE db' = db /\ undo' = undo
      BY <1>5, <2>1, <2>2, <2>4, ZenonT(30)
   <2>5. CASE undo # << >> /\ db' = undo[Len(undo)] /\ undo' = SubSeq(undo, 1, Len(undo) - 1)
      <3>1. d = c - 1 /\ Len(undo) \in 1..Len(undo)
         BY <1>1, <2>2, <2>5, FrontSeq, SMTT(30), Z3T(30) DEF c, d
      <3>2. Follows(db', db) /\ db' \in States
         BY <1>1, <2>2, <2>5, <3>1, ZenonT(30) DEF Chained, Good
      <3>3. h = Num[db'.head] + 1 /\ Num[db'.head] \in Nat
         BY <3>2, BlockAssumption, ZenonT(30) DEF Follows, States, h
      <3>4. n + d <= Num[db'.head]
         BY <1>1, <1>2, <3>1, <3>3, RootArithmetic, SMTT(30), Z3T(30)
      <3> QED
         BY <2>1, <3>4, ZenonT(30) DEF n
   <2> QED
      BY <2>3, <2>4, <2>5, ZenonT(30)
<1>13. CASE \/ \E k \in Nesting : \/ push_transaction(k) \/ validate_transaction(k)
                                  \/ generate_block_throws(k)
            \/ \E b \in Block, k \in Nesting \cup {0} : generate_block(b, k)
            \/ push_block_end
   <2>1. db' = db /\ disk' = disk
      BY <1>13, Zenon DEF push_transaction, validate_transaction, generate_block_throws,
         generate_block, push_block_end, Link, files
   <2>2. d <= c
      BY <1>13, SessionsLength, ZenonT(30) DEF c, d
   <2> QED
      BY <1>4, <2>1, <2>2, ZenonT(30)
<1>14. CASE \/ \E b \in Block : push_block_begin(b)
            \/ close
   <2>1. undo' = Cleared /\ pending' = FALSE /\ db' = db /\ disk' = disk
      BY <1>14, Zenon DEF push_block_begin, Link, close, files
   <2>2. Cleared' = Cleared
      BY <2>1, Zenon DEF Cleared
   <2> QED
      BY <1>5, <2>1, <2>2, ZenonT(30)
<1>15. CASE flush
   BY <1>1, <1>8, <1>15, ZenonT(30) DEF flush
<1>16. CASE crash \/ open
   BY <1>1, <1>8, <1>16, ZenonT(30) DEF crash, open
<1>17. CASE reindex
   <2> DEFINE q == job.next
              u == undo_point(job.last)
              b == log[q].data
   <2>1. /\ job.pc = "replay" /\ q \in Nat /\ job.last \in Nat /\ u \in Nat /\ ~pending
         /\ q >= 1 /\ (q <= u => undo = << >>)
      BY <1>1, <1>17, UndoPointNat, ZenonT(30) DEF reindex, JobInv, ReplayPoint, RootInv
   <2>2. Cleared = undo
      BY <2>1, Zenon DEF Cleared
   <2>3. Cleared' = Cleared /\ (db' = db \/ (Applies(db, b) /\ db' = Applied(db, b)))
      <3>1. \/ UNCHANGED <<undo, pending>> /\ (db' = db \/ (Applies(db, b) /\ db' = Applied(db, b)))
            \/ Link(b, Cleared, job)
         BY <1>17, Zenon DEF reindex, memory
      <3>2. CASE Link(b, Cleared, job)
         <4>1. undo' = Cleared /\ pending' = FALSE /\ db' = db
            BY <3>2, Zenon DEF Link
         <4> QED
            BY <4>1, Zenon DEF Cleared
      <3>3. CASE UNCHANGED <<undo, pending>> /\ (db' = db \/ (Applies(db, b) /\ db' = Applied(db, b)))
         BY <3>3, Zenon DEF Cleared
      <3> QED
         BY <3>1, <3>2, <3>3, ZenonT(30)
   <2>4. Num[db'.head] \in {h, h + 1}
      <3>1. CASE db' = db
         BY <3>1, Zenon DEF h
      <3>2. CASE Applies(db, b) /\ db' = Applied(db, b)
         <4>1. b \in Block /\ Parent[b] = db.head
            BY <3>2, Zenon DEF Applies, HeaderApplies
         <4>2. db'.head = b
            BY <3>2, Zenon DEF Applied
         <4> QED
            BY <4>1, <4>2, BlockAssumption, ZenonT(30) DEF h
      <3> QED
         BY <2>3, <3>1, <3>2, ZenonT(30)
   <2>5. d = c
      BY <2>3, Zenon DEF c, d
   <2>6. CASE disk' = disk
      <3>1. n + d <= Num[db'.head]
         BY <1>1, <1>2, <2>4, <2>5, SMTT(30), Z3T(30)
      <3> QED
         BY <2>6, <3>1, ZenonT(30) DEF n
   <2>7. CASE q = flush_point(job.last) /\ disk' = db
      <3>1. flush_point(job.last) <= u \/ flush_point(job.last) = 0
         BY <2>1, ChainAssumption, SMTT(30), Z3T(30) DEF flush_point, undo_point
      <3>2. undo = << >>
         BY <2>1, <2>7, <3>1, SMTT(30), Z3T(30)
      <3>3. d = 0
         BY <2>2, <2>5, <3>2, ZenonT(30) DEF c
      <3>4. h + d <= Num[db'.head]
         BY <1>1, <2>4, <3>3, SMTT(30), Z3T(30)
      <3> QED
         BY <2>7, <3>4, ZenonT(30) DEF h
   <2> QED
      BY <1>17, <2>6, <2>7, ZenonT(30) DEF reindex
<1> QED
   BY <1>9, <1>10, <1>11, <1>12, <1>13, <1>14, <1>15, <1>16, <1>17, SMTT(30), Z3T(30) DEF Next, Step, Call

\* The invariant holds in every state.
LEMMA RootHolds == Spec => []RootInv
<1>1. Init => RootInv
   <2> SUFFICES ASSUME Init PROVE RootInv
      BY Zenon
   <2>1. Cleared = << >> /\ db = disk /\ db.head = Genesis /\ job.pc = "idle"
      BY Zenon DEF Init, Cleared, GenesisState, Idle
   <2> QED
      BY <2>1, BlockAssumption, SMTT(30), Z3T(30) DEF RootInv
<1>2. ASSUME RootInv, UNCHANGED vars PROVE RootInv'
   BY <1>2, Zenon DEF RootInv, Cleared, vars, memory, files, undo_point
<1>3. RootInv /\ (IInv /\ JobInv) /\ (IInv /\ JobInv)' /\ [Next]_vars => RootInv'
   <2>1. ASSUME RootInv, IInv, JobInv, IInv', Next PROVE RootInv'
      BY <2>1, RootStep, Zenon
   <2> QED
      BY <1>2, <2>1, Zenon
<1> QED
   BY <1>1, <1>3, InvariantHolds, PTL DEF Spec

\* However many blocks are popped, by a switch, by its unwinding or at shutdown, the head
\* stays at or above the block whose state is on disk: reindex flushes the object database
\* only while the undo history is still empty (undo_point and flush_point).
THEOREM PopsStayAboveFlushed == Spec => []UndoAboveFlushed
<1>1. IInv /\ RootInv => UndoAboveFlushed
   BY ClearedLength, Zenon DEF RootInv, UndoAboveFlushed, head_block
<1> QED
   BY <1>1, RootHolds, InvariantHolds, PTL

-----------------------------------------------------------------------------
(* The block log.                                                           *)

\* The blocks of the branch of h are in the log l, at their numbers.
Holds(l, h) == \A b \in Ancestors[h] \ {Genesis} : l[Num[b]] = [id |-> b, data |-> b]

\* An entry is at the number of its id.
Placed(n, e) == e.id # NoBlock => Num[e.id] = n

\* No switch fails after blocks of the old branch were popped.
NoRestore == job.pc # "restore"

\* The log holds the branches of the head and of the state on disk.  What a crash may
\* take back is above the state on disk, so reindex, which flushes, has stored nothing.
HoldInv ==
   /\ Holds(log, db.head) /\ Holds(log, disk.head)
   /\ \A n \in DOMAIN log : Placed(n, log[n])
   /\ unsaved # Saved =>
         Placed(unsaved.num, unsaved.was) /\ unsaved.num > Num[disk.head]
   /\ job.pc = "replay" /\ job.next <= undo_point(job.last) => unsaved = Saved

\* A log that is changed only above the head still holds the branch.
LEMMA HoldsBelow ==
   ASSUME NEW l, NEW m, NEW h \in Known, Holds(l, h),
          \A b \in Block : Num[b] <= Num[h] => m[Num[b]] = l[Num[b]]
   PROVE  Holds(m, h)
<1>1. ASSUME NEW b \in Ancestors[h] \ {Genesis} PROVE m[Num[b]] = l[Num[b]]
   BY BranchNumbers, ZenonT(30) DEF Numbered, Known
<1> QED
   BY <1>1, Zenon DEF Holds

\* The branch of a block is that of the previous block and the block itself.
LEMMA HoldsBlock ==
   ASSUME NEW l, NEW b \in Block
   PROVE  Holds(l, b) <=> Holds(l, Parent[b]) /\ l[Num[b]] = [id |-> b, data |-> b]
BY Branches, BlockAssumption, SMTT(30), Z3T(30) DEF Holds

\* The blocks of a branch that is held are intact.
LEMMA HoldsIntact ==
   ASSUME LogInv, NEW b \in Block, log[Num[b]] = [id |-> b, data |-> b]
   PROVE  Intact(Num[b])
<1>1. Num[b] \in DOMAIN log
   BY Zenon DEF LogInv
<1>2. log[Num[b]].id = b /\ log[Num[b]].data = b
   BY SMTT(30), Z3T(30)
<1>3. log[Num[b]] # Missing
   BY <1>2, BlockAssumption, SMTT(30), Z3T(30) DEF Missing
<1> QED
   BY <1>1, <1>2, <1>3, ZenonT(30) DEF Intact

\* A gap in the log is above the head.
LEMMA GapAbove ==
   ASSUME LogInv, NEW h \in Known, Holds(log, h), NEW n \in Nat, n >= 1, ~Intact(n)
   PROVE  Num[h] < n
<1>1. Num[h] \in Nat
   BY BlockAssumption, Zenon DEF Known
<1>2. SUFFICES ASSUME n \in 1..Num[h] PROVE FALSE
   BY <1>1, SMTT(30), Z3T(30)
<1>3. PICK b \in Ancestors[h] \ {Genesis} : Num[b] = n
   BY <1>2, BranchNumbers, Zenon DEF Numbered
<1>4. b \in Block
   BY BranchNumbers, Zenon DEF Numbered, Known
<1> QED
   BY <1>3, <1>4, HoldsIntact, ZenonT(30) DEF Holds

\* The numbers of blocks.
LEMMA NumberTypes ==
   /\ \A b \in Known : Num[b] \in Nat
   /\ \A b \in Block : Num[b] \in Nat /\ Num[b] >= 1 /\ Parent[b] \in Known
                       /\ Num[b] = Num[Parent[b]] + 1 /\ b \in Known /\ b # NoBlock
BY BlockAssumption, SMTT(30), Z3T(30) DEF Known

\* store of the block that was applied: it is above the head and the state on disk.
LEMMA HoldStored ==
   ASSUME IInv, TInv, RootInv, HoldInv, NEW b, Applies(db, b), db' = Applied(db, b),
          store(b, b), disk' = disk, job'.pc # "replay"
   PROVE  HoldInv'
<1> DEFINE e == [id |-> b, data |-> b]
<1>1. b \in Block /\ Parent[b] = db.head /\ db'.head = b
   BY Zenon DEF Applies, HeaderApplies, Applied
<1>2. /\ db.head \in Known /\ disk.head \in Known
   BY Zenon DEF IInv, Good, States, Known
<1>3. Num[b] = Num[db.head] + 1 /\ Num[db.head] \in Nat /\ Num[disk.head] \in Nat
      /\ Num[b] \in Nat
   BY <1>1, <1>2, NumberTypes, ZenonT(30)
<1>4. Num[disk.head] <= Num[db.head]
   BY <1>3, ReachTypes, SMTT(30), Z3T(30) DEF RootInv
<1>5. log' = [log EXCEPT ![Num[b]] = e] /\ unsaved' = [num |-> Num[b], was |-> log[Num[b]]]
   BY Zenon DEF store
<1>6. DOMAIN log = {Num[c] : c \in Block} /\ Num[b] \in DOMAIN log
   BY <1>1, Zenon DEF TInv, LogInv
<1>7. ASSUME NEW h \in Known, Num[h] <= Num[db.head], Holds(log, h) PROVE Holds(log', h)
   <2>1. ASSUME NEW c \in Block, Num[c] <= Num[h] PROVE log'[Num[c]] = log[Num[c]]
      <3>1. Num[c] # Num[b] /\ Num[c] \in DOMAIN log
         BY <1>3, <1>6, <1>7, <2>1, NumberTypes, SMTT(30), Z3T(30)
      <3> QED
         BY <1>5, <3>1, ZenonT(30)
   <2> QED
      BY <1>7, <2>1, HoldsBelow, ZenonT(30)
<1>8. log'[Num[b]] = e
   BY <1>5, <1>6, ZenonT(30)
<1>9. Holds(log', db'.head) /\ Holds(log', disk'.head)
   <2>1. Holds(log', db.head) /\ Holds(log', disk.head)
      BY <1>2, <1>3, <1>4, <1>7, SMTT(30), Z3T(30) DEF HoldInv
   <2> QED
      BY <1>1, <1>8, <2>1, HoldsBlock, ZenonT(30)
<1>10. \A n \in DOMAIN log' : Placed(n, log'[n])
   BY <1>5, <1>6, ZenonT(30) DEF HoldInv, Placed
<1>11. Placed(unsaved'.num, unsaved'.was) /\ unsaved'.num > Num[disk'.head]
   BY <1>3, <1>4, <1>5, <1>6, SMTT(30), Z3T(30) DEF HoldInv
<1> QED
   BY <1>9, <1>10, <1>11, ZenonT(30) DEF HoldInv

\* A crash keeps what the state on disk is built from.
LEMMA HoldCrash ==
   ASSUME IInv, TInv, HoldInv, crash
   PROVE  HoldInv'
<1>1. /\ log' \in LogAfterCrash /\ unsaved' = Saved /\ db' = disk /\ disk' = disk
      /\ job'.pc = "down"
   BY Zenon DEF crash, Loaded, Down
<1>2. disk.head \in Known /\ Num[disk.head] \in Nat
   BY NumberTypes, Zenon DEF IInv, Good, States, Known
<1>3. Holds(log, disk.head) /\ \A n \in DOMAIN log : Placed(n, log[n])
   BY Zenon DEF HoldInv
<1>4. CASE log' = log
   BY <1>1, <1>3, <1>4, ZenonT(30) DEF HoldInv
<1>5. CASE log' # log
   <2> DEFINE k == unsaved.num
   <2>1. unsaved # Saved
      BY <1>1, <1>5, ZenonT(30) DEF LogAfterCrash
   <2>2. /\ log' = [log EXCEPT ![k] = unsaved.was]
            \/ log' = [log EXCEPT ![k].data = NoBlock]
      BY <1>1, <1>5, <2>1, ZenonT(30) DEF LogAfterCrash
   <2>3. Placed(k, unsaved.was) /\ k > Num[disk.head]
      BY <2>1, Zenon DEF HoldInv
   <2>4. k \in DOMAIN log /\ DOMAIN log = {Num[c] : c \in Block} /\ log[k] \in Entries
      BY <2>1, Zenon DEF TInv, LogInv
   <2>5. k \in Nat
      BY <2>4, NumberTypes, ZenonT(30)
   <2>6. DOMAIN log' = DOMAIN log /\ \A n \in DOMAIN log : n # k => log'[n] = log[n]
      BY <2>2, Zenon
   <2>7. Placed(k, log'[k])
      <3>1. CASE log' = [log EXCEPT ![k] = unsaved.was]
         BY <2>3, <2>4, <3>1, ZenonT(30)
      <3>2. CASE log' = [log EXCEPT ![k].data = NoBlock]
         <4>1. log'[k] = [log[k] EXCEPT !.data = NoBlock]
            BY <2>4, <3>2, ZenonT(30)
         <4>2. log'[k].id = log[k].id
            BY <2>4, <4>1, Zenon DEF Entries
         <4> QED
            BY <1>3, <2>4, <4>2, ZenonT(30) DEF Placed
      <3> QED
         BY <2>2, <3>1, <3>2, ZenonT(30)
   <2> HIDE DEF k
   <2>8. ASSUME NEW c \in Block, Num[c] <= Num[disk.head] PROVE log'[Num[c]] = log[Num[c]]
      <3>1. Num[c] # k /\ Num[c] \in DOMAIN log
         BY <1>2, <2>3, <2>4, <2>5, <2>8, NumberTypes, SMTT(30), Z3T(30)
      <3> QED
         BY <2>6, <3>1, ZenonT(30)
   <2>9. Holds(log', disk.head)
      BY <1>2, <1>3, <2>8, HoldsBelow, ZenonT(30)
   <2>10. \A n \in DOMAIN log' : Placed(n, log'[n])
      BY <1>3, <2>6, <2>7, ZenonT(30)
   <2> QED
      BY <1>1, <2>9, <2>10, ZenonT(30) DEF HoldInv
<1> QED
   BY <1>4, <1>5, Zenon

\* open drops the end of the log, which no branch that is held reaches.
LEMMA HoldOpen ==
   ASSUME IInv, TInv, HoldInv, open
   PROVE  HoldInv'
<1>1. PICK last \in {0} \cup DOMAIN log :
         /\ IsLast(last) /\ log' = UpTo(last)
         /\ \/ job'.pc # "replay"
            \/ job' = Replay(Num[disk.head] + 1, last)
   BY SMTT(30) DEF open, Idle, Down
<1>2. db' = disk /\ disk' = disk /\ unsaved' = Saved
   BY Zenon DEF open, Loaded
<1>3. /\ disk.head \in Known /\ Holds(log, disk.head)
      /\ \A n \in DOMAIN log : Placed(n, log[n])
   BY Zenon DEF IInv, Good, States, Known, HoldInv
<1>4. Holds(log', disk.head)
   <2>1. ASSUME NEW b \in Ancestors[disk.head] \ {Genesis}
         PROVE  log'[Num[b]] = [id |-> b, data |-> b]
      <3>1. b \in Block /\ log[Num[b]] = [id |-> b, data |-> b]
         BY <1>3, BranchNumbers, ZenonT(30) DEF Numbered, Known, Holds
      <3>2. Intact(Num[b])
         BY <3>1, HoldsIntact, ZenonT(30) DEF TInv
      <3>3. Num[b] \in DOMAIN log /\ Num[b] <= last
         BY <1>1, <3>2, ZenonT(30) DEF IsLast, Intact
      <3> QED
         BY <1>1, <3>1, <3>3, ZenonT(30) DEF UpTo
   <2> QED
      BY <2>1, Zenon DEF Holds
<1>5. \A n \in DOMAIN log' : Placed(n, log'[n])
   BY <1>1, <1>3, ZenonT(30) DEF UpTo, Placed, Missing
<1> QED
   BY <1>2, <1>4, <1>5, ZenonT(30) DEF HoldInv

\* One turn of reindex's loop.
LEMMA HoldReindex ==
   ASSUME IInv, JobInv, TInv, RootInv, HoldInv, reindex
   PROVE  HoldInv'
<1> DEFINE n == job.next
           u == undo_point(job.last)
           b == log[n].data
<1>1. /\ job.pc = "replay" /\ n \in Nat /\ job.last \in Nat /\ u \in Nat /\ n >= 1
      /\ (n <= u => unsaved = Saved) /\ unsaved' = unsaved
   BY UndoPointNat, Zenon DEF reindex, JobInv, ReplayPoint, RootInv, HoldInv
<1>2. /\ db.head \in Known /\ disk.head \in Known /\ Holds(log, db.head)
      /\ Holds(log, disk.head) /\ \A k \in DOMAIN log : Placed(k, log[k])
      /\ unsaved # Saved =>
            Placed(unsaved.num, unsaved.was) /\ unsaved.num > Num[disk.head]
      /\ LogInv
   BY ZenonT(30) DEF IInv, Good, States, Known, HoldInv, TInv
<1>3. Num[db.head] \in Nat /\ Num[disk.head] \in Nat /\ Num[disk.head] <= Num[db.head]
   BY <1>2, NumberTypes, ReachTypes, SMTT(30), Z3T(30) DEF RootInv
<1>4. disk' = disk \/ (disk' = db /\ n = flush_point(job.last))
   BY Zenon DEF reindex
<1>5. \/ db' = db /\ log' = log /\ job'.pc # "replay"
      \/ db' = db /\ ~Intact(n) /\ log' = UpTo(n - 1) /\ job'.pc # "replay"
      \/ db' = db /\ log' = log /\ Link(b, Cleared, job)
      \/ /\ n < u /\ Intact(n) /\ Applies(db, b) /\ db' = Applied(db, b)
         /\ log' = log /\ job' = Replay(n + 1, job.last)
   <2>1. Idle.pc = "idle" /\ Down(TRUE).pc = "down"
      BY Zenon DEF Idle, Down
   <2>2. Link(b, Cleared, job) => db' = db
      BY ZenonT(30) DEF Link
   <2> QED
      BY <2>1, <2>2, ZenonT(30) DEF reindex, memory
<1>6. Link(b, Cleared, job) => job'.pc # "replay"
   BY SMTT(30), Z3T(30) DEF Link, Push
<1>7. job'.pc = "replay" /\ job'.next <= undo_point(job'.last) => unsaved' = Saved
   <2>1. CASE n < u /\ job' = Replay(n + 1, job.last)
      <3>1. unsaved = Saved
         BY <1>1, <2>1, SMTT(30), Z3T(30)
      <3> QED
         BY <1>1, <3>1, ZenonT(30)
   <2> QED
      BY <1>5, <1>6, <2>1, ZenonT(30)
<1>8. unsaved' # Saved =>
         Placed(unsaved'.num, unsaved'.was) /\ unsaved'.num > Num[disk'.head]
   <2>1. CASE disk' = disk
      BY <1>1, <1>2, <2>1, ZenonT(30)
   <2>2. CASE n = flush_point(job.last)
      <3>1. flush_point(job.last) <= u \/ flush_point(job.last) = 0
         BY <1>1, ChainAssumption, SMTT(30), Z3T(30) DEF flush_point, undo_point
      <3>2. unsaved = Saved
         BY <1>1, <2>2, <3>1, SMTT(30), Z3T(30)
      <3> QED
         BY <1>1, <3>2, Zenon
   <2> QED
      BY <1>4, <2>1, <2>2, ZenonT(30)
<1>9. /\ Holds(log', db'.head) /\ Holds(log', db.head) /\ Holds(log', disk.head)
      /\ \A k \in DOMAIN log' : Placed(k, log'[k])
   <2>1. CASE db' = db /\ log' = log
      BY <1>2, <2>1, Zenon
   <2>2. CASE db' = db /\ ~Intact(n) /\ log' = UpTo(n - 1)
      <3>1. Num[db.head] < n
         BY <1>1, <1>2, <2>2, GapAbove, ZenonT(30)
      <3>2. ASSUME NEW h \in Known, Num[h] <= Num[db.head], Holds(log, h)
            PROVE  Holds(log', h)
         <4>1. ASSUME NEW c \in Block, Num[c] <= Num[h] PROVE log'[Num[c]] = log[Num[c]]
            <5>1. Num[c] <= n - 1 /\ Num[c] \in DOMAIN log
               BY <1>1, <1>2, <1>3, <3>1, <3>2, <4>1, NumberTypes, SMTT(30), Z3T(30) DEF LogInv
            <5> QED
               BY <2>2, <5>1, ZenonT(30) DEF UpTo
         <4> QED
            BY <3>2, <4>1, HoldsBelow, ZenonT(30)
      <3>3. Holds(log', db.head) /\ Holds(log', disk.head)
         <4>1. Num[db.head] <= Num[db.head] /\ Num[disk.head] <= Num[db.head]
            BY <1>3
         <4> QED
            BY <1>2, <3>2, <4>1, ZenonT(30)
      <3>4. \A k \in DOMAIN log' : Placed(k, log'[k])
         BY <1>2, <2>2, Zenon DEF UpTo, Placed, Missing
      <3> QED
         BY <2>2, <3>3, <3>4, ZenonT(30)
   <2>3. CASE Intact(n) /\ Applies(db, b) /\ db' = Applied(db, b) /\ log' = log
      <3>1. b \in Block /\ Parent[b] = db.head /\ db'.head = b /\ b # NoBlock
         BY <2>3, NumberTypes, Zenon DEF Applies, HeaderApplies, Applied
      <3>2. n \in DOMAIN log /\ log[n].id = b /\ log[n] \in Entries
         BY <1>2, <2>3, Zenon DEF Intact, LogInv
      <3>3. Num[b] = n
         BY <1>2, <3>1, <3>2, Zenon DEF Placed
      <3>4. log[n] = [id |-> b, data |-> b]
         BY <3>2, Zenon DEF Entries
      <3>5. Holds(log, b)
         BY <1>2, <3>1, <3>3, <3>4, HoldsBlock, ZenonT(30)
      <3> QED
         BY <1>2, <2>3, <3>1, <3>5, ZenonT(30)
   <2> HIDE DEF n, u, b
   <2> QED
      BY <1>5, <2>1, <2>2, <2>3, ZenonT(30)
<1> HIDE DEF n, u, b
<1>10. Holds(log', disk'.head)
   BY <1>4, <1>9, ZenonT(30)
<1> QED
   BY <1>7, <1>8, <1>9, <1>10, ZenonT(30) DEF HoldInv

\* Every step but the restoring of the old branch keeps the log.
LEMMA HoldStep ==
   ASSUME IInv, JobInv, TInv, RootInv, HoldInv, RootInv', Next, NoRestore
   PROVE  HoldInv'
<1>1. /\ Holds(log, db.head) /\ Holds(log, disk.head) /\ "pc" \in DOMAIN job
      /\ \A n \in DOMAIN log : Placed(n, log[n])
      /\ unsaved # Saved =>
            Placed(unsaved.num, unsaved.was) /\ unsaved.num > Num[disk.head]
   BY Zenon DEF HoldInv, JobInv
<1>2. ASSUME log' = log, unsaved' = unsaved, disk' = disk, db' = db, job'.pc # "replay"
      PROVE  HoldInv'
   BY <1>1, <1>2, ZenonT(30) DEF HoldInv
<1>3. CASE append
   <2>1. disk' = disk /\ job'.pc = "done"
      BY <1>1, <1>3, ZenonT(30) DEF append, Throw
   <2>2. CASE Applies(db, job.block) /\ apply_block(job.block) /\ store(job.block, job.block)
      BY <2>1, <2>2, HoldStored, ZenonT(30) DEF apply_block
   <2>3. CASE log' = log /\ unsaved' = unsaved /\ db' = db
      BY <1>2, <2>1, <2>3, ZenonT(30)
   <2> QED
      BY <1>3, <2>2, <2>3, ZenonT(30) DEF append, apply_fails
<1>4. CASE apply_fork
   <2> DEFINE b == job.first[Len(job.first)]
   <2>1. disk' = disk /\ job'.pc # "replay"
      BY <1>1, <1>4, ZenonT(30) DEF apply_fork
   <2>2. \/ Applies(db, b) /\ db' = Applied(db, b) /\ store(b, b)
         \/ log' = log /\ unsaved' = unsaved /\ db' = db
      BY <1>4, Zenon DEF apply_fork, apply_block, apply_fails
   <2> HIDE DEF b
   <2> QED
      BY <1>2, <2>1, <2>2, HoldStored, ZenonT(30)
<1>5. CASE pop_to_fork \/ unwind \/ rewind
   <2>1. log' = log /\ unsaved' = unsaved /\ disk' = disk /\ ~pending
      BY <1>5, ZenonT(30) DEF pop_to_fork, unwind, rewind, pop, files, IInv
   <2>2. job'.pc # "replay"
      BY <1>1, <1>5, ZenonT(30) DEF pop_to_fork, unwind, rewind, pop, Throw
   <2>3. db' = db \/ (undo # << >> /\ db' = undo[Len(undo)])
      BY <1>5, Zenon DEF pop_to_fork, unwind, rewind, pop, CanPopBlock
   <2>4. CASE undo # << >> /\ db' = undo[Len(undo)]
      <3>1. Chained(undo, db) /\ undo \in Seq(States)
         BY <2>1, Zenon DEF IInv, Cleared
      <3>2. Len(undo) \in 1..Len(undo)
         BY <2>4, <3>1, SMTT(30), Z3T(30)
      <3>3. db.head \in Block /\ Parent[db.head] = db'.head
         BY <2>4, <3>1, <3>2, ZenonT(30) DEF Chained, Follows
      <3>4. Holds(log, db'.head)
         BY <1>1, <3>3, HoldsBlock, ZenonT(30)
      <3> QED
         BY <1>1, <2>1, <2>2, <3>4, ZenonT(30) DEF HoldInv
   <2> QED
      BY <1>2, <2>1, <2>2, <2>3, <2>4, ZenonT(30)
<1>6. CASE restore
   BY <1>6, Zenon DEF restore, NoRestore
<1>7. CASE push_block_end
   <2>1. log' = log /\ unsaved' = unsaved /\ disk' = disk /\ db' = db /\ job.pc \in PushPc
      BY <1>7, Zenon DEF push_block_end, files, PushPc
   <2>2. \/ job' \in {Idle, Down(TRUE)}
         \/ job.replay # NoReplay /\ job' = Replay(job.replay.next + 1, job.replay.last)
      BY <1>7, Zenon DEF push_block_end
   <2>3. CASE job' \in {Idle, Down(TRUE)}
      <3>1. job'.pc # "replay"
         BY <2>3, SMTT(30) DEF Idle, Down
      <3> QED
         BY <1>2, <2>1, <3>1, ZenonT(30)
   <2>4. CASE job.replay # NoReplay /\ job' = Replay(job.replay.next + 1, job.replay.last)
      <3>1. /\ job.replay.next \in Nat /\ job.replay.last \in Nat
            /\ job.replay.next >= undo_point(job.replay.last)
         BY <2>1, <2>4, Zenon DEF JobInv, ReplayPoint
      <3>2. job'.next = job.replay.next + 1 /\ job'.last = job.replay.last
         BY <2>4, Zenon DEF Replay
      <3>3. undo_point(job.replay.last) \in Nat
         BY <3>1, UndoPointNat, ZenonT(30)
      <3>4. ~(job'.next <= undo_point(job'.last))
         BY <3>1, <3>2, <3>3, SMTT(30), Z3T(30)
      <3> QED
         BY <1>1, <2>1, <3>4, ZenonT(30) DEF HoldInv, undo_point
   <2> QED
      BY <2>2, <2>3, <2>4, ZenonT(30)
<1>8. CASE \/ \E b \in Block : push_block_begin(b)
           \/ \E b \in Block, k \in Nesting \cup {0} : generate_block(b, k)
   <2>1. log' = log /\ unsaved' = unsaved /\ disk' = disk
      BY <1>8, Zenon DEF push_block_begin, generate_block, files
   <2>2. \E b, s : Link(b, s, NoReplay)
      BY <1>8, Zenon DEF push_block_begin, generate_block
   <2>3. db' = db /\ job'.pc # "replay"
      BY <2>2, SMTT(30), Z3T(30) DEF Link, Push
   <2> QED
      BY <1>2, <2>1, <2>3, ZenonT(30)
<1>9. CASE \/ \E k \in Nesting : \/ push_transaction(k) \/ validate_transaction(k)
                                 \/ generate_block_throws(k)
           \/ close
   BY <1>2, <1>9, SMTT(30), Z3T(30) DEF push_transaction, validate_transaction, generate_block_throws,
      close, files
<1>10. CASE flush
   <2>1. log' = log /\ unsaved' = Saved /\ disk' = db /\ db' = db /\ job'.pc # "replay"
      BY <1>10, Zenon DEF flush, Loaded, Down
   <2> QED
      BY <1>1, <2>1, Zenon DEF HoldInv
<1> QED
   BY <1>3, <1>4, <1>5, <1>6, <1>7, <1>8, <1>9, <1>10, HoldCrash, HoldOpen, HoldReindex, SMTT(30), Z3T(30)
      DEF Next, Step, Call

\* Between operations the block log holds the chain, through switches, crashes that tear
\* the last store, restarts and replays: block_database::store, last_index_entry and
\* reindex keep every block of the branches of the head and of the flushed state.  It takes
\* that no switch had to restore the old branch, whose blocks push_block stores under the
\* id of the block it was given.
THEOREM LogHolds == Spec /\ []NoRestore => []LogHoldsChain
<1>1. Init => HoldInv
   <2> SUFFICES ASSUME Init PROVE HoldInv
      BY Zenon
   <2>1. db = disk /\ db.head = Genesis /\ job.pc = "idle" /\ unsaved = Saved
      BY Zenon DEF Init, GenesisState, Idle
   <2>2. Holds(log, Genesis)
      BY Branches, Zenon DEF Holds
   <2>3. \A n \in DOMAIN log : Placed(n, log[n])
      BY Zenon DEF Init, Missing, Placed
   <2> QED
      BY <2>1, <2>2, <2>3, ZenonT(30) DEF HoldInv
<1>2. ASSUME HoldInv, UNCHANGED vars PROVE HoldInv'
   BY <1>2, ZenonT(30) DEF HoldInv, vars, memory, files, undo_point, Placed, Holds, Saved
<1>3. NoRestore /\ HoldInv /\ (IInv /\ JobInv /\ TInv) /\ RootInv /\ RootInv' /\ [Next]_vars
         => HoldInv'
   <2>1. ASSUME NoRestore, HoldInv, IInv, JobInv, TInv, RootInv, RootInv', Next
         PROVE  HoldInv'
      BY <2>1, HoldStep, Zenon
   <2> QED
      BY <1>2, <2>1, ZenonT(30)
<1>4. HoldInv => LogHoldsChain
   BY Zenon DEF HoldInv, Holds, LogHoldsChain, head_block
<1> QED
   BY <1>1, <1>3, <1>4, TypesHold, RootHolds, PTL DEF Spec

=============================================================================
