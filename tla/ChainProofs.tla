----------------------------- MODULE ChainProofs -----------------------------
(***************************************************************************)
(* The object database of a node is always what applying the branch of its *)
(* head to the genesis state gives, and popping blocks walks back along    *)
(* this branch: through fork switches that succeed or fail, transactions,  *)
(* shutdowns, crashes and replays, for every tree of blocks.  Its types are *)
(* kept: above all the head of the fork database is always a block it was  *)
(* given, although pop_block, set_head and remove move it along pointers   *)
(* that may be dead.  And a push that fails is unwound.                    *)
(***************************************************************************)
EXTENDS Chain, WellFoundedInduction, TLAPS

-----------------------------------------------------------------------------
(* The inductive invariant.                                                 *)

\* A state the branch of its head leads to.  Its irreversible block is not
\* above the head: so the history is never shorter than two sessions.
Good(d) == d \in States /\ d = StateOf[d.head] /\ d.lib <= Num[d.head]

\* State e is what applying a block in state d leads to.
Follows(d, e) ==
   /\ e.head \in Block
   /\ Parent[e.head] = d.head
   /\ e = Applied(d, e.head)

\* Popping the snapshots s in state d walks back along the chain.
Chained(s, d) ==
   /\ s \in Seq(States)
   /\ \A k \in 1..Len(s) :
         Good(s[k]) /\ Follows(s[k], IF k = Len(s) THEN d ELSE s[k + 1])

IInv ==
   /\ Good(db) /\ Good(disk)
   /\ undo \in Seq(States)
   /\ pending \in BOOLEAN
   /\ pending => undo # << >> /\ job.pc = "idle"
   /\ undo_max \in Nat /\ undo_max > 1
   /\ Chained(Cleared, db)

\* Where reindex is.
ReplayPoint(r) == r.next \in Nat /\ r.last \in Nat

\* The steps of push_block.
PushPc == {"append", "pop", "apply", "unwind", "restore", "done"}

\* reindex applies blocks without a session only while the history is empty.
JobInv ==
   /\ DOMAIN log \subseteq Nat
   /\ "pc" \in DOMAIN job
   /\ job.pc = "replay" =>
         ReplayPoint(job) /\ (undo = << >> \/ job.next >= undo_point(job.last))
   /\ job.pc \in PushPc =>
         /\ "replay" \in DOMAIN job
         /\ ReplayPoint(job.replay)
         /\ job.replay = NoReplay \/ job.replay.next >= undo_point(job.replay.last)

-----------------------------------------------------------------------------
(* Applying a block.                                                        *)

\* A non-empty set of naturals has a least element: the form of induction used here.
LEMMA LeastNumber ==
   ASSUME NEW T \in SUBSET Nat, T # {}
   PROVE  \E m \in T : \A k \in T : m <= k
<1> DEFINE R == OpToRel(<, Nat)
<1>1. IsWellFoundedOn(R, Nat)
   BY NatLessThanWellFounded, Zenon
<1>2. \A i, j \in Nat : i < j => <<i, j>> \in R
   BY Zenon DEF OpToRel
<1> HIDE DEF R
<1>3. PICK m \in T : \A k \in T : ~(<<k, m>> \in R)
   BY <1>1, WFMin, Zenon
<1>4. ASSUME NEW k \in T PROVE m <= k
   <2>1. m \in Nat /\ k \in Nat
      BY Zenon
   <2>2. ~(k < m)
      BY <1>2, <1>3, <2>1, Zenon
   <2> QED
      BY <2>1, <2>2
<1> QED
   BY <1>4, Zenon

\* A set of numbers with a bound has a highest one.
LEMMA HighestNumber ==
   ASSUME NEW top \in Nat, NEW S \in SUBSET (0..top), S # {}
   PROVE  \E n \in S : \A m \in S : m <= n
<1> DEFINE gaps == {k \in Nat : \E n \in S : k = top - n}
<1>1. PICK any \in S : TRUE
   BY Zenon
<1>2. gaps \in SUBSET Nat /\ top - any \in gaps
   BY <1>1
<1>3. PICK least \in gaps : \A k \in gaps : least <= k
   BY <1>2, LeastNumber, Zenon
<1>4. PICK n \in S : least = top - n
   BY Zenon
<1>5. ASSUME NEW m \in S PROVE m <= n
   <2>1. top - m \in gaps
      OBVIOUS
   <2> QED
      BY <1>3, <1>4, <2>1
<1> QED
   BY <1>5, Zenon

\* The irreversible number is one of the numbers up to the head.
LEMMA IrreversibleBound ==
   ASSUME NEW confirmed, NEW top \in Nat
   PROVE  Irreversible(confirmed, top) \in Nat /\ Irreversible(confirmed, top) <= top
<1> DEFINE common == {0} \cup {n \in 1..top :
                        Cardinality({w \in Witness : confirmed[w] < n}) <= Offset}
           Highest(n) == \A m \in common : m <= n
<1>1. common \subseteq 0..top /\ common # {}
   OBVIOUS
<1>2. Irreversible(confirmed, top) = CHOOSE n \in common : Highest(n)
   BY Zenon DEF Irreversible
<1> HIDE DEF common
<1>3. \E n \in common : Highest(n)
   BY <1>1, HighestNumber, Zenon
<1>4. Irreversible(confirmed, top) \in common
   BY <1>2, <1>3, Zenon
<1>5. \A n \in common : n \in Nat /\ n <= top
   BY <1>1
<1> QED
   BY <1>4, <1>5, Zenon

\* apply_block leads from the state of a branch to that of the next block.
LEMMA AppliedGood ==
   ASSUME NEW d, NEW b, Good(d), HeaderApplies(d, b)
   PROVE  /\ Good(Applied(d, b))
          /\ Follows(d, Applied(d, b))
          /\ UndoSize(d, b) \in Nat
          /\ UndoSize(d, b) > 1
<1> DEFINE confirmed == [d.confirmed EXCEPT ![Producer[b]] = Num[b]]
           n == Irreversible(confirmed, Num[b])
           e == Applied(d, b)
<1>1. b \in Block /\ Parent[b] = d.head /\ d \in States /\ d.lib <= Num[d.head]
   BY Zenon DEF Good, HeaderApplies
<1>2. Num[b] \in Nat /\ Num[d.head] \in Nat /\ Num[b] = Num[d.head] + 1
   BY <1>1, BlockAssumption, Zenon DEF States
<1>3. n \in Nat /\ n <= Num[b]
   BY <1>2, IrreversibleBound, Zenon
<1>4. e = [head |-> b, confirmed |-> confirmed, lib |-> IF n > d.lib THEN n ELSE d.lib]
   BY Zenon DEF Applied
<1> HIDE DEF n
<1>5. confirmed \in [Witness -> Nat]
   BY <1>1, <1>2, ChainAssumption, Zenon DEF States
<1> HIDE DEF confirmed, e
<1>6. e.head = b /\ e.lib \in Nat /\ e.lib <= Num[b]
   BY <1>1, <1>2, <1>3, <1>4 DEF States
<1>7. e \in States
   BY <1>1, <1>3, <1>4, <1>5, Zenon DEF States
<1>8. d = StateOf[Parent[b]]
   BY <1>1, Zenon DEF Good
<1>9. StateOf[b] = Applied(StateOf[Parent[b]], b)
   BY <1>1, StateOfAssumption, Zenon
<1>10. e = StateOf[e.head]
   BY <1>6, <1>8, <1>9, Zenon DEF e
<1>11. Good(e)
   BY <1>6, <1>7, <1>10, Zenon DEF Good
<1>12. Follows(d, e)
   BY <1>1, <1>6, Zenon DEF Follows, e
<1>13. UndoSize(d, b) \in Nat /\ UndoSize(d, b) > 1
   BY <1>1, <1>2 DEF UndoSize, States
<1> QED
   BY <1>11, <1>12, <1>13, Zenon DEF e

-----------------------------------------------------------------------------
(* The history as a sequence of snapshots.                                  *)

\* All but the newest of a sequence.
LEMMA FrontSeq ==
   ASSUME NEW s \in Seq(States), s # << >>
   PROVE  LET t == SubSeq(s, 1, Len(s) - 1) IN
          /\ t \in Seq(States)
          /\ Len(t) = Len(s) - 1
          /\ \A k \in 1..Len(t) : t[k] = s[k]
<1> DEFINE n == Len(s) - 1
           t == SubSeq(s, 1, n)
<1>1. n \in Nat
   OBVIOUS
<1>2. \A i \in 1..n : s[i] \in States
   OBVIOUS
<1> HIDE DEF n
<1>3. /\ t \in Seq(States)
      /\ Len(t) = IF 1 <= n THEN n - 1 + 1 ELSE 0
      /\ \A i \in 1..n - 1 + 1 : t[i] = s[1 + i - 1]
   BY <1>1, <1>2
<1> HIDE DEF t
<1>4. Len(t) = n
   BY <1>1, <1>3
<1>5. \A k \in 1..n : t[k] = s[k]
   BY <1>1, <1>3
<1> QED
   BY <1>3, <1>4, <1>5, Zenon DEF t, n

\* A snapshot is pushed and a block applied.
LEMMA AppendChained ==
   ASSUME NEW s, NEW d, NEW e, Chained(s, d), Good(d), Follows(d, e)
   PROVE  Chained(Append(s, d), e)
<1> DEFINE t == Append(s, d)
<1>1. s \in Seq(States) /\ d \in States
   BY Zenon DEF Chained, Good
<1>2. t \in Seq(States) /\ Len(t) = Len(s) + 1 /\ Len(s) \in Nat
   BY <1>1
<1>3. ASSUME NEW k \in 1..Len(t)
      PROVE  Good(t[k]) /\ Follows(t[k], IF k = Len(t) THEN e ELSE t[k + 1])
   <2>1. CASE k = Len(t)
      <3>1. t[k] = d
         BY <1>1, <1>2, <2>1
      <3> QED
         BY <2>1, <3>1, Zenon
   <2>2. CASE k # Len(t)
      <3>1. k \in 1..Len(s) /\ t[k] = s[k]
         BY <1>1, <1>2, <2>2
      <3>2. t[k + 1] = IF k = Len(s) THEN d ELSE s[k + 1]
         BY <1>1, <1>2, <2>2, <3>1
      <3> QED
         BY <2>2, <3>1, <3>2, Zenon DEF Chained
   <2> QED
      BY <2>1, <2>2, Zenon
<1> HIDE DEF t
<1>4. Chained(t, e)
   BY <1>2, <1>3, Zenon DEF Chained
<1> QED
   BY <1>4, Zenon DEF t

\* The newest snapshot is popped.
LEMMA FrontChained ==
   ASSUME NEW s, NEW d, Chained(s, d), s # << >>
   PROVE  /\ Good(s[Len(s)])
          /\ Chained(SubSeq(s, 1, Len(s) - 1), s[Len(s)])
<1> DEFINE t == SubSeq(s, 1, Len(s) - 1)
<1>1. s \in Seq(States) /\ Len(s) \in Nat /\ Len(s) > 0
   BY DEF Chained
<1>2. t \in Seq(States) /\ Len(t) = Len(s) - 1 /\ \A k \in 1..Len(t) : t[k] = s[k]
   BY <1>1, FrontSeq, Zenon
<1>3. Good(s[Len(s)])
   BY <1>1 DEF Chained
<1> HIDE DEF t
<1>4. ASSUME NEW k \in 1..Len(t)
      PROVE  Good(t[k]) /\ Follows(t[k], IF k = Len(t) THEN s[Len(s)] ELSE t[k + 1])
   <2>1. k \in 1..Len(s) /\ k # Len(s) /\ t[k] = s[k]
      BY <1>1, <1>2
   <2>2. Good(s[k]) /\ Follows(s[k], s[k + 1])
      BY <2>1, Zenon DEF Chained
   <2>3. s[k + 1] = IF k = Len(t) THEN s[Len(s)] ELSE t[k + 1]
      BY <1>1, <1>2, <2>1
   <2> QED
      BY <2>1, <2>2, <2>3, Zenon
<1>5. Chained(t, s[Len(s)])
   BY <1>2, <1>4, Zenon DEF Chained
<1> QED
   BY <1>3, <1>5, Zenon DEF t

\* What the trimming loop leaves is the end of the sequence.
LEMMA NewestSeq ==
   ASSUME NEW s \in Seq(States), NEW n \in Nat
   PROVE  LET t == Newest(n, s) IN
          /\ t \in Seq(States)
          /\ Len(t) = (IF Len(s) > n THEN n ELSE Len(s))
          /\ \A k \in 1..Len(t) : t[k] = s[k + Len(s) - Len(t)]
<1>1. CASE Len(s) > n
   BY <1>1 DEF Newest
<1>2. CASE ~(Len(s) > n)
   BY <1>2 DEF Newest
<1> QED
   BY <1>1, <1>2, Zenon

\* The oldest snapshots are dropped.
LEMMA NewestChained ==
   ASSUME NEW s, NEW d, NEW n \in Nat, Chained(s, d)
   PROVE  Chained(Newest(n, s), d)
<1> DEFINE t == Newest(n, s)
           gone == Len(s) - Len(t)
<1>1. s \in Seq(States) /\ Len(s) \in Nat
   BY DEF Chained
<1>2. /\ t \in Seq(States) /\ Len(t) \in Nat /\ Len(t) <= Len(s)
      /\ \A k \in 1..Len(t) : t[k] = s[k + Len(s) - Len(t)]
   BY <1>1, NewestSeq
<1> HIDE DEF t
<1>3. ASSUME NEW k \in 1..Len(t)
      PROVE  Good(t[k]) /\ Follows(t[k], IF k = Len(t) THEN d ELSE t[k + 1])
   <2>1. k + gone \in 1..Len(s) /\ t[k] = s[k + gone]
      BY <1>1, <1>2
   <2>2. k + gone = Len(s) <=> k = Len(t)
      BY <1>1, <1>2, SMTT(30), Z3T(30)
   <2>3. k # Len(t) => t[k + 1] = s[k + gone + 1]
      BY <1>1, <1>2
   <2> QED
      BY <2>1, <2>2, <2>3, Zenon DEF Chained
<1>4. Chained(t, d)
   BY <1>2, <1>3, Zenon DEF Chained
<1> QED
   BY <1>4, Zenon DEF t

\* Dropping the newest of the trimmed history trims what is below the newest.
LEMMA NewestFront ==
   ASSUME NEW s \in Seq(States), s # << >>, NEW n \in Nat, n > 0
   PROVE  LET t == Newest(n, s) IN
          /\ t # << >>
          /\ SubSeq(t, 1, Len(t) - 1) = Newest(n - 1, SubSeq(s, 1, Len(s) - 1))
<1> DEFINE t == Newest(n, s)
           f == SubSeq(s, 1, Len(s) - 1)
           u == SubSeq(t, 1, Len(t) - 1)
           v == Newest(n - 1, f)
<1>1. Len(s) \in Nat /\ Len(s) > 0
   OBVIOUS
<1>2. /\ t \in Seq(States) /\ Len(t) = (IF Len(s) > n THEN n ELSE Len(s))
      /\ \A k \in 1..Len(t) : t[k] = s[k + Len(s) - Len(t)]
   BY NewestSeq, Zenon
<1>3. f \in Seq(States) /\ Len(f) = Len(s) - 1 /\ \A k \in 1..Len(f) : f[k] = s[k]
   BY <1>1, FrontSeq, Zenon
<1>4. n - 1 \in Nat
   OBVIOUS
<1>5. /\ v \in Seq(States) /\ Len(v) = (IF Len(f) > n - 1 THEN n - 1 ELSE Len(f))
      /\ \A k \in 1..Len(v) : v[k] = f[k + Len(f) - Len(v)]
   BY <1>3, <1>4, NewestSeq, Zenon
<1> HIDE DEF t, f, v
<1>6. Len(t) > 0 /\ t # << >>
   BY <1>1, <1>2
<1>7. u \in Seq(States) /\ Len(u) = Len(t) - 1 /\ \A k \in 1..Len(u) : u[k] = t[k]
   BY <1>2, <1>6, FrontSeq, Zenon
<1> HIDE DEF u
<1>8. Len(u) = Len(v)
   BY <1>1, <1>2, <1>3, <1>5, <1>7
<1>9. ASSUME NEW k \in 1..Len(u) PROVE u[k] = v[k]
   <2>1. Len(t) \in Nat /\ Len(f) \in Nat /\ Len(v) \in Nat
      BY <1>2, <1>3, <1>5
   <2>2. Len(v) <= Len(f)
      BY <1>5, <2>1
   <2>3. Len(s) - Len(t) = Len(f) - Len(v)
      <3>1. Len(f) = Len(s) - 1 /\ Len(v) = Len(t) - 1
         BY <1>3, <1>7, <1>8, Zenon
      <3> QED
         BY ONLY <1>1, <2>1, <3>1
   <2>4. k \in 1..Len(t) /\ k \in 1..Len(v)
      BY <1>7, <1>8, <2>1
   <2>5. u[k] = s[k + Len(s) - Len(t)]
      BY <1>2, <1>7, <2>4, Zenon
   <2>6. v[k] = f[k + Len(f) - Len(v)]
      BY <1>5, <2>4, Zenon
   <2>7. k + Len(f) - Len(v) \in 1..Len(f)
      BY ONLY <2>1, <2>2, <2>4
   <2>8. k + Len(f) - Len(v) = k + Len(s) - Len(t)
      BY ONLY <1>1, <2>1, <2>3, k \in 1..Len(u), <2>4, Zenon
   <2> QED
      BY <1>3, <2>5, <2>6, <2>7, <2>8, Zenon
<1>10. u = v
   BY <1>5, <1>7, <1>8, <1>9, SMTT(30), Z3T(30)
<1> QED
   BY <1>6, <1>10, Zenon DEF t, u, v, f

-----------------------------------------------------------------------------
(* What the operations do to the invariant.                                 *)

\* An operation that leaves no pending session.
LEMMA WithoutPending ==
   ASSUME pending' = FALSE, Chained(undo', db'), Good(db'), Good(disk'),
          undo_max' \in Nat, undo_max' > 1
   PROVE  IInv'
<1>1. Cleared' = undo'
   BY Zenon DEF Cleared
<1>2. undo' \in Seq(States)
   BY Zenon DEF Chained
<1> QED
   BY <1>1, <1>2, Zenon DEF IInv

\* An operation that leaves a pending session, its snapshot the newest one.
LEMMA WithPending ==
   ASSUME pending' = TRUE, undo' \in Seq(States), undo' # << >>,
          Chained(SubSeq(undo', 1, Len(undo') - 1), db'), Good(db'), Good(disk'),
          undo_max' \in Nat, undo_max' > 1, job'.pc = "idle"
   PROVE  IInv'
<1>1. Cleared' = SubSeq(undo', 1, Len(undo') - 1)
   BY Zenon DEF Cleared
<1> QED
   BY <1>1, Zenon DEF IInv

\* Sessions that all ended, in a history without a pending session.
LEMMA NestedChained ==
   ASSUME IInv, NEW s, Chained(s, db), NEW k \in 1..3
   PROVE  Chained(Nested(k, s), db)
<1>1. undo_max + 1 - k \in Nat
   BY DEF IInv
<1> QED
   BY <1>1, NewestChained, Zenon DEF Nested

\* A block is applied and its session committed.
LEMMA ApplyBlock ==
   ASSUME IInv, ~pending, NEW b, Applies(db, b), apply_block(b)
   PROVE  /\ Chained(undo', db') /\ Good(db')
          /\ undo_max' \in Nat /\ undo_max' > 1
<1>1. Good(db) /\ undo_max \in Nat /\ Chained(undo, db)
   BY Zenon DEF IInv, Cleared
<1>2. HeaderApplies(db, b)
   BY Zenon DEF Applies
<1>3. /\ Good(Applied(db, b)) /\ Follows(db, Applied(db, b))
      /\ UndoSize(db, b) \in Nat /\ UndoSize(db, b) > 1
   BY <1>1, <1>2, AppliedGood, Zenon
<1>4. Chained(Newest(undo_max, undo), db)
   BY <1>1, NewestChained, Zenon
<1>5. Chained(Append(Newest(undo_max, undo), db), Applied(db, b))
   BY <1>1, <1>3, <1>4, AppendChained, Zenon
<1> QED
   BY <1>3, <1>5, Zenon DEF apply_block

\* A block fails and its session is undone.
LEMMA ApplyFails ==
   ASSUME IInv, ~pending, NEW b, NEW sized \in BOOLEAN, apply_fails(b, sized)
   PROVE  /\ Chained(undo', db') /\ Good(db')
          /\ undo_max' \in Nat /\ undo_max' > 1
<1>1. Good(db) /\ Chained(undo, db) /\ undo_max \in Nat /\ undo_max > 1
   BY Zenon DEF IInv, Cleared
<1>2. Chained(Nested(1, undo), db)
   BY <1>1, NestedChained
<1>3. undo_max' \in Nat /\ undo_max' > 1
   <2>1. CASE sized
      <3>1. HeaderApplies(db, b)
         BY <2>1, Zenon DEF apply_fails
      <3>2. UndoSize(db, b) \in Nat /\ UndoSize(db, b) > 1
         BY <1>1, <3>1, AppliedGood, Zenon
      <3> QED
         BY <2>1, <3>2, Zenon DEF apply_fails
   <2>2. CASE ~sized
      BY <1>1, <2>2, Zenon DEF apply_fails
   <2> QED
      BY <2>1, <2>2, Zenon
<1> QED
   BY <1>1, <1>2, <1>3, Zenon DEF apply_fails

\* The newest block is popped.
LEMMA PopUndo ==
   ASSUME IInv, ~pending, undo # << >>,
          db' = undo[Len(undo)], undo' = SubSeq(undo, 1, Len(undo) - 1)
   PROVE  Chained(undo', db') /\ Good(db')
<1>1. Chained(undo, db)
   BY Zenon DEF IInv, Cleared
<1> QED
   BY <1>1, FrontChained, Zenon

\* A block is pushed to the fork database, the pending transactions cleared.
LEMMA LinkStep ==
   ASSUME IInv, NEW b, NEW s, NEW replay, Chained(s, db), Link(b, s, replay),
          Good(disk')
   PROVE  IInv'
<1>1. /\ undo' = s /\ pending' = FALSE /\ db' = db /\ undo_max' = undo_max
   BY Zenon DEF Link
<1>2. Good(db) /\ undo_max \in Nat /\ undo_max > 1
   BY Zenon DEF IInv
<1> QED
   BY <1>1, <1>2, WithoutPending, Zenon

\* The pending session is opened and a transaction applied in it.
LEMMA ReopenedStep ==
   ASSUME IInv, NEW s, Chained(s, db), NEW k \in Nesting
   PROVE  LET t == Reopened(k, s) IN
          /\ t \in Seq(States) /\ t # << >>
          /\ Chained(SubSeq(t, 1, Len(t) - 1), db)
<1> DEFINE r == Newest(undo_max, s)
           a == Append(r, db)
           n == undo_max + 1 - k
           t == Newest(n, a)
<1>1. db \in States /\ undo_max \in Nat /\ undo_max > 1
   BY Zenon DEF IInv, Good
<1>2. n \in Nat /\ n > 0 /\ n - 1 \in Nat
   BY <1>1, ChainAssumption
<1>3. Chained(r, db) /\ r \in Seq(States)
   BY <1>1, NewestChained, Zenon DEF Chained
<1> HIDE DEF r, n
<1>4. a \in Seq(States) /\ a # << >> /\ Len(a) = Len(r) + 1 /\ Len(r) \in Nat
   BY <1>1, <1>3
<1>5. SubSeq(a, 1, Len(a) - 1) = r
   <2> DEFINE f == SubSeq(a, 1, Len(a) - 1)
   <2>1. f \in Seq(States) /\ Len(f) = Len(a) - 1 /\ \A i \in 1..Len(f) : f[i] = a[i]
      BY <1>4, FrontSeq, Zenon
   <2>2. \A i \in 1..Len(r) : a[i] = r[i]
      BY <1>1, <1>3
   <2> HIDE DEF f
   <2>3. Len(f) = Len(r)
      BY <1>4, <2>1
   <2>4. f = r
      BY <1>3, <1>4, <2>1, <2>2, <2>3
   <2> QED
      BY <2>4, Zenon DEF f
<1> HIDE DEF a
<1>6. t # << >> /\ SubSeq(t, 1, Len(t) - 1) = Newest(n - 1, r)
   BY <1>2, <1>4, <1>5, NewestFront, Zenon
<1>7. t \in Seq(States)
   BY <1>2, <1>4, NewestSeq, Zenon
<1>8. Chained(Newest(n - 1, r), db)
   BY <1>2, <1>3, NewestChained, Zenon
<1>9. Reopened(k, s) = t
   BY Zenon DEF Reopened, Nested, t, n, a, r
<1> QED
   BY <1>6, <1>7, <1>8, <1>9, Zenon

-----------------------------------------------------------------------------
(* One lemma per kind of step.                                              *)

\* The start: nothing to undo, the genesis state in memory and on disk.
LEMMA InitIInv == Init => IInv
<1> SUFFICES ASSUME Init PROVE IInv
   BY Zenon
<1>1. GenesisState \in States /\ GenesisState.head = Genesis /\ GenesisState.lib = 0
   BY Zenon DEF GenesisState, States
<1>2. Good(GenesisState)
   BY <1>1, StateOfAssumption, BlockAssumption DEF Good
<1>3. Chained(<< >>, db)
   BY DEF Chained
<1>4. Cleared = << >>
   BY Zenon DEF Init, Cleared
<1>5. db = GenesisState /\ disk = GenesisState /\ undo = << >> /\ pending = FALSE
      /\ undo_max = MinUndoHistory
   BY Zenon DEF Init
<1>6. undo_max \in Nat /\ undo_max > 1
   BY <1>5, ChainAssumption, Zenon
<1>7. undo \in Seq(States)
   BY <1>5
<1> QED
   BY <1>2, <1>3, <1>4, <1>5, <1>6, <1>7, Zenon DEF IInv

\* push_block and generate_block up to the choice of what to do.
LEMMA BeginSteps ==
   ASSUME IInv,
          \/ \E b \in Block : push_block_begin(b)
          \/ \E b \in Block, k \in Nesting \cup {0} : generate_block(b, k)
   PROVE  IInv'
<1>1. Chained(Cleared, db) /\ Good(disk)
   BY Zenon DEF IInv
<1>2. ASSUME NEW b \in Block, push_block_begin(b) PROVE IInv'
   <2>1. Link(b, Cleared, NoReplay) /\ disk' = disk
      BY <1>2, Zenon DEF push_block_begin, files
   <2> QED
      BY <1>1, <2>1, LinkStep, Zenon
<1>3. ASSUME NEW b \in Block, NEW k \in Nesting \cup {0}, generate_block(b, k) PROVE IInv'
   <2>1. Link(b, Rebuilt(k), NoReplay) /\ disk' = disk
      BY <1>3, Zenon DEF generate_block, files
   <2>2. k + 1 \in 1..3
      <3>1. k \in {0, 1, 2}
         BY ChainAssumption, Zenon
      <3> QED
         BY <3>1
   <2>3. Chained(Rebuilt(k), db)
      BY <1>1, <2>2, NestedChained, Zenon DEF Rebuilt
   <2> QED
      BY <1>1, <2>1, <2>3, LinkStep, Zenon
<1> QED
   BY <1>2, <1>3, Zenon

\* Blocks are applied or fail: append, apply_fork, restore.
LEMMA ApplySteps ==
   ASSUME IInv, append \/ apply_fork \/ restore
   PROVE  IInv'
<1>1. job.pc # "idle" /\ disk' = disk /\ pending' = pending
   BY Zenon DEF append, apply_fork, restore
<1>2. pending = FALSE /\ Good(disk)
   BY <1>1, Zenon DEF IInv
<1>3. ASSUME NEW b, Applies(db, b), apply_block(b) PROVE IInv'
   <2>1. /\ Chained(undo', db') /\ Good(db')
         /\ undo_max' \in Nat /\ undo_max' > 1
      BY <1>2, <1>3, ApplyBlock, Zenon
   <2> QED
      BY <1>1, <1>2, <2>1, WithoutPending, Zenon
<1>4. ASSUME NEW b, NEW sized \in BOOLEAN, apply_fails(b, sized) PROVE IInv'
   <2>1. /\ Chained(undo', db') /\ Good(db')
         /\ undo_max' \in Nat /\ undo_max' > 1
      BY <1>2, <1>4, ApplyFails, Zenon
   <2> QED
      BY <1>1, <1>2, <2>1, WithoutPending, Zenon
<1>5. CASE append
   BY <1>3, <1>4, <1>5, Zenon DEF append
<1>6. CASE apply_fork
   BY <1>3, <1>4, <1>6, Zenon DEF apply_fork
<1>7. CASE restore
   BY <1>3, <1>7, Zenon DEF restore
<1> QED
   BY <1>5, <1>6, <1>7, Zenon

\* Blocks are popped: pop_to_fork, unwind, rewind.
LEMMA PopSteps ==
   ASSUME IInv, pop_to_fork \/ unwind \/ rewind
   PROVE  IInv'
<1>1. /\ job.pc # "idle" /\ disk' = disk /\ undo_max' = undo_max
      /\ pending' = FALSE \/ pending' = pending
   BY Zenon DEF pop_to_fork, unwind, rewind, pop, files
<1>2. /\ pending = FALSE /\ Good(disk) /\ Good(db) /\ Chained(undo, db)
      /\ undo_max \in Nat /\ undo_max > 1
   BY <1>1, Zenon DEF IInv, Cleared
<1>3. \/ db' = db /\ undo' = undo
      \/ /\ undo # << >> /\ db' = undo[Len(undo)]
         /\ undo' = SubSeq(undo, 1, Len(undo) - 1)
   <2>1. ASSUME NEW next, pop(next)
         PROVE  <1>3!1 \/ <1>3!2
      BY <2>1, Zenon DEF pop, CanPopBlock
   <2>2. CASE rewind
      BY <2>2, Zenon DEF rewind, CanPopBlock
   <2> QED
      BY <2>1, <2>2, Zenon DEF pop_to_fork, unwind
<1>4. Chained(undo', db') /\ Good(db')
   BY <1>2, <1>3, PopUndo, Zenon
<1> QED
   BY <1>1, <1>2, <1>4, WithoutPending, Zenon

\* Transactions come and go in sessions of their own.
LEMMA TransactionSteps ==
   ASSUME IInv, NEW k \in Nesting,
          push_transaction(k) \/ validate_transaction(k) \/ generate_block_throws(k)
   PROVE  IInv'
<1>1. /\ job.pc = "idle" /\ job' = job /\ disk' = disk /\ db' = db
      /\ undo_max' = undo_max
   BY Zenon DEF push_transaction, validate_transaction, generate_block_throws, files
<1>2. /\ Good(disk) /\ Good(db) /\ Chained(Cleared, db) /\ undo \in Seq(States)
      /\ undo_max \in Nat /\ undo_max > 1 /\ pending \in BOOLEAN
      /\ pending => undo # << >>
   BY Zenon DEF IInv
<1>3. k \in 1..3 /\ k + 1 \in 1..3
   BY ChainAssumption
<1>4. ASSUME ~pending, undo' = Reopened(k, undo), pending' = TRUE PROVE IInv'
   <2>1. Chained(undo, db)
      BY <1>2, <1>4, Zenon DEF Cleared
   <2>2. /\ undo' \in Seq(States) /\ undo' # << >>
         /\ Chained(SubSeq(undo', 1, Len(undo') - 1), db)
      BY <1>4, <2>1, ReopenedStep, Zenon
   <2> QED
      BY <1>1, <1>2, <1>4, <2>2, WithPending, Zenon
<1>5. ASSUME pending, undo' = Nested(k, undo), pending' = TRUE PROVE IInv'
   <2> DEFINE n == undo_max + 1 - k
              f == SubSeq(undo, 1, Len(undo) - 1)
   <2>1. n \in Nat /\ n > 0 /\ n - 1 \in Nat
      BY <1>2, ChainAssumption
   <2>2. undo' = Newest(n, undo)
      BY <1>5, Zenon DEF Nested
   <2>3. Chained(f, db)
      BY <1>2, <1>5, Zenon DEF Cleared
   <2> HIDE DEF n, f
   <2>4. undo' # << >> /\ SubSeq(undo', 1, Len(undo') - 1) = Newest(n - 1, f)
      BY <1>2, <1>5, <2>1, <2>2, NewestFront, Zenon DEF f
   <2>5. undo' \in Seq(States)
      BY <1>2, <2>1, <2>2, NewestSeq, ZenonT(30)
   <2>6. Chained(Newest(n - 1, f), db)
      BY <2>1, <2>3, NewestChained, Zenon
   <2> QED
      BY <1>1, <1>2, <1>5, <2>4, <2>5, <2>6, WithPending, Zenon
<1>6. ASSUME ~pending, undo' = Nested(k, undo), pending' = FALSE PROVE IInv'
   <2>1. Chained(undo, db)
      BY <1>2, <1>6, Zenon DEF Cleared
   <2>2. Chained(Nested(k, undo), db)
      BY <1>3, <2>1, NestedChained, Zenon
   <2> QED
      BY <1>1, <1>2, <1>6, <2>2, WithoutPending, Zenon
<1>7. CASE push_transaction(k)
   BY <1>2, <1>4, <1>5, <1>7, Zenon DEF push_transaction
<1>8. CASE validate_transaction(k)
   <2>1. undo' = Nested(k, undo) /\ pending' = pending
      BY <1>8, Zenon DEF validate_transaction
   <2> QED
      BY <1>2, <1>5, <1>6, <2>1, Zenon
<1>9. CASE generate_block_throws(k)
   <2>1. undo' = Rebuilt(k) /\ pending' = FALSE
      BY <1>9, Zenon DEF generate_block_throws
   <2>2. Chained(Rebuilt(k), db)
      BY <1>2, <1>3, <2>1, NestedChained, Zenon DEF Rebuilt
   <2> QED
      BY <1>1, <1>2, <2>1, <2>2, WithoutPending, Zenon
<1> QED
   BY <1>7, <1>8, <1>9, Zenon

\* The end of push_block.
LEMMA EndStep ==
   ASSUME IInv, push_block_end
   PROVE  IInv'
<1>1. /\ job.pc = "done" /\ disk' = disk /\ db' = db /\ undo_max' = undo_max
   BY Zenon DEF push_block_end, files
<1>2. /\ Good(disk) /\ Good(db) /\ undo_max \in Nat /\ undo_max > 1
      /\ Chained(undo, db)
   BY <1>1, Zenon DEF IInv, Cleared
<1>3. CASE undo' = undo /\ pending' = FALSE
   BY <1>1, <1>2, <1>3, WithoutPending, Zenon
<1>4. CASE /\ job.replay = NoReplay
           /\ \E k \in Nesting : undo' = Reopened(k, undo)
           /\ pending' = TRUE
   <2>1. PICK k \in Nesting : undo' = Reopened(k, undo)
      BY <1>4, Zenon
   <2>2. /\ undo' \in Seq(States) /\ undo' # << >>
         /\ Chained(SubSeq(undo', 1, Len(undo') - 1), db)
      BY <1>2, <2>1, ReopenedStep, Zenon
   <2>3. job'.pc = "idle"
      BY <1>4, Zenon DEF push_block_end, Idle
   <2> QED
      BY <1>1, <1>2, <1>4, <2>2, <2>3, WithPending, Zenon
<1> QED
   BY <1>3, <1>4, Zenon DEF push_block_end

\* The node stops and starts: close, flush, crash, open.
LEMMA RestartSteps ==
   ASSUME IInv, close \/ flush \/ crash \/ open
   PROVE  IInv'
<1>1. /\ Good(disk) /\ Good(db) /\ undo_max \in Nat /\ undo_max > 1
      /\ Chained(Cleared, db)
   BY Zenon DEF IInv
<1>2. ASSUME NEW d, Good(d), Loaded(d), Good(disk') PROVE IInv'
   <2>1. Chained(<< >>, d)
      BY DEF Chained
   <2> QED
      BY <1>2, <2>1, WithoutPending, ChainAssumption, Zenon DEF Loaded
<1>3. CASE close
   <2>1. /\ undo' = Cleared /\ pending' = FALSE /\ db' = db
         /\ undo_max' = undo_max /\ disk' = disk
      BY <1>3, Zenon DEF close, files
   <2> QED
      BY <1>1, <2>1, WithoutPending, Zenon
<1>4. CASE flush
   BY <1>1, <1>2, <1>4, Zenon DEF flush
<1>5. CASE crash
   BY <1>1, <1>2, <1>5, Zenon DEF crash
<1>6. CASE open
   BY <1>1, <1>2, <1>6, ZenonT(30) DEF open
<1> QED
   BY <1>3, <1>4, <1>5, <1>6, Zenon

\* The number the undo history reaches back to is a natural number.
LEMMA UndoPointNat ==
   ASSUME NEW last \in Nat
   PROVE  undo_point(last) \in Nat
BY ChainAssumption DEF undo_point

\* One turn of reindex's loop.
LEMMA ReindexStep ==
   ASSUME IInv, JobInv, reindex
   PROVE  IInv'
<1> DEFINE n == job.next
           b == log[n].data
<1>1. /\ Good(disk) /\ Good(db) /\ undo_max \in Nat /\ undo_max > 1
      /\ Chained(Cleared, db) /\ pending \in BOOLEAN
   BY Zenon DEF IInv
<1>2. job.pc = "replay"
   BY Zenon DEF reindex
<1>3. pending = FALSE /\ Chained(undo, db)
   BY <1>1, <1>2, Zenon DEF IInv, Cleared
<1>4. Good(disk')
   BY <1>1, Zenon DEF reindex
<1>5. CASE UNCHANGED memory
   <2>1. db' = db /\ undo' = undo /\ undo_max' = undo_max /\ pending' = pending
      BY <1>5, Zenon DEF memory
   <2> QED
      BY <1>1, <1>3, <1>4, <2>1, WithoutPending, Zenon
<1>6. CASE Link(b, Cleared, job)
   BY <1>1, <1>4, <1>6, LinkStep, Zenon
<1>7. CASE /\ n < undo_point(job.last)
           /\ Applies(db, b) /\ db' = Applied(db, b) /\ undo_max' = UndoSize(db, b)
           /\ UNCHANGED <<undo, pending>>
   <2>1. undo_point(job.last) \in Nat /\ n \in Nat
      BY <1>2, UndoPointNat, Zenon DEF JobInv, ReplayPoint
   <2>2. undo = << >>
      BY <1>2, <1>7, <2>1, SMTT(30) DEF JobInv
   <2>3. /\ Good(db') /\ undo_max' \in Nat /\ undo_max' > 1
      BY <1>1, <1>7, AppliedGood, Zenon DEF Applies
   <2>4. Chained(<< >>, db')
      BY DEF Chained
   <2> QED
      BY <1>3, <1>4, <1>7, <2>2, <2>3, <2>4, WithoutPending, Zenon
<1>8. CASE UNCHANGED <<db, undo_max, undo, pending>>
   BY <1>1, <1>3, <1>4, <1>8, WithoutPending, Zenon
<1> QED
   BY <1>5, <1>6, <1>7, <1>8, Zenon DEF reindex

\* Numbers of the log, and what reindex has still to do, stay what they are.
LEMMA JobInvStep ==
   ASSUME IInv, JobInv, Next
   PROVE  JobInv'
<1>1. DOMAIN log \subseteq Nat /\ "pc" \in DOMAIN job
   BY Zenon DEF JobInv
<1>2. ASSUME log' = log, job' = job, job.pc # "replay" PROVE JobInv'
   BY <1>1, <1>2, Zenon DEF JobInv, ReplayPoint, undo_point, NoReplay, Replay
<1>3. ASSUME NEW pc, DOMAIN log' = DOMAIN log, job.pc \in PushPc, job'.pc = pc,
             pc \in PushPc, DOMAIN job' = DOMAIN job, job'.replay = job.replay
      PROVE  JobInv'
   <2>1. job'.pc # "replay"
      BY <1>3, Zenon DEF PushPc
   <2> QED
      BY <1>1, <1>3, <2>1, Zenon DEF JobInv, ReplayPoint, undo_point, NoReplay, Replay
<1>4. ASSUME NEW pc, DOMAIN log' \subseteq Nat, "pc" \in DOMAIN job', job'.pc = pc,
             pc \in {"idle", "down", "rewind"}
      PROVE  JobInv'
   <2>1. job'.pc # "replay" /\ job'.pc \notin PushPc
      BY <1>4, Zenon DEF PushPc
   <2> QED
      BY <1>4, <2>1, Zenon DEF JobInv
<1>5. ASSUME NEW b, NEW s, NEW replay, Link(b, s, replay), log' = log,
             ReplayPoint(replay),
             replay = NoReplay \/ replay.next >= undo_point(replay.last)
      PROVE  JobInv'
   <2>1. /\ "pc" \in DOMAIN job' /\ "replay" \in DOMAIN job'
         /\ job'.pc \in {"append", "pop", "done"} /\ job'.replay = replay
      BY <1>5 DEF Link, Push
   <2>2. job'.pc # "replay"
      BY <2>1, Zenon
   <2> QED
      BY <1>1, <1>5, <2>1, <2>2, Zenon DEF JobInv, ReplayPoint, undo_point, NoReplay, Replay
<1>6. ReplayPoint(NoReplay)
   BY Zenon DEF ReplayPoint, NoReplay, Replay
<1>7. ASSUME NEW id, NEW b, store(id, b) PROVE DOMAIN log' = DOMAIN log
   BY <1>7, Zenon DEF store
<1>8. ASSUME NEW k PROVE DOMAIN UpTo(k) = DOMAIN log
   BY Zenon DEF UpTo
<1>9. CASE \E b \in Block : push_block_begin(b)
   <2>1. PICK b \in Block : Link(b, Cleared, NoReplay) /\ log' = log
      BY <1>9, Zenon DEF push_block_begin, files
   <2> QED
      BY <1>5, <1>6, <2>1, Zenon
<1>10. CASE \E b \in Block, k \in Nesting \cup {0} : generate_block(b, k)
   <2>1. PICK b \in Block, k \in Nesting \cup {0} : Link(b, Rebuilt(k), NoReplay) /\ log' = log
      BY <1>10, Zenon DEF generate_block, files
   <2> QED
      BY <1>5, <1>6, <2>1, Zenon
<1>11. CASE append
   <2>1. DOMAIN log' = DOMAIN log
      BY <1>7, <1>11, Zenon DEF append
   <2>2. job.pc = "append" /\ job'.pc = "done" /\ DOMAIN job' = DOMAIN job
      BY <1>1, <1>11, Zenon DEF append, Throw
   <2>3. "replay" \in DOMAIN job
      BY <2>2, Zenon DEF JobInv, PushPc
   <2>4. job'.replay = job.replay
      BY <1>11, <2>3, Zenon DEF append, Throw
   <2> QED
      BY <1>3, <2>1, <2>2, <2>4, Zenon DEF PushPc
<1>12. ASSUME NEW next \in PushPc, job.pc \in PushPc, pop(next) PROVE JobInv'
   <2>1. log' = log /\ DOMAIN job' = DOMAIN job
      BY <1>12, Zenon DEF pop, files, Throw
   <2>2. "replay" \in DOMAIN job
      BY <1>12, Zenon DEF JobInv
   <2>3. job'.replay = job.replay
      BY <1>12, <2>2, Zenon DEF pop, Throw
   <2>4. job'.pc \in {next, job.pc, "done"}
      BY <1>1, <1>12, Zenon DEF pop, Throw
   <2> QED
      BY <1>3, <1>12, <2>1, <2>3, <2>4, Zenon DEF PushPc
<1>13. CASE pop_to_fork
   BY <1>12, <1>13, Zenon DEF pop_to_fork, PushPc
<1>14. CASE unwind
   BY <1>12, <1>14, Zenon DEF unwind, PushPc
<1>15. CASE apply_fork
   <2>1. DOMAIN log' = DOMAIN log
      BY <1>7, <1>15, Zenon DEF apply_fork
   <2>2. job.pc = "apply" /\ DOMAIN job' = DOMAIN job
      BY <1>15, Zenon DEF apply_fork
   <2>3. "replay" \in DOMAIN job
      BY <2>2, Zenon DEF JobInv, PushPc
   <2>4. job'.replay = job.replay
      BY <1>15, <2>3, Zenon DEF apply_fork
   <2>5. job'.pc \in {"apply", "done", "unwind"}
      BY <1>1, <1>15, <2>2, Zenon DEF apply_fork
   <2> QED
      BY <1>3, <2>1, <2>2, <2>4, <2>5, Zenon DEF PushPc
<1>16. CASE restore
   <2>1. DOMAIN log' = DOMAIN log
      BY <1>7, <1>16, Zenon DEF restore
   <2>2. job.pc = "restore" /\ DOMAIN job' = DOMAIN job
      BY <1>16, Zenon DEF restore
   <2>3. "replay" \in DOMAIN job
      BY <2>2, Zenon DEF JobInv, PushPc
   <2>4. job'.replay = job.replay
      BY <1>16, <2>3, Zenon DEF restore
   <2>5. job'.pc \in {"restore", "done"}
      BY <1>1, <1>16, <2>2, Zenon DEF restore
   <2> QED
      BY <1>3, <2>1, <2>2, <2>4, <2>5, Zenon DEF PushPc
<1>17. CASE push_block_end
   <2>1. job.pc = "done" /\ log' = log
      BY <1>17, Zenon DEF push_block_end, files
   <2>2. /\ ReplayPoint(job.replay)
         /\ job.replay = NoReplay \/ job.replay.next >= undo_point(job.replay.last)
      BY <2>1, Zenon DEF JobInv, PushPc
   <2>3. CASE job' = Idle \/ job' = Down(TRUE)
      BY <1>1, <1>4, <2>1, <2>3, SMTT(30), Z3T(30) DEF Idle, Down
   <2>4. CASE job.replay # NoReplay /\ job' = Replay(job.replay.next + 1, job.replay.last)
      <3>1. /\ job'.pc = "replay" /\ "pc" \in DOMAIN job'
            /\ job'.next = job.replay.next + 1 /\ job'.last = job.replay.last
         BY <2>4, Zenon DEF Replay
      <3>2. undo_point(job.replay.last) \in Nat
         BY <2>2, UndoPointNat, Zenon DEF ReplayPoint
      <3>3. job'.next >= undo_point(job'.last) /\ ReplayPoint(job')
         <4>1. job.replay.next \in Nat /\ job.replay.last \in Nat
            BY <2>2, Zenon DEF ReplayPoint
         <4>2. job.replay.next >= undo_point(job.replay.last)
            BY <2>2, <2>4, Zenon
         <4>3. ReplayPoint(job')
            BY <3>1, <4>1 DEF ReplayPoint
         <4> QED
            BY <3>1, <3>2, <4>1, <4>2, <4>3, SMTT(30), Z3T(30)
      <3>4. job'.pc \notin PushPc
         BY <3>1, Zenon DEF PushPc
      <3>5. undo_point(job.last)' = undo_point(job'.last) /\ ReplayPoint(job)' = ReplayPoint(job')
         BY Zenon DEF undo_point, ReplayPoint
      <3> QED
         BY <1>1, <2>1, <3>1, <3>3, <3>4, <3>5, ZenonT(30) DEF JobInv
   <2> QED
      BY <1>17, <2>3, <2>4, Zenon DEF push_block_end
<1>18. CASE \E k \in Nesting : \/ push_transaction(k) \/ validate_transaction(k)
                               \/ generate_block_throws(k)
   BY <1>2, <1>18, Zenon DEF push_transaction, validate_transaction, generate_block_throws, files
<1>19. CASE close
   BY <1>1, <1>4, <1>19, Zenon DEF close, files
<1>20. CASE rewind
   <2>1. job.pc = "rewind" /\ log' = log
      BY <1>20, Zenon DEF rewind, files
   <2>2. "pc" \in DOMAIN job' /\ job'.pc = "rewind"
      BY <1>1, <1>20, <2>1, Zenon DEF rewind
   <2> QED
      BY <1>1, <1>4, <2>1, <2>2, Zenon
<1>21. CASE flush
   BY <1>1, <1>4, <1>21, Zenon DEF flush, Down
<1>22. CASE crash
   <2>1. log' \in LogAfterCrash /\ job' = Down(FALSE)
      BY <1>22, Zenon DEF crash
   <2>2. DOMAIN log' = DOMAIN log
      BY <2>1, Zenon DEF LogAfterCrash
   <2> QED
      BY <1>1, <1>4, <2>1, <2>2, Zenon DEF Down
<1>23. CASE open
   <2> DEFINE n == Num[disk.head]
   <2>1. PICK last \in {0} \cup DOMAIN log :
            /\ log' = UpTo(last)
            /\ job' \in {Idle, Down(TRUE), Replay(n + 1, last)}
      BY <1>23, Zenon DEF open
   <2>2. DOMAIN log' \subseteq Nat /\ last \in Nat
      BY <1>1, <1>8, <2>1, SMTT(30), Z3T(30)
   <2>3. undo' = << >>
      BY <1>23, Zenon DEF open, Loaded
   <2>4. n \in Nat
      BY BlockAssumption, Zenon DEF IInv, Good, States
   <2> HIDE DEF n
   <2>5. CASE job' \in {Idle, Down(TRUE)}
      BY <1>4, <2>2, <2>5 DEF Idle, Down
   <2>6. CASE job' = Replay(n + 1, last)
      <3>1. /\ job'.pc = "replay" /\ "pc" \in DOMAIN job'
            /\ job'.next = n + 1 /\ job'.last = last
         BY <2>6, Zenon DEF Replay
      <3>2. ReplayPoint(job')
         BY <2>2, <2>4, <3>1 DEF ReplayPoint
      <3>3. job'.pc \notin PushPc
         BY <3>1, Zenon DEF PushPc
      <3>4. ReplayPoint(job)' = ReplayPoint(job')
         BY Zenon DEF ReplayPoint
      <3> QED
         BY <2>2, <2>3, <3>1, <3>2, <3>3, <3>4, ZenonT(30) DEF JobInv
   <2> QED
      BY <2>1, <2>5, <2>6, Zenon
<1>24. CASE reindex
   <2> DEFINE n == job.next
              b == log[n].data
   <2>1. /\ job.pc = "replay" /\ ReplayPoint(job)
         /\ undo = << >> \/ n >= undo_point(job.last)
      BY <1>24, ZenonT(30) DEF reindex, JobInv
   <2>2. undo_point(job.last) \in Nat /\ n \in Nat /\ job.last \in Nat
      BY <2>1, UndoPointNat, Zenon DEF ReplayPoint
   <2>3. CASE DOMAIN log' = DOMAIN log /\ job' \in {Idle, Down(TRUE)}
      <3>1. job'.pc \in {"idle", "down", "rewind"} /\ "pc" \in DOMAIN job'
         BY <2>3 DEF Idle, Down
      <3>2. DOMAIN log' \subseteq Nat
         BY <1>1, <2>3, Zenon
      <3> QED
         BY <1>4, <3>1, <3>2, Zenon
   <2>4. CASE log' = log /\ Link(b, Cleared, job) /\ n >= undo_point(job.last)
      BY <1>5, <2>1, <2>4, Zenon
   <2>5. CASE log' = log /\ undo' = undo /\ job' = Replay(n + 1, job.last)
      <3>1. /\ job'.pc = "replay" /\ "pc" \in DOMAIN job'
            /\ job'.next = n + 1 /\ job'.last = job.last
         BY <2>5, Zenon DEF Replay
      <3>2. ReplayPoint(job')
         BY <2>2, <3>1 DEF ReplayPoint
      <3>3. job'.pc \notin PushPc
         BY <3>1, Zenon DEF PushPc
      <3>4. ReplayPoint(job)' = ReplayPoint(job') /\ undo_point(job.last)' = undo_point(job'.last)
         BY Zenon DEF ReplayPoint, undo_point
      <3>5. undo' = << >> \/ job'.next >= undo_point(job'.last)
         BY <2>1, <2>2, <2>5, <3>1
      <3> QED
         BY <1>1, <2>5, <3>1, <3>2, <3>3, <3>4, <3>5, ZenonT(30) DEF JobInv
   <2>6. \/ DOMAIN log' = DOMAIN log /\ job' \in {Idle, Down(TRUE)}
         \/ log' = log /\ Link(b, Cleared, job) /\ n >= undo_point(job.last)
         \/ log' = log /\ undo' = undo /\ job' = Replay(n + 1, job.last)
      BY <1>8, <1>24, Zenon DEF reindex
   <2> QED
      BY <2>3, <2>4, <2>5, <2>6, ZenonT(30)
<1> QED
   BY <1>9, <1>10, <1>11, <1>13, <1>14, <1>15, <1>16, <1>17, <1>18, <1>19, <1>20,
      <1>21, <1>22, <1>23, <1>24, ZenonT(30) DEF Next, Step, Call

-----------------------------------------------------------------------------
(* The theorems.                                                            *)

\* Steps that change nothing.
LEMMA Stutter ==
   ASSUME IInv, JobInv, UNCHANGED vars
   PROVE  IInv' /\ JobInv'
BY Zenon DEF IInv, JobInv, Cleared, vars, memory, files, ReplayPoint, undo_point

\* The inductive invariant holds in every state.
THEOREM InvariantHolds == Spec => [](IInv /\ JobInv)
<1>1. Init => IInv /\ JobInv
   <2>1. ASSUME Init PROVE JobInv
      <3>1. DOMAIN log \subseteq Nat
         BY <2>1, BlockAssumption DEF Init
      <3>2. job.pc = "idle" /\ "pc" \in DOMAIN job
         BY <2>1, Zenon DEF Init, Idle
      <3> QED
         BY <3>1, <3>2, Zenon DEF JobInv, PushPc
   <2> QED
      BY <2>1, InitIInv, Zenon
<1>2. ASSUME IInv, JobInv, Next PROVE IInv'
   <2>1. CASE Step
      BY <1>2, <2>1, ApplySteps, PopSteps, EndStep, RestartSteps, ReindexStep, Zenon DEF Step
   <2>2. CASE Call
      BY <1>2, <2>2, BeginSteps, TransactionSteps, RestartSteps, Zenon DEF Call
   <2> QED
      BY <1>2, <2>1, <2>2, Zenon DEF Next
<1>3. IInv /\ JobInv /\ [Next]_vars => (IInv /\ JobInv)'
   BY <1>2, JobInvStep, Stutter, Zenon
<1> QED
   BY <1>1, <1>3, PTL DEF Spec

\* The state is determined by the head block, for every tree of blocks and every
\* history of switches, failed blocks, crashes and restarts (apply_block,
\* pop_block, close, open and reindex).
THEOREM StateFollowsHead == Spec => []StateMatchesHead
<1>1. IInv => StateMatchesHead
   BY Zenon DEF IInv, Good, StateMatchesHead, head_block
<1> QED
   BY <1>1, InvariantHolds, PTL

\* Popping blocks walks back along the chain, whatever sessions transactions
\* opened in between and however the history was trimmed (start_undo_session,
\* pop_undo).
THEOREM HistoryFollowsChain == Spec => []UndoFollowsChain
<1>1. IInv => UndoFollowsChain
   <2> SUFFICES ASSUME IInv, NEW k \in 1..Committed
                PROVE  Follows(undo[k], IF k = Committed THEN db ELSE undo[k + 1])
      BY Zenon DEF UndoFollowsChain, Follows
   <2>1. undo \in Seq(States) /\ Chained(Cleared, db) /\ pending \in BOOLEAN
         /\ (pending => undo # << >>)
      BY Zenon DEF IInv
   <2>2. /\ Len(Cleared) = Committed /\ Committed \in Nat
         /\ \A i \in 1..Committed : Cleared[i] = undo[i]
      BY <2>1, FrontSeq DEF Cleared, Committed
   <2>3. Follows(Cleared[k], IF k = Len(Cleared) THEN db ELSE Cleared[k + 1])
      BY <2>1, <2>2, Zenon DEF Chained
   <2>4. k # Committed => k + 1 \in 1..Committed
      BY <2>2
   <2> QED
      BY <2>2, <2>3, <2>4, Zenon
<1> QED
   BY <1>1, InvariantHolds, PTL

-----------------------------------------------------------------------------
(* Type correctness.                                                        *)

\* A linked item has a block below it.
ForkOK(f) == f \in Forks /\ \A b \in f.links : Parent[b] \in Block

Entries == [id : Block \cup {NoBlock}, data : Block \cup {NoBlock}]

LogInv ==
   /\ DOMAIN log = {Num[b] : b \in Block}
   /\ \A n \in DOMAIN log : log[n] \in Entries
   /\ unsaved = Saved \/ (unsaved.num \in DOMAIN log /\ unsaved.was \in Entries)

\* What push_block and close remember of the state they began in.
StartInv ==
   /\ job.pc \in PushPc \cup {"idle", "down", "rewind", "replay"}
   /\ job.pc \in PushPc =>
         /\ {"block", "start"} \subseteq DOMAIN job
         /\ job.block \in Block
         /\ job.start \in States
   /\ job.pc \in {"pop", "apply"} => job.start.head \in Block
   /\ job.pc = "rewind" => expected \in Block \cup {Genesis} /\ restarts < MaxRestarts

TInv ==
   /\ ForkOK(fork) /\ LogInv /\ StartInv
   /\ restarts \in 0..MaxRestarts
   /\ expected \in Block \cup {Genesis, NoBlock}
   /\ final \in Nat

-----------------------------------------------------------------------------
(* The fork database.                                                       *)

\* Erasing items keeps the links of the others.
LEMMA EraseOK ==
   ASSUME NEW f, ForkOK(f), NEW gone
   PROVE  ForkOK(Erase(f, gone)) /\ Erase(f, gone).head = f.head
BY Zenon DEF ForkOK, Forks, Erase

\* The head is moved to a block.
LEMMA HeadOK ==
   ASSUME NEW f, ForkOK(f), NEW b \in Block \cup {NoBlock}
   PROVE  ForkOK([f EXCEPT !.head = b])
BY Zenon DEF ForkOK, Forks

\* fork_database::set_max_size.
LEMMA SetMaxSizeOK ==
   ASSUME NEW f, ForkOK(f), NEW s \in Nat
   PROVE  ForkOK(set_max_size(f, s))
<1> DEFINE g == [f EXCEPT !.max_size = s]
<1>1. ForkOK(g)
   BY Zenon DEF ForkOK, Forks
<1> HIDE DEF g
<1> QED
   BY <1>1, EraseOK, Zenon DEF set_max_size, g

\* fork_database::push_block.
LEMMA PushOK ==
   ASSUME NEW f, ForkOK(f), NEW b \in Block
   PROVE  ForkOK(push_block(f, b))
<1> DEFINE g == [f EXCEPT !.index = @ \cup {b},
                          !.links = IF b \notin f.index /\ f.head # NoBlock
                                       /\ Parent[b] # Genesis
                                    THEN @ \cup {b} ELSE @]
           h == [g EXCEPT !.head = b]
<1>1. Parent[b] \in Block \cup {Genesis}
   BY BlockAssumption, Zenon
<1>2. ForkOK(g)
   BY <1>1, Zenon DEF ForkOK, Forks
<1> HIDE DEF g
<1>3. ForkOK(h)
   BY <1>2, HeadOK, Zenon
<1> HIDE DEF h
<1>4. push_block(f, b) =
         IF f.head = NoBlock THEN h
         ELSE IF Num[b] > Num[f.head]
         THEN Erase(h, {c \in g.index : Num[c] < Num[b] - f.max_size})
         ELSE g
   BY Zenon DEF push_block, g, h
<1> QED
   BY <1>2, <1>3, <1>4, EraseOK

\* fork_database::pop_block, where its assertion holds.
LEMMA PopOK ==
   ASSUME NEW f, ForkOK(f), CanPop(f)
   PROVE  ForkOK(pop_block(f))
<1>1. Parent[f.head] \in Block
   BY Zenon DEF CanPop, ForkOK
<1> QED
   BY <1>1, HeadOK, Zenon DEF pop_block

\* fork_database::remove.
LEMMA RemoveOK ==
   ASSUME NEW f, ForkOK(f), NEW b \in Block
   PROVE  ForkOK(remove(f, b))
<1> DEFINE h == IF f.head # b THEN f.head ELSE IF CanPop(f) THEN Parent[b] ELSE NoBlock
<1>1. ForkOK(Erase(f, {b})) /\ Erase(f, {b}).head = f.head
   BY EraseOK, Zenon
<1>2. h \in Block \cup {NoBlock}
   BY Zenon DEF ForkOK, Forks, CanPop
<1>3. remove(f, b) = [Erase(f, {b}) EXCEPT !.head = h]
   BY <1>1, Zenon DEF remove, Erase
<1> HIDE DEF h
<1> QED
   BY <1>1, <1>2, <1>3, HeadOK

\* fork_database::start_block on an empty database.
LEMMA StartOK ==
   /\ ForkOK(NoForks)
   /\ \A b \in Block : ForkOK(start_block(NoForks, b))
<1>1. NoForks \in Forks /\ NoForks.links = {}
   BY DEF Forks, NoForks, EmptyForks
<1>2. ASSUME NEW b \in Block PROVE ForkOK(start_block(NoForks, b))
   <2>1. start_block(NoForks, b) \in Forks
      BY <1>1, Zenon DEF Forks, start_block
   <2>2. start_block(NoForks, b).links = {}
      BY <1>1, Zenon DEF Forks, start_block
   <2> QED
      BY <2>1, <2>2, Zenon DEF ForkOK
<1> QED
   BY <1>1, <1>2, Zenon DEF ForkOK

\* The size a block sets is a number: its irreversible block is below it.
LEMMA ForkSizeOK ==
   ASSUME NEW d, NEW b, Good(d), HeaderApplies(d, b), NEW f, ForkOK(f)
   PROVE  ForkOK(set_max_size(f, ForkSize(d, b, f)))
<1>1. b \in Block /\ Parent[b] = d.head /\ d.lib \in Nat /\ d.lib <= Num[d.head]
      /\ d.head \in Block \cup {Genesis}
   BY Zenon DEF Good, HeaderApplies, States
<1>2. Num[b] \in Nat /\ Num[d.head] \in Nat /\ Num[b] = Num[d.head] + 1
   BY <1>1, BlockAssumption, Zenon
<1>3. f.head # NoBlock => Num[f.head] \in Nat
   BY BlockAssumption, Zenon DEF ForkOK, Forks
<1>4. ForkSize(d, b, f) \in Nat
   BY <1>1, <1>2, <1>3 DEF ForkSize
<1> QED
   BY <1>4, SetMaxSizeOK, Zenon
-----------------------------------------------------------------------------
(* The steps of the chain thread.                                           *)

\* Entries are written and dropped whole, but for a store a crash tears.
LEMMA LogStep ==
   ASSUME TInv, Next
   PROVE  LogInv'
<1>1. LogInv /\ DOMAIN log = {Num[b] : b \in Block}
      /\ \A n \in DOMAIN log : log[n] \in Entries
   BY Zenon DEF TInv, LogInv
<1>2. Missing \in Entries
   BY Zenon DEF Missing, Entries
<1>3. ASSUME log' = log, unsaved' = unsaved PROVE LogInv'
   BY <1>1, <1>3, Zenon DEF LogInv, Saved, Missing
<1>4. ASSUME NEW id \in Block, NEW b \in Block, store(id, b) PROVE LogInv'
   <2>1. [id |-> id, data |-> b] \in Entries
      BY Zenon DEF Entries
   <2>2. Num[id] \in DOMAIN log
      BY <1>1, Zenon
   <2>3. log' = [log EXCEPT ![Num[id]] = [id |-> id, data |-> b]]
         /\ unsaved' = [num |-> Num[id], was |-> log[Num[id]]]
      BY <1>4, Zenon DEF store
   <2>4. DOMAIN log' = DOMAIN log /\ \A n \in DOMAIN log : log'[n] \in Entries
      BY <1>1, <2>1, <2>3, Zenon
   <2>5. unsaved'.num \in DOMAIN log /\ unsaved'.was \in Entries
      BY <1>1, <2>2, <2>3, Zenon
   <2> QED
      BY <1>1, <2>4, <2>5, Zenon DEF LogInv
<1>5. ASSUME NEW n, log' = UpTo(n), unsaved' \in {unsaved, Saved} PROVE LogInv'
   <2>1. DOMAIN log' = DOMAIN log /\ \A k \in DOMAIN log : log'[k] \in Entries
      BY <1>1, <1>2, <1>5, Zenon DEF UpTo
   <2> QED
      BY <1>1, <1>5, <2>1, Zenon DEF LogInv, Saved, Missing
<1>6. job.pc \in PushPc => job.block \in Block
   BY Zenon DEF TInv, StartInv
<1>7. CASE append
   <2>1. job.block \in Block
      BY <1>6, <1>7, Zenon DEF append, PushPc
   <2> QED
      BY <1>3, <1>4, <1>7, <2>1, Zenon DEF append
<1>8. CASE apply_fork
   <2> DEFINE b == job.first[Len(job.first)]
   <2>1. Applies(db, b) => b \in Block
      BY Zenon DEF Applies, HeaderApplies
   <2>2. (Applies(db, b) /\ store(b, b)) \/ (log' = log /\ unsaved' = unsaved)
      BY <1>8, Zenon DEF apply_fork
   <2> QED
      BY <1>3, <1>4, <2>1, <2>2, Zenon
<1>9. CASE restore
   <2> DEFINE b == job.second[Len(job.second)]
   <2>1. job.block \in Block
      BY <1>6, <1>9, Zenon DEF restore, PushPc
   <2>2. Applies(db, b) /\ store(job.block, b)
      BY <1>9, Zenon DEF restore
   <2>3. b \in Block
      BY <2>2, Zenon DEF Applies, HeaderApplies
   <2> QED
      BY <1>4, <2>1, <2>2, <2>3, Zenon
<1>10. CASE pop_to_fork \/ unwind \/ push_block_end \/ rewind \/ close
   BY <1>3, <1>10, Zenon DEF pop_to_fork, unwind, pop, push_block_end, rewind, close, files
<1>11. CASE \/ \E b \in Block : push_block_begin(b)
            \/ \E b \in Block, k \in Nesting \cup {0} : generate_block(b, k)
            \/ \E k \in Nesting : \/ push_transaction(k) \/ validate_transaction(k)
                                  \/ generate_block_throws(k)
   BY <1>3, <1>11, Zenon DEF push_block_begin, generate_block, push_transaction,
      validate_transaction, generate_block_throws, files
<1>12. CASE flush
   <2>1. log' = log /\ unsaved' = Saved
      BY <1>12, Zenon DEF flush
   <2> QED
      BY <1>1, <2>1, Zenon DEF LogInv, Saved, Missing
<1>13. CASE crash
   <2>1. log' \in LogAfterCrash /\ unsaved' = Saved
      BY <1>13, Zenon DEF crash
   <2>2. CASE unsaved = Saved
      BY <1>1, <2>1, <2>2, Zenon DEF LogInv, LogAfterCrash, Saved, Missing
   <2>3. CASE unsaved # Saved
      <3>1. unsaved.num \in DOMAIN log /\ unsaved.was \in Entries
         BY <2>3, Zenon DEF TInv, LogInv
      <3>2. log' \in {log, [log EXCEPT ![unsaved.num] = unsaved.was],
                           [log EXCEPT ![unsaved.num].data = NoBlock]}
         BY <2>1, <2>3, Zenon DEF LogAfterCrash
      <3>3. [log[unsaved.num] EXCEPT !.data = NoBlock] \in Entries
         BY <1>1, <3>1, Zenon DEF Entries
      <3>4. DOMAIN log' = DOMAIN log /\ \A k \in DOMAIN log : log'[k] \in Entries
         BY <1>1, <3>1, <3>2, <3>3, ZenonT(30)
      <3> QED
         BY <1>1, <2>1, <3>4, Zenon DEF LogInv, Saved, Missing
   <2> QED
      BY <2>2, <2>3, Zenon
<1>14. CASE open
   BY <1>5, <1>14, Zenon DEF open
<1>15. CASE reindex
   BY <1>3, <1>5, <1>15, Zenon DEF reindex
<1> QED
   BY <1>7, <1>8, <1>9, <1>10, <1>11, <1>12, <1>13, <1>14, <1>15, ZenonT(30) DEF Next, Step, Call
\* push_block up to the choice of what to do.
LEMMA LinkTypes ==
   ASSUME ForkOK(fork), NEW b \in Block, NEW s, NEW replay, Link(b, s, replay)
   PROVE  /\ ForkOK(fork')
          /\ job'.pc \in {"append", "pop", "done"}
          /\ {"block", "start"} \subseteq DOMAIN job'
          /\ job'.block = b /\ job'.start = db
          /\ job'.pc = "pop" => db.head \in Block
<1> DEFINE f == push_block(fork, b)
<1>1. ForkOK(f)
   BY PushOK, Zenon
<1>2. fork' \in {fork, f}
   BY Zenon DEF Link
<1>3. /\ job'.pc \in {"append", "pop", "done"}
      /\ {"block", "start"} \subseteq DOMAIN job'
      /\ job'.block = b /\ job'.start = db
   BY DEF Link, Push
<1>4. job'.pc = "pop" => CanFetch(f, f.head, head_block)
   BY SMTT(30) DEF Link, Push
<1> HIDE DEF f
<1>5. CanFetch(f, f.head, head_block) => db.head \in Block
   BY <1>1, Zenon DEF CanFetch, head_block, ForkOK, Forks
<1> QED
   BY <1>1, <1>2, <1>3, <1>4, <1>5, Zenon

\* reindex pushes what it has read from the log.
LEMMA ReadBlock ==
   ASSUME TInv, NEW n, Intact(n)
   PROVE  log[n].data \in Block
<1>1. log[n] \in Entries
   BY Zenon DEF TInv, LogInv, Intact
<1>2. log[n].data # NoBlock
   BY <1>1, Zenon DEF Intact, Missing, Entries
<1> QED
   BY <1>1, <1>2, Zenon DEF Entries

\* What push_block and close remember stays what it was.
LEMMA StartStep ==
   ASSUME IInv, JobInv, TInv, Next
   PROVE  StartInv'
<1>1. StartInv /\ ForkOK(fork) /\ "pc" \in DOMAIN job
   BY Zenon DEF TInv, JobInv
<1>2. ASSUME job'.pc \in {"idle", "down", "replay"} PROVE StartInv'
   BY <1>2, Zenon DEF StartInv, PushPc
<1>3. ASSUME job' = job, expected' = expected, restarts' = restarts PROVE StartInv'
   BY <1>1, <1>3, Zenon DEF StartInv
<1>4. ASSUME NEW b \in Block, NEW s, NEW replay, Link(b, s, replay) PROVE StartInv'
   <2>1. db \in States
      BY Zenon DEF IInv, Good
   <2>2. /\ job'.pc \in {"append", "pop", "done"}
         /\ {"block", "start"} \subseteq DOMAIN job'
         /\ job'.block = b /\ job'.start = db
         /\ job'.pc = "pop" => db.head \in Block
      BY <1>1, <1>4, LinkTypes, Zenon
   <2> QED
      BY <2>1, <2>2, Zenon DEF StartInv, PushPc
<1>5. ASSUME job.pc \in PushPc, DOMAIN job' = DOMAIN job, job'.pc \in PushPc,
             job'.block = job.block, job'.start = job.start,
             job'.pc \in {"pop", "apply"} => job.pc \in {"pop", "apply"}
      PROVE  StartInv'
   BY <1>1, <1>5, Zenon DEF StartInv, PushPc
<1>6. job.pc \in PushPc => {"block", "start"} \subseteq DOMAIN job
   BY <1>1, Zenon DEF StartInv
<1>7. CASE append
   <2>1. job.pc = "append"
      BY <1>7, Zenon DEF append
   <2>2. {"block", "start"} \subseteq DOMAIN job
      BY <1>6, <2>1, Zenon DEF PushPc
   <2>3. /\ DOMAIN job' = DOMAIN job /\ job'.pc = "done"
         /\ job'.block = job.block /\ job'.start = job.start
      BY <1>1, <1>7, <2>2, Zenon DEF append, Throw
   <2> QED
      BY <1>5, <2>1, <2>3, Zenon DEF PushPc
<1>8. CASE apply_fork
   <2>1. job.pc = "apply"
      BY <1>8, Zenon DEF apply_fork
   <2>2. {"block", "start"} \subseteq DOMAIN job
      BY <1>6, <2>1, Zenon DEF PushPc
   <2>3. /\ DOMAIN job' = DOMAIN job /\ job'.pc \in {"apply", "done", "unwind"}
         /\ job'.block = job.block /\ job'.start = job.start
      BY <1>1, <1>8, <2>1, <2>2, Zenon DEF apply_fork
   <2> QED
      BY <1>5, <2>1, <2>3, Zenon DEF PushPc
<1>9. CASE restore
   <2>1. job.pc = "restore"
      BY <1>9, Zenon DEF restore
   <2>2. {"block", "start"} \subseteq DOMAIN job
      BY <1>6, <2>1, Zenon DEF PushPc
   <2>3. /\ DOMAIN job' = DOMAIN job /\ job'.pc \in {"restore", "done"}
         /\ job'.block = job.block /\ job'.start = job.start
      BY <1>1, <1>9, <2>1, <2>2, Zenon DEF restore
   <2> QED
      BY <1>5, <2>1, <2>3, Zenon DEF PushPc
<1>10. ASSUME NEW next, pop(next), job.pc \in PushPc
       PROVE  /\ DOMAIN job' = DOMAIN job
              /\ job'.block = job.block /\ job'.start = job.start
              /\ job'.pc \in {next, job.pc, "done"}
   <2>1. {"block", "start"} \subseteq DOMAIN job
      BY <1>6, <1>10, Zenon
   <2> QED
      BY <1>1, <1>10, <2>1, Zenon DEF pop, Throw
<1>11. CASE pop_to_fork
   BY <1>5, <1>10, <1>11, Zenon DEF pop_to_fork, PushPc
<1>12. CASE unwind
   BY <1>5, <1>10, <1>12, SMTT(30), Z3T(30) DEF unwind, PushPc
<1>13. CASE push_block_end
   <2>1. job' = Idle \/ job' = Down(TRUE)
         \/ job' = Replay(job.replay.next + 1, job.replay.last)
      BY <1>13, Zenon DEF push_block_end
   <2> QED
      BY <1>2, <2>1 DEF Idle, Down, Replay
<1>14. CASE rewind
   <2>1. job.pc = "rewind" /\ expected' = expected /\ restarts' = restarts
      BY <1>14, Zenon DEF rewind
   <2>2. job'.pc = "rewind"
      BY <1>1, <1>14, <2>1, Zenon DEF rewind
   <2> QED
      BY <1>1, <2>1, <2>2, Zenon DEF StartInv, PushPc
<1>15. CASE close
   <2>1. db \in States
      BY Zenon DEF IInv, Good
   <2>2. /\ job'.pc = "rewind" /\ expected' = db.head
         /\ restarts < MaxRestarts /\ restarts' = restarts
      BY <1>15, Zenon DEF close, head_block
   <2> QED
      BY <2>1, <2>2, Zenon DEF StartInv, PushPc, States
<1>16. CASE flush \/ crash
   BY <1>2, <1>16, SMTT(30), Z3T(30) DEF flush, crash, Down
<1>17. CASE open
   <2>1. PICK n \in {0} \cup DOMAIN log :
            job' \in {Idle, Down(TRUE), Replay(Num[disk.head] + 1, n)}
      BY <1>17, Zenon DEF open
   <2> QED
      BY <1>2, <2>1 DEF Idle, Down, Replay
<1>18. CASE reindex
   <2> DEFINE n == job.next
   <2>1. \/ job' \in {Idle, Down(TRUE), Replay(n + 1, job.last)}
         \/ Intact(n) /\ Link(log[n].data, Cleared, job)
      BY <1>18, Zenon DEF reindex
   <2>2. CASE job' \in {Idle, Down(TRUE), Replay(n + 1, job.last)}
      <3>1. Idle.pc = "idle" /\ Down(TRUE).pc = "down"
         BY Zenon DEF Idle, Down
      <3>2. Replay(n + 1, job.last).pc = "replay"
         BY Zenon DEF Replay
      <3> HIDE DEF n
      <3>3. job'.pc \in {"idle", "down", "replay"}
         BY <2>2, <3>1, <3>2, Zenon
      <3> QED
         BY <1>2, <3>3, Zenon
   <2>3. CASE Intact(n) /\ Link(log[n].data, Cleared, job)
      BY <1>4, <2>3, ReadBlock, Zenon
   <2> QED
      BY <2>1, <2>2, <2>3, Zenon
<1>19. CASE \E b \in Block : push_block_begin(b)
   BY <1>4, <1>19, Zenon DEF push_block_begin
<1>20. CASE \E b \in Block, k \in Nesting \cup {0} : generate_block(b, k)
   BY <1>4, <1>20, Zenon DEF generate_block
<1>21. CASE \E k \in Nesting : \/ push_transaction(k) \/ validate_transaction(k)
                               \/ generate_block_throws(k)
   BY <1>3, <1>21, Zenon DEF push_transaction, validate_transaction, generate_block_throws
<1> QED
   BY <1>7, <1>8, <1>9, <1>11, <1>12, <1>13, <1>14, <1>15, <1>16, <1>17, <1>18,
      <1>19, <1>20, <1>21, ZenonT(30) DEF Next, Step, Call
\* The fork database: its head moves along live pointers, or back to the head
\* the switch began with.
LEMMA ForkStep ==
   ASSUME IInv, JobInv, TInv, Next
   PROVE  ForkOK(fork')
<1>1. ForkOK(fork) /\ StartInv /\ Good(db)
   BY Zenon DEF TInv, IInv
<1>2. ASSUME fork' = fork PROVE ForkOK(fork')
   BY <1>1, <1>2, Zenon
<1>3. ASSUME NEW b \in Block, NEW s, NEW replay, Link(b, s, replay) PROVE ForkOK(fork')
   BY <1>1, <1>3, LinkTypes, Zenon
<1>4. ASSUME NEW b, Applies(db, b), apply_block(b) PROVE ForkOK(fork')
   <2>1. fork' = set_max_size(fork, ForkSize(db, b, fork)) /\ HeaderApplies(db, b)
      BY <1>4, Zenon DEF apply_block, Applies
   <2> QED
      BY <1>1, <2>1, ForkSizeOK, Zenon
<1>5. ASSUME NEW b, NEW sized \in BOOLEAN, apply_fails(b, sized)
      PROVE  ForkOK(ForksAfter(b, sized))
   <2>1. sized => HeaderApplies(db, b)
      BY <1>5, Zenon DEF apply_fails
   <2>2. CASE sized
      BY <1>1, <2>1, <2>2, ForkSizeOK, Zenon DEF ForksAfter
   <2>3. CASE ~sized
      BY <1>1, <2>3, Zenon DEF ForksAfter
   <2> QED
      BY <2>2, <2>3, Zenon
<1>6. ForkOK(HalfPopped)
   BY <1>1, PopOK, Zenon DEF HalfPopped
<1>7. CASE append
   <2>1. job.block \in Block
      BY <1>1, <1>7, Zenon DEF append, StartInv, PushPc
   <2>2. CASE Applies(db, job.block) /\ apply_block(job.block)
      BY <1>4, <2>2, Zenon
   <2>3. ASSUME NEW sized \in BOOLEAN, apply_fails(job.block, sized),
                fork' = remove(ForksAfter(job.block, sized), job.block)
         PROVE  ForkOK(fork')
      BY <1>5, <2>1, <2>3, RemoveOK, Zenon
   <2> QED
      BY <1>7, <2>2, <2>3, Zenon DEF append
<1>8. CASE apply_fork
   <2> DEFINE n == Len(job.first)
              b == job.first[n]
              rest == {job.first[k] : k \in 1..n}
   <2>1. job.start.head \in Block
      BY <1>1, <1>8, Zenon DEF apply_fork, StartInv
   <2>2. CASE Applies(db, b) /\ apply_block(b)
      BY <1>4, <2>2, Zenon
   <2>3. ASSUME NEW sized \in BOOLEAN, apply_fails(b, sized),
                fork' = set_head(Erase(ForksAfter(b, sized), rest), job.start.head)
         PROVE  ForkOK(fork')
      <3>1. ForkOK(Erase(ForksAfter(b, sized), rest))
         BY <1>5, <2>3, EraseOK, Zenon
      <3> QED
         BY <2>1, <2>3, <3>1, HeadOK, Zenon DEF set_head
   <2>4. \/ Applies(db, b) /\ apply_block(b)
         \/ \E sized \in BOOLEAN :
               /\ apply_fails(b, sized)
               /\ fork' = set_head(Erase(ForksAfter(b, sized), rest), job.start.head)
      BY <1>8, Zenon DEF apply_fork
   <2> QED
      BY <2>2, <2>3, <2>4, Zenon
<1>9. CASE restore
   <2> DEFINE b == job.second[Len(job.second)]
   <2>1. Applies(db, b) /\ apply_block(b)
      BY <1>9, Zenon DEF restore
   <2> QED
      BY <1>4, <2>1, Zenon
<1>10. CASE pop_to_fork \/ unwind
   <2>1. fork' \in {fork, HalfPopped}
      BY <1>10, Zenon DEF pop_to_fork, unwind, pop
   <2> QED
      BY <1>1, <1>6, <2>1, Zenon
<1>11. CASE rewind
   <2>1. CASE CanPopBlock /\ fork' = remove(pop_block(fork), head_block)
      <3>1. ForkOK(pop_block(fork))
         BY <1>1, <2>1, PopOK, Zenon DEF CanPopBlock
      <3>2. head_block \in Block
         <4>1. ~pending /\ Chained(Cleared, db) /\ undo \in Seq(States)
            BY <1>11, Zenon DEF rewind, IInv
         <4>2. undo # << >> /\ Chained(undo, db)
            BY <2>1, <4>1, Zenon DEF CanPopBlock, Cleared
         <4>3. Len(undo) \in 1..Len(undo)
            BY <4>1, <4>2
         <4>4. Follows(undo[Len(undo)], db)
            BY <4>2, <4>3, Zenon DEF Chained
         <4> QED
            BY <4>4, Zenon DEF Follows, head_block
      <3> QED
         BY <2>1, <3>1, <3>2, RemoveOK, Zenon
   <2>2. CASE fork' = HalfPopped
      BY <1>6, <2>2, Zenon
   <2> QED
      BY <1>11, <2>1, <2>2, Zenon DEF rewind
<1>12. CASE flush \/ crash
   BY <1>12, StartOK, Zenon DEF flush, crash
<1>13. CASE open
   <2>1. fork' = NoForks \/ \E n \in Nat : Intact(n) /\ fork' = start_block(NoForks, log[n].data)
      <3>1. Num[disk.head] \in Nat
         BY BlockAssumption, Zenon DEF IInv, Good, States
      <3> QED
         BY <1>13, <3>1, Zenon DEF open
   <2> QED
      BY <2>1, StartOK, ReadBlock, Zenon
<1>14. CASE reindex
   <2> DEFINE b == log[job.next].data
   <2>1. \/ fork' = fork
         \/ Applies(db, b) /\ fork' = set_max_size(fork, ForkSize(db, b, fork))
         \/ Intact(job.next) /\ Link(b, Cleared, job)
      BY <1>14, Zenon DEF reindex, memory
   <2>2. CASE Applies(db, b) /\ fork' = set_max_size(fork, ForkSize(db, b, fork))
      BY <1>1, <2>2, ForkSizeOK, Zenon DEF Applies
   <2>3. CASE Intact(job.next) /\ Link(b, Cleared, job)
      BY <1>3, <2>3, ReadBlock, Zenon
   <2> QED
      BY <1>2, <2>1, <2>2, <2>3, ZenonT(30)
<1>15. CASE \E b \in Block : push_block_begin(b)
   BY <1>3, <1>15, Zenon DEF push_block_begin
<1>16. CASE \E b \in Block, k \in Nesting \cup {0} : generate_block(b, k)
   BY <1>3, <1>16, Zenon DEF generate_block
<1>17. CASE \/ push_block_end \/ close
            \/ \E k \in Nesting : \/ push_transaction(k) \/ validate_transaction(k)
                                  \/ generate_block_throws(k)
   BY <1>2, <1>17, Zenon DEF push_block_end, close, push_transaction, validate_transaction,
      generate_block_throws
<1> QED
   BY <1>7, <1>8, <1>9, <1>10, <1>11, <1>12, <1>13, <1>14, <1>15, <1>16, <1>17, ZenonT(30)
      DEF Next, Step, Call

\* The history variables.
LEMMA HistoryStep ==
   ASSUME IInv, JobInv, TInv, Next, IInv'
   PROVE  /\ restarts' \in 0..MaxRestarts
          /\ expected' \in Block \cup {Genesis, NoBlock}
          /\ final' \in Nat
<1> DEFINE E == Block \cup {Genesis, NoBlock}
<1>1. /\ restarts \in 0..MaxRestarts /\ expected \in E /\ final \in Nat
      /\ StartInv /\ MaxRestarts \in Nat
   BY ChainAssumption, Zenon DEF TInv
<1>2. db.head \in Block \cup {Genesis} /\ disk.head \in Block \cup {Genesis}
      /\ db'.lib \in Nat
   BY Zenon DEF IInv, Good, States
<1>3. final' \in Nat
   BY <1>1, <1>2, Zenon DEF Next, Step, Call, Observe
<1>4. CASE close
   BY <1>1, <1>2, <1>3, <1>4, ZenonT(30) DEF close, head_block
<1>5. CASE flush
   <2>1. restarts < MaxRestarts
      BY <1>1, <1>5, ZenonT(30) DEF flush, StartInv
   <2> QED
      BY <1>1, <1>3, <1>5, <2>1, SMTT(30), Z3T(30) DEF flush
<1>6. CASE crash
   <2>1. restarts < MaxRestarts /\ restarts' = restarts + 1 /\ job.pc # "down"
         /\ expected' = Surviving
      BY <1>6, Zenon DEF crash
   <2>2. ASSUME NEW b \in Block \cup {Genesis} PROVE Before(b) \in E
      BY BlockAssumption, Zenon DEF Before
   <2>3. Flushed \in E /\ Before(head_block) \in E
      BY <1>2, <2>2, Zenon DEF Flushed, head_block
   <2>4. job.pc = "rewind" => Before(expected) \in E
      BY <1>1, <2>2, Zenon DEF StartInv
   <2>5. job.pc = "pop" => Before(job.start.head) \in E
      BY <1>1, <2>2, Zenon DEF StartInv
   <2>6. Surviving \in E
      BY <1>1, <2>1, <2>3, <2>4, <2>5, Zenon DEF Surviving
   <2> QED
      BY <1>1, <1>3, <2>1, <2>6, SMTT(30), Z3T(30)
<1>7. ASSUME restarts' = restarts, expected' = expected
      PROVE  restarts' \in 0..MaxRestarts /\ expected' \in E
   BY <1>1, <1>7, Zenon
<1>8. CASE append \/ pop_to_fork \/ apply_fork \/ unwind \/ restore
           \/ push_block_end \/ rewind \/ reindex \/ open
   BY <1>3, <1>7, <1>8, ZenonT(30) DEF append, pop_to_fork, apply_fork, unwind, restore, pop,
      push_block_end, rewind, reindex, open
<1>9. CASE \/ \E b \in Block : push_block_begin(b)
           \/ \E b \in Block, k \in Nesting \cup {0} : generate_block(b, k)
           \/ \E k \in Nesting : \/ push_transaction(k) \/ validate_transaction(k)
                                 \/ generate_block_throws(k)
   BY <1>3, <1>7, <1>9, Zenon DEF push_block_begin, generate_block, push_transaction,
      validate_transaction, generate_block_throws
<1> QED
   BY <1>4, <1>5, <1>6, <1>8, <1>9, ZenonT(30) DEF Next, Step, Call

-----------------------------------------------------------------------------
(* The theorem.                                                             *)

\* The inductive invariant holds in every state.
LEMMA TypesHold == Spec => [](IInv /\ JobInv /\ TInv)
<1>1. Init => TInv
   <2> SUFFICES ASSUME Init PROVE TInv
      BY Zenon
   <2>1. ForkOK(fork)
      BY StartOK, Zenon DEF Init
   <2>2. LogInv
      BY Zenon DEF Init, LogInv, Missing, Entries
   <2>3. StartInv
      BY Zenon DEF Init, StartInv, Idle, PushPc
   <2> QED
      BY <2>1, <2>2, <2>3, ChainAssumption, SMTT(30), Z3T(30) DEF Init, TInv
<1>2. ASSUME IInv, JobInv, TInv, IInv', Next PROVE TInv'
   <2>1. ForkOK(fork)'
      BY <1>2, ForkStep, Zenon DEF ForkOK, Forks
   <2> QED
      BY <1>2, <2>1, LogStep, StartStep, HistoryStep, Zenon DEF TInv
<1>3. ASSUME TInv, UNCHANGED vars PROVE TInv'
   BY <1>3, Zenon DEF TInv, ForkOK, LogInv, StartInv, vars, memory, files
<1>4. TInv /\ (IInv /\ JobInv) /\ (IInv /\ JobInv)' /\ [Next]_vars => TInv'
   BY <1>2, <1>3, Zenon
<1> QED
   BY <1>1, <1>4, InvariantHolds, PTL DEF Spec

\* Every variable keeps its type, for every tree of blocks: in particular the
\* head of the fork database is a block or null after any pop_block, set_head,
\* remove or set_max_size, and its size limit is not negative.
THEOREM TypeCorrect == Spec => []TypeOK
<1>1. IInv /\ TInv => TypeOK
   BY Zenon DEF IInv, TInv, TypeOK, Good, ForkOK, LogInv, Entries
<1> QED
   BY <1>1, TypesHold, PTL

-----------------------------------------------------------------------------
(* The branches fetch_branch_from returns.                                  *)

\* What is below an item.
PrevItem(f, c) == IF c \in f.links THEN Parent[c] ELSE NoBlock

\* The walk down the pointers takes one step at a time.
LEMMA BelowWalk ==
   ASSUME NEW f, NEW b, Num[b] \in Nat
   PROVE  /\ Below(f, b)[0] = b
          /\ \A k \in 1..Num[b] : Below(f, b)[k] = PrevItem(f, Below(f, b)[k - 1])
<1> DEFINE Val(p, k) == IF k = 0 THEN b ELSE PrevItem(f, p[k - 1])
           Walk(p, m) == p = [k \in 0..m |-> Val(p, k)]
           T == {m \in Nat : ~ \E p : Walk(p, m)}
<1>1. T = {}
   <2> SUFFICES ASSUME T # {} PROVE FALSE
      BY Zenon
   <2>1. PICK m \in T : \A k \in T : m <= k
      BY LeastNumber, Zenon
   <2>2. m \in Nat /\ ~ \E p : Walk(p, m)
      BY Zenon
   <2>3. m # 0
      <3> DEFINE p == [k \in 0..0 |-> b]
      <3>1. Walk(p, 0)
         OBVIOUS
      <3> QED
         BY <2>2, <3>1, Zenon
   <2>4. m - 1 \in Nat /\ ~(m <= m - 1)
      BY <2>2, <2>3
   <2>5. PICK q : Walk(q, m - 1)
      BY <2>1, <2>4, Zenon
   <2> DEFINE p == [k \in 0..m |-> IF k = m THEN PrevItem(f, q[m - 1]) ELSE q[k]]
   <2>6. ASSUME NEW k \in 0..m PROVE p[k] = Val(p, k)
      <3>1. CASE k = m
         BY <2>2, <2>3, <3>1
      <3>2. CASE k # m
         <4>1. k \in 0..(m - 1) /\ p[k] = q[k]
            BY <2>2, <3>2
         <4>2. k # 0 => k - 1 \in 0..m /\ k - 1 # m
            BY <2>2
         <4>3. q[k] = Val(q, k)
            BY <2>5, <4>1, Zenon
         <4> QED
            BY <4>1, <4>2, <4>3, Zenon
      <3> QED
         BY <3>1, <3>2, Zenon
   <2>7. Walk(p, m)
      <3>1. p = [k \in 0..m |-> p[k]]
         BY Zenon
      <3> HIDE DEF p
      <3> QED
         BY <2>6, <3>1, Zenon
   <2> QED
      BY <2>2, <2>7, Zenon
<1>2. \E p : Walk(p, Num[b])
   BY <1>1, Zenon
<1>3. Below(f, b) = CHOOSE p : Walk(p, Num[b])
   BY Zenon DEF Below, PrevItem
<1> DEFINE p == Below(f, b)
<1>4. Walk(p, Num[b])
   <2> HIDE DEF Walk, T
   <2> QED
      BY <1>2, <1>3, Zenon
<1> HIDE DEF p
<1>5. \A k \in 0..Num[b] : p[k] = Val(p, k)
   BY <1>4, Zenon
<1>6. \A k \in 1..Num[b] : k \in 0..Num[b] /\ k # 0
   OBVIOUS
<1> QED
   BY <1>5, <1>6 DEF p

\* A branch from y down to where another one meets it.
Descends(s, y) ==
   /\ s \in Seq(Block) /\ Len(s) >= 1 /\ s[1] = y
   /\ \A k \in 1..Len(s) : k < Len(s) => s[k + 1] = Parent[s[k]]

LEMMA BranchDescends ==
   ASSUME NEW f, ForkOK(f), NEW x, NEW y \in Block, NEW n \in Meets(f, x, y)
   PROVE  Descends(Branch(f, y, n), y)
<1> DEFINE q == Below(f, y)
           N == Num[y]
           M == N - n
           s == Branch(f, y, n)
<1>1. N \in Nat
   BY BlockAssumption, Zenon
<1>2. q[0] = y /\ \A k \in 1..N : q[k] = PrevItem(f, q[k - 1])
   BY <1>1, BelowWalk, SMTT(30), Z3T(30)
<1>3. n \in Nat /\ n >= 1 /\ n <= N /\ q[M] # NoBlock
   BY DEF Meets
<1>4. s = [k \in 1..M + 1 |-> q[k - 1]]
   BY Zenon DEF Branch
<1> HIDE DEF q, N, s
<1>5. M \in Nat /\ M <= N
   BY <1>1, <1>3
<1> HIDE DEF M
<1>6. ASSUME NEW k \in 0..M PROVE q[k] # NoBlock
   <2> SUFFICES ASSUME q[k] = NoBlock PROVE FALSE
      BY Zenon
   <2> DEFINE T == {i \in Nat : i >= k /\ i <= M /\ q[i] # NoBlock}
   <2>1. M \in T
      BY <1>3, <1>5
   <2>2. PICK i \in T : \A j \in T : i <= j
      BY <2>1, LeastNumber, Zenon
   <2>3. i \in Nat /\ i > k /\ i <= M
      BY <2>2
   <2>4. i \in 1..N /\ i - 1 \in Nat /\ i - 1 >= k /\ i - 1 <= M /\ ~(i <= i - 1)
      BY <1>1, <1>5, <2>3, SMTT(30), Z3T(30)
   <2>5. q[i - 1] = NoBlock
      BY <2>2, <2>4, Zenon
   <2>6. NoBlock \notin f.links
      BY BlockAssumption, Zenon DEF ForkOK, Forks
   <2> QED
      BY <1>2, <2>2, <2>4, <2>5, <2>6, Zenon DEF PrevItem
<1>7. ASSUME NEW k \in 0..M, k # 0
      PROVE  q[k - 1] \in f.links /\ q[k] = Parent[q[k - 1]] /\ q[k] \in Block
   <2>1. k \in 1..N
      BY <1>1, <1>5, <1>7
   <2>2. q[k] = PrevItem(f, q[k - 1]) /\ q[k] # NoBlock
      BY <1>2, <1>6, <2>1, Zenon
   <2> QED
      BY <2>2, Zenon DEF PrevItem, ForkOK
<1>8. ASSUME NEW k \in 0..M PROVE q[k] \in Block
   BY <1>2, <1>7, Zenon
<1>9. s \in Seq(Block) /\ Len(s) = M + 1
   BY <1>4, <1>5, <1>8, SMTT(30), Z3T(30)
<1>10. s[1] = y
   BY <1>2, <1>4, <1>5
<1>11. ASSUME NEW k \in 1..Len(s), k < Len(s) PROVE s[k + 1] = Parent[s[k]]
   <2>1. k \in 0..M /\ k # 0 /\ k \in 1..M + 1 /\ k + 1 \in 1..M + 1 /\ (k + 1) - 1 = k
      BY <1>5, <1>9, <1>11, SMTT(30), Z3T(30)
   <2> QED
      BY <1>4, <1>7, <2>1, Zenon
<1>12. Len(s) >= 1
   BY <1>5, <1>9
<1> QED
   BY <1>9, <1>10, <1>11, <1>12, Zenon DEF Descends, s

\* fetch_branch_from returns the branch of the second block.
LEMMA FetchDescends ==
   ASSUME NEW f, ForkOK(f), NEW x, NEW y, CanFetch(f, x, y)
   PROVE  Descends(fetch_branch_from(f, x, y).second, y)
<1> DEFINE S == Meets(f, x, y)
           n == CHOOSE n \in S : \A k \in S : k <= n
<1>1. x \in Block /\ y \in Block /\ S # {}
   BY Zenon DEF CanFetch, ForkOK, Forks
<1>2. Num[x] \in Nat /\ S \in SUBSET (0..Num[x])
   BY <1>1, BlockAssumption DEF Meets
<1>3. fetch_branch_from(f, x, y).second = Branch(f, y, n)
   BY Zenon DEF fetch_branch_from
<1> HIDE DEF S
<1>4. \E k \in S : \A m \in S : m <= k
   BY <1>1, <1>2, HighestNumber, Zenon
<1>5. n \in S
   BY <1>4, Zenon
<1> HIDE DEF n
<1> QED
   BY <1>1, <1>3, <1>5, BranchDescends, Zenon DEF S

-----------------------------------------------------------------------------
(* The blocks of the chain.                                                 *)

Known == Block \cup {Genesis}

\* The previous block of a block of S is in S.
Closed(S) == \A c \in S : c # Genesis => Parent[c] \in S

\* Each block of the branch of h applies in the state of the block before it.
Passed(h) ==
   \E S \in SUBSET Known :
      /\ h \in S /\ Closed(S)
      /\ \A b \in S : b # Genesis => Applies(StateOf[Parent[b]], b)

\* A block more.
LEMMA PassedBlock ==
   ASSUME NEW d, Good(d), Passed(d.head), NEW b, Applies(d, b)
   PROVE  Passed(Applied(d, b).head)
<1>1. /\ b \in Block /\ Parent[b] = d.head /\ d = StateOf[d.head]
      /\ Applied(d, b).head = b
   BY Zenon DEF Applies, HeaderApplies, Good, Applied
<1>2. PICK S \in SUBSET Known :
         /\ d.head \in S /\ Closed(S)
         /\ \A c \in S : c # Genesis => Applies(StateOf[Parent[c]], c)
   BY Zenon DEF Passed
<1> DEFINE T == S \cup {b}
<1>3. T \in SUBSET Known /\ b \in T
   BY <1>1, Zenon DEF Known
<1>4. Closed(T)
   BY <1>1, <1>2, Zenon DEF Closed
<1>5. \A c \in T : c # Genesis => Applies(StateOf[Parent[c]], c)
   BY <1>1, <1>2, Zenon
<1> HIDE DEF T
<1> QED
   BY <1>1, <1>3, <1>4, <1>5, Zenon DEF Passed

\* A block less.
LEMMA PassedParent ==
   ASSUME NEW h \in Block, Passed(h)
   PROVE  Passed(Parent[h])
BY BlockAssumption, Zenon DEF Passed, Closed

\* The chain and the state on disk consist of such blocks.
LEMMA PassedStep ==
   ASSUME IInv, JobInv, TInv, Passed(db.head), Passed(disk.head), Next
   PROVE  Passed(db'.head) /\ Passed(disk'.head)
<1>1. Good(db) /\ (job.pc # "idle" => ~pending)
   BY Zenon DEF IInv
<1>2. ASSUME db' = db, disk' = disk PROVE Passed(db'.head) /\ Passed(disk'.head)
   BY <1>2, Zenon
<1>3. ASSUME NEW b, Applies(db, b) PROVE Passed(Applied(db, b).head)
   BY <1>1, <1>3, PassedBlock, Zenon
<1>4. ASSUME db' = undo[Len(undo)], undo # << >>, ~pending PROVE Passed(db'.head)
   <2>1. Chained(undo, db) /\ undo \in Seq(States)
      BY <1>4, Zenon DEF IInv, Cleared
   <2>2. Len(undo) \in 1..Len(undo)
      BY <1>4, <2>1
   <2>3. Follows(undo[Len(undo)], db)
      BY <2>1, <2>2, Zenon DEF Chained
   <2> QED
      BY <1>4, <2>3, PassedParent, Zenon DEF Follows
<1>5. CASE append \/ restore
   <2>1. disk' = disk
      BY <1>5, Zenon DEF append, restore
   <2>2. db' = db \/ (\E b : Applies(db, b) /\ db' = Applied(db, b))
      BY <1>5, ZenonT(30) DEF append, restore, apply_block, apply_fails
   <2> QED
      BY <1>3, <2>1, <2>2, Zenon
<1>6. CASE apply_fork
   <2>1. disk' = disk
      BY <1>6, Zenon DEF apply_fork
   <2>2. db' = db \/ (\E b : Applies(db, b) /\ db' = Applied(db, b))
      BY <1>6, Zenon DEF apply_fork, apply_block, apply_fails
   <2> QED
      BY <1>3, <2>1, <2>2, Zenon
<1>7. CASE pop_to_fork \/ unwind \/ rewind
   <2>1. disk' = disk /\ ~pending
      BY <1>1, <1>7, Zenon DEF pop_to_fork, unwind, rewind, pop, files
   <2>2. db' = db \/ (undo # << >> /\ db' = undo[Len(undo)])
      BY <1>7, Zenon DEF pop_to_fork, unwind, rewind, pop, CanPopBlock
   <2> QED
      BY <1>4, <2>1, <2>2, Zenon
<1>8. CASE flush \/ crash \/ open
   <2>1. db' \in {db, disk} /\ disk' \in {db, disk}
      BY <1>8, Zenon DEF flush, crash, open, Loaded
   <2> QED
      BY <2>1, Zenon
<1>9. CASE reindex
   <2> DEFINE b == log[job.next].data
   <2>1. disk' \in {db, disk}
      BY <1>9, Zenon DEF reindex
   <2>2. db' = db \/ (Applies(db, b) /\ db' = Applied(db, b))
      BY <1>9, Zenon DEF reindex, memory, Link
   <2> QED
      BY <1>3, <2>1, <2>2, Zenon
<1>10. CASE \/ push_block_end \/ close
            \/ \E b \in Block : push_block_begin(b)
            \/ \E b \in Block, k \in Nesting \cup {0} : generate_block(b, k)
            \/ \E k \in Nesting : \/ push_transaction(k) \/ validate_transaction(k)
                                  \/ generate_block_throws(k)
   BY <1>2, <1>10, ZenonT(30) DEF push_block_end, close, push_block_begin, generate_block,
      push_transaction, validate_transaction, generate_block_throws, Link, files
<1> QED
   BY <1>5, <1>6, <1>7, <1>8, <1>9, <1>10, ZenonT(30) DEF Next, Step, Call

-----------------------------------------------------------------------------
(* What a switch can go back to.                                            *)

\* The branch s of block h, each block of which applies in the state before it.
Restorable(s, h) ==
   /\ Descends(s, h)
   /\ \A k \in 1..Len(s) : Applies(StateOf[Parent[s[k]]], s[k])

SwitchPc == {"pop", "apply", "unwind", "restore"}

\* push_block knows where it began, and how to get there from the fork point.
SwitchInv ==
   /\ job.pc \in PushPc => Good(job.start) /\ {"second", "failed"} \subseteq DOMAIN job
   /\ job.pc \in {"append", "pop", "apply", "unwind"} => job.failed = FALSE
   /\ job.pc = "append" => db = job.start
   /\ job.pc \in SwitchPc => Restorable(job.second, job.start.head)
   /\ job.pc = "restore" => db.head = Parent[job.second[Len(job.second)]]

\* The blocks of a branch that has passed can be applied again.
LEMMA DescendsPassed ==
   ASSUME NEW h, NEW s, Descends(s, h), Passed(h)
   PROVE  Restorable(s, h)
<1>1. PICK S \in SUBSET Known :
         /\ h \in S /\ Closed(S)
         /\ \A b \in S : b # Genesis => Applies(StateOf[Parent[b]], b)
   BY Zenon DEF Passed
<1>2. s \in Seq(Block) /\ Len(s) \in Nat /\ Len(s) >= 1 /\ s[1] = h
   BY DEF Descends
<1> DEFINE T == {k \in Nat : k >= 1 /\ k <= Len(s) /\ s[k] \notin S}
<1>3. T = {}
   <2> SUFFICES ASSUME T # {} PROVE FALSE
      BY Zenon
   <2>1. PICK k \in T : \A j \in T : k <= j
      BY LeastNumber, Zenon
   <2>2. k \in Nat /\ k >= 1 /\ k <= Len(s) /\ s[k] \notin S
      BY Zenon
   <2>3. k # 1
      BY <1>1, <1>2, <2>2, ZenonT(30)
   <2>4. /\ k - 1 \in Nat /\ k - 1 >= 1 /\ k - 1 <= Len(s) /\ ~(k <= k - 1)
         /\ k - 1 \in 1..Len(s) /\ k - 1 < Len(s) /\ (k - 1) + 1 = k
      BY <1>2, <2>2, <2>3, SMTT(30), Z3T(30)
   <2>5. s[k - 1] \in S /\ s[k - 1] \in Block
      BY <1>2, <2>1, <2>4, SMTT(30), Z3T(30)
   <2>6. s[k] = Parent[s[k - 1]]
      BY <2>4, Zenon DEF Descends
   <2> QED
      BY <1>1, <2>2, <2>5, <2>6, BlockAssumption, ZenonT(30) DEF Closed
<1>4. ASSUME NEW k \in 1..Len(s) PROVE Applies(StateOf[Parent[s[k]]], s[k])
   <2>1. s[k] \in S /\ s[k] \in Block
      BY <1>2, <1>3
   <2> QED
      BY <1>1, <2>1, BlockAssumption, ZenonT(30)
<1> QED
   BY <1>4, Zenon DEF Restorable

\* A block is pushed.
LEMMA SwitchLinked ==
   ASSUME IInv, TInv, Passed(db.head), NEW b \in Block, NEW s, NEW replay,
          Link(b, s, replay)
   PROVE  SwitchInv'
<1> DEFINE f == push_block(fork, b)
           br == fetch_branch_from(f, f.head, head_block)
           j(pc, first, second) == Push(pc, b, first, second, db, replay)
<1>1. ForkOK(f) /\ Good(db) /\ db' = db
   BY PushOK, Zenon DEF TInv, IInv, Link
<1>2. \/ job' = [j("done", << >>, << >>) EXCEPT !.failed = TRUE]
      \/ job' = j("append", << >>, << >>)
      \/ job' = j("done", << >>, << >>)
      \/ CanFetch(f, f.head, head_block) /\ job' = j("pop", br.first, br.second)
   BY Zenon DEF Link
<1>3. CanFetch(f, f.head, head_block) => Restorable(br.second, db.head)
   BY <1>1, FetchDescends, DescendsPassed, Zenon DEF head_block
<1> HIDE DEF f, br
<1>4. job'.start = db /\ {"second", "failed"} \subseteq DOMAIN job'
   BY <1>2 DEF Push
<1>5. job'.pc \in {"append", "pop"} => job'.failed = FALSE
   BY <1>2, SMTT(30), Z3T(30) DEF Push
<1>6. job'.pc \in {"append", "pop", "done"}
   BY <1>2 DEF Push
<1>7. job'.pc = "pop" => Restorable(job'.second, db.head)
   BY <1>2, <1>3, SMTT(30), Z3T(30) DEF Push
<1> QED
   BY <1>1, <1>4, <1>5, <1>6, <1>7, ZenonT(30) DEF SwitchInv, SwitchPc

\* A block of the old branch is applied again, and the rest stays restorable.
LEMMA RestRestorable ==
   ASSUME NEW h, NEW s, Restorable(s, h), Len(s) # 1
   PROVE  LET t == SubSeq(s, 1, Len(s) - 1) IN
          Restorable(t, h) /\ Parent[t[Len(t)]] = s[Len(s)]
<1> DEFINE t == SubSeq(s, 1, Len(s) - 1)
<1>1. s \in Seq(Block) /\ Len(s) \in Nat /\ Len(s) >= 2 /\ s[1] = h
   BY DEF Restorable, Descends
<1>2. t \in Seq(Block) /\ Len(t) = Len(s) - 1 /\ \A k \in 1..Len(t) : t[k] = s[k]
   BY <1>1
<1> HIDE DEF t
<1>3. t[1] = h /\ Len(t) >= 1
   BY <1>1, <1>2, SMTT(30), Z3T(30)
<1>4. ASSUME NEW k \in 1..Len(t)
      PROVE  /\ k \in 1..Len(s) /\ k < Len(s) /\ t[k] = s[k]
             /\ k < Len(t) => t[k + 1] = s[k + 1]
   BY <1>1, <1>2, SMTT(30), Z3T(30)
<1>5. Restorable(t, h)
   BY <1>2, <1>3, <1>4, Zenon DEF Restorable, Descends
<1>6. Len(t) \in 1..Len(t) /\ Len(t) + 1 = Len(s)
   BY <1>1, <1>2, SMTT(30), Z3T(30)
<1>7. s[Len(s)] = Parent[t[Len(t)]]
   BY <1>4, <1>6, ZenonT(30) DEF Restorable, Descends
<1> QED
   BY <1>5, <1>7, Zenon DEF t

\* No step loses the way back.
LEMMA SwitchStep ==
   ASSUME IInv, JobInv, TInv, Passed(db.head), SwitchInv, Next
   PROVE  SwitchInv'
<1>1. "pc" \in DOMAIN job /\ (job.pc \in PushPc => {"start", "second", "failed"} \subseteq DOMAIN job)
   BY Zenon DEF JobInv, TInv, StartInv, SwitchInv
<1>2. ASSUME job'.pc \in {"idle", "down", "rewind", "replay"} PROVE SwitchInv'
   BY <1>2, Zenon DEF SwitchInv, PushPc, SwitchPc
<1>3. ASSUME job.pc \in PushPc, DOMAIN job' = DOMAIN job, job'.start = job.start
      PROVE  job'.pc = "done" => SwitchInv'
   BY <1>3, Zenon DEF SwitchInv, PushPc, SwitchPc
<1>4. ASSUME job.pc \in {"pop", "apply", "unwind"}, DOMAIN job' = DOMAIN job,
             job'.start = job.start, job'.second = job.second, job'.failed = job.failed,
             \/ job'.pc \in {"pop", "apply", "unwind"}
             \/ job'.pc = "restore" /\ db'.head = Parent[job.second[Len(job.second)]]
      PROVE  SwitchInv'
   BY <1>4, Zenon DEF SwitchInv, PushPc, SwitchPc
<1>5. CASE append
   <2>1. job.pc = "append" /\ job.pc \in PushPc
      BY <1>5, Zenon DEF append, PushPc
   <2>2. DOMAIN job' = DOMAIN job /\ job'.pc = "done" /\ job'.start = job.start
      BY <1>1, <1>5, <2>1, Zenon DEF append, Throw
   <2> QED
      BY <1>3, <2>1, <2>2, Zenon
<1>6. ASSUME NEW next \in {"apply", "restore"}, pop(next), job.pc \in {"pop", "unwind"}
      PROVE  SwitchInv'
   <2>1. job.pc \in PushPc
      BY <1>6, Zenon DEF PushPc
   <2>2. CASE job' = job
      BY <1>4, <1>6, <2>2, Zenon
   <2>3. CASE Throw
      <3>1. DOMAIN job' = DOMAIN job /\ job'.pc = "done" /\ job'.start = job.start
         BY <1>1, <2>1, <2>3, Zenon DEF Throw
      <3> QED
         BY <1>3, <2>1, <3>1, Zenon
   <2>4. CASE head_block = ForkPoint /\ job' = [job EXCEPT !.pc = next] /\ db' = db
      <3>1. /\ DOMAIN job' = DOMAIN job /\ job'.pc = next /\ job'.start = job.start
            /\ job'.second = job.second /\ job'.failed = job.failed
         BY <1>1, <2>1, <2>4, Zenon
      <3>2. db'.head = Parent[job.second[Len(job.second)]]
         BY <2>4, Zenon DEF head_block, ForkPoint
      <3> QED
         BY <1>4, <1>6, <3>1, <3>2, ZenonT(30)
   <2> QED
      BY <1>6, <2>2, <2>3, <2>4, Zenon DEF pop
<1>7. CASE pop_to_fork
   BY <1>6, <1>7, Zenon DEF pop_to_fork
<1>8. CASE unwind
   BY <1>6, <1>8, Zenon DEF unwind
<1>9. CASE apply_fork
   <2> DEFINE n == Len(job.first)
   <2>1. job.pc = "apply" /\ job.pc \in PushPc
      BY <1>9, Zenon DEF apply_fork, PushPc
   <2>2. \/ job' = [job EXCEPT !.first = SubSeq(@, 1, n - 1), !.pc = IF n = 1 THEN "done" ELSE @]
         \/ job' = [job EXCEPT !.pc = "unwind"]
      BY <1>9, Zenon DEF apply_fork
   <2> HIDE DEF n
   <2>3. /\ DOMAIN job' = DOMAIN job /\ job'.pc \in {"apply", "done", "unwind"}
         /\ job'.start = job.start
         /\ job'.second = job.second /\ job'.failed = job.failed
      BY <1>1, <2>1, <2>2, Zenon
   <2> QED
      BY <1>3, <1>4, <2>1, <2>3, Zenon
<1>10. CASE restore
   <2> DEFINE s == job.second
              n == Len(s)
              t == SubSeq(s, 1, n - 1)
   <2>1. job.pc = "restore" /\ job.pc \in PushPc
      BY <1>10, Zenon DEF restore, PushPc
   <2>2. /\ job' = [job EXCEPT !.second = SubSeq(@, 1, n - 1),
                               !.pc = IF n = 1 THEN "done" ELSE @, !.failed = TRUE]
         /\ db' = Applied(db, s[n])
      BY <1>10, Zenon DEF restore, apply_block
   <2>3. Restorable(s, job.start.head) /\ Good(job.start)
      BY <2>1, Zenon DEF SwitchInv, PushPc, SwitchPc
   <2> HIDE DEF n
   <2>4. /\ DOMAIN job' = DOMAIN job /\ job'.start = job.start
         /\ job'.pc = (IF n = 1 THEN "done" ELSE "restore") /\ job'.second = t
      BY <1>1, <2>1, <2>2, Zenon
   <2>5. CASE n = 1
      BY <1>3, <2>1, <2>4, <2>5, ZenonT(30)
   <2>6. CASE n # 1
      <3>1. Restorable(t, job.start.head) /\ Parent[t[Len(t)]] = s[n]
         BY <2>3, <2>6, RestRestorable, Zenon DEF n
      <3>2. db'.head = s[n]
         BY <2>2, Zenon DEF Applied
      <3> HIDE DEF t, s
      <3>3. job'.pc = "restore" /\ {"second", "failed"} \subseteq DOMAIN job'
         BY <1>1, <2>1, <2>4, <2>6, ZenonT(30)
      <3> QED
         BY <2>3, <2>4, <3>1, <3>2, <3>3, ZenonT(30) DEF SwitchInv, SwitchPc, PushPc
   <2> QED
      BY <2>5, <2>6, Zenon
<1>11. CASE push_block_end
   <2>1. job' = Idle \/ job' = Down(TRUE)
         \/ job' = Replay(job.replay.next + 1, job.replay.last)
      BY <1>11, Zenon DEF push_block_end
   <2> QED
      BY <1>2, <2>1 DEF Idle, Down, Replay
<1>12. CASE rewind
   <2>1. job.pc = "rewind"
      BY <1>12, Zenon DEF rewind
   <2>2. job'.pc = "rewind"
      BY <1>1, <1>12, <2>1, ZenonT(30) DEF rewind
   <2> QED
      BY <1>2, <2>2, Zenon
<1>13. CASE close \/ flush \/ crash
   BY <1>2, <1>13, SMTT(30), Z3T(30) DEF close, flush, crash, Down
<1>14. CASE open
   <2>1. PICK n \in {0} \cup DOMAIN log :
            job' \in {Idle, Down(TRUE), Replay(Num[disk.head] + 1, n)}
      BY <1>14, Zenon DEF open
   <2> QED
      BY <1>2, <2>1, SMTT(30), Z3T(30) DEF Idle, Down, Replay
<1>15. CASE reindex
   <2> DEFINE n == job.next
   <2>1. \/ job' \in {Idle, Down(TRUE), Replay(n + 1, job.last)}
         \/ Intact(n) /\ Link(log[n].data, Cleared, job)
      BY <1>15, Zenon DEF reindex
   <2>2. CASE job' \in {Idle, Down(TRUE), Replay(n + 1, job.last)}
      <3>1. Idle.pc = "idle" /\ Down(TRUE).pc = "down"
         BY Zenon DEF Idle, Down
      <3>2. Replay(n + 1, job.last).pc = "replay"
         BY Zenon DEF Replay
      <3> HIDE DEF n
      <3>3. job'.pc \in {"idle", "down", "replay"}
         BY <2>2, <3>1, <3>2, Zenon
      <3> QED
         BY <1>2, <3>3, Zenon
   <2>3. CASE Intact(n) /\ Link(log[n].data, Cleared, job)
      BY <2>3, ReadBlock, SwitchLinked, Zenon
   <2> QED
      BY <2>1, <2>2, <2>3, Zenon
<1>16. CASE \E b \in Block : push_block_begin(b)
   BY <1>16, SwitchLinked, Zenon DEF push_block_begin
<1>17. CASE \E b \in Block, k \in Nesting \cup {0} : generate_block(b, k)
   BY <1>17, SwitchLinked, Zenon DEF generate_block
<1>18. CASE \E k \in Nesting : \/ push_transaction(k) \/ validate_transaction(k)
                               \/ generate_block_throws(k)
   <2>1. job' = job /\ job.pc = "idle"
      BY <1>18, Zenon DEF push_transaction, validate_transaction, generate_block_throws
   <2> QED
      BY <1>2, <2>1, Zenon
<1> QED
   BY <1>5, <1>7, <1>8, <1>9, <1>10, <1>11, <1>12, <1>13, <1>14, <1>15, <1>16, <1>17,
      <1>18, SMTT(30), Z3T(30) DEF Next, Step, Call

\* The way back is known in every state.
LEMMA SwitchHolds == Spec => [](SwitchInv /\ Passed(db.head) /\ Passed(disk.head))
<1> DEFINE Inv == SwitchInv /\ Passed(db.head) /\ Passed(disk.head)
           Types == IInv /\ JobInv /\ TInv
<1>1. Init => Inv
   <2> SUFFICES ASSUME Init PROVE Inv
      BY Zenon
   <2>1. SwitchInv
      BY Zenon DEF Init, SwitchInv, Idle, PushPc, SwitchPc
   <2>2. {Genesis} \in SUBSET Known /\ Closed({Genesis})
      BY Zenon DEF Known, Closed
   <2>3. Passed(Genesis)
      BY <2>2, Zenon DEF Passed
   <2> QED
      BY <2>1, <2>3, Zenon DEF Init, GenesisState
<1>2. ASSUME Types, Inv, Next PROVE Inv'
   BY <1>2, PassedStep, SwitchStep, ZenonT(30)
<1>3. ASSUME Inv, UNCHANGED vars PROVE Inv'
   BY <1>3, Zenon DEF SwitchInv, vars, memory, files
<1>4. Inv /\ Types /\ [Next]_vars => Inv'
   BY <1>2, <1>3, Zenon
<1> QED
   BY <1>1, <1>4, TypesHold, PTL DEF Spec

\* When a switch has failed and its blocks are popped, the blocks of the old branch apply
\* one after the other: no exception leaves the handler in which push_block restores them.
THEOREM OldBranchApplies == Spec => []RestoreApplies
<1>1. ASSUME IInv, SwitchInv PROVE RestoreApplies
   <2> SUFFICES ASSUME job.pc = "restore"
                PROVE  Applies(db, job.second[Len(job.second)])
      BY Zenon DEF RestoreApplies
   <2>1. /\ Restorable(job.second, job.start.head)
         /\ db.head = Parent[job.second[Len(job.second)]]
      BY <1>1, ZenonT(30) DEF SwitchInv, SwitchPc
   <2>2. Len(job.second) \in 1..Len(job.second)
      BY <2>1 DEF Restorable, Descends
   <2>3. db = StateOf[db.head]
      BY <1>1, Zenon DEF IInv, Good
   <2> QED
      BY <2>1, <2>2, <2>3, Zenon DEF Restorable
<1> QED
   BY <1>1, TypesHold, SwitchHolds, PTL

\* The pops of a switch succeed.
PopsSucceed == job.pc \in {"pop", "unwind"} /\ head_block # ForkPoint => CanPopBlock

\* When push_block throws, the node is where it was before: a block that does not link or
\* does not apply changes no state, and after a failed switch the old branch is applied up
\* to its head.  It takes that pop_block, which push_block calls outside its handlers,
\* does not throw.
THEOREM FailedPushUnwinds == Spec /\ []PopsSucceed => []PushUnwinds
<1> DEFINE Inv == IInv /\ JobInv /\ TInv /\ SwitchInv
<1>1. Init => PushUnwinds
   BY DEF Init, Idle, PushUnwinds
<1>2. ASSUME Inv, Inv', PopsSucceed, PushUnwinds, Next PROVE PushUnwinds'
   <2>1. "pc" \in DOMAIN job /\ (job.pc \in PushPc => {"start", "second", "failed"} \subseteq DOMAIN job)
      BY <1>2, Zenon DEF JobInv, TInv, StartInv, SwitchInv
   <2>2. ASSUME job'.pc # "done" PROVE PushUnwinds'
      BY <2>2, Zenon DEF PushUnwinds
   <2>3. ASSUME NEW b \in Block, NEW s, NEW replay, Link(b, s, replay) PROVE PushUnwinds'
      <3>1. job'.start = db
         BY <1>2, <2>3, LinkTypes, Zenon DEF TInv
      <3>2. db' = db
         BY <2>3, Zenon DEF Link
      <3> QED
         BY <3>1, <3>2, Zenon DEF PushUnwinds
   <2>4. CASE append
      <3>1. job.pc = "append" /\ job.pc \in PushPc
         BY <2>4, Zenon DEF append, PushPc
      <3>2. db = job.start /\ job.failed = FALSE
         BY <1>2, <3>1, Zenon DEF SwitchInv
      <3>3. job'.start = job.start /\ (job'.failed = job.failed \/ db' = db)
         BY <2>1, <2>4, <3>1, ZenonT(30) DEF append, Throw, apply_fails
      <3> QED
         BY <3>2, <3>3, Zenon DEF PushUnwinds
   <2>5. CASE pop_to_fork \/ unwind
      <3>1. job.pc \in {"pop", "unwind"}
         BY <2>5, Zenon DEF pop_to_fork, unwind
      <3>2. \/ job' = job
            \/ job' = [job EXCEPT !.pc = "apply"] \/ job' = [job EXCEPT !.pc = "restore"]
         BY <1>2, <2>5, <3>1, ZenonT(30) DEF pop_to_fork, unwind, pop, PopsSucceed
      <3>3. job'.pc # "done"
         BY <2>1, <3>1, <3>2, Zenon
      <3> QED
         BY <2>2, <3>3, Zenon
   <2>6. CASE apply_fork
      <3> DEFINE n == Len(job.first)
      <3>1. job.pc = "apply" /\ job.pc \in PushPc /\ job.failed = FALSE
         BY <1>2, <2>6, Zenon DEF apply_fork, PushPc, SwitchInv
      <3>2. \/ job' = [job EXCEPT !.first = SubSeq(@, 1, n - 1),
                                  !.pc = IF n = 1 THEN "done" ELSE @]
            \/ job' = [job EXCEPT !.pc = "unwind"]
         BY <2>6, Zenon DEF apply_fork
      <3> HIDE DEF n
      <3>3. job'.failed = FALSE
         BY <2>1, <3>1, <3>2, ZenonT(30)
      <3> QED
         BY <3>3, Zenon DEF PushUnwinds
   <2>7. CASE restore
      <3> DEFINE s == job.second
                 n == Len(s)
      <3>1. job.pc = "restore" /\ job.pc \in PushPc
         BY <2>7, Zenon DEF restore, PushPc
      <3>2. Restorable(s, job.start.head) /\ Good(job.start)
         BY <1>2, <3>1, Zenon DEF SwitchInv, SwitchPc
      <3>3. job'.start = job.start /\ (job'.pc = "done" => n = 1) /\ db' = Applied(db, s[n])
         BY <2>1, <2>7, <3>1, Zenon DEF restore, apply_block
      <3>4. n = 1 => db'.head = job.start.head
         BY <3>2, <3>3, Zenon DEF Restorable, Descends, Applied
      <3>5. db' = StateOf[db'.head] /\ job.start = StateOf[job.start.head]
         BY <1>2, <3>2, ZenonT(30) DEF IInv, Good
      <3> HIDE DEF n
      <3> QED
         BY <3>3, <3>4, <3>5, Zenon DEF PushUnwinds
   <2>8. CASE push_block_end \/ flush \/ crash \/ close
      <3>1. \/ job' = Idle \/ \E failed : job' = Down(failed)
            \/ \E next, last : job' = Replay(next, last)
            \/ job' = [pc |-> "rewind", cutoff |-> db.lib, failed |-> FALSE]
         BY <2>8, Zenon DEF push_block_end, flush, crash, close
      <3> QED
         BY <2>2, <3>1, SMTT(30), Z3T(30) DEF Idle, Down, Replay
   <2>9. CASE rewind
      <3>1. job.pc = "rewind"
         BY <2>9, Zenon DEF rewind
      <3>2. job'.pc = "rewind"
         BY <2>1, <2>9, <3>1, ZenonT(30) DEF rewind
      <3> QED
         BY <2>2, <3>2, Zenon
   <2>10. CASE open
      <3>1. PICK n \in {0} \cup DOMAIN log :
               job' \in {Idle, Down(TRUE), Replay(Num[disk.head] + 1, n)}
         BY <2>10, Zenon DEF open
      <3> QED
         BY <2>2, <3>1, SMTT(30), Z3T(30) DEF Idle, Down, Replay
   <2>11. CASE reindex
      <3> DEFINE n == job.next
      <3>1. \/ job' \in {Idle, Down(TRUE), Replay(n + 1, job.last)}
            \/ Intact(n) /\ Link(log[n].data, Cleared, job)
         BY <2>11, ZenonT(30) DEF reindex
      <3>2. CASE job' \in {Idle, Down(TRUE), Replay(n + 1, job.last)}
         BY <2>2, <3>2, SMTT(30), Z3T(30) DEF Idle, Down, Replay
      <3>3. CASE Intact(n) /\ Link(log[n].data, Cleared, job)
         BY <1>2, <2>3, <3>3, ReadBlock, ZenonT(30)
      <3> QED
         BY <3>1, <3>2, <3>3, ZenonT(30)
   <2>12. CASE \E b \in Block : push_block_begin(b)
      BY <2>3, <2>12, Zenon DEF push_block_begin
   <2>13. CASE \E b \in Block, k \in Nesting \cup {0} : generate_block(b, k)
      BY <2>3, <2>13, Zenon DEF generate_block
   <2>14. CASE \E k \in Nesting : \/ push_transaction(k) \/ validate_transaction(k)
                                  \/ generate_block_throws(k)
      <3>1. job' = job /\ job.pc = "idle"
         BY <2>14, Zenon DEF push_transaction, validate_transaction, generate_block_throws
      <3> QED
         BY <2>2, <3>1, Zenon
   <2> QED
      BY <1>2, <2>4, <2>5, <2>6, <2>7, <2>8, <2>9, <2>10, <2>11, <2>12, <2>13, <2>14, ZenonT(30)
         DEF Next, Step, Call
<1>3. ASSUME PushUnwinds, UNCHANGED vars PROVE PushUnwinds'
   BY <1>3, Zenon DEF PushUnwinds, vars, memory
<1>4. PushUnwinds /\ Inv /\ Inv' /\ PopsSucceed /\ [Next]_vars => PushUnwinds'
   BY <1>2, <1>3, Zenon
<1> QED
   BY <1>1, <1>4, TypesHold, SwitchHolds, PTL DEF Spec

=============================================================================
