---------------------------- MODULE ObjectProofs ----------------------------
(***************************************************************************)
(* The object database.  The undo database (UndoDatabase) keeps its        *)
(* promises for any number of indexes, objects, values, history sizes and  *)
(* nested sessions.  Three more parts are each specified in a module of    *)
(* their own that is instantiated here: the files the indexes are kept in  *)
(* (ObjectFiles), the index of required approvals (ApprovalIndex) and the  *)
(* withdraw permission object (WithdrawPermission).                        *)
(***************************************************************************)
EXTENDS UndoDatabase, Integers, TLAPS

USE DEF Content

\* The empty state describes no change at all.
LEMMA EmptyDescribes ==
   ASSUME NEW d \in Database
   PROVE  /\ EmptyState \in UndoState
          /\ Describes(EmptyState, d, d)
BY UndoAssumption DEF EmptyState, UndoState, Describes, Database

\* A state that describes a change undoes it (the loops of undo()).
LEMMA DescribesRestores ==
   ASSUME NEW s \in UndoState, NEW old \in Database, NEW new \in Database,
          Describes(s, old, new)
   PROVE  /\ Restored(s, new) = old
          /\ AppliesCleanly(s, new)
<1>1. Restored(s, new).obj = old.obj
  BY DEF Restored, Describes, Database, UndoState
<1>2. Restored(s, new).next = old.next
  BY DEF Restored, Describes, Database, UndoState
<1>3. Restored(s, new) = old
  BY <1>1, <1>2, Zenon DEF Restored, Database
<1>4. AppliesCleanly(s, new)
  BY Zenon DEF AppliesCleanly, Describes
<1> QED BY <1>3, <1>4, Zenon

\* on_create extends the account of a state by a new object.
LEMMA CreateDescribes ==
   ASSUME NEW s \in UndoState, NEW old \in Database, NEW new \in Database,
          Describes(s, old, new), Sane(old), Sane(new),
          NEW x \in Index, NEW v \in Value, new.next[x] < MaxInstance,
          NEW new2,
          new2 = [obj |-> [new.obj EXCEPT ![<<x, new.next[x]>>] = v],
                  next |-> [new.next EXCEPT ![x] = @ + 1]]
   PROVE  /\ new2 \in Database
          /\ Sane(new2)
          /\ on_create(s, <<x, new.next[x]>>) \in UndoState
          /\ Describes(on_create(s, <<x, new.next[x]>>), old, new2)
<1> DEFINE i == <<x, new.next[x]>>
<1>0. i \in Id /\ i[1] = x /\ i[2] = new.next[x] /\ new.next[x] \in 0..MaxInstance
  BY UndoAssumption DEF Id, Database
<1>1. new2 \in Database
  BY <1>0, UndoAssumption DEF Database
<1>2. /\ new2.obj = [new.obj EXCEPT ![i] = v]
      /\ new2.next = [new.next EXCEPT ![x] = new.next[x] + 1]
  BY Zenon DEF Database
<1>3. Sane(new2)
  <2> SUFFICES ASSUME NEW j \in Id, new2.obj[j] # Null
               PROVE  j[2] < new2.next[j[1]]
    BY Zenon DEF Sane
  <2>1. j[1] \in Index /\ j[2] \in Nat
    BY UndoAssumption DEF Id
  <2> QED BY <2>1, <1>0, <1>2, UndoAssumption DEF Sane, Database
<1>4. on_create(s, i) \in UndoState
  BY <1>0, UndoAssumption, Zenon DEF on_create, UndoState
<1>5. new.obj[i] = Null
  BY <1>0, UndoAssumption DEF Sane, Database
<1>6. Describes(on_create(s, i), old, new2)
  <2> DEFINE t == on_create(s, i)
  <2>1. /\ t.old_values = s.old_values /\ t.removed = s.removed
        /\ t.new_ids = s.new_ids \cup {i}
        /\ t.old_index_next_ids =
             [s.old_index_next_ids EXCEPT
                ![x] = IF s.old_index_next_ids[x] = Null THEN i[2]
                       ELSE s.old_index_next_ids[x]]
    BY <1>0, Zenon DEF on_create, UndoState
  <2> HIDE DEF t
  <2>2. ASSUME NEW y \in Index
        PROVE  /\ old.next[y] <= new2.next[y]
               /\ old.next[y] = IF t.old_index_next_ids[y] # Null
                                THEN t.old_index_next_ids[y] ELSE new2.next[y]
    BY <2>1, <1>0, <1>2, UndoAssumption DEF Describes, Database, UndoState
  <2>3. ASSUME NEW j \in Id
        PROVE  /\ j \in t.new_ids =>
                    /\ old.next[j[1]] <= j[2]
                    /\ old.obj[j] = Null /\ new2.obj[j] # Null
                    /\ t.old_values[j] = Null /\ t.removed[j] = Null
               /\ t.old_values[j] # Null =>
                    /\ old.obj[j] = t.old_values[j] /\ new2.obj[j] # Null
                    /\ t.removed[j] = Null
               /\ t.removed[j] # Null =>
                    old.obj[j] = t.removed[j] /\ new2.obj[j] = Null
               /\ j \notin t.new_ids /\ t.old_values[j] = Null
                    /\ t.removed[j] = Null => old.obj[j] = new2.obj[j]
    <3>1. CASE j = i
      \* i did not exist, and was not removed in this state: its number is new
      <4>1. old.next[x] <= i[2]
        BY <1>0, Zenon DEF Describes
      <4>2. s.removed[i] = Null
        BY <1>0, <1>5, <4>1, UndoAssumption DEF Describes, Sane, Database
      <4> QED BY <3>1, <4>1, <4>2, <2>1, <1>0, <1>2, <1>5, UndoAssumption
              DEF Describes, Database
    <3>2. CASE j # i
      BY <3>2, <2>1, <1>0, <1>2, UndoAssumption DEF Describes, Database
    <3> QED BY <3>1, <3>2, Zenon
  <2> QED BY <2>2, <2>3, Zenon DEF Describes, t
<1> QED BY <1>1, <1>3, <1>4, <1>6, Zenon

\* on_modify keeps the first value an object had in this state.
LEMMA ModifyDescribes ==
   ASSUME NEW s \in UndoState, NEW old \in Database, NEW new \in Database,
          Describes(s, old, new), Sane(old), Sane(new),
          NEW i \in Id, NEW v \in Value, new.obj[i] # Null,
          NEW new2, new2 = [new EXCEPT !.obj[i] = v]
   PROVE  /\ new2 \in Database
          /\ Sane(new2)
          /\ on_modify(s, i, new) \in UndoState
          /\ Describes(on_modify(s, i, new), old, new2)
<1>1. new2 \in Database
  BY UndoAssumption, Zenon DEF Database
<1>2. new2.obj = [new.obj EXCEPT ![i] = v] /\ new2.next = new.next
  BY Zenon DEF Database
<1>3. Sane(new2)
  BY <1>2, UndoAssumption, Zenon DEF Sane, Database
<1>4. on_modify(s, i, new) \in UndoState
  BY Zenon DEF on_modify, UndoState, Database
<1>5. Describes(on_modify(s, i, new), old, new2)
  <2>1. CASE i \in s.new_ids \/ s.old_values[i] # Null
    BY <2>1, <1>2, UndoAssumption DEF on_modify, Describes, Database, UndoState
  <2>2. CASE ~(i \in s.new_ids \/ s.old_values[i] # Null)
    <3> DEFINE t == on_modify(s, i, new)
    <3>1. /\ t.old_values = [s.old_values EXCEPT ![i] = new.obj[i]]
          /\ t.removed = s.removed /\ t.new_ids = s.new_ids
          /\ t.old_index_next_ids = s.old_index_next_ids
      BY <2>2, Zenon DEF on_modify, UndoState
    <3> HIDE DEF t
    <3>2. s.removed[i] = Null
      BY Zenon DEF Describes
    <3>3. Describes(t, old, new2)
      BY <3>1, <3>2, <2>2, <1>2, UndoAssumption DEF Describes, Database, UndoState
    <3> QED BY <3>3, Zenon DEF t
  <2> QED BY <2>1, <2>2, Zenon
<1> QED BY <1>1, <1>3, <1>4, <1>5, Zenon

\* on_remove forgets an object of this state and remembers any other one with
\* the first value it had in this state.
LEMMA RemoveDescribes ==
   ASSUME NEW s \in UndoState, NEW old \in Database, NEW new \in Database,
          Describes(s, old, new), Sane(old), Sane(new),
          NEW i \in Id, new.obj[i] # Null,
          NEW new2, new2 = [new EXCEPT !.obj[i] = Null]
   PROVE  /\ new2 \in Database
          /\ Sane(new2)
          /\ on_remove(s, i, new) \in UndoState
          /\ Describes(on_remove(s, i, new), old, new2)
<1>1. new2 \in Database
  BY Zenon DEF Database
<1>2. new2.obj = [new.obj EXCEPT ![i] = Null] /\ new2.next = new.next
  BY Zenon DEF Database
<1>3. Sane(new2)
  BY <1>2, Zenon DEF Sane, Database
<1> DEFINE t == on_remove(s, i, new)
<1>4. s.removed[i] = Null
  BY Zenon DEF Describes
<1>5. CASE i \in s.new_ids
  <2>1. t = [s EXCEPT !.new_ids = @ \ {i}]
    BY <1>5, Zenon DEF on_remove
  <2>2. t \in UndoState
    BY <2>1, Zenon DEF UndoState
  <2>3. /\ t.old_values = s.old_values /\ t.removed = s.removed
        /\ t.new_ids = s.new_ids \ {i}
        /\ t.old_index_next_ids = s.old_index_next_ids
    BY <2>1, Zenon DEF UndoState
  <2> HIDE DEF t
  <2>4. Describes(t, old, new2)
    BY <2>3, <1>2, <1>5 DEF Describes, Database, UndoState
  <2> QED BY <1>1, <1>3, <2>2, <2>4, Zenon DEF t
<1>6. CASE i \notin s.new_ids /\ s.old_values[i] # Null
  <2>1. t = [old_values |-> [s.old_values EXCEPT ![i] = Null],
             old_index_next_ids |-> s.old_index_next_ids,
             new_ids |-> s.new_ids,
             removed |-> [s.removed EXCEPT ![i] = s.old_values[i]]]
    BY <1>6, Zenon DEF on_remove, UndoState
  <2>2. t \in UndoState
    BY <2>1 DEF UndoState
  <2>3. /\ t.old_values = [s.old_values EXCEPT ![i] = Null]
        /\ t.removed = [s.removed EXCEPT ![i] = s.old_values[i]]
        /\ t.new_ids = s.new_ids
        /\ t.old_index_next_ids = s.old_index_next_ids
    BY <2>1 DEF UndoState
  <2> HIDE DEF t
  <2>4. Describes(t, old, new2)
    BY <2>3, <1>2, <1>6 DEF Describes, Database, UndoState
  <2> QED BY <1>1, <1>3, <2>2, <2>4, Zenon DEF t
<1>7. CASE i \notin s.new_ids /\ s.old_values[i] = Null
  <2>1. t = [s EXCEPT !.removed[i] = new.obj[i]]
    BY <1>4, <1>7, Zenon DEF on_remove
  <2>2. t \in UndoState
    BY <2>1, SMTT(30), Z3T(30) DEF UndoState, Database
  <2>3. /\ t.old_values = s.old_values
        /\ t.removed = [s.removed EXCEPT ![i] = new.obj[i]]
        /\ t.new_ids = s.new_ids
        /\ t.old_index_next_ids = s.old_index_next_ids
    BY <2>1, Zenon DEF UndoState
  <2> HIDE DEF t
  <2>4. Describes(t, old, new2)
    BY <2>3, <1>2, <1>4, <1>7 DEF Describes, Database, UndoState
  <2> QED BY <1>1, <1>3, <2>2, <2>4, Zenon DEF t
<1> QED BY <1>5, <1>6, <1>7, Zenon

\* merge() composes the accounts of two adjacent states.
LEMMA MergeDescribes ==
   ASSUME NEW a \in UndoState, NEW b \in UndoState,
          NEW d0 \in Database, NEW d1 \in Database, NEW d2 \in Database,
          Describes(a, d0, d1), Describes(b, d1, d2),
          Sane(d0), Sane(d1), Sane(d2)
   PROVE  /\ Merged(a, b) \in UndoState
          /\ Describes(Merged(a, b), d0, d2)
          \* the cells marked N/A in merge()
          /\ \A i \in Id : /\ i \in b.new_ids => /\ i \notin a.new_ids
                                                  /\ a.old_values[i] = Null
                                                  /\ a.removed[i] = Null
                           /\ a.removed[i] # Null => /\ b.old_values[i] = Null
                                                     /\ b.removed[i] = Null
<1>1. Merged(a, b) \in UndoState
  BY Zenon DEF Merged, UndoState
<1>2. ASSUME NEW x \in Index
      PROVE  /\ d0.next[x] <= d2.next[x]
             /\ d0.next[x] = IF Merged(a, b).old_index_next_ids[x] # Null
                             THEN Merged(a, b).old_index_next_ids[x]
                             ELSE d2.next[x]
  <2>1. /\ d0.next[x] \in Nat /\ d1.next[x] \in Nat /\ d2.next[x] \in Nat
    BY UndoAssumption DEF Database
  <2> QED BY <2>1 DEF Describes, Merged
<1>3. ASSUME NEW i \in Id
      PROVE  /\ i \in b.new_ids => /\ i \notin a.new_ids
                                   /\ a.old_values[i] = Null
                                   /\ a.removed[i] = Null
             /\ a.removed[i] # Null => b.old_values[i] = Null /\ b.removed[i] = Null
             /\ d0.next[i[1]] <= d1.next[i[1]]
             /\ i[1] \in Index /\ i[2] \in Nat
             /\ d0.next[i[1]] \in Nat /\ d1.next[i[1]] \in Nat
  <2>1. /\ i[1] \in Index /\ i[2] \in Nat
        /\ d0.next[i[1]] \in Nat /\ d1.next[i[1]] \in Nat
    BY UndoAssumption DEF Database, Id
  <2>2. d0.next[i[1]] <= d1.next[i[1]]
    BY <2>1, Zenon DEF Describes
  <2>3. i \in b.new_ids => d1.next[i[1]] <= i[2]
    BY Zenon DEF Describes
  <2>4. a.removed[i] # Null => i[2] < d0.next[i[1]]
    BY DEF Describes, Sane
  <2>5. i \in b.new_ids => a.removed[i] = Null
    BY <2>1, <2>2, <2>3, <2>4
  <2> QED BY <2>1, <2>2, <2>5, Zenon DEF Describes
<1>4. ASSUME NEW i \in Id
      PROVE  LET m == Merged(a, b) IN
             /\ i \in m.new_ids =>
                   /\ d0.next[i[1]] <= i[2]
                   /\ d0.obj[i] = Null /\ d2.obj[i] # Null
                   /\ m.old_values[i] = Null /\ m.removed[i] = Null
             /\ m.old_values[i] # Null =>
                   /\ d0.obj[i] = m.old_values[i] /\ d2.obj[i] # Null
                   /\ m.removed[i] = Null
             /\ m.removed[i] # Null =>
                   d0.obj[i] = m.removed[i] /\ d2.obj[i] = Null
             /\ i \notin m.new_ids /\ m.old_values[i] = Null
                  /\ m.removed[i] = Null => d0.obj[i] = d2.obj[i]
  <2> DEFINE m == Merged(a, b)
  <2>1. i \in m.new_ids <=>
          (i \in a.new_ids \/ i \in b.new_ids) /\ b.removed[i] = Null
    BY Zenon DEF Merged
  <2>2. m.old_values[i] = IF b.removed[i] # Null THEN Null
                          ELSE IF i \in a.new_ids \/ a.old_values[i] # Null
                          THEN a.old_values[i] ELSE b.old_values[i]
    BY Zenon DEF Merged
  <2>3. m.removed[i] = IF b.removed[i] = Null \/ i \in a.new_ids
                       THEN a.removed[i]
                       ELSE IF a.old_values[i] # Null THEN a.old_values[i]
                       ELSE b.removed[i]
    BY Zenon DEF Merged
  <2> HIDE DEF m
  <2>4. i \in b.new_ids => d0.next[i[1]] <= i[2]
    BY <1>3, SMTT(30), Z3T(30) DEF Describes
  <2>5. /\ i \in m.new_ids =>
              /\ d0.next[i[1]] <= i[2]
              /\ d0.obj[i] = Null /\ d2.obj[i] # Null
              /\ m.old_values[i] = Null /\ m.removed[i] = Null
        /\ m.old_values[i] # Null =>
              /\ d0.obj[i] = m.old_values[i] /\ d2.obj[i] # Null
              /\ m.removed[i] = Null
    BY <1>3, <2>1, <2>2, <2>3, <2>4, SMTT(30), Z3T(30) DEF Describes
  <2>6. /\ m.removed[i] # Null =>
              d0.obj[i] = m.removed[i] /\ d2.obj[i] = Null
        /\ i \notin m.new_ids /\ m.old_values[i] = Null
              /\ m.removed[i] = Null => d0.obj[i] = d2.obj[i]
    BY <1>3, <2>1, <2>2, <2>3, SMTT(30) DEF Describes
  <2> QED BY <2>5, <2>6, Zenon DEF m
<1>5. Describes(Merged(a, b), d0, d2)
  BY <1>2, <1>4, Zenon DEF Describes
<1> QED BY <1>1, <1>3, <1>5, Zenon

-----------------------------------------------------------------------------
(* The inductive invariant.                                                 *)

IInv == TypeOK /\ HistoryInv

\* The contents the newest state was pushed on.
TopSnapshot == IF stack = << >> THEN db ELSE snapshots[Len(stack)]

\* The newest record leads from the objects to the snapshot below them.
LEMMA TopDescribes ==
   ASSUME IInv
   PROVE  /\ Top \in UndoState
          /\ TopSnapshot \in Database
          /\ Sane(TopSnapshot)
          /\ Sane(db)
          /\ db \in Database
          /\ Describes(Top, TopSnapshot, db)
<1>1. db \in Database /\ Sane(db)
  BY Zenon DEF IInv, TypeOK, HistoryInv
<1>2. CASE stack = << >>
  <2>1. Top = EmptyState /\ TopSnapshot = db
    BY <1>2, Zenon DEF Top, Recorded, TopSnapshot
  <2> QED BY <1>1, <2>1, EmptyDescribes, Zenon
<1>3. CASE stack # << >>
  <2>1. Len(stack) \in 1..Len(stack) /\ Len(stack) \in 1..Len(snapshots)
    BY <1>3 DEF IInv, TypeOK, HistoryInv
  <2>2. Top = stack[Len(stack)] /\ TopSnapshot = snapshots[Len(stack)]
    BY <1>3, Zenon DEF Top, Recorded, TopSnapshot
  <2>3. stack[Len(stack)] \in UndoState /\ snapshots[Len(stack)] \in Database
    BY <2>1 DEF IInv, TypeOK
  <2>4. After(Len(stack)) = db
    BY Zenon DEF After
  <2> QED BY <1>1, <2>1, <2>2, <2>3, <2>4, Zenon DEF IInv, HistoryInv
<1> QED BY <1>2, <1>3, Zenon

\* A change recorded in the newest state keeps the invariant when the state
\* then describes the changed database.
LEMMA RecordPreserves ==
   ASSUME IInv, NEW t, Record(t),
          db' \in Database, Sane(db'),
          t \in UndoState, Describes(t, TopSnapshot, db')
   PROVE  IInv'
<1> USE DEF IInv
<1>1. CASE disabled
  <2>1. /\ stack' = stack /\ snapshots' = snapshots
        /\ UNCHANGED <<active_sessions, disabled, max_size, disable_on_exit>>
    BY <1>1, Zenon DEF Record
  <2>2. stack = << >> /\ stack' = << >>
    BY <1>1, <2>1, Zenon DEF HistoryInv
  <2>3. TypeOK'
    BY <2>1, Zenon DEF TypeOK
  <2>4. HistoryInv'
    BY <2>1, <2>2 DEF HistoryInv, TypeOK
  <2> QED BY <2>3, <2>4, Zenon
<1>2. CASE ~disabled /\ stack = << >>
  <2>1. /\ stack' = <<t>> /\ snapshots' = <<db>>
        /\ UNCHANGED <<active_sessions, disabled, max_size, disable_on_exit>>
    BY <1>2 DEF Record, Recorded
  <2>2. TopSnapshot = db
    BY <1>2, Zenon DEF TopSnapshot
  <2>3. TypeOK'
    BY <2>1 DEF TypeOK
  <2>4. active_sessions = 0 /\ ~disable_on_exit
    BY <1>2 DEF HistoryInv, TypeOK
  <2>5. HistoryInv'
    <3>1. Len(snapshots') = Len(stack') /\ Len(stack') = 1
      BY <2>1, Zenon
    <3>2. ASSUME NEW k \in 1..Len(stack')
          PROVE  Sane(snapshots'[k]) /\ Describes(stack'[k], snapshots'[k], After(k)')
      <4>1. k = 1 /\ After(k)' = db'
        BY <3>1, <3>2 DEF After
      <4> QED BY <4>1, <2>1, <2>2, Zenon DEF HistoryInv
    <3> QED BY <3>1, <3>2, <2>1, <2>4, <1>2 DEF HistoryInv
  <2> QED BY <2>3, <2>5, Zenon
<1>3. CASE ~disabled /\ stack # << >>
  <2>1. /\ stack' = [stack EXCEPT ![Len(stack)] = t] /\ snapshots' = snapshots
        /\ UNCHANGED <<active_sessions, disabled, max_size, disable_on_exit>>
    BY <1>3, Zenon DEF Record, Recorded
  <2>2. TopSnapshot = snapshots[Len(stack)]
    BY <1>3, Zenon DEF TopSnapshot
  <2>3. stack' \in Seq(UndoState) /\ Len(stack') = Len(stack) /\ Len(stack) > 0
    BY <1>3, <2>1 DEF TypeOK
  <2>4. TypeOK'
    BY <2>1, <2>3, Zenon DEF TypeOK
  <2>5. HistoryInv'
    <3>1. ASSUME NEW k \in 1..Len(stack')
          PROVE  Sane(snapshots'[k]) /\ Describes(stack'[k], snapshots'[k], After(k)')
      <4>0. k \in 1..Len(stack)
        BY <2>3, Zenon
      <4>1. CASE k = Len(stack)
        <5>1. stack'[k] = t /\ After(k)' = db'
          BY <4>1, <2>1, <2>3 DEF After, TypeOK
        <5> QED BY <4>0, <4>1, <5>1, <2>1, <2>2, Zenon DEF HistoryInv
      <4>2. CASE k # Len(stack)
        <5>1. stack'[k] = stack[k] /\ After(k)' = After(k)
          <6>1. stack'[k] = stack[k]
            BY <4>0, <4>2, <2>1, SMTT(30) DEF TypeOK
          <6>2. After(k)' = After(k)
            BY <4>2, <2>1, <2>3, Zenon DEF After
          <6> QED BY <6>1, <6>2, Zenon
        <5> QED BY <4>0, <5>1, <2>1, Zenon DEF HistoryInv
      <4> QED BY <4>1, <4>2, Zenon
    <3> QED BY <3>1, <2>1, <2>3, <1>3, Zenon DEF HistoryInv
  <2> QED BY <2>4, <2>5, Zenon
<1> QED BY <1>1, <1>2, <1>3, Zenon

\* The invariant holds of a new database.
LEMMA InitInv == Init => IInv
<1> SUFFICES ASSUME Init PROVE IInv
  BY Zenon
<1>1. EmptyDatabase \in Database /\ Sane(EmptyDatabase)
  BY UndoAssumption DEF EmptyDatabase, Database, Sane
<1>2. TypeOK
  <2>1. stack \in Seq(UndoState) /\ snapshots \in Seq(Database)
    BY DEF Init
  <2>2. active_sessions \in 0..MaxSessions
    BY UndoAssumption DEF Init
  <2> QED BY <1>1, <2>1, <2>2, Zenon DEF Init, TypeOK
<1>3. HistoryInv
  BY <1>1 DEF Init, HistoryInv
<1> QED BY <1>2, <1>3, Zenon DEF IInv

\* create, modify and remove keep the invariant.
LEMMA ChangeInv ==
   ASSUME IInv, Change
   PROVE  IInv'
<1>0. /\ Top \in UndoState /\ TopSnapshot \in Database /\ db \in Database
      /\ Sane(TopSnapshot) /\ Sane(db) /\ Describes(Top, TopSnapshot, db)
  BY TopDescribes, Zenon
<1>1. ASSUME NEW x \in Index, NEW v \in Value, create(x, v)
      PROVE  IInv'
  <2> DEFINE t == on_create(Top, <<x, db.next[x]>>)
  <2>1. /\ db' \in Database /\ Sane(db')
        /\ t \in UndoState /\ Describes(t, TopSnapshot, db')
    BY <1>0, <1>1, CreateDescribes DEF create
  <2>2. Record(t)
    BY <1>1, Zenon DEF create
  <2> QED BY <2>1, <2>2, RecordPreserves, Zenon
<1>2. ASSUME NEW i \in Id, NEW v \in Value, modify(i, v)
      PROVE  IInv'
  <2> DEFINE t == on_modify(Top, i, db)
  <2>1. /\ db' \in Database /\ Sane(db')
        /\ t \in UndoState /\ Describes(t, TopSnapshot, db')
    BY <1>0, <1>2, ModifyDescribes DEF modify
  <2>2. Record(t)
    BY <1>2, Zenon DEF modify
  <2> QED BY <2>1, <2>2, RecordPreserves, Zenon
<1>3. ASSUME NEW i \in Id, remove(i)
      PROVE  IInv'
  <2> DEFINE t == on_remove(Top, i, db)
  <2>1. /\ db' \in Database /\ Sane(db')
        /\ t \in UndoState /\ Describes(t, TopSnapshot, db')
    BY <1>0, <1>3, RemoveDescribes DEF remove
  <2>2. Record(t)
    BY <1>3, Zenon DEF remove
  <2> QED BY <2>1, <2>2, RecordPreserves, Zenon
<1>4. ASSUME NEW x \in Index, use_next_id(x)
      PROVE  IInv'
  <2>1. /\ db' \in Database /\ db'.obj = db.obj
        /\ db'.next = [db.next EXCEPT ![x] = db.next[x] + 1]
    <3>1. /\ db' = [db EXCEPT !.next[x] = db.next[x] + 1]
          /\ db.next[x] < MaxInstance
      BY <1>4, Zenon DEF use_next_id
    <3>2. db.next \in [Index -> 0..MaxInstance]
      BY <1>0, Zenon DEF Database
    <3>3. db.next[x] + 1 \in 0..MaxInstance
      BY <3>1, <3>2, UndoAssumption
    <3> QED BY <1>0, <3>1, <3>2, <3>3, Zenon DEF Database
  <2>2. Sane(db')
    <3> SUFFICES ASSUME NEW j \in Id, db'.obj[j] # Null
                 PROVE  j[2] < db'.next[j[1]]
      BY Zenon DEF Sane
    <3>1. j[1] \in Index /\ j[2] \in Nat /\ db.next[j[1]] \in Nat
      BY <1>0, UndoAssumption DEF Id, Database
    <3>2. j[2] < db.next[j[1]]
      BY <1>0, <2>1, Zenon DEF Sane
    <3>3. db'.next[j[1]] \in Nat /\ db.next[j[1]] <= db'.next[j[1]]
      BY <1>0, <2>1, <3>1 DEF Database
    <3> QED BY <3>1, <3>2, <3>3
  <2>3. TypeOK'
    BY <1>4, <2>1, Zenon DEF use_next_id, IInv, TypeOK
  <2>4. stack # << >> => Describes(stack[Len(stack)], snapshots[Len(stack)], db')
    <3> SUFFICES ASSUME stack # << >>
                 PROVE  Describes(Top, TopSnapshot, db')
      BY Zenon DEF Top, Recorded, TopSnapshot
    <3>1. Top.old_index_next_ids[x] # Null
      BY <1>4, Zenon DEF use_next_id, IInv, HistoryInv
    <3>2. ASSUME NEW y \in Index
          PROVE  /\ TopSnapshot.next[y] <= db'.next[y]
                 /\ TopSnapshot.next[y] =
                      IF Top.old_index_next_ids[y] # Null
                      THEN Top.old_index_next_ids[y] ELSE db'.next[y]
      <4>1. TopSnapshot.next[y] \in Nat /\ db.next[y] \in Nat
        BY <1>0, UndoAssumption DEF Database
      <4>2. /\ TopSnapshot.next[y] <= db.next[y]
            /\ TopSnapshot.next[y] = IF Top.old_index_next_ids[y] # Null
                      THEN Top.old_index_next_ids[y] ELSE db.next[y]
        BY <1>0, Zenon DEF Describes
      <4>3. /\ y = x => db'.next[y] = db.next[y] + 1
            /\ y # x => db'.next[y] = db.next[y]
        BY <1>0, <2>1, Zenon DEF Database
      <4> QED BY <4>1, <4>2, <4>3, <3>1
    <3> QED BY <1>0, <2>1, <3>2, ZenonT(30) DEF Describes
  <2>5. HistoryInv'
    <3>1. /\ stack' = stack /\ snapshots' = snapshots
          /\ UNCHANGED <<active_sessions, disabled, disable_on_exit>>
      BY <1>4, Zenon DEF use_next_id
    <3>2. ASSUME NEW k \in 1..Len(stack)
          PROVE  Describes(stack[k], snapshots[k], After(k)')
      <4>1. CASE k = Len(stack)
        BY <4>1, <3>1, <2>4 DEF After, IInv, TypeOK
      <4>2. CASE k # Len(stack)
        <5>1. After(k)' = After(k)
          BY <4>2, <3>1, Zenon DEF After
        <5> QED BY <5>1, Zenon DEF IInv, HistoryInv
      <4> QED BY <4>1, <4>2, Zenon
    <3> QED BY <2>2, <3>1, <3>2, Zenon DEF IInv, HistoryInv
  <2> QED BY <2>3, <2>5, Zenon DEF IInv
<1> QED BY <1>1, <1>2, <1>3, <1>4, Zenon DEF Change

\* Trimming keeps the newest entries, in their order.
LEMMA NewestEntries ==
   ASSUME NEW S, NEW q \in Seq(S), NEW n \in Nat
   PROVE  LET m == IF Len(q) > n THEN n ELSE Len(q) IN
          /\ Newest(n, q) \in Seq(S)
          /\ Len(Newest(n, q)) = m
          /\ \A k \in 1..m : Newest(n, q)[k] = q[k + (Len(q) - m)]
          /\ Newest(n, q) = SubSeq(q, (Len(q) - m) + 1, Len(q))
<1>1. CASE Len(q) > n
  <2> DEFINE r == SubSeq(q, Len(q) - n + 1, Len(q))
  <2>1. Newest(n, q) = r
    BY <1>1, Zenon DEF Newest
  <2>2. r \in Seq(S) /\ Len(r) = n
    BY <1>1
  <2>3. ASSUME NEW k \in 1..n
        PROVE  r[k] = q[k + (Len(q) - n)]
    BY <1>1, SMTT(30), Z3T(30)
  <2> HIDE DEF r
  <2>4. r = SubSeq(q, (Len(q) - n) + 1, Len(q))
    BY Zenon DEF r
  <2> QED BY <1>1, <2>1, <2>2, <2>3, <2>4, Zenon
<1>2. CASE ~(Len(q) > n)
  <2>1. Newest(n, q) = q
    BY <1>2, Zenon DEF Newest
  <2>2. q = SubSeq(q, (Len(q) - Len(q)) + 1, Len(q))
    OBVIOUS
  <2>3. \A k \in 1..Len(q) : q[k] = q[k + (Len(q) - Len(q))]
    OBVIOUS
  <2> QED BY <1>2, <2>1, <2>2, <2>3, Zenon
<1> QED BY <1>1, <1>2, Zenon

\* start_undo_session keeps the invariant.
LEMMA StartInv ==
   ASSUME IInv, NEW force_enable \in BOOLEAN, start_undo_session(force_enable)
   PROVE  IInv'
<1> USE DEF IInv
<1> DEFINE m == IF Len(stack) > max_size THEN max_size ELSE Len(stack)
           e == Len(stack) - m
           kept == Newest(max_size, stack)
           keptS == Newest(max_size, snapshots)
<1>0. /\ max_size \in Nat /\ m \in Nat /\ e \in Nat /\ m + e = Len(stack)
      /\ Len(stack) \in Nat
  BY UndoAssumption DEF TypeOK
<1>1. /\ kept \in Seq(UndoState) /\ Len(kept) = m
      /\ \A k \in 1..m : kept[k] = stack[k + e]
  BY <1>0, NewestEntries, Zenon DEF TypeOK
<1>2. /\ keptS \in Seq(Database) /\ Len(keptS) = m
      /\ \A k \in 1..m : keptS[k] = snapshots[k + e]
  <2>1. Len(snapshots) = Len(stack) /\ snapshots \in Seq(Database)
    BY Zenon DEF TypeOK, HistoryInv
  <2> DEFINE ms == IF Len(snapshots) > max_size THEN max_size ELSE Len(snapshots)
  <2>2. /\ keptS \in Seq(Database) /\ Len(keptS) = ms
        /\ \A k \in 1..ms : keptS[k] = snapshots[k + (Len(snapshots) - ms)]
    BY <1>0, <2>1, NewestEntries, Zenon
  <2>3. ms = m /\ Len(snapshots) - ms = e
    BY <2>1, Zenon
  <2> HIDE DEF ms, m, e, keptS
  <2> QED BY <2>2, <2>3, Zenon
<1>3. /\ stack' = Append(kept, EmptyState)
      /\ snapshots' = Append(keptS, db)
      /\ active_sessions < MaxSessions /\ active_sessions' = active_sessions + 1
      /\ disable_on_exit' = (disable_on_exit \/ disabled)
      /\ disabled' = FALSE /\ db' = db /\ max_size' = max_size
  BY Zenon DEF start_undo_session
<1> HIDE DEF m, e, kept, keptS
<1>4. db \in Database /\ EmptyState \in UndoState /\ Describes(EmptyState, db, db)
  BY EmptyDescribes, Zenon DEF TypeOK
<1>5. /\ stack' \in Seq(UndoState) /\ snapshots' \in Seq(Database)
      /\ Len(stack') = m + 1 /\ Len(snapshots') = m + 1
      /\ \A k \in 1..m : stack'[k] = stack[k + e] /\ snapshots'[k] = snapshots[k + e]
      /\ stack'[m + 1] = EmptyState /\ snapshots'[m + 1] = db
  BY <1>0, <1>1, <1>2, <1>3, <1>4
<1>6. TypeOK'
  <2>1. active_sessions' \in 0..MaxSessions
    BY <1>3, UndoAssumption DEF TypeOK
  <2>2. disable_on_exit' \in BOOLEAN
    BY <1>3, Zenon DEF TypeOK
  <2> QED BY <1>3, <1>5, <2>1, <2>2, Zenon DEF TypeOK
<1>7. ASSUME NEW k \in 1..Len(stack')
      PROVE  Sane(snapshots'[k]) /\ Describes(stack'[k], snapshots'[k], After(k)')
  <2>1. CASE k = m + 1
    <3>1. After(k)' = db
      BY <2>1, <1>3, <1>5, Zenon DEF After
    <3> QED BY <2>1, <3>1, <1>4, <1>5, Zenon DEF HistoryInv
  <2>2. CASE k # m + 1
    <3>1. k \in 1..m /\ k + e \in 1..Len(stack) /\ k + 1 \in 1..m + 1
      BY <2>2, <1>0, <1>5
    <3>2. After(k)' = snapshots'[k + 1]
      BY <2>2, <1>5, Zenon DEF After
    <3>3. After(k)' = After(k + e)
      <4>1. CASE k = m
        BY <4>1, <3>2, <1>0, <1>5, Zenon DEF After
      <4>2. CASE k # m
        <5>1. k + 1 \in 1..m
          BY <3>1, <4>2, <1>0
        <5>2. snapshots'[k + 1] = snapshots[(k + 1) + e]
          BY <5>1, <1>5, Zenon
        <5>3. (k + 1) + e = (k + e) + 1 /\ k + e # Len(stack)
          BY <3>1, <4>2, <1>0
        <5> QED BY <3>2, <5>2, <5>3, Zenon DEF After
      <4> QED BY <4>1, <4>2, Zenon
    <3>4. Sane(snapshots[k + e]) /\ Describes(stack[k + e], snapshots[k + e], After(k + e))
      BY <3>1, Zenon DEF HistoryInv
    <3> QED BY <3>1, <3>3, <3>4, <1>5, Zenon
  <2> QED BY <2>1, <2>2, Zenon
<1>8. active_sessions <= m
  BY <1>0, UndoAssumption, <1>3 DEF m, TypeOK, HistoryInv
<1>9. disable_on_exit' => Len(stack') = active_sessions'
  <2>1. CASE disable_on_exit
    <3>1. Len(stack) = active_sessions
      BY <2>1, Zenon DEF HistoryInv
    <3>2. m = Len(stack)
      BY <3>1, <1>0, <1>8 DEF m, TypeOK
    <3> QED BY <3>1, <3>2, <1>3, <1>5, Zenon
  <2>2. CASE disabled
    <3>1. Len(stack) = 0 /\ active_sessions = 0
      BY <2>2 DEF HistoryInv, TypeOK
    <3> QED BY <3>1, <1>0, <1>3, <1>5
  <2> QED BY <2>1, <2>2, <1>3, Zenon
<1>10. HistoryInv'
  <2>1. active_sessions' <= Len(stack') /\ active_sessions' > 0
    BY <1>0, <1>3, <1>5, <1>8 DEF TypeOK
  <2>2. Sane(db') /\ Len(snapshots') = Len(stack') /\ ~disabled'
    BY <1>3, <1>5, Zenon DEF HistoryInv
  <2> QED BY <2>1, <2>2, <1>7, <1>9, Zenon DEF HistoryInv
<1> QED BY <1>6, <1>10, Zenon

\* Undo, pop_commit and merge drop the newest state.
LEMMA PopFacts ==
   ASSUME IInv, stack # << >>,
          snapshots' = SubSeq(snapshots, 1, Len(stack) - 1)
   PROVE  LET n == Len(stack) - 1 IN
          /\ n \in Nat /\ Len(stack) = n + 1 /\ Len(snapshots) = n + 1
          /\ SubSeq(stack, 1, n) \in Seq(UndoState)
          /\ Len(SubSeq(stack, 1, n)) = n
          /\ \A k \in 1..n : SubSeq(stack, 1, n)[k] = stack[k]
          /\ snapshots' \in Seq(Database) /\ Len(snapshots') = n
          /\ \A k \in 1..n : snapshots'[k] = snapshots[k]
          /\ stack[Len(stack)] \in UndoState
          /\ snapshots[Len(stack)] \in Database
          /\ Sane(snapshots[Len(stack)])
          /\ Describes(stack[Len(stack)], snapshots[Len(stack)], db)
          /\ \A k \in 1..n : /\ Sane(snapshots[k])
                             /\ Describes(stack[k], snapshots[k], snapshots[k + 1])
<1> USE DEF IInv
<1> DEFINE n == Len(stack) - 1
<1>1. /\ n \in Nat /\ Len(stack) = n + 1 /\ Len(snapshots) = n + 1
      /\ stack \in Seq(UndoState) /\ snapshots \in Seq(Database)
  BY DEF TypeOK, HistoryInv
<1>2. /\ SubSeq(stack, 1, n) \in Seq(UndoState)
      /\ Len(SubSeq(stack, 1, n)) = n
      /\ \A k \in 1..n : SubSeq(stack, 1, n)[k] = stack[k]
  BY <1>1
<1>3. /\ snapshots' \in Seq(Database) /\ Len(snapshots') = n
      /\ \A k \in 1..n : snapshots'[k] = snapshots[k]
  BY <1>1
<1>4. /\ stack[Len(stack)] \in UndoState
      /\ snapshots[Len(stack)] \in Database
      /\ Len(stack) \in 1..Len(stack)
  BY <1>1
<1>5. After(Len(stack)) = db
  BY Zenon DEF After
<1>6. ASSUME NEW k \in 1..n
      PROVE  /\ Sane(snapshots[k])
             /\ Describes(stack[k], snapshots[k], snapshots[k + 1])
  <2>1. k \in 1..Len(stack) /\ k # Len(stack)
    <3>1. Len(stack) \in Nat
      BY <1>1
    <3> QED BY ONLY <3>1, k \in 1..(Len(stack) - 1)
  <2> QED BY <2>1, Zenon DEF HistoryInv, After
<1> QED BY <1>1, <1>2, <1>3, <1>4, <1>5, <1>6, Zenon DEF HistoryInv

\* Dropping the newest state while going back to its snapshot.
LEMMA RestorePreserves ==
   ASSUME IInv, stack # << >>, PopState, db' = Restored(stack[Len(stack)], db)
   PROVE  /\ db' = snapshots[Len(stack)]
          /\ db' \in Database /\ Sane(db')
          /\ stack' \in Seq(UndoState) /\ snapshots' \in Seq(Database)
          /\ Len(stack) \in Nat /\ Len(stack') = Len(stack) - 1
          /\ Len(snapshots') = Len(stack')
          /\ \A k \in 1..Len(stack') :
                /\ Sane(snapshots'[k])
                /\ Describes(stack'[k], snapshots'[k], After(k)')
<1> DEFINE n == Len(stack) - 1
<1>0. stack' = SubSeq(stack, 1, n) /\ snapshots' = SubSeq(snapshots, 1, n)
  BY Zenon DEF PopState
<1>1. /\ n \in Nat /\ Len(stack) = n + 1 /\ Len(snapshots) = n + 1
      /\ stack' \in Seq(UndoState) /\ Len(stack') = n
      /\ \A k \in 1..n : stack'[k] = stack[k]
      /\ snapshots' \in Seq(Database) /\ Len(snapshots') = n
      /\ \A k \in 1..n : snapshots'[k] = snapshots[k]
      /\ stack[Len(stack)] \in UndoState
      /\ snapshots[Len(stack)] \in Database
      /\ Sane(snapshots[Len(stack)])
      /\ Describes(stack[Len(stack)], snapshots[Len(stack)], db)
      /\ \A k \in 1..n : /\ Sane(snapshots[k])
                         /\ Describes(stack[k], snapshots[k], snapshots[k + 1])
  BY <1>0, PopFacts, Zenon
<1> HIDE DEF n
<1>2. db' = snapshots[Len(stack)]
  BY <1>1, DescribesRestores, Zenon DEF IInv, TypeOK
<1>3. ASSUME NEW k \in 1..n
      PROVE  After(k)' = snapshots[k + 1]
  <2>1. CASE k = n
    BY <2>1, <1>1, <1>2, Zenon DEF After
  <2>2. CASE k # n
    <3>1. k + 1 \in 1..n
      BY <2>2, <1>1
    <3> QED BY <2>2, <3>1, <1>1, Zenon DEF After
  <2> QED BY <2>1, <2>2, Zenon
<1>4. ASSUME NEW k \in 1..n
      PROVE  Sane(snapshots'[k]) /\ Describes(stack'[k], snapshots'[k], After(k)')
  BY <1>1, <1>3, Zenon
<1>5. Len(stack) \in Nat /\ n = Len(stack) - 1
  BY <1>1 DEF n
<1> QED BY <1>1, <1>2, <1>4, <1>5, Zenon

\* The counters at the end of a session that leaves n states.
LEMMA EndSessionFacts ==
   ASSUME IInv, active_sessions > 0, EndSession, Len(stack') = Len(stack) - 1
   PROVE  /\ active_sessions' \in 0..MaxSessions
          /\ disabled' \in BOOLEAN /\ disable_on_exit' \in BOOLEAN
          /\ active_sessions' <= Len(stack')
          /\ disabled' => Len(stack') = 0 /\ ~disable_on_exit'
          /\ disable_on_exit' => active_sessions' > 0 /\ Len(stack') = active_sessions'
<1> USE DEF IInv
<1>1. active_sessions \in 1..MaxSessions /\ MaxSessions \in Nat /\ Len(stack) \in Nat
  BY UndoAssumption DEF TypeOK
<1>2. active_sessions' = active_sessions - 1 /\ active_sessions <= Len(stack)
  BY Zenon DEF EndSession, HistoryInv
<1>3. disable_on_exit => Len(stack) = active_sessions
  BY Zenon DEF HistoryInv
<1>4. disabled' \in BOOLEAN /\ disable_on_exit' \in BOOLEAN
  BY Zenon DEF EndSession
<1>5. disabled' => disable_on_exit /\ active_sessions = 1
  BY Zenon DEF EndSession
<1>6. disable_on_exit' => disable_on_exit /\ active_sessions > 1
  BY Zenon DEF EndSession
<1> QED BY <1>1, <1>2, <1>3, <1>4, <1>5, <1>6

\* undo keeps the invariant.
LEMMA UndoInv ==
   ASSUME IInv, undo
   PROVE  IInv'
<1>1. /\ stack # << >> /\ PopState /\ db' = Restored(stack[Len(stack)], db)
      /\ active_sessions > 0 /\ EndSession /\ max_size' = max_size
  BY Zenon DEF undo
<1>2. /\ db' \in Database /\ Sane(db')
      /\ stack' \in Seq(UndoState) /\ snapshots' \in Seq(Database)
      /\ Len(stack') = Len(stack) - 1 /\ Len(snapshots') = Len(stack')
      /\ \A k \in 1..Len(stack') :
            /\ Sane(snapshots'[k])
            /\ Describes(stack'[k], snapshots'[k], After(k)')
  BY <1>1, RestorePreserves, Zenon
<1>3. /\ active_sessions' \in 0..MaxSessions
      /\ disabled' \in BOOLEAN /\ disable_on_exit' \in BOOLEAN
      /\ active_sessions' <= Len(stack')
      /\ disabled' => Len(stack') = 0 /\ ~disable_on_exit'
      /\ disable_on_exit' => active_sessions' > 0 /\ Len(stack') = active_sessions'
  BY <1>1, <1>2, EndSessionFacts, Zenon
<1>4. Len(stack') = 0 => stack' = << >>
  BY <1>2
<1>5. TypeOK'
  BY <1>1, <1>2, <1>3, Zenon DEF TypeOK, IInv
<1>6. HistoryInv'
  BY <1>2, <1>3, <1>4, Zenon DEF HistoryInv
<1> QED BY <1>5, <1>6, Zenon DEF IInv

\* pop_commit keeps the invariant.
LEMMA PopCommitInv ==
   ASSUME IInv, pop_commit
   PROVE  IInv'
<1>1. /\ stack # << >> /\ PopState /\ db' = Restored(stack[Len(stack)], db)
      /\ active_sessions = 0 /\ disabled' = FALSE
      /\ UNCHANGED <<active_sessions, max_size, disable_on_exit>>
  BY Zenon DEF pop_commit
<1>2. /\ db' \in Database /\ Sane(db')
      /\ stack' \in Seq(UndoState) /\ snapshots' \in Seq(Database)
      /\ Len(stack') = Len(stack) - 1 /\ Len(snapshots') = Len(stack')
      /\ \A k \in 1..Len(stack') :
            /\ Sane(snapshots'[k])
            /\ Describes(stack'[k], snapshots'[k], After(k)')
  BY <1>1, RestorePreserves, Zenon
<1>3. ~disable_on_exit'
  BY <1>1 DEF IInv, HistoryInv, TypeOK
<1>4. active_sessions' <= Len(stack')
  BY <1>1, <1>2
<1>5. TypeOK'
  BY <1>1, <1>2, Zenon DEF TypeOK, IInv
<1>6. HistoryInv'
  BY <1>1, <1>2, <1>3, <1>4, Zenon DEF HistoryInv
<1> QED BY <1>5, <1>6, Zenon DEF IInv

\* merge keeps the invariant.
LEMMA MergeInv ==
   ASSUME IInv, merge
   PROVE  IInv'
<1>1. active_sessions > 0 /\ EndSession /\ db' = db /\ max_size' = max_size
  BY Zenon DEF merge
<1>2. CASE active_sessions = 1 /\ Len(stack) = 1 /\ PopState
  <2>1. stack # << >> /\ Len(stack) - 1 = 0
    BY <1>2
  <2>2. stack' = << >> /\ snapshots' = << >> /\ Len(stack') = Len(stack) - 1
    BY <1>2, <2>1 DEF PopState, IInv, TypeOK
  <2>3. /\ active_sessions' \in 0..MaxSessions
        /\ disabled' \in BOOLEAN /\ disable_on_exit' \in BOOLEAN
        /\ active_sessions' <= Len(stack')
        /\ disabled' => ~disable_on_exit'
        /\ disable_on_exit' => active_sessions' > 0 /\ Len(stack') = active_sessions'
    BY <1>1, <2>2, EndSessionFacts, Zenon
  <2>4. TypeOK'
    BY <1>1, <2>2, <2>3 DEF TypeOK, IInv
  <2>5. HistoryInv'
    BY <1>1, <2>2, <2>3 DEF HistoryInv, IInv
  <2> QED BY <2>4, <2>5, Zenon DEF IInv
<1>3. CASE LET n == Len(stack) IN
           /\ n >= 2
           /\ stack' = [SubSeq(stack, 1, n - 1) EXCEPT
                          ![n - 1] = Merged(stack[n - 1], stack[n])]
           /\ snapshots' = SubSeq(snapshots, 1, n - 1)
  <2> DEFINE n == Len(stack) - 1
             old == SubSeq(stack, 1, n)
             t == Merged(stack[n], stack[Len(stack)])
  <2>1. /\ stack # << >> /\ stack' = [old EXCEPT ![n] = t]
        /\ snapshots' = SubSeq(snapshots, 1, n)
        /\ Len(stack) >= 2
    BY <1>3
  <2>2. /\ n \in Nat /\ Len(stack) = n + 1 /\ Len(snapshots) = n + 1
        /\ old \in Seq(UndoState) /\ Len(old) = n
        /\ \A k \in 1..n : old[k] = stack[k]
        /\ snapshots' \in Seq(Database) /\ Len(snapshots') = n
        /\ \A k \in 1..n : snapshots'[k] = snapshots[k]
        /\ stack[Len(stack)] \in UndoState
        /\ snapshots[Len(stack)] \in Database
        /\ Sane(snapshots[Len(stack)])
        /\ Describes(stack[Len(stack)], snapshots[Len(stack)], db)
        /\ \A k \in 1..n : /\ Sane(snapshots[k])
                           /\ Describes(stack[k], snapshots[k], snapshots[k + 1])
    BY <2>1, PopFacts, Zenon
  <2> HIDE DEF n, old, t
  <2>3. n \in 1..n /\ n >= 1
    BY <2>1, <2>2
  <2>4. stack[n] \in UndoState /\ snapshots[n] \in Database
    BY <2>2, <2>3 DEF IInv, TypeOK
  <2>5. t \in UndoState /\ Describes(t, snapshots[n], db)
    <3>1. db \in Database /\ Sane(db) /\ Sane(snapshots[n])
      BY <2>2, <2>3, Zenon DEF IInv, TypeOK, HistoryInv
    <3>2. Describes(stack[n], snapshots[n], snapshots[Len(stack)])
      BY <2>2, <2>3, Zenon
    <3> QED BY <2>2, <2>4, <3>1, <3>2, MergeDescribes, Zenon DEF t
  <2>6. /\ stack' \in Seq(UndoState) /\ Len(stack') = n
        /\ stack'[n] = t
        /\ \A k \in 1..n : k # n => stack'[k] = stack[k]
    BY <2>1, <2>2, <2>3, <2>5
  <2>7. ASSUME NEW k \in 1..Len(stack')
        PROVE  Sane(snapshots'[k]) /\ Describes(stack'[k], snapshots'[k], After(k)')
    <3>1. CASE k = n
      BY <3>1, <1>1, <2>2, <2>3, <2>5, <2>6, Zenon DEF After
    <3>2. CASE k # n
      <4>1. k \in 1..n /\ k + 1 \in 1..n
        BY <3>2, <2>2, <2>6
      <4>2. After(k)' = snapshots[k + 1]
        BY <3>2, <4>1, <2>2, <2>6, Zenon DEF After
      <4> QED BY <3>2, <4>1, <4>2, <2>2, <2>6, Zenon
    <3> QED BY <3>1, <3>2, Zenon
  <2>8. Len(stack') = Len(stack) - 1
    BY <2>2, <2>6
  <2>9. /\ active_sessions' \in 0..MaxSessions
        /\ disabled' \in BOOLEAN /\ disable_on_exit' \in BOOLEAN
        /\ active_sessions' <= Len(stack')
        /\ disabled' => Len(stack') = 0 /\ ~disable_on_exit'
        /\ disable_on_exit' => active_sessions' > 0 /\ Len(stack') = active_sessions'
    BY <1>1, <2>8, EndSessionFacts, Zenon
  <2>10. TypeOK'
    BY <1>1, <2>2, <2>6, <2>9, Zenon DEF TypeOK, IInv
  <2>11. Len(stack') # 0 /\ Len(snapshots') = Len(stack')
    BY <2>2, <2>3, <2>6
  <2>12. HistoryInv'
    BY <1>1, <2>7, <2>9, <2>11, Zenon DEF HistoryInv, IInv
  <2> QED BY <2>10, <2>12, Zenon DEF IInv
<1> QED BY <1>2, <1>3, Zenon DEF merge

\* The operations that touch neither the objects nor the history.
LEMMA QuietInv ==
   ASSUME IInv,
          \/ commit \/ disable \/ enable \/ UNCHANGED vars
          \/ \E n \in Sizes : set_max_size(n)
   PROVE  IInv'
<1> USE DEF IInv
<1>1. /\ db' = db /\ stack' = stack /\ snapshots' = snapshots
      /\ disable_on_exit' = disable_on_exit
  BY Zenon DEF commit, disable, enable, set_max_size, vars
<1>2. /\ active_sessions' \in 0..MaxSessions /\ max_size' \in Sizes
      /\ disabled' \in BOOLEAN
      /\ active_sessions' <= Len(stack')
      /\ disabled' => stack' = << >> /\ ~disable_on_exit'
      /\ disable_on_exit' => active_sessions' > 0 /\ Len(stack') = active_sessions'
  <2>1. CASE commit
    BY <1>1, <2>1, UndoAssumption DEF commit, TypeOK, HistoryInv
  <2>2. CASE disable
    BY <1>1, <2>2 DEF disable, TypeOK, HistoryInv
  <2>3. CASE enable
    <3>1. /\ active_sessions' = active_sessions /\ max_size' = max_size
          /\ disabled' = FALSE
      BY <2>3, Zenon DEF enable
    <3> QED BY <1>1, <3>1, Zenon DEF TypeOK, HistoryInv
  <2>4. CASE UNCHANGED vars
    BY <2>4, Zenon DEF vars, TypeOK, HistoryInv
  <2>5. CASE \E n \in Sizes : set_max_size(n)
    BY <1>1, <2>5 DEF set_max_size, TypeOK, HistoryInv
  <2> QED BY <2>1, <2>2, <2>3, <2>4, <2>5, Zenon
<1>3. \A k \in 1..Len(stack) : After(k)' = After(k)
  BY <1>1, Zenon DEF After
<1>4. TypeOK'
  BY <1>1, <1>2, Zenon DEF TypeOK
<1>5. HistoryInv'
  BY <1>1, <1>2, <1>3, Zenon DEF HistoryInv
<1> QED BY <1>4, <1>5, Zenon

\* Every step keeps the invariant.
LEMMA NextInv == IInv /\ [Next]_vars => IInv'
<1> SUFFICES ASSUME IInv, [Next]_vars PROVE IInv'
  BY Zenon
<1> QED BY ChangeInv, StartInv, UndoInv, MergeInv, PopCommitInv, QuietInv, Zenon
        DEF Next

\* The invariant holds in every reachable state.
LEMMA InvariantHolds == Spec => []IInv
BY InitInv, NextInv, PTL DEF Spec

\* The maps, counters and flags of undo_database keep their types.
THEOREM TypeCorrect == Spec => []TypeOK
<1>1. IInv => TypeOK
  BY Zenon DEF IInv
<1> QED BY <1>1, InvariantHolds, PTL

\* Every undo_state, applied by undo() or pop_commit() after the newer ones,
\* brings back the database as it was when the state was pushed.
THEOREM UndoIsExact == Spec => []UndoRestores
<1>1. IInv => UndoRestores
  <2> SUFFICES ASSUME IInv PROVE UndoRestores
    BY Zenon
  <2>1. ASSUME NEW k \in 1..Len(stack)
        PROVE  Restored(stack[k], After(k)) = snapshots[k]
    <3>1. /\ stack[k] \in UndoState /\ snapshots[k] \in Database
          /\ After(k) \in Database
      BY DEF IInv, TypeOK, HistoryInv, After
    <3> QED BY <3>1, DescribesRestores, Zenon DEF IInv, HistoryInv
  <2> QED BY <2>1, Zenon DEF UndoRestores, IInv, HistoryInv
<1> QED BY <1>1, InvariantHolds, PTL

\* No lookup or insert inside undo() and pop_commit() can throw.
THEOREM UndoCannotThrow == Spec => []UndoNeverThrows
<1>1. IInv => UndoNeverThrows
  BY Zenon DEF IInv, HistoryInv, UndoNeverThrows, AppliesCleanly, Describes
<1> QED BY <1>1, InvariantHolds, PTL

\* The cells of merge() marked N/A are unreachable.
THEOREM MergeTableComplete == Spec => []NoCausalViolation
<1>1. IInv => NoCausalViolation
  <2> SUFFICES ASSUME IInv, NEW k \in 2..Len(stack)
               PROVE  \A i \in Id :
                        /\ i \in stack[k].new_ids =>
                              /\ i \notin stack[k - 1].new_ids
                              /\ stack[k - 1].old_values[i] = Null
                              /\ stack[k - 1].removed[i] = Null
                        /\ stack[k - 1].removed[i] # Null =>
                              /\ stack[k].old_values[i] = Null
                              /\ stack[k].removed[i] = Null
    BY Zenon DEF NoCausalViolation
  <2>1. /\ stack[k - 1] \in UndoState /\ stack[k] \in UndoState
        /\ snapshots[k - 1] \in Database /\ snapshots[k] \in Database
        /\ k - 1 \in 1..Len(stack) /\ k \in 1..Len(stack)
    BY DEF IInv, TypeOK, HistoryInv
  <2>2. After(k - 1) = snapshots[k] /\ After(k) \in Database /\ Sane(After(k))
    <3>1. After(k - 1) = snapshots[k]
      BY DEF After, IInv, TypeOK
    <3>2. CASE k = Len(stack)
      BY <3>1, <3>2, Zenon DEF After, IInv, TypeOK, HistoryInv
    <3>3. CASE k # Len(stack)
      <4>1. k + 1 \in 1..Len(stack) /\ k + 1 \in 1..Len(snapshots)
        BY <3>3, <2>1 DEF IInv, TypeOK, HistoryInv
      <4> QED BY <3>1, <3>3, <4>1 DEF After, IInv, TypeOK, HistoryInv
    <3> QED BY <3>2, <3>3, Zenon
  <2>3. /\ Describes(stack[k - 1], snapshots[k - 1], snapshots[k])
        /\ Describes(stack[k], snapshots[k], After(k))
        /\ Sane(snapshots[k - 1]) /\ Sane(snapshots[k])
    BY <2>1, <2>2, Zenon DEF IInv, HistoryInv
  <2> DEFINE a == stack[k - 1]
             b == stack[k]
             d0 == snapshots[k - 1]
             d1 == snapshots[k]
             d2 == After(k)
  <2>4. /\ a \in UndoState /\ b \in UndoState
        /\ d0 \in Database /\ d1 \in Database /\ d2 \in Database
        /\ Describes(a, d0, d1) /\ Describes(b, d1, d2)
        /\ Sane(d0) /\ Sane(d1) /\ Sane(d2)
    BY <2>1, <2>2, <2>3, Zenon
  <2> HIDE DEF a, b, d0, d1, d2
  <2>5. \A i \in Id :
           /\ i \in b.new_ids => /\ i \notin a.new_ids
                                 /\ a.old_values[i] = Null
                                 /\ a.removed[i] = Null
           /\ a.removed[i] # Null => /\ b.old_values[i] = Null
                                     /\ b.removed[i] = Null
    BY <2>4, MergeDescribes, SMTT(30)
  <2> QED BY <2>5, Zenon DEF a, b
<1> QED BY <1>1, InvariantHolds, PTL

\* A session that is still open keeps its state: trimming the front of the
\* history never reaches it.
THEOREM OpenSessionsKept == Spec => []SessionsBacked
<1>1. IInv => SessionsBacked
  BY Zenon DEF IInv, HistoryInv, SessionsBacked
<1> QED BY <1>1, InvariantHolds, PTL

-----------------------------------------------------------------------------
(* The differences implement a stack of snapshots.                          *)

\* Every step is a step of the stack of snapshots, or leaves it unchanged.
LEMMA StepRefines ==
   ASSUME IInv, IInv', [Next]_vars
   PROVE  [Abstract!Next]_(Abstract!vars)
<1> USE DEF IInv
<1>1. CASE Change
  <2>1. /\ db' \in Database /\ active_sessions' = active_sessions
        /\ \/ snapshots' = snapshots
           \/ snapshots' = <<db>> /\ stack = << >>
    BY <1>1, Zenon DEF Change, create, modify, remove, use_next_id, Record, TypeOK
  <2>2. stack = << >> => snapshots = << >> /\ active_sessions = 0
    BY DEF TypeOK, HistoryInv
  <2>3. Abstract!Write
    BY <2>1, <2>2, Zenon DEF Abstract!Write
  <2> QED BY <2>3, Zenon DEF Abstract!Next
<1>2. ASSUME NEW force_enable \in BOOLEAN, start_undo_session(force_enable)
      PROVE  Abstract!Next
  <2> DEFINE m == IF Len(snapshots) > max_size THEN max_size ELSE Len(snapshots)
             n == Len(snapshots) - m
  <2>1. max_size \in Nat /\ n \in 0..Len(snapshots)
    BY UndoAssumption DEF TypeOK
  <2>2. Newest(max_size, snapshots) = SubSeq(snapshots, n + 1, Len(snapshots))
    BY <2>1, NewestEntries, Zenon DEF TypeOK
  <2>3. n + active_sessions <= Len(snapshots)
    <3>1. active_sessions <= Len(snapshots) /\ active_sessions < MaxSessions
      BY <1>2, Zenon DEF HistoryInv, start_undo_session
    <3>2. active_sessions <= max_size
      BY <3>1, UndoAssumption DEF TypeOK
    <3> QED BY <2>1, <3>1, <3>2 DEF TypeOK
  <2>4. /\ snapshots' = Append(SubSeq(snapshots, n + 1, Len(snapshots)), db)
        /\ active_sessions' = active_sessions + 1 /\ db' = db
    BY <1>2, <2>2, Zenon DEF start_undo_session
  <2> HIDE DEF n
  <2>5. Abstract!Start
    BY <2>1, <2>3, <2>4, Zenon DEF Abstract!Start
  <2> QED BY <2>5, Zenon DEF Abstract!Next
<1>3. CASE undo
  <2>1. /\ stack # << >> /\ PopState /\ db' = Restored(stack[Len(stack)], db)
        /\ active_sessions > 0 /\ active_sessions' = active_sessions - 1
    BY <1>3, Zenon DEF undo, EndSession
  <2>2. db' = snapshots[Len(stack)]
    BY <2>1, RestorePreserves, Zenon
  <2>3. Len(snapshots) = Len(stack) /\ snapshots # << >>
    BY <2>1 DEF HistoryInv, TypeOK
  <2>4. Abstract!Undo
    BY <2>1, <2>2, <2>3, Zenon DEF Abstract!Undo, Abstract!Older, PopState
  <2> QED BY <2>4, Zenon DEF Abstract!Next
<1>4. CASE merge
  <2>1. /\ snapshots' = SubSeq(snapshots, 1, Len(stack) - 1)
        /\ active_sessions > 0 /\ active_sessions' = active_sessions - 1
        /\ db' = db
    BY <1>4, Zenon DEF merge, EndSession, PopState
  <2>2. Len(snapshots) = Len(stack) /\ snapshots # << >>
    BY <2>1 DEF HistoryInv, TypeOK
  <2>3. Abstract!Merge
    BY <2>1, <2>2, Zenon DEF Abstract!Merge, Abstract!Older
  <2> QED BY <2>3, Zenon DEF Abstract!Next
<1>5. CASE commit
  <2>1. Abstract!Commit
    BY <1>5 DEF commit, Abstract!Commit
  <2> QED BY <2>1, Zenon DEF Abstract!Next
<1>6. CASE pop_commit
  <2>1. /\ stack # << >> /\ PopState /\ db' = Restored(stack[Len(stack)], db)
        /\ active_sessions = 0 /\ active_sessions' = active_sessions
    BY <1>6, Zenon DEF pop_commit
  <2>2. db' = snapshots[Len(stack)]
    BY <2>1, RestorePreserves, Zenon
  <2>3. Len(snapshots) = Len(stack) /\ snapshots # << >>
    BY <2>1 DEF HistoryInv, TypeOK
  <2>4. Abstract!PopCommit
    BY <2>1, <2>2, <2>3, Zenon DEF Abstract!PopCommit, Abstract!Older, PopState
  <2> QED BY <2>4, Zenon DEF Abstract!Next
<1>7. CASE \/ disable \/ enable \/ UNCHANGED vars
           \/ \E n \in Sizes : set_max_size(n)
  BY <1>7, Zenon DEF disable, enable, set_max_size, vars, Abstract!vars
<1> QED BY <1>1, <1>2, <1>3, <1>4, <1>5, <1>6, <1>7, Zenon DEF Next

\* The undo database implements a stack of snapshots: what its operations do
\* with differences is what SnapshotStack does with whole databases.
THEOREM UndoRefinesSnapshots == Spec => ImplementsSnapshotStack
<1>1. Init => Abstract!Init
  BY Zenon DEF Init, Abstract!Init
<1>2. IInv /\ IInv' /\ [Next]_vars => [Abstract!Next]_(Abstract!vars)
  BY StepRefines, Zenon
<1> QED BY <1>1, <1>2, InvariantHolds, PTL
        DEF Spec, ImplementsSnapshotStack, Abstract!Spec

-----------------------------------------------------------------------------
(***************************************************************************)
(* The object database a node runs on is whole, for every set of indexes   *)
(* and whatever crashes went before.                                       *)
(***************************************************************************)
CONSTANTS Properties, Others

VARIABLES mem, obj, tmp, old, there, locked, version_ok, replay, pc, left

F == INSTANCE ObjectFiles

\* The global properties have an index.
LEMMA Indexed == Properties \in F!Index
  BY Zenon DEF F!Index

\* What open makes of an object database without files, or of a whole one, is whole.
LEMMA OpenedWhole ==
   ASSUME NEW read \in [F!Index -> F!Files], F!Whole(read) \/ read = F!None,
          NEW m, m = IF read[Properties] = F!Empty
                     THEN [i \in F!Index |-> IF read[i] = F!Empty THEN F!Genesis ELSE read[i]]
                     ELSE read
   PROVE  F!Whole(m)
  <1>1. CASE F!Whole(read)
    <2>1. PICK s \in F!States : read = [i \in F!Index |-> s]
      BY <1>1, Zenon DEF F!Whole
    <2>2. read[Properties] # F!Empty
      BY <2>1, Indexed, Zenon DEF F!States, F!Empty, F!Genesis
    <2>3. m = read
      BY <2>2, Zenon
    <2> QED
      BY <2>3, <1>1, Zenon
  <1>2. CASE read = F!None
    <2>1. m = [i \in F!Index |-> F!Genesis]
      BY <1>2, Indexed, Zenon DEF F!None
    <2>2. F!Genesis \in F!States
      BY DEF F!Genesis, F!States, F!Empty
    <2> QED
      BY <2>1, <2>2, Zenon DEF F!Whole
  <1> QED
    BY <1>1, <1>2, Zenon

\* A fresh node, with nothing on disk, satisfies the invariant.
LEMMA InitFiles == F!Init => F!IInv
  BY Zenon DEF F!Init, F!IInv, F!TypeOK, F!None, F!Files, F!Empty

\* What every step preserves of the types.
LEMMA FilesTypes == F!IInv /\ [F!Next]_(F!vars) => F!TypeOK'
  <1> SUFFICES ASSUME F!IInv, [F!Next]_(F!vars) PROVE F!TypeOK'
    BY Zenon
  <1> USE DEF F!IInv, F!TypeOK, F!Files, F!States, F!Empty, F!Genesis, F!Torn
  <1>1. CASE F!start
    BY <1>1, Zenon DEF F!start, F!disk
  <1>2. CASE F!wipe_end
    BY <1>2, Zenon DEF F!wipe_end
  <1>3. CASE F!open
    <2>1. F!None \in [F!Index -> F!Files]
      BY Zenon DEF F!None
    <2>2. mem' \in [F!Index -> F!Files]
      BY <1>3, <2>1, Zenon DEF F!open
    <2> QED
      BY <1>3, <2>2, Zenon DEF F!open, F!disk
  <1>4. ASSUME NEW s \in F!States, F!change(s) PROVE F!TypeOK'
    BY <1>4, Zenon DEF F!change, F!disk
  <1>5. CASE F!flush
    BY <1>5, Zenon DEF F!flush
  <1>6. CASE F!unlock
    BY <1>6, Zenon DEF F!unlock
  <1>7. CASE F!swap
    BY <1>7, Zenon DEF F!swap, F!moved, F!None
  <1>8. CASE F!swap_throws
    BY <1>8, Zenon DEF F!swap_throws, F!disk, F!None
  <1>9. CASE F!install
    BY <1>9, Zenon DEF F!install, F!moved, F!None
  <1>10. CASE F!clean_end
    BY <1>10, Zenon DEF F!clean_end, F!None
  <1>11. ASSUME NEW i \in F!Index, F!wipe_file(i) PROVE F!TypeOK'
    BY <1>11, Zenon DEF F!wipe_file
  <1>12. ASSUME NEW i \in F!Index, F!save_begin(i) PROVE F!TypeOK'
    BY <1>12, Zenon DEF F!save_begin
  <1>13. ASSUME NEW i \in F!Index, F!save_end(i) PROVE F!TypeOK'
    BY <1>13, Zenon DEF F!save_end
  <1>14. ASSUME NEW i \in F!Index, F!clean_file(i) PROVE F!TypeOK'
    BY <1>14, Zenon DEF F!clean_file
  <1>15. CASE F!crash
    BY <1>15, Zenon DEF F!crash, F!disk, F!None
  <1>16. CASE F!upgrade
    BY <1>16, Zenon DEF F!upgrade, F!disk
  <1>17. CASE UNCHANGED F!vars
    BY <1>17, Zenon DEF F!vars
  <1> QED
    BY <1>1, <1>2, <1>3, <1>4, <1>5, <1>6, <1>7, <1>8, <1>9, <1>10, <1>11, <1>12, <1>13, <1>14,
       <1>15, <1>16, <1>17, Zenon DEF F!Next

\* The inductive step: object_database is replaced only by a complete object_database.tmp,
\* and taken apart only when the next start wipes it.
LEMMA StepFiles == F!IInv /\ [F!Next]_(F!vars) => F!IInv'
  <1> SUFFICES ASSUME F!IInv, [F!Next]_(F!vars) PROVE F!IInv'
    BY Zenon
  <1>0. F!TypeOK'
    BY FilesTypes, Zenon
  <1>1. CASE F!start
    <2>1. CASE replay' \/ ~version_ok
      BY <1>0, <1>1, <2>1, Zenon DEF F!start, F!disk, F!IInv, F!Whole
    <2>2. CASE ~(replay' \/ ~version_ok)
      <3>1. replay' = replay
        BY <1>1, <2>2, Zenon DEF F!start
      <3> QED
        BY <1>0, <1>1, <2>2, <3>1, Zenon DEF F!start, F!disk, F!IInv, F!Whole
    <2> QED
      BY <2>1, <2>2, Zenon
  <1>2. CASE F!wipe_end
    BY <1>0, <1>2, Zenon DEF F!wipe_end, F!IInv
  <1>3. CASE F!open
    <2>1. "obj" \in there => F!Whole(obj)
      BY <1>3, Zenon DEF F!open, F!IInv
    <2> DEFINE read == IF "obj" \in there \ locked THEN obj ELSE F!None
    <2>2. read \in [F!Index -> F!Files]
      BY Zenon DEF F!IInv, F!TypeOK, F!None, F!Files
    <2>3. F!Whole(read) \/ read = F!None
      BY <2>1, Zenon
    <2>4. mem' = IF read[Properties] = F!Empty
                 THEN [i \in F!Index |-> IF read[i] = F!Empty THEN F!Genesis ELSE read[i]] ELSE read
      BY <1>3, Zenon DEF F!open
    <2> HIDE DEF read
    <2>5. F!Whole(mem')
      BY <2>2, <2>3, <2>4, OpenedWhole, Zenon
    <2> QED
      BY <1>0, <1>3, <2>5, Zenon DEF F!open, F!disk, F!IInv, F!Whole
  <1>4. ASSUME NEW s \in F!States, F!change(s) PROVE F!IInv'
    BY <1>0, <1>4, Zenon DEF F!change, F!disk, F!IInv, F!Whole
  <1>5. CASE F!flush
    BY <1>0, <1>5, Zenon DEF F!flush, F!IInv, F!Whole
  <1>6. CASE F!unlock
    <2>1. \A i \in F!Index : tmp[i] = mem[i]
      BY <1>6, Zenon DEF F!unlock, F!IInv
    <2>2. tmp = mem
      BY <2>1 DEF F!IInv, F!TypeOK
    <2> QED
      BY <1>0, <1>6, <2>2, Zenon DEF F!unlock, F!IInv, F!Whole
  <1>7. CASE F!swap
    BY <1>0, <1>7 DEF F!swap, F!moved, F!IInv, F!Whole
  <1>8. CASE F!swap_throws
    BY <1>0, <1>8, Zenon DEF F!swap_throws, F!disk, F!IInv, F!Whole
  <1>9. CASE F!install
    <2>1. F!Whole(mem) /\ tmp = mem
      BY <1>9, Zenon DEF F!install, F!IInv
    <2>2. F!Whole(obj')
      BY <2>1, <1>9, Zenon DEF F!install
    <2> QED
      BY <1>0, <1>9, <2>1, <2>2, Zenon DEF F!install, F!moved, F!IInv, F!Whole
  <1>10. CASE F!clean_end
    BY <1>0, <1>10, Zenon DEF F!clean_end, F!IInv, F!Whole
  <1>11. ASSUME NEW i \in F!Index, F!wipe_file(i) PROVE F!IInv'
    BY <1>0, <1>11, Zenon DEF F!wipe_file, F!IInv, F!Whole
  <1>12. ASSUME NEW i \in F!Index, F!save_begin(i) PROVE F!IInv'
    BY <1>0, <1>12, Zenon DEF F!save_begin, F!IInv, F!Whole, F!TypeOK
  <1>13. ASSUME NEW i \in F!Index, F!save_end(i) PROVE F!IInv'
    BY <1>0, <1>13, Zenon DEF F!save_end, F!IInv, F!Whole, F!TypeOK
  <1>14. ASSUME NEW i \in F!Index, F!clean_file(i) PROVE F!IInv'
    BY <1>0, <1>14, Zenon DEF F!clean_file, F!IInv, F!Whole
  <1>15. CASE F!crash
    BY <1>0, <1>15, Zenon DEF F!crash, F!disk, F!IInv, F!Whole
  <1>16. CASE F!upgrade
    BY <1>0, <1>16, Zenon DEF F!upgrade, F!disk, F!IInv, F!Whole
  <1>17. CASE UNCHANGED F!vars
    BY <1>0, <1>17, Zenon DEF F!vars, F!IInv, F!Whole
  <1> QED
    BY <1>1, <1>2, <1>3, <1>4, <1>5, <1>6, <1>7, <1>8, <1>9, <1>10, <1>11, <1>12, <1>13, <1>14,
       <1>15, <1>16, <1>17, Zenon DEF F!Next

\* A running node has all its indexes from one state of the chain, whatever flush, wipe or
\* replay its predecessors died in: object_database::flush, wipe and open and db_version
\* together leave no way to read a mixture.
THEOREM AlwaysConsistent == F!Spec => []F!Consistent
  <1>1. F!IInv => F!Consistent
    BY Zenon DEF F!IInv, F!Consistent, F!Whole
  <1> QED
    BY <1>1, InitFiles, StepFiles, PTL DEF F!Spec

-----------------------------------------------------------------------------
(***************************************************************************)
(* Every proposal is found under the accounts it requires, for all sets of *)
(* accounts and approvals and all depths of the undo stack.  Undo          *)
(* leaves alone the index entries of proposals it restores in place; they  *)
(* are right because the accounts a proposal requires never change while   *)
(* any session remembers it.  That is the part added to the invariant: the *)
(* sessions and the present agree on the requirements of the proposals     *)
(* they share, which in turn needs that ids are never below the next id of *)
(* an older session.                                                       *)
(***************************************************************************)
CONSTANT Accounts

VARIABLES proposals, next, idx, saved

A == INSTANCE ApprovalIndex WITH stack <- saved

\* Collections of proposals, by id.
Collections == UNION {[D -> A!Proposal] : D \in SUBSET Nat}

Snapshots == [proposals : Collections, next : Nat]

\* Two collections, the first one older: ids of the newer are not reused and the
\* accounts required by a proposal in both are the same.
Agree(older, newer) ==
    \A p \in DOMAIN older \cap DOMAIN newer : older[p].required = newer[p].required

TypeInv ==
    /\ proposals \in Collections
    /\ next \in Nat
    /\ idx \in [Accounts -> SUBSET Nat]
    /\ saved \in Seq(Snapshots)

Below(ps, n) == \A p \in DOMAIN ps : p < n

History ==
    /\ Below(proposals, next)
    /\ \A i \in 1..Len(saved) :
           /\ Below(saved[i].proposals, saved[i].next)
           /\ saved[i].next <= next
           /\ Agree(saved[i].proposals, proposals)
    /\ \A i, j \in 1..Len(saved) :
           i < j => /\ saved[i].next <= saved[j].next
                    /\ Agree(saved[i].proposals, saved[j].proposals)

IndexInv == TypeInv /\ History /\ A!RequiredIndexed

\* Without proposals nothing is required, so the index holds all of it.
LEMMA InitIndex == A!Init => IndexInv
  <1> SUFFICES ASSUME A!Init PROVE IndexInv
    BY Zenon
  <1>1. proposals \in [{} -> A!Proposal] /\ {} \in SUBSET Nat
    BY Zenon DEF A!Init
  <1>2. TypeInv
    <2>1. proposals \in Collections
      BY <1>1, Zenon DEF Collections
    <2>2. next \in Nat /\ idx \in [Accounts -> SUBSET Nat] /\ saved \in Seq(Snapshots)
      BY SMTT(30) DEF A!Init
    <2> QED
      BY <2>1, <2>2, Zenon DEF TypeInv
  <1>3. History /\ A!RequiredIndexed
    BY <1>1, SMTT(30) DEF A!Init, History, A!RequiredIndexed, Below
  <1> QED
    BY <1>2, <1>3, Zenon DEF IndexInv

\* What a collection is, and how it is extended and restricted.
LEMMA CollectionFacts ==
  ASSUME NEW c \in Collections
  PROVE  /\ DOMAIN c \in SUBSET Nat
         /\ c \in [DOMAIN c -> A!Proposal]
         /\ \A p \in DOMAIN c : c[p] \in A!Proposal
  BY Zenon DEF Collections

\* A collection with one more proposal is a collection.
LEMMA CollectionExtends ==
  ASSUME NEW c \in Collections, NEW n \in Nat, NEW r \in A!Proposal
  PROVE  [p \in DOMAIN c \cup {n} |-> IF p = n THEN r ELSE c[p]] \in Collections
  <1> DEFINE D == DOMAIN c \cup {n}
             f == [p \in D |-> IF p = n THEN r ELSE c[p]]
  <1>1. D \in SUBSET Nat
    BY CollectionFacts, Zenon
  <1>2. f \in [D -> A!Proposal]
    BY CollectionFacts, Zenon
  <1> QED
    BY <1>1, <1>2, Zenon DEF Collections

\* A collection without one of its proposals is a collection.
LEMMA CollectionRestricts ==
  ASSUME NEW c \in Collections, NEW n
  PROVE  [p \in DOMAIN c \ {n} |-> c[p]] \in Collections
  <1> DEFINE D == DOMAIN c \ {n}
             f == [p \in D |-> c[p]]
  <1>1. D \in SUBSET Nat
    BY CollectionFacts, Zenon
  <1>2. f \in [D -> A!Proposal]
    BY CollectionFacts, Zenon
  <1> QED
    BY <1>1, <1>2, Zenon DEF Collections

\* primary_index::create keeps the invariant: object_inserted indexes the new proposal.
LEMMA CreateKeeps ==
  ASSUME IndexInv, NEW S \in SUBSET Accounts, A!create(S)
  PROVE  IndexInv'
  <1> DEFINE r == [required |-> S, available |-> {}]
  <1>r. r \in A!Proposal
    BY Zenon DEF A!Proposal
  <1>1. /\ proposals' = [p \in DOMAIN proposals \cup {next} |-> IF p = next THEN r ELSE proposals[p]]
        /\ idx' = A!with_inserted(idx, next, r)
        /\ next' = next + 1 /\ saved' = saved
    BY Zenon DEF A!create
  <1>2. r.required = S /\ r.available = {}
    BY Zenon
  <1> HIDE DEF r
  <1>3. proposals \in Collections /\ next \in Nat /\ idx \in [Accounts -> SUBSET Nat] /\ saved \in Seq(Snapshots)
    BY Zenon DEF IndexInv, TypeInv
  <1>4. next \notin DOMAIN proposals /\ \A i \in 1..Len(saved) : next \notin DOMAIN saved[i].proposals
    <2>1. DOMAIN proposals \in SUBSET Nat
      BY <1>3, CollectionFacts, Zenon
    <2>2. ASSUME NEW i \in 1..Len(saved) PROVE next \notin DOMAIN saved[i].proposals
      <3>1. saved[i] \in Snapshots
        BY <1>3
      <3>2. DOMAIN saved[i].proposals \in SUBSET Nat /\ saved[i].next \in Nat
        BY <3>1, CollectionFacts, Zenon DEF Snapshots
      <3> QED
        BY <1>3, <3>2 DEF IndexInv, History, Below
    <2> QED
      BY <1>3, <2>1, <2>2 DEF IndexInv, History, Below
  <1>5. TypeInv'
    <2>1. proposals' \in Collections
      BY <1>1, <1>3, <1>r, CollectionExtends, Zenon
    <2>2. idx' \in [Accounts -> SUBSET Nat]
      BY <1>1, <1>3, Zenon DEF A!with_inserted
    <2> QED
      BY <1>1, <1>3, <2>1, <2>2 DEF TypeInv
  <1>6. History'
    <2>1. Below(proposals', next')
      <3>1. DOMAIN proposals \in SUBSET Nat
        BY <1>3, CollectionFacts, Zenon
      <3> QED
        BY <1>1, <1>3, <3>1 DEF IndexInv, History, Below
    <2>2. ASSUME NEW i \in 1..Len(saved)
          PROVE  saved[i].next <= next' /\ Agree(saved[i].proposals, proposals')
      <3>1. saved[i] \in Snapshots
        BY <1>3
      <3>2. saved[i].next \in Nat /\ saved[i].next <= next
        BY <3>1, ZenonT(30) DEF Snapshots, IndexInv, History
      <3>3. Agree(saved[i].proposals, proposals)
        BY Zenon DEF IndexInv, History
      <3>4. Agree(saved[i].proposals, proposals')
        BY <1>1, <1>4, <3>3, Zenon DEF Agree
      <3>5. saved[i].next <= next'
        BY <1>1, <1>3, <3>2
      <3> QED
        BY <3>4, <3>5, ZenonT(30)
    <2> QED
      BY <1>1, <2>1, <2>2, ZenonT(30) DEF IndexInv, History
  <1>7. ASSUME NEW p \in DOMAIN proposals', NEW a \in proposals'[p].required
        PROVE  p \in idx'[a]
    <2>1. CASE p = next
      <3>1. a \in S /\ a \in Accounts
        BY <1>1, <1>2, <1>r, <2>1, Zenon DEF A!Proposal
      <3> QED
        BY <1>1, <1>2, <1>3, <2>1, <3>1, Zenon DEF A!with_inserted, A!object_inserted
    <2>2. CASE p # next
      <3>1. p \in DOMAIN proposals /\ a \in proposals[p].required
        BY <1>1, <2>2, Zenon
      <3>2. a \in Accounts /\ p \in idx[a]
        BY <1>3, <3>1, CollectionFacts, Zenon DEF A!Proposal, IndexInv, A!RequiredIndexed
      <3> QED
        BY <1>1, <3>2, Zenon DEF A!with_inserted
    <2> QED
      BY <2>1, <2>2, Zenon
  <1> QED
    BY <1>5, <1>6, <1>7, Zenon DEF IndexInv, A!RequiredIndexed

\* primary_index::modify keeps the invariant: the required accounts do not change.
LEMMA UpdateKeeps ==
  ASSUME IndexInv, NEW p, NEW S \in SUBSET Accounts, A!update(p, S)
  PROVE  IndexInv'
  <1>1. /\ p \in DOMAIN proposals /\ proposals' = [proposals EXCEPT ![p].available = S]
        /\ next' = next /\ idx' = idx /\ saved' = saved
    BY Zenon DEF A!update
  <1>2. proposals \in Collections /\ S \in SUBSET Accounts
    BY Zenon DEF IndexInv, TypeInv
  <1>3. /\ proposals' \in Collections /\ DOMAIN proposals' = DOMAIN proposals
        /\ \A q \in DOMAIN proposals : proposals'[q].required = proposals[q].required
    <2>1. proposals \in [DOMAIN proposals -> A!Proposal] /\ DOMAIN proposals \in SUBSET Nat
      BY <1>2, CollectionFacts, Zenon
    <2>2. proposals' \in [DOMAIN proposals -> A!Proposal]
      BY <1>1, <1>2, <2>1, Zenon DEF A!Proposal
    <2> QED
      BY <1>1, <1>2, <2>1, <2>2, Zenon DEF Collections, A!Proposal
  <1>4. TypeInv'
    BY <1>1, <1>3, Zenon DEF IndexInv, TypeInv
  <1>5. History'
    BY <1>1, <1>3 DEF IndexInv, History, Below, Agree
  <1>6. A!RequiredIndexed'
    BY <1>1, <1>3, Zenon DEF IndexInv, A!RequiredIndexed
  <1> QED
    BY <1>4, <1>5, <1>6, Zenon DEF IndexInv

\* primary_index::remove keeps the invariant: object_removed only touches the proposal.
LEMMA RemoveKeeps ==
  ASSUME IndexInv, NEW p, A!remove(p)
  PROVE  IndexInv'
  <1>1. /\ proposals' = [q \in DOMAIN proposals \ {p} |-> proposals[q]]
        /\ idx' = A!with_removed(idx, p, proposals[p])
        /\ next' = next /\ saved' = saved
    BY Zenon DEF A!remove
  <1>2. proposals \in Collections /\ idx \in [Accounts -> SUBSET Nat]
    BY Zenon DEF IndexInv, TypeInv
  <1>3. proposals' \in Collections
    BY <1>1, <1>2, CollectionRestricts, Zenon
  <1>4. TypeInv'
    <2>1. next' \in Nat /\ saved' \in Seq(Snapshots)
      BY <1>1, ZenonT(30) DEF IndexInv, TypeInv
    <2>2. idx' \in [Accounts -> SUBSET Nat]
      BY <1>1, <1>2, Zenon DEF A!with_removed
    <2> QED
      BY <1>3, <2>1, <2>2, ZenonT(30) DEF TypeInv
  <1>5. History'
    <2>1. DOMAIN proposals' \subseteq DOMAIN proposals
          /\ \A q \in DOMAIN proposals' : proposals'[q] = proposals[q]
      BY <1>1, ZenonT(30)
    <2>2. Below(proposals', next')
      BY <1>1, <2>1, ZenonT(30) DEF IndexInv, History, Below
    <2>3. ASSUME NEW i \in 1..Len(saved) PROVE Agree(saved[i].proposals, proposals')
      <3>1. Agree(saved[i].proposals, proposals)
        BY Zenon DEF IndexInv, History
      <3> QED
        BY <2>1, <3>1, ZenonT(30) DEF Agree
    <2> QED
      BY <1>1, <2>2, <2>3, ZenonT(30) DEF IndexInv, History
  <1>6. ASSUME NEW q \in DOMAIN proposals', NEW a \in proposals'[q].required
        PROVE  q \in idx'[a]
    <2>1. q \in DOMAIN proposals /\ q # p /\ a \in proposals[q].required
      BY <1>1, ZenonT(30)
    <2>2. a \in Accounts /\ q \in idx[a]
      BY <1>2, <2>1, CollectionFacts, Zenon DEF A!Proposal, IndexInv, A!RequiredIndexed
    <2> QED
      BY <1>1, <2>1, <2>2, ZenonT(30) DEF A!with_removed
  <1> QED
    BY <1>4, <1>5, <1>6, Zenon DEF IndexInv, A!RequiredIndexed

\* A session started remembers the present.
LEMMA StartKeeps ==
  ASSUME IndexInv, A!start_undo_session
  PROVE  IndexInv'
  <1> DEFINE new == [proposals |-> proposals, next |-> next]
  <1>1. saved' = Append(saved, new) /\ UNCHANGED <<proposals, next, idx>>
    BY Zenon DEF A!start_undo_session
  <1>2. saved \in Seq(Snapshots) /\ new \in Snapshots /\ new.proposals = proposals /\ new.next = next /\ next \in Nat
    BY Zenon DEF IndexInv, TypeInv, Snapshots
  <1> HIDE DEF new
  <1>3. /\ saved' \in Seq(Snapshots) /\ Len(saved') = Len(saved) + 1 /\ Len(saved) \in Nat
        /\ saved'[Len(saved) + 1] = new /\ \A i \in 1..Len(saved) : saved'[i] = saved[i]
    BY <1>1, <1>2
  <1>4. Agree(proposals, proposals)
    BY Zenon DEF Agree
  <1>5. \A i \in 1..Len(saved') : i \in 1..Len(saved) \/ i = Len(saved) + 1
    BY <1>3, SMTT(30)
  <1>6. History'
    <2>1. ASSUME NEW i \in 1..Len(saved')
          PROVE  /\ Below(saved'[i].proposals, saved'[i].next) /\ saved'[i].next <= next
                 /\ Agree(saved'[i].proposals, proposals)
      <3>1. CASE i \in 1..Len(saved)
        BY <1>3, <3>1, ZenonT(30) DEF IndexInv, History
      <3>2. CASE i = Len(saved) + 1
        <4>1. Below(proposals, next)
          BY Zenon DEF IndexInv, History
        <4>2. saved'[i].proposals = proposals /\ saved'[i].next = next
          BY <1>2, <1>3, <3>2, ZenonT(30)
        <4> QED
          BY <1>2, <1>4, <4>1, <4>2, SMTT(30), Z3T(30)
      <3> QED
        BY <1>5, <3>1, <3>2, ZenonT(30)
    <2>2. ASSUME NEW i \in 1..Len(saved'), NEW j \in 1..Len(saved'), i < j
          PROVE  /\ saved'[i].next <= saved'[j].next /\ Agree(saved'[i].proposals, saved'[j].proposals)
      <3>1. i \in 1..Len(saved)
        BY <1>3, <2>2
      <3>2. CASE j \in 1..Len(saved)
        BY <1>3, <2>2, <3>1, <3>2, Zenon DEF IndexInv, History
      <3>3. CASE j = Len(saved) + 1
        BY <1>2, <1>3, <3>1, <3>3, Zenon DEF IndexInv, History
      <3> QED
        BY <1>5, <3>2, <3>3, Zenon
    <2> QED
      BY <1>1, <2>1, <2>2, ZenonT(30) DEF IndexInv, History
  <1> QED
    BY <1>1, <1>3, <1>6, Zenon DEF IndexInv, TypeInv, A!RequiredIndexed

\* Dropping the last or the first session.
LEMMA DropLast ==
  ASSUME saved \in Seq(Snapshots), saved # <<>>
  PROVE  LET t == SubSeq(saved, 1, Len(saved) - 1)
         IN  t \in Seq(Snapshots) /\ Len(t) = Len(saved) - 1 /\ \A i \in 1..Len(t) : t[i] = saved[i]
  <1>1. /\ Len(saved) \in Nat /\ Len(saved) # 0
        /\ 1 \in 1..Len(saved) + 1 /\ Len(saved) - 1 \in 1 - 1..Len(saved)
    OBVIOUS
  <1>2. Len(saved) - 1 - 1 + 1 = Len(saved) - 1 /\ \A i \in 1..Len(saved) - 1 : 1 + i - 1 = i
    BY <1>1
  <1> QED
    BY <1>1, <1>2

\* merge moves undo records and leaves proposals and index alone.
LEMMA MergeKeeps ==
  ASSUME IndexInv, A!merge
  PROVE  IndexInv'
  <1>1. saved \in Seq(Snapshots) /\ saved # <<>> /\ Len(saved) \in Nat
    BY DEF IndexInv, TypeInv, A!merge
  <1>2. /\ saved' \in Seq(Snapshots) /\ Len(saved') = Len(saved) - 1
        /\ \A i \in 1..Len(saved') : i \in 1..Len(saved) /\ saved'[i] = saved[i]
    BY <1>1, DropLast DEF A!merge
  <1>3. History'
    BY <1>2, ZenonT(30) DEF IndexInv, History, A!merge
  <1> QED
    BY <1>2, <1>3, Zenon DEF IndexInv, TypeInv, A!RequiredIndexed, A!merge

\* Dropping the oldest record leaves proposals and index alone.
LEMMA ForgetKeeps ==
  ASSUME IndexInv, A!forget_oldest
  PROVE  IndexInv'
  <1>1. saved \in Seq(Snapshots) /\ saved # <<>> /\ Len(saved) \in Nat
    BY DEF IndexInv, TypeInv, A!forget_oldest
  <1>2. /\ saved' \in Seq(Snapshots) /\ Len(saved') = Len(saved) - 1
        /\ \A i \in 1..Len(saved') : i + 1 \in 1..Len(saved) /\ saved'[i] = saved[i + 1]
    BY <1>1, SMTT(30) DEF A!forget_oldest
  <1>3. History'
    <2>1. ASSUME NEW i \in 1..Len(saved'), NEW j \in 1..Len(saved'), i < j
          PROVE  /\ saved'[i].next <= saved'[j].next /\ Agree(saved'[i].proposals, saved'[j].proposals)
      <3>1. i + 1 < j + 1 /\ i + 1 \in 1..Len(saved) /\ j + 1 \in 1..Len(saved)
        BY <1>2, <2>1
      <3> QED
        BY <1>2, <3>1, Zenon DEF IndexInv, History
    <2> QED
      BY <1>2, <2>1, Zenon DEF IndexInv, History, A!forget_oldest
  <1> QED
    BY <1>2, <1>3, Zenon DEF IndexInv, TypeInv, A!RequiredIndexed, A!forget_oldest

\* Undo: a proposal restored in place keeps its entries, one inserted again gets
\* them, and the entries of new proposals are the only ones removed.
LEMMA UndoKeeps ==
  ASSUME IndexInv, A!undo
  PROVE  IndexInv'
  <1> DEFINE n == Len(saved)
             then == saved[n].proposals
  <1>1. saved \in Seq(Snapshots) /\ saved # <<>> /\ n \in Nat /\ n \in 1..Len(saved)
    BY DEF IndexInv, TypeInv, A!undo
  <1>2. saved[n] \in Snapshots
    BY <1>1
  <1>3. then \in Collections /\ saved[n].next \in Nat
    BY <1>2, Zenon DEF Snapshots
  <1>4. /\ proposals' = then /\ next' = saved[n].next /\ idx' = A!undo_index(proposals, then)
        /\ saved' = SubSeq(saved, 1, n - 1)
    BY Zenon DEF A!undo
  <1>5. /\ saved' \in Seq(Snapshots) /\ Len(saved') = n - 1
        /\ \A i \in 1..Len(saved') : i \in 1..Len(saved) /\ i < n /\ saved'[i] = saved[i]
    BY <1>1, <1>4, DropLast
  <1>6. proposals \in Collections /\ idx \in [Accounts -> SUBSET Nat]
    BY Zenon DEF IndexInv, TypeInv
  <1>7. Agree(then, proposals)
    BY <1>1, Zenon DEF IndexInv, History
  <1>8. History'
    <2>1. Below(then, saved[n].next)
      BY <1>1, Zenon DEF IndexInv, History
    <2>2. ASSUME NEW i \in 1..Len(saved')
          PROVE  /\ Below(saved'[i].proposals, saved'[i].next)
                 /\ saved'[i].next <= saved[n].next /\ Agree(saved'[i].proposals, then)
      BY <1>1, <1>5, Zenon DEF IndexInv, History
    <2>3. ASSUME NEW i \in 1..Len(saved'), NEW j \in 1..Len(saved'), i < j
          PROVE  /\ saved'[i].next <= saved'[j].next /\ Agree(saved'[i].proposals, saved'[j].proposals)
      BY <1>5, <2>3, Zenon DEF IndexInv, History
    <2> HIDE DEF then, n
    <2> QED
      BY <1>4, <2>1, <2>2, <2>3, Zenon DEF History
  <1> HIDE DEF then, n
  <1>9. TypeInv'
    <2>1. DOMAIN then \in SUBSET Nat
      BY <1>3, CollectionFacts, Zenon
    <2>2. idx' \in [Accounts -> SUBSET Nat]
      BY <1>4, <1>6, <2>1, Zenon DEF A!undo_index
    <2> QED
      BY <1>3, <1>4, <1>5, <2>2, Zenon DEF TypeInv
  <1>10. ASSUME NEW p \in DOMAIN then, NEW a \in then[p].required
         PROVE  p \in idx'[a]
    <2>1. a \in Accounts
      BY <1>3, CollectionFacts, Zenon DEF A!Proposal
    <2>2. idx'[a] = (idx[a] \ {q \in DOMAIN proposals \ DOMAIN then : A!object_removed(a, q, proposals[q])})
                        \cup {q \in DOMAIN then \ DOMAIN proposals : A!object_inserted(a, q, then[q])}
      BY <1>4, <2>1, ZenonT(30) DEF A!undo_index
    <2>3. CASE p \in DOMAIN proposals
      <3>1. a \in proposals[p].required
        BY <1>7, <2>3, Zenon DEF Agree
      <3>2. p \in idx[a]
        BY <2>3, <3>1, Zenon DEF IndexInv, A!RequiredIndexed
      <3> QED
        BY <2>2, <3>2, Zenon
    <2>4. CASE p \notin DOMAIN proposals
      <3>1. A!object_inserted(a, p, then[p])
        BY Zenon DEF A!object_inserted
      <3> QED
        BY <2>2, <2>4, <3>1, ZenonT(30)
    <2> QED
      BY <2>3, <2>4, Zenon
  <1> QED
    BY <1>4, <1>8, <1>9, <1>10, Zenon DEF IndexInv, A!RequiredIndexed

\* A restart inserts every proposal again.
LEMMA RestartKeeps ==
  ASSUME IndexInv, A!restart
  PROVE  IndexInv'
  <1>1. /\ idx' = [a \in Accounts |-> {p \in DOMAIN proposals : A!object_inserted(a, p, proposals[p])}]
        /\ UNCHANGED <<proposals, next, saved>>
    BY Zenon DEF A!restart
  <1>2. proposals \in Collections
    BY Zenon DEF IndexInv, TypeInv
  <1>3. DOMAIN proposals \in SUBSET Nat /\ \A p \in DOMAIN proposals : proposals[p].required \in SUBSET Accounts
    BY <1>2, CollectionFacts, Zenon DEF A!Proposal
  <1>4. TypeInv'
    BY <1>1, <1>3, Zenon DEF IndexInv, TypeInv
  <1>5. A!RequiredIndexed'
    BY <1>1, <1>3, Zenon DEF A!RequiredIndexed, A!object_inserted
  <1> QED
    BY <1>1, <1>4, <1>5, ZenonT(30) DEF IndexInv, History

\* In every reachable state of the code's indexes, however sessions are nested,
\* undone and reloaded, a proposal is indexed under each account it requires.
THEOREM RequiredAreIndexed == A!Spec => []A!RequiredIndexed
  <1>1. ASSUME IndexInv, [A!Next]_(A!vars) PROVE IndexInv'
    <2>1. ASSUME NEW S \in SUBSET Accounts, A!create(S) PROVE IndexInv'
      BY <1>1, <2>1, CreateKeeps, Zenon
    <2>2. ASSUME NEW p \in DOMAIN proposals, A!remove(p) PROVE IndexInv'
      BY <1>1, <2>2, RemoveKeeps, Zenon
    <2>3. ASSUME NEW p \in DOMAIN proposals, NEW S \in SUBSET Accounts, A!update(p, S) PROVE IndexInv'
      BY <1>1, <2>3, UpdateKeeps, Zenon
    <2>4. CASE A!start_undo_session
      BY <1>1, <2>4, StartKeeps, Zenon
    <2>5. CASE A!merge
      BY <1>1, <2>5, MergeKeeps, ZenonT(30)
    <2>6. CASE A!forget_oldest
      BY <1>1, <2>6, ForgetKeeps, Zenon
    <2>7. CASE A!undo
      BY <1>1, <2>7, UndoKeeps, Zenon
    <2>8. CASE A!restart
      BY <1>1, <2>8, RestartKeeps, Zenon
    <2>9. CASE UNCHANGED A!vars
      BY <1>1, <2>9, Zenon DEF IndexInv, TypeInv, History, A!RequiredIndexed, A!vars
    <2> QED
      BY <1>1, <2>1, <2>2, <2>3, <2>4, <2>5, <2>6, <2>7, <2>8, <2>9, Zenon DEF A!Next
  <1>2. IndexInv => A!RequiredIndexed
    BY Zenon DEF IndexInv
  <1> QED
    BY InitIndex, <1>1, <1>2, PTL DEF A!Spec

-----------------------------------------------------------------------------
(***************************************************************************)
(* PeriodLimit and FreshPeriod for all limits, periods and times.          *)
(*                                                                         *)
(* The argument: period_start_time is always a point of the grid, so it is *)
(* the begin of the present period, or a whole number of periods away from *)
(* it.  A claim in the present period puts it there or, early, at the next *)
(* point; so as long as something is taken in this period,                 *)
(* claimed_this_period counts at least that.                               *)
(***************************************************************************)
VARIABLES now, granted, permit, balance, first, win, taken

W == INSTANCE WithdrawPermission

Start == permit.period_start_time
Period == permit.withdrawal_period_sec

\* a is a whole number of periods p away from b.
Aligned(a, b, p) == \E k \in Int : a = b + k * p

\* The inductive invariant.
Counted ==
   /\ win <= now /\ now < win + Period
   /\ Aligned(Start, win, Period)
   /\ taken <= permit.withdrawal_limit
   /\ taken > 0 => /\ win <= Start /\ Start < now + Period
                   /\ taken <= permit.claimed_this_period
   /\ Start > first => Start <= win /\ (Start = win => taken > 0)

CountInv == W!TypeOK /\ (granted => Counted)

-----------------------------------------------------------------------------
\* What the quotient of integers is.
LEMMA Quotient ==
   ASSUME NEW a \in Int, NEW p \in Int, p > 0
   PROVE  /\ a \div p \in Int
          /\ (a \div p) * p <= a
          /\ a < (a \div p) * p + p
  BY SMT

\* Multiples of p that are less than p apart are equal.
LEMMA Multiple ==
   ASSUME NEW k \in Int, NEW p \in Int, p > 0
   PROVE  /\ k * p \in Int
          /\ k * p > 0 - p => k * p >= 0
          /\ k * p < p => k * p <= 0
  <1>1. k * p \in Int
    BY SMT
  <1>2. k >= 0 => k * p >= 0
    BY SMT
  <1>3. k <= 0 - 1 => k * p <= 0 - p
    BY SMT
  <1>4. k <= 0 => k * p <= 0
    BY SMT
  <1>5. k >= 1 => k * p >= p
    BY SMT
  <1>. QED
    BY <1>1, <1>2, <1>3, <1>4, <1>5, SMTT(30), Z3T(30)

\* The grid through s with period p: its point before t.
LEMMA GridPointBounds ==
   ASSUME NEW s \in Int, NEW p \in Int, p > 0, NEW t \in Int
   PROVE  /\ W!GridPoint(s, p, t) \in Int
          /\ W!GridPoint(s, p, t) <= t /\ t < W!GridPoint(s, p, t) + p
  <1>. DEFINE q == (t - s) \div p
  <1>1. q \in Int /\ q * p <= t - s /\ t - s < q * p + p
    BY Quotient
  <1>2. q * p \in Int
    BY <1>1, SMT
  <1>3. W!GridPoint(s, p, t) = s + q * p
    BY Zenon DEF W!GridPoint
  <1>. HIDE DEF q
  <1>. QED
    BY <1>1, <1>2, <1>3, SMTT(30), Z3T(30)

\* Points of the grid are whole periods apart.
LEMMA GridPointAligned ==
   ASSUME NEW s \in Int, NEW p \in Int, p > 0, NEW t \in Int
   PROVE  Aligned(s, W!GridPoint(s, p, t), p)
  <1>. DEFINE q == (t - s) \div p
  <1>1. q \in Int
    BY Quotient
  <1>2. W!GridPoint(s, p, t) = s + q * p
    BY Zenon DEF W!GridPoint
  <1>. HIDE DEF q
  <1>3. 0 - q \in Int /\ s = s + q * p + (0 - q) * p
    BY <1>1, SMT
  <1>. QED
    BY <1>2, <1>3, Zenon DEF Aligned

\* Times on the grid of a time on the grid are on the grid.
LEMMA AlignedTransitive ==
   ASSUME NEW a \in Int, NEW b \in Int, NEW c \in Int, NEW p \in Int,
          Aligned(a, b, p), Aligned(b, c, p)
   PROVE  Aligned(a, c, p)
  <1>1. PICK k \in Int : a = b + k * p
    BY Zenon DEF Aligned
  <1>2. PICK j \in Int : b = c + j * p
    BY Zenon DEF Aligned
  <1>3. k + j \in Int /\ a = c + (k + j) * p
    BY <1>1, <1>2, SMT
  <1>. QED
    BY <1>3, Zenon DEF Aligned

\* A later period begins later.
LEMMA LaterPeriod ==
   \A a, b, p, t \in Int : a + p <= t /\ t < b + p => a < b
  BY SMT

\* The state after Init satisfies the invariant.
LEMMA InitCount == W!Init => CountInv
  <1>. SUFFICES ASSUME W!Init PROVE CountInv
    BY Zenon
  <1>1. balance \in Nat
    BY Zenon DEF W!Init
  <1>2. permit \in W!Permit /\ permit.withdrawal_limit = 0 /\ permit.withdrawal_period_sec = 1
          /\ permit.claimed_this_period = 0
    BY DEF W!Init, W!Permit
  <1>3. now = 0 /\ granted = FALSE /\ balance \in Nat /\ first = 0 /\ win = 0 /\ taken = 0
    BY Zenon DEF W!Init
  <1>5. granted \in BOOLEAN
    BY <1>3, Zenon
  <1>4. W!TypeOK
    BY <1>1, <1>2, <1>3, <1>5, SMTT(30), Z3T(30) DEF W!TypeOK
  <1>. QED
    BY <1>3, <1>4, Zenon DEF CountInv

\* The quotient of a claim, in its two directions.
LEMMA PeriodsFacts ==
   ASSUME W!TypeOK
   PROVE  /\ W!periods \in Int /\ W!start_after \in Int
          /\ W!start_after = Start + W!periods * Period
          /\ now >= Start => /\ W!periods >= 0 /\ W!start_after <= now /\ now < W!start_after + Period
          /\ now < Start => /\ W!periods <= 0 /\ now <= W!start_after /\ W!start_after < now + Period
          /\ W!periods = 0 => W!start_after = Start /\ Start - Period < now /\ now < Start + Period
          /\ W!periods >= 1 => now >= Start + Period
          /\ W!periods <= 0 - 1 => Start >= now + Period
  <1>1. Start \in Int /\ Period \in Int /\ Period > 0 /\ now \in Int
    BY DEF W!TypeOK, Start, Period, W!Permit
  <1>2. CASE now >= Start
    <2>. DEFINE q == (now - Start) \div Period
    <2>1. q \in Int /\ q * Period <= now - Start /\ now - Start < q * Period + Period
      BY <1>1, Quotient
    <2>2. W!periods = q /\ W!start_after = Start + q * Period
      BY <1>2, Zenon DEF W!periods, W!start_after, Start, Period
    <2>. HIDE DEF q
    <2>3. q * Period \in Int /\ (q <= 0 - 1 => q * Period <= 0 - Period) /\ (q = 0 => q * Period = 0)
            /\ (q >= 1 => q * Period >= Period)
      BY <1>1, <2>1, SMTT(30), Z3T(30)
    <2>. QED
      BY <1>1, <1>2, <2>1, <2>2, <2>3, SMTT(30), Z3T(30)
  <1>3. CASE now < Start
    <2>. DEFINE q == (Start - now) \div Period
    <2>1. q \in Int /\ q * Period <= Start - now /\ Start - now < q * Period + Period
      BY <1>1, Quotient, SMTT(30), Z3T(30)
    <2>2. W!periods = 0 - q /\ W!start_after = Start + (0 - q) * Period
      BY <1>1, <1>3 DEF W!periods, W!start_after, Start, Period
    <2>. HIDE DEF q
    <2>3. q * Period \in Int /\ (q <= 0 - 1 => q * Period <= 0 - Period) /\ (q = 0 => q * Period = 0)
            /\ (q >= 1 => q * Period >= Period) /\ (0 - q) * Period = 0 - q * Period
      BY <1>1, <2>1, SMT
    <2>. QED
      BY <1>1, <1>3, <2>1, <2>2, <2>3, SMTT(30), Z3T(30)
  <1>. QED
    BY <1>1, <1>2, <1>3, SMTT(30), Z3T(30)
-----------------------------------------------------------------------------
\* A new grid: nothing is taken in its present period, and the permission starts at
\* or after the block time.
LEMMA NewGrid ==
   ASSUME W!TypeOK, NEW start \in Int, NEW period \in Int, NEW limit \in Int,
          period > 0, limit > 0, start >= now,
          permit' \in W!Permit, permit'.claimed_this_period >= 0,
          permit'.withdrawal_limit = limit, permit'.withdrawal_period_sec = period,
          permit'.period_start_time = start,
          first' = start, win' = W!GridPoint(start, period, now), taken' = 0,
          now' = now, balance' \in Nat, granted' \in BOOLEAN
   PROVE  CountInv'
  <1>0. now \in Int
    BY DEF W!TypeOK
  <1>1. win' \in Int /\ win' <= now' /\ now' < win' + period
    BY <1>0, GridPointBounds, Zenon
  <1>4. Aligned(start, win', period)
    BY <1>0, GridPointAligned, Zenon
  <1>2. W!TypeOK'
    BY <1>1 DEF W!TypeOK
  <1>5. Start' = start /\ Period' = period
    BY Zenon DEF Start, Period
  <1>6. permit'.withdrawal_limit > 0
    BY Zenon
  <1>8. ~(taken' > 0) /\ taken' <= permit'.withdrawal_limit /\ ~(Start' > first')
    BY <1>5, <1>6
  <1>9. win' <= now' /\ now' < win' + Period'
    BY <1>1, <1>5, Zenon
  <1>10. Aligned(Start', win', Period')
    BY <1>4, <1>5, Zenon
  <1>3. Counted'
    BY <1>8, <1>9, <1>10, Zenon DEF Counted
  <1>. QED
    BY <1>2, <1>3, Zenon DEF CountInv

\* Values of constants and of the operations' inputs.
LEMMA Inputs ==
   /\ \A l \in W!Limits : l \in Int /\ l > 0
   /\ \A p \in W!Periods : p \in Int /\ p > 0
   /\ \A n \in W!Counts : n \in Int
   /\ \A x \in W!Amounts : x \in Int /\ x > 0
   /\ \A d \in W!Ahead : d \in Int /\ d >= 0
   /\ W!Wrap \in Int /\ W!Wrap > 0
  BY DEF W!Limits, W!Periods, W!Counts, W!Amounts, W!Ahead, W!Wrap

\* The expiration computed for a permission is a time.
LEMMA ExpirationType ==
   ASSUME NEW s \in Int, NEW n \in Int, NEW p \in Int
   PROVE  W!Expiration(s, n, p) \in Int
  <1>1. s + n * p \in Int
    BY SMT
  <1>2. ASSUME NEW x \in Int PROVE x % W!Wrap \in Int
    BY <1>2, Inputs, SMTT(30), Z3T(30)
  <1>. QED
    BY <1>1, <1>2 DEF W!Expiration

\* A claim keeps the invariant, within a period, after some and before the first.
LEMMA ClaimCount ==
   ASSUME CountInv, NEW x \in W!Amounts, W!withdraw_permission_claim(x)
   PROVE  CountInv'
  <1>1. /\ W!TypeOK /\ Counted /\ granted
        /\ Start \in Int /\ Period \in Int /\ Period > 0 /\ now \in Int /\ now >= 0
        /\ win \in Int /\ taken \in Int /\ taken >= 0 /\ first \in Int
        /\ permit.withdrawal_limit \in Int /\ permit.claimed_this_period \in Int
        /\ permit.claimed_this_period >= 0 /\ x \in Int /\ x > 0
    BY Inputs, SMTT(30), Z3T(30) DEF CountInv, W!withdraw_permission_claim, W!TypeOK, W!Permit, Start, Period
  <1>0. W!start_after \in Int
    BY <1>1, PeriodsFacts, SMTT(30), Z3T(30)
  <1>7. W!claimed_after(x) \in Int /\ W!claimed_after(x) >= 0
    BY <1>1, SMT DEF W!claimed_after
  <1>a. permit \in W!Permit /\ permit' = [permit EXCEPT !.period_start_time = W!start_after,
                                        !.claimed_this_period = W!claimed_after(x)]
    BY <1>1 DEF W!withdraw_permission_claim, W!TypeOK
  <1>b. /\ permit' \in W!Permit /\ permit'.period_start_time = W!start_after
        /\ permit'.withdrawal_period_sec = permit.withdrawal_period_sec
        /\ permit'.withdrawal_limit = permit.withdrawal_limit
        /\ permit'.claimed_this_period = W!claimed_after(x)
    BY <1>0, <1>7, <1>a, Zenon DEF W!Permit
  <1>2. /\ permit' \in W!Permit /\ Start' = W!start_after /\ Period' = Period
        /\ permit'.withdrawal_limit = permit.withdrawal_limit
        /\ permit'.claimed_this_period = W!claimed_after(x)
        /\ taken' = taken + x /\ win' = win /\ now' = now /\ first' = first
        /\ granted' = granted
    BY <1>b DEF W!withdraw_permission_claim, Start, Period
  <1>3. balance' \in Nat
    BY <1>1, SMT DEF W!withdraw_permission_claim, W!may_claim, W!TypeOK
  <1>4. x <= W!available_this_period
    BY DEF W!withdraw_permission_claim, W!may_claim
  <1>5. PICK k \in Int : Start = win + k * Period
    BY <1>1, SMTT(30), Z3T(30) DEF Counted, Aligned
  <1>6. /\ win <= now /\ now < win + Period
        /\ taken <= permit.withdrawal_limit
        /\ taken > 0 => /\ win <= Start /\ Start < now + Period
                        /\ taken <= permit.claimed_this_period
        /\ Start > first => Start <= win /\ (Start = win => taken > 0)
    BY <1>1, SMTT(30), Z3T(30) DEF Counted
  <1>8. W!TypeOK'
    BY <1>1, <1>2, <1>3, <1>7, SMTT(30), Z3T(30) DEF W!TypeOK, Period
  <1>9. Aligned(Start', win', Period')
    <2>1. W!periods \in Int /\ W!start_after = Start + W!periods * Period
      BY <1>1, PeriodsFacts, SMTT(30), Z3T(30)
    <2>2. k + W!periods \in Int /\ win + k * Period + W!periods * Period = win + (k + W!periods) * Period
      BY <1>1, <1>5, <2>1, SMTT(30), Z3T(30)
    <2>. QED
      BY <1>2, <1>5, <2>1, <2>2, SMTT(30), Z3T(30) DEF Aligned
  <1>10. PICK j \in Int : W!start_after = win + j * Period
    BY <1>2, <1>9, SMTT(30), Z3T(30) DEF Aligned
  <1>11. /\ j * Period \in Int
         /\ j * Period > 0 - Period => j * Period >= 0
         /\ j * Period < Period => j * Period <= 0
    BY <1>1, Multiple, SMTT(30), Z3T(30)
  <1>12. CASE W!periods = 0
    <2>1. /\ W!start_after = Start /\ Start - Period < now /\ now < Start + Period
          /\ W!claimed_after(x) = permit.claimed_this_period + x
      BY <1>1, <1>12, PeriodsFacts, SMTT(30), Z3T(30) DEF W!claimed_after
    <2>2. x <= permit.withdrawal_limit - permit.claimed_this_period
      BY <1>1, <1>4, <2>1, SMTT(30), Z3T(30) DEF W!available_this_period, Start, Period
    <2>3. win <= W!start_after
      BY <1>1, <1>6, <1>10, <1>11, <2>1, SMTT(30), Z3T(30)
    <2>4. /\ taken' > 0 /\ taken' <= permit'.withdrawal_limit
          /\ win' <= Start' /\ Start' < now' + Period' /\ taken' <= permit'.claimed_this_period
      BY <1>1, <1>2, <1>6, <2>1, <2>2, <2>3, SMTT(30), Z3T(30)
    <2>5. win' <= now' /\ now' < win' + Period' /\ (Start' > first' => Start' <= win')
      BY <1>1, <1>2, <1>6, <2>1, SMTT(30), Z3T(30)
    <2>6. Counted'
      BY <1>9, <2>4, <2>5, ZenonT(30) DEF Counted
    <2>. QED
      BY <1>8, <2>6, SMTT(30), Z3T(30) DEF CountInv
  <1>13. CASE W!periods >= 1
    <2>1. /\ now >= Start + Period /\ W!start_after <= now /\ now < W!start_after + Period
          /\ W!claimed_after(x) = x
      BY <1>1, <1>13, PeriodsFacts, SMTT(30), Z3T(30) DEF W!claimed_after
    <2>2. taken = 0
      BY <1>1, <1>6, <2>1, SMTT(30), Z3T(30)
    <2>3. W!start_after = win
      BY <1>1, <1>6, <1>10, <1>11, <2>1, SMTT(30), Z3T(30)
    <2>4. x <= permit.withdrawal_limit
      BY <1>1, <1>4, <2>1, SMTT(30), Z3T(30) DEF W!available_this_period, Start, Period
    <2>5. /\ taken' > 0 /\ taken' <= permit'.withdrawal_limit
          /\ win' <= Start' /\ Start' < now' + Period' /\ taken' <= permit'.claimed_this_period
      BY <1>1, <1>2, <1>6, <2>1, <2>2, <2>3, <2>4, SMTT(30), Z3T(30)
    <2>6. win' <= now' /\ now' < win' + Period' /\ Start' <= win'
      BY <1>1, <1>2, <1>6, <2>3, SMTT(30), Z3T(30)
    <2>7. Counted'
      BY <1>9, <2>5, <2>6, ZenonT(30) DEF Counted
    <2>. QED
      BY <1>8, <2>7 DEF CountInv
  <1>14. CASE W!periods <= 0 - 1
    <2>1. /\ Start >= now + Period /\ now <= W!start_after /\ W!start_after < now + Period
          /\ W!claimed_after(x) = x
      BY <1>1, <1>14, PeriodsFacts, SMTT(30), Z3T(30) DEF W!claimed_after
    <2>2. taken = 0 /\ Start <= first
      BY <1>1, <1>6, <2>1, SMTT(30), Z3T(30)
    <2>3. x <= permit.withdrawal_limit
      BY <1>1, <1>4, <2>1, SMTT(30), Z3T(30) DEF W!available_this_period, Start, Period
    <2>4. W!start_after <= first
      BY <1>0, <1>1, <2>1, <2>2, SMTT(30), Z3T(30)
    <2>5. /\ taken' > 0 /\ taken' <= permit'.withdrawal_limit
          /\ win' <= Start' /\ Start' < now' + Period' /\ taken' <= permit'.claimed_this_period
      BY <1>0, <1>1, <1>2, <1>6, <2>1, <2>2, <2>3, SMTT(30), Z3T(30)
    <2>6. win' <= now' /\ now' < win' + Period' /\ ~(Start' > first')
      BY <1>0, <1>1, <1>2, <1>6, <2>4, SMTT(30), Z3T(30)
    <2>7. Counted'
      BY <1>9, <2>5, <2>6, ZenonT(30) DEF Counted
    <2>. QED
      BY <1>8, <2>7 DEF CountInv
  <1>. QED
    BY <1>1, <1>12, <1>13, <1>14, PeriodsFacts, SMTT(30), Z3T(30)

\* A block keeps the invariant: within a period nothing changes, a new one begins on
\* the grid with nothing taken.
LEMMA BlockCount ==
   ASSUME CountInv, NEW t \in W!Times, W!apply_block(t)
   PROVE  CountInv'
  <1>1. /\ W!TypeOK /\ Start \in Int /\ Period \in Int /\ Period > 0 /\ win \in Int
        /\ now \in Int /\ t \in Int /\ t >= 0 /\ t > now /\ taken \in Int /\ taken >= 0
        /\ first \in Int /\ permit.withdrawal_limit \in Int /\ permit.withdrawal_limit >= 0
    BY SMTT(30), Z3T(30) DEF W!Times, CountInv, W!TypeOK, W!Permit, Start, Period, W!apply_block
  <1>2. /\ permit' = permit /\ now' = t /\ first' = first /\ Start' = Start /\ Period' = Period
        /\ balance' = balance /\ granted' \in BOOLEAN /\ (granted' => granted)
    BY <1>1, SMTT(30), Z3T(30) DEF W!apply_block, Start, Period, W!TypeOK
  <1>3. CASE t >= win + Period
    <2>1. win' = W!GridPoint(win, Period, t) /\ taken' = 0
      BY <1>3 DEF W!apply_block, Period
    <2>2. win' \in Int /\ win' <= t /\ t < win' + Period
      BY <1>1, <2>1, GridPointBounds
    <2>7. win \in Int /\ Period \in Int /\ t \in Int /\ Period > 0
      BY <1>1
    <2>5. Aligned(win, win', Period)
      BY <2>1, <2>7, GridPointAligned, SMTT(30), Z3T(30)
    <2>3. W!TypeOK'
      BY <1>1, <1>2, <2>1, <2>2, SMTT(30), Z3T(30) DEF W!TypeOK
    <2>4. ASSUME granted PROVE Counted'
      <3>1. /\ Aligned(Start, win, Period)
            /\ Start > first => Start <= win
        BY <2>4, SMTT(30), Z3T(30) DEF CountInv, Counted
      <3>2. Aligned(Start', win', Period')
        BY <1>1, <1>2, <2>2, <2>5, <3>1, AlignedTransitive, SMTT(30), Z3T(30)
      <3>5. win \in Int /\ Period \in Int /\ t \in Int /\ win' \in Int /\ Start \in Int /\ first \in Int
        BY <1>1, <2>2, SMTT(30), Z3T(30)
      <3>8. win + Period <= t
        BY <1>3, <3>5
      <3>3. win < win'
        BY <2>2, <3>5, <3>8, LaterPeriod, ZenonT(30)
      <3>4. Start' > first' => Start' <= win' /\ Start' # win'
        BY <1>2, <3>1, <3>3, <3>5, SMTT(30), Z3T(30)
      <3>6. win' <= now' /\ now' < win' + Period'
        BY <1>2, <2>2, SMTT(30), Z3T(30)
      <3>7. taken' <= permit'.withdrawal_limit /\ ~(taken' > 0)
        BY <1>1, <1>2, <2>1, SMTT(30), Z3T(30)
      <3>. QED
        BY <3>2, <3>4, <3>6, <3>7, SMTT(30), Z3T(30) DEF Counted
    <2>. QED
      BY <1>2, <2>3, <2>4, SMTT(30), Z3T(30) DEF CountInv
  <1>4. CASE ~(t >= win + Period)
    <2>1. win' = win /\ taken' = taken
      BY <1>4, SMTT(30), Z3T(30) DEF W!apply_block, Period
    <2>2. W!TypeOK'
      BY <1>1, <1>2, <2>1, SMTT(30), Z3T(30) DEF W!TypeOK
    <2>3. ASSUME granted PROVE Counted'
      <3>1. Counted
        BY <2>3 DEF CountInv
      <3>2. permit'.withdrawal_limit = permit.withdrawal_limit /\ permit'.claimed_this_period = permit.claimed_this_period
        BY <1>2, SMTT(30), Z3T(30)
      <3>3. win' <= now' /\ now' < win' + Period'
        BY <1>1, <1>2, <1>4, <2>1, <3>1, SMTT(30), Z3T(30) DEF Counted
      <3>4. taken' > 0 => win' <= Start' /\ Start' < now' + Period' /\ taken' <= permit'.claimed_this_period
        BY <1>1, <1>2, <2>1, <3>1, <3>2, SMTT(30), Z3T(30) DEF Counted
      <3>. QED
        BY <1>2, <2>1, <3>1, <3>2, <3>3, <3>4, SMTT(30), Z3T(30) DEF Counted
    <2>. QED
      BY <1>2, <2>2, <2>3 DEF CountInv
  <1>. QED
    BY <1>3, <1>4, SMTT(30), Z3T(30)

\* Every step keeps the invariant.
LEMMA NextCount == CountInv /\ [W!Next]_(W!vars) => CountInv'
  <1>. SUFFICES ASSUME CountInv, [W!Next]_(W!vars) PROVE CountInv'
    OBVIOUS
  <1>1. W!TypeOK /\ now \in Int
    BY SMTT(30), Z3T(30) DEF CountInv, W!TypeOK
  <1>2. ASSUME NEW l \in W!Limits, NEW p \in W!Periods, NEW n \in W!Counts, NEW d \in W!Ahead,
               W!withdraw_permission_create(l, p, n, now + d)
        PROVE  CountInv'
    <2>1. /\ l \in Int /\ l > 0 /\ p \in Int /\ p > 0 /\ now + d \in Int /\ now + d >= now
      BY <1>1, Inputs, SMTT(30), Z3T(30)
    <2>4. W!Expiration(now + d, n, p) \in Int
      BY <2>1, Inputs, ExpirationType, SMTT(30), Z3T(30)
    <2>2. /\ permit' \in W!Permit /\ permit'.claimed_this_period >= 0
          /\ permit'.withdrawal_limit = l /\ permit'.withdrawal_period_sec = p
          /\ permit'.period_start_time = now + d
      BY <1>2, <2>1, <2>4, SMTT(30), Z3T(30) DEF W!withdraw_permission_create, W!Permit
    <2>3. /\ first' = now + d /\ win' = W!GridPoint(now + d, p, now) /\ taken' = 0
          /\ now' = now /\ balance' \in Nat /\ granted' \in BOOLEAN
      BY <1>1, <1>2, SMTT(30), Z3T(30) DEF W!withdraw_permission_create, W!TypeOK
    <2>. QED
      BY <1>1, <2>1, <2>2, <2>3, NewGrid, SMTT(30), Z3T(30)
  <1>3. ASSUME NEW l \in W!Limits, NEW p \in W!Periods, NEW n \in W!Counts, NEW d \in W!Ahead,
               W!withdraw_permission_update(l, p, n, now + d)
        PROVE  CountInv'
    <2>1. /\ l \in Int /\ l > 0 /\ p \in Int /\ p > 0 /\ now + d \in Int /\ now + d >= now
      BY <1>1, Inputs
    <2>4. W!Expiration(now + d, n, p) \in Int
      BY <2>1, Inputs, ExpirationType
    <2>2. /\ permit' \in W!Permit /\ permit'.claimed_this_period >= 0
          /\ permit'.withdrawal_limit = l /\ permit'.withdrawal_period_sec = p
          /\ permit'.period_start_time = now + d
      BY <1>1, <1>3, <2>1, <2>4, Zenon DEF W!withdraw_permission_update, W!Permit, W!TypeOK
    <2>3. /\ first' = now + d /\ win' = W!GridPoint(now + d, p, now) /\ taken' = 0
          /\ now' = now /\ balance' \in Nat /\ granted' \in BOOLEAN
      BY <1>1, <1>3, SMTT(30), Z3T(30) DEF W!withdraw_permission_update, W!TypeOK
    <2>. QED
      BY <1>1, <2>1, <2>2, <2>3, NewGrid
  <1>4. ASSUME NEW x \in W!Amounts, W!withdraw_permission_claim(x) PROVE CountInv'
    BY <1>4, ClaimCount
  <1>5. CASE W!withdraw_permission_delete
    <2>1. W!TypeOK' /\ ~granted'
      BY <1>1, <1>5, ZenonT(30) DEF W!withdraw_permission_delete, W!TypeOK
    <2>. QED
      BY <2>1 DEF CountInv
  <1>6. ASSUME NEW t \in W!Times, W!apply_block(t) PROVE CountInv'
    BY <1>6, BlockCount
  <1>7. CASE UNCHANGED W!vars
    BY <1>7, SMTT(30), Z3T(30) DEF W!vars, CountInv, W!TypeOK, Counted, Start, Period
  <1>. QED
    BY <1>2, <1>3, <1>4, <1>5, <1>6, <1>7, SMTT(30), Z3T(30) DEF W!Next

\* PeriodLimit: the limit of no period of the grid is exceeded, whatever the
\* order of creations, updates, claims and blocks.
THEOREM PeriodLimitHolds == W!Spec => []W!PeriodLimit
  <1>1. CountInv => W!PeriodLimit
    BY SMTT(30), Z3T(30) DEF CountInv, Counted, W!PeriodLimit
  <1>. QED
    BY <1>1, InitCount, NextCount, PTL DEF W!Spec

\* FreshPeriod: from the second period on an unused period offers the whole limit.
THEOREM FreshPeriodHolds == W!Spec => []W!FreshPeriod
  <1>1. CountInv => W!FreshPeriod
    <2>. SUFFICES ASSUME CountInv, granted, taken = 0, win >= first + Period
                  PROVE  W!available_this_period = permit.withdrawal_limit
      BY DEF W!FreshPeriod, Period
    <2>1. /\ Counted /\ Start \in Int /\ Period \in Int /\ Period > 0 /\ win \in Int
          /\ now \in Int /\ first \in Int
      BY DEF CountInv, W!TypeOK, W!Permit, Start, Period
    <2>2. PICK k \in Int : Start = win + k * Period
      BY <2>1, SMTT(30), Z3T(30) DEF Counted, Aligned
    <2>3. k * Period \in Int /\ (k * Period > 0 - Period => k * Period >= 0)
      BY <2>1, Multiple, SMTT(30), Z3T(30)
    <2>4. Start <= first \/ Start < win
      BY <2>1, SMTT(30), Z3T(30) DEF Counted
    <2>5. now >= Start + Period
      BY <2>1, <2>2, <2>3, <2>4, SMTT(30), Z3T(30) DEF Counted
    <2>. QED
      BY <2>5 DEF W!available_this_period, Start, Period
  <1>. QED
    BY <1>1, InitCount, NextCount, PTL DEF W!Spec
=============================================================================
