----------------------- MODULE WitnessScheduleProofs -----------------------
(***************************************************************************)
(* For all intervals, skips, block times and numbers of witnesses: the two *)
(* directions of the slot arithmetic agree, the next maintenance stays     *)
(* ahead of the head, slots are credited to those who used them, the       *)
(* schedule is renewed within a round, and the irreversible block has its  *)
(* quorum and keeps up with the head.                                      *)
(***************************************************************************)
EXTENDS WitnessSchedule, FiniteSetTheorems, TLAPS

\* What integer division does: the multiple at or below a number.
LEMMA Division ==
   ASSUME NEW t \in Nat, NEW i \in Nat \ {0}
   PROVE  /\ t \div i \in Nat
          /\ (t \div i) * i \in Nat
          /\ (t \div i) * i <= t
          /\ t < (t \div i) * i + i
OBVIOUS

\* A product is a natural number, and one more factor adds one interval.
LEMMA Product ==
   ASSUME NEW n \in Nat, NEW i \in Nat \ {0}
   PROVE  /\ n * i \in Nat
          /\ (n + 1) * i = n * i + i
OBVIOUS

\* A product distributes over the slots that maintenance skips.
LEMMA Distribute ==
   ASSUME NEW n \in Nat, NEW k \in Nat, NEW i \in Nat \ {0}
   PROVE  (n + k) * i = n * i + k * i
OBVIOUS

\* The part of the head that the slots are computed from.
HeadOK(d) ==
   /\ d.head \in Nat /\ d.time \in Nat /\ d.maintenance \in BOOLEAN

\* The time before slot 1 by one interval: the slots are its successors.
Base(d, p) ==
   IF d.head = 0 THEN d.time
   ELSE (d.time \div p.interval) * p.interval + (IF d.maintenance THEN p.skip ELSE 0) * p.interval

\* A slot is so many intervals behind the base (get_slot_time), and the base is
\* less than one interval before the head.
LEMMA SlotTimes ==
   ASSUME NEW d, HeadOK(d), NEW p \in Params
   PROVE  /\ Base(d, p) \in Nat
          /\ d.time < Base(d, p) + p.interval
          /\ \A n \in Nat \ {0} : get_slot_time(d, p, n) = Base(d, p) + n * p.interval
<1>1. p.interval \in Nat \ {0} /\ p.skip \in Nat
   BY ScheduleAssumption, Zenon DEF ScheduleAssumption
<1>2. CASE d.head = 0
   BY <1>1, <1>2 DEF Base, get_slot_time, HeadOK
<1>3. CASE d.head # 0 /\ d.maintenance
   <2>1. Base(d, p) = (d.time \div p.interval) * p.interval + p.skip * p.interval
      BY <1>3, Zenon DEF Base
   <2>2. p.skip * p.interval \in Nat
      BY <1>1, Product, Zenon
   <2>3. /\ (d.time \div p.interval) * p.interval \in Nat
         /\ d.time < (d.time \div p.interval) * p.interval + p.interval
      BY <1>1, Division, Zenon DEF HeadOK
   <2>4. ASSUME NEW n \in Nat \ {0}
         PROVE  get_slot_time(d, p, n) = Base(d, p) + n * p.interval
      <3>1. get_slot_time(d, p, n) = (d.time \div p.interval) * p.interval + (n + p.skip) * p.interval
         BY <1>3, Zenon DEF get_slot_time
      <3>2. (n + p.skip) * p.interval = n * p.interval + p.skip * p.interval
         BY <1>1, Distribute
      <3>3. n * p.interval \in Nat
         BY <1>1, Product, Zenon
      <3>. QED BY <2>1, <2>2, <2>3, <3>1, <3>2, <3>3
   <2>5. Base(d, p) \in Nat /\ d.time < Base(d, p) + p.interval
      BY <1>1, <2>1, <2>2, <2>3 DEF HeadOK
   <2>. QED BY <2>4, <2>5, Zenon
<1>4. CASE d.head # 0 /\ ~d.maintenance
   <2>1. Base(d, p) = (d.time \div p.interval) * p.interval + 0 * p.interval
      BY <1>4, Zenon DEF Base
   <2>2. 0 * p.interval = 0
      BY <1>1
   <2>3. /\ (d.time \div p.interval) * p.interval \in Nat
         /\ d.time < (d.time \div p.interval) * p.interval + p.interval
      BY <1>1, Division, Zenon DEF HeadOK
   <2>4. ASSUME NEW n \in Nat \ {0}
         PROVE  get_slot_time(d, p, n) = Base(d, p) + n * p.interval
      <3>1. get_slot_time(d, p, n) = (d.time \div p.interval) * p.interval + (n + 0) * p.interval
         BY <1>4, Zenon DEF get_slot_time
      <3>. QED BY <2>1, <2>2, <2>3, <3>1
   <2>5. Base(d, p) \in Nat /\ d.time < Base(d, p) + p.interval
      BY <1>1, <2>1, <2>2, <2>3 DEF HeadOK
   <2>. QED BY <2>4, <2>5, Zenon
<1>. QED BY <1>2, <1>3, <1>4, Zenon DEF HeadOK

\* get_slot_at_time is the greatest slot at or before a time.
LEMMA SlotAtTime ==
   ASSUME NEW d, HeadOK(d), NEW p \in Params, NEW when \in Nat
   PROVE  LET n == get_slot_at_time(d, p, when) IN
          /\ n \in Nat
          /\ n > 0 => get_slot_time(d, p, n) <= when
          /\ when < get_slot_time(d, p, n + 1)
<1>. DEFINE n == get_slot_at_time(d, p, when)
            first == get_slot_time(d, p, 1)
            q == (when - first) \div p.interval
<1>1. p.interval \in Nat \ {0}
   BY ScheduleAssumption, Zenon DEF ScheduleAssumption
<1>2. first = Base(d, p) + p.interval /\ Base(d, p) \in Nat
   <2>1. first = Base(d, p) + 1 * p.interval
      BY SlotTimes
   <2>. QED BY <1>1, <2>1, SlotTimes
<1>3. CASE when < first
   BY <1>2, <1>3 DEF get_slot_at_time
<1>4. CASE ~(when < first)
   <2>1. n = q + 1
      BY <1>4, Zenon DEF get_slot_at_time
   <2>2. when - first \in Nat
      BY <1>1, <1>2, <1>4
   <2>3. /\ q \in Nat /\ q * p.interval \in Nat
         /\ q * p.interval <= when - first
         /\ when - first < q * p.interval + p.interval
      BY <1>1, <2>2, Division, Zenon
   <2>. HIDE DEF n, first, q
   <2>4. /\ (q + 1) * p.interval = q * p.interval + p.interval
         /\ ((q + 1) + 1) * p.interval = (q + 1) * p.interval + p.interval
      BY <1>1, <2>3, Product
   <2>5. /\ get_slot_time(d, p, n) = Base(d, p) + (q + 1) * p.interval
         /\ get_slot_time(d, p, n + 1) = Base(d, p) + ((q + 1) + 1) * p.interval
      BY <2>1, <2>3, SlotTimes
   <2>6. /\ n \in Nat
         /\ n > 0 => get_slot_time(d, p, n) <= when
         /\ when < get_slot_time(d, p, n + 1)
      BY <1>1, <1>2, <2>1, <2>2, <2>3, <2>4, <2>5, SMTT(30), Z3T(30)
   <2>. QED BY <2>6, Zenon DEF n
<1>. QED BY <1>3, <1>4, Zenon
-----------------------------------------------------------------------------
Fields == {"head", "time", "witness", "aslot", "maintenance", "next_maintenance_time",
           "recently_missed", "slots_filled", "lib"}

\* The inductive invariant: the shape of the head as far as times depend on it,
\* no maintenance time before the first block, and MaintenanceAhead.
IInv ==
   /\ DOMAIN dgp = Fields
   /\ HeadOK(dgp)
   /\ params \in Params /\ pending \subseteq Params
   /\ dgp.next_maintenance_time \in Nat
   /\ dgp.head = 0 => dgp.next_maintenance_time = 0
   /\ MaintenanceAhead

\* The invariant holds of the genesis state.
LEMMA InitInv == Init => IInv
BY ScheduleAssumption DEF ScheduleAssumption, Init, IInv, Fields, HeadOK, MaintenanceAhead

\* The time that maintenance sets: after the head, at most one interval away.
LEMMA NextMaintenance ==
   ASSUME NEW d, HeadOK(d), NEW p \in Params, d.next_maintenance_time \in Nat,
          d.head # 1 => d.next_maintenance_time <= d.time
   PROVE  /\ next_maintenance_time(d, p) \in Nat
          /\ d.time < next_maintenance_time(d, p)
          /\ next_maintenance_time(d, p) <= d.time + p.maint
<1>1. p.maint \in Nat \ {0}
   BY ScheduleAssumption, Zenon DEF ScheduleAssumption
<1>2. CASE d.head = 1
   <2>. DEFINE q == d.time \div p.maint
   <2>1. /\ q \in Nat /\ q * p.maint \in Nat
         /\ q * p.maint <= d.time /\ d.time < q * p.maint + p.maint
      BY <1>1, Division, Zenon DEF HeadOK
   <2>2. next_maintenance_time(d, p) = (q + 1) * p.maint
      BY <1>2, Zenon DEF next_maintenance_time
   <2>. HIDE DEF q
   <2>3. (q + 1) * p.maint = q * p.maint + p.maint
      BY <1>1, <2>1, Product, Zenon
   <2>. QED BY <1>1, <2>1, <2>2, <2>3 DEF HeadOK
<1>3. CASE d.head # 1
   <2>. DEFINE q == (d.time - d.next_maintenance_time) \div p.maint
   <2>0. d.time - d.next_maintenance_time \in Nat
      BY <1>3 DEF HeadOK
   <2>1. /\ q \in Nat /\ q * p.maint \in Nat
         /\ q * p.maint <= d.time - d.next_maintenance_time
         /\ d.time - d.next_maintenance_time < q * p.maint + p.maint
      BY <1>1, <2>0, Division, Zenon
   <2>2. next_maintenance_time(d, p) = d.next_maintenance_time + (q + 1) * p.maint
      BY <1>3, Zenon DEF next_maintenance_time
   <2>. HIDE DEF q
   <2>3. (q + 1) * p.maint = q * p.maint + p.maint
      BY <1>1, <2>1, Product, Zenon
   <2>. QED BY <1>1, <2>1, <2>2, <2>3 DEF HeadOK
<1>. QED BY <1>2, <1>3, Zenon

\* A block moves the head on and leaves the maintenance time to the maintenance.
LEMMA HeadMoves ==
   ASSUME IInv, NEW b, b.time \in Nat, NEW missed, NEW ws
   PROVE  LET d1 == update_global_dynamic_data(b, missed)
              d2 == update_last_irreversible_block(d1, ws) IN
          /\ DOMAIN d2 = Fields
          /\ d2.head = dgp.head + 1 /\ d2.time = b.time
          /\ d2.maintenance = dgp.maintenance
          /\ d2.next_maintenance_time = dgp.next_maintenance_time
<1>. DEFINE d1 == update_global_dynamic_data(b, missed)
            d2 == update_last_irreversible_block(d1, ws)
<1>1. /\ DOMAIN d1 = Fields
      /\ d1.head = dgp.head + 1 /\ d1.time = b.time
      /\ d1.maintenance = dgp.maintenance
      /\ d1.next_maintenance_time = dgp.next_maintenance_time
   BY Zenon DEF IInv, Fields, update_global_dynamic_data
<1>. HIDE DEF d1
<1>2. /\ DOMAIN d2 = DOMAIN d1
      /\ d2.head = d1.head /\ d2.time = d1.time
      /\ d2.maintenance = d1.maintenance
      /\ d2.next_maintenance_time = d1.next_maintenance_time
   BY <1>1, Zenon DEF Fields, update_last_irreversible_block
<1>. QED BY <1>1, <1>2, Zenon DEF d1

\* apply_block keeps the invariant.
LEMMA BlockInv ==
   ASSUME IInv, NEW b \in Block, apply_block(b)
   PROVE  IInv'
<1>. DEFINE slot == get_slot_at_time(dgp, params, b.time)
            d1 == update_global_dynamic_data(b, slot - 1)
            ws == update_signing_witness(d1, b, slot - 1)
            d2 == update_last_irreversible_block(d1, ws)
<1>1. b.time \in Nat /\ dgp.time < b.time
   BY ScheduleAssumption, SMTT(30), Z3T(30) DEF ScheduleAssumption, Block, apply_block
<1>2. /\ DOMAIN d2 = Fields
      /\ d2.head = dgp.head + 1 /\ d2.time = b.time
      /\ d2.maintenance = dgp.maintenance
      /\ d2.next_maintenance_time = dgp.next_maintenance_time
   BY <1>1, HeadMoves
<1>3. CASE dgp.next_maintenance_time <= b.time
   <2>1. /\ params' = IF pending = {} THEN params ELSE CHOOSE p \in pending : TRUE
         /\ pending' = {}
         /\ dgp' = [d2 EXCEPT !.next_maintenance_time = next_maintenance_time(d2, params'),
                              !.maintenance = TRUE]
      BY <1>3, Zenon DEF apply_block
   <2>2. params' \in Params /\ pending' \subseteq Params
      BY <2>1, Zenon DEF IInv
   <2>. HIDE DEF slot, d1, ws, d2
   <2>3. HeadOK(d2)
      BY <1>1, <1>2 DEF IInv, HeadOK
   <2>4. /\ next_maintenance_time(d2, params') \in Nat
         /\ d2.time < next_maintenance_time(d2, params')
         /\ next_maintenance_time(d2, params') <= d2.time + params'.maint
      <3>1. d2.next_maintenance_time \in Nat /\ d2.next_maintenance_time <= d2.time
         BY <1>2, <1>3, Zenon DEF IInv
      <3>. QED BY <2>2, <2>3, <3>1, NextMaintenance, Zenon
   <2>5. /\ DOMAIN dgp' = Fields
         /\ dgp'.head = d2.head /\ dgp'.time = d2.time /\ dgp'.maintenance = TRUE
         /\ dgp'.next_maintenance_time = next_maintenance_time(d2, params')
      BY <1>2, <2>1, Zenon DEF Fields
   <2>6. HeadOK(dgp)' /\ dgp'.head # 0
      <3>1. dgp'.head \in Nat /\ dgp'.time \in Nat /\ dgp'.head # 0
         BY <1>1, <1>2, <2>5 DEF HeadOK, IInv
      <3>2. dgp'.maintenance \in BOOLEAN
         BY <2>5, Zenon
      <3>. QED BY <3>1, <3>2, Zenon DEF HeadOK
   <2>7. MaintenanceAhead'
      BY <2>4, <2>5, Zenon DEF MaintenanceAhead
   <2>. QED BY <2>2, <2>4, <2>5, <2>6, <2>7, Zenon DEF IInv
<1>4. CASE ~(dgp.next_maintenance_time <= b.time)
   <2>1. /\ dgp' = [d2 EXCEPT !.maintenance = FALSE]
         /\ params' = params /\ pending' = pending
      BY <1>4, Zenon DEF apply_block
   <2>. HIDE DEF slot, d1, ws, d2
   <2>2. /\ DOMAIN dgp' = Fields
         /\ dgp'.head = dgp.head + 1 /\ dgp'.time = b.time /\ dgp'.maintenance = FALSE
         /\ dgp'.next_maintenance_time = dgp.next_maintenance_time
      BY <1>2, <2>1, Zenon DEF Fields
   <2>3. HeadOK(dgp)' /\ dgp'.head # 0 /\ dgp.head # 0
      <3>1. dgp'.head \in Nat /\ dgp'.time \in Nat /\ dgp'.head # 0 /\ dgp.head # 0
         BY <1>1, <1>4, <2>2 DEF HeadOK, IInv
      <3>2. dgp'.maintenance \in BOOLEAN
         BY <2>2, Zenon
      <3>. QED BY <3>1, <3>2, Zenon DEF HeadOK
   <2>4. MaintenanceAhead'
      <3>1. params.maint \in Nat
         BY ScheduleAssumption, Zenon DEF ScheduleAssumption, IInv
      <3>. QED BY <1>1, <1>4, <2>1, <2>2, <2>3, <3>1 DEF MaintenanceAhead, IInv, HeadOK
   <2>. QED BY <2>1, <2>2, <2>3, <2>4, Zenon DEF IInv
<1>. QED BY <1>3, <1>4, Zenon DEF IInv

\* Every step keeps the invariant.
LEMMA StepInv == IInv /\ [Next]_vars => IInv'
<1>. SUFFICES ASSUME IInv, [Next]_vars PROVE IInv'
   BY Zenon
<1>1. ASSUME NEW b \in Block, apply_block(b) PROVE IInv'
   BY <1>1, BlockInv, Zenon
<1>2. ASSUME NEW p \in Params, update_global_parameters(p) PROVE IInv'
   BY <1>2, Zenon DEF update_global_parameters, IInv, HeadOK, MaintenanceAhead
<1>3. CASE UNCHANGED vars
   BY <1>3, Zenon DEF vars, IInv, HeadOK, MaintenanceAhead
<1>. QED BY <1>1, <1>2, <1>3, Zenon DEF Next

\* The slot arithmetic is right in every state that satisfies the invariant.
LEMMA InvSlots == IInv => SlotInverse
<1>. SUFFICES ASSUME IInv PROVE SlotInverse
   BY Zenon
<1>1. HeadOK(dgp) /\ params \in Params
   BY Zenon DEF IInv
<1>2. get_slot_time(dgp, params, 1) > dgp.time
   <2>1. params.interval \in Nat \ {0}
      BY <1>1, ScheduleAssumption, Zenon DEF ScheduleAssumption
   <2>2. get_slot_time(dgp, params, 1) = Base(dgp, params) + 1 * params.interval
      BY <1>1, SlotTimes
   <2>. QED BY <1>1, <2>1, <2>2, SlotTimes DEF HeadOK
<1>3. ASSUME NEW when \in dgp.time..(MaxTime + 1)
      PROVE  LET n == get_slot_at_time(dgp, params, when) IN
             /\ n > 0 => get_slot_time(dgp, params, n) <= when
             /\ when < get_slot_time(dgp, params, n + 1)
   <2>1. when \in Nat
      BY <1>1, ScheduleAssumption DEF ScheduleAssumption, HeadOK
   <2>. QED BY <1>1, <2>1, SlotAtTime, Zenon
<1>. QED BY <1>2, <1>3, Zenon DEF SlotInverse

\* In every reachable state get_slot_at_time and get_slot_time are inverse to each
\* other as database.hpp promises, and the first slot is after the head, for all
\* intervals, skips and times.
THEOREM SlotsAgree == Spec => []SlotInverse
BY InitInv, StepInv, InvSlots, PTL DEF Spec

\* In every reachable state the next maintenance is ahead of the head by at most
\* one interval, for all intervals and all changes of them.
THEOREM MaintenanceStaysAhead == Spec => []MaintenanceAhead
<1>1. IInv => MaintenanceAhead
   BY Zenon DEF IInv
<1>. QED BY <1>1, InitInv, StepInv, PTL DEF Spec
-----------------------------------------------------------------------------
(* Counting *)

\* A non-empty set of naturals has a least element: what the proofs below use in
\* the place of an induction.
LEMMA LeastNat ==
   ASSUME NEW T \in SUBSET Nat, T # {}
   PROVE  \E m \in T : \A k \in T : m <= k
<1>. DEFINE R == OpToRel(<, Nat)
<1>1. IsWellFoundedOn(R, Nat)
   BY NatLessThanWellFounded, Zenon
<1>2. \A i, j \in Nat : i < j => <<i, j>> \in R
   BY Zenon DEF OpToRel
<1>. HIDE DEF R
<1>3. PICK m \in T : \A k \in T : ~(<<k, m>> \in R)
   BY <1>1, WFMin, Zenon
<1>4. ASSUME NEW k \in T PROVE m <= k
   <2>1. m \in Nat /\ k \in Nat
      BY Zenon
   <2>2. ~(k < m)
      BY <1>2, <1>3, <2>1, Zenon
   <2>. QED BY <2>1, <2>2
<1>. QED BY <1>4, Zenon

\* A number has one remainder: what it is above some multiple.
LEMMA OneRemainder ==
   ASSUME NEW n \in Nat \ {0}, NEW q \in Nat, NEW r \in Nat, r < n
   PROVE  (q * n + r) % n = r
<1>. DEFINE h == q * n + r
            e == h \div n
            d == h % n
<1>1. h \in Nat
   BY Product
<1>2. e \in Nat /\ d \in Nat /\ d < n /\ h = e * n + d /\ e * n \in Nat /\ q * n \in Nat
   BY <1>1, Division
<1>. HIDE DEF e, d
<1>3. CASE e = q
   BY <1>2, <1>3 DEF h, d
<1>4. CASE e < q
   <2>1. (e + (q - e)) * n = e * n + (q - e) * n
      BY <1>2, <1>4, Distribute
   <2>2. (q - e) * n >= n
      BY <1>2, <1>4
   <2>. QED BY <1>2, <1>4, <2>1, <2>2
<1>5. CASE q < e
   <2>1. (q + (e - q)) * n = q * n + (e - q) * n
      BY <1>2, <1>5, Distribute
   <2>2. (e - q) * n >= n
      BY <1>2, <1>5
   <2>. QED BY <1>2, <1>5, <2>1, <2>2
<1>. QED BY <1>2, <1>3, <1>4, <1>5

\* How the place in a round moves on by one block.
LEMMA Modulus ==
   ASSUME NEW h \in Nat, NEW n \in Nat \ {0}
   PROVE  /\ h % n \in Nat /\ h % n < n
          /\ (h + 1) % n # 0 => (h + 1) % n = (h % n) + 1
          /\ (h + 1) % n = 0 => h % n = n - 1
<1>. DEFINE q == h \div n
            r == h % n
<1>1. q \in Nat /\ r \in Nat /\ r < n /\ h = q * n + r /\ q * n \in Nat
   BY Division
<1>. HIDE DEF q
<1>2. CASE r + 1 < n
   <2>1. (q * n + (r + 1)) % n = r + 1
      BY <1>1, <1>2, OneRemainder
   <2>2. q * n + (r + 1) = h + 1
      BY <1>1
   <2>. QED BY <1>1, <1>2, <2>1, <2>2
<1>3. CASE r + 1 = n
   <2>1. (q + 1) * n = q * n + n
      BY <1>1, Product, Zenon
   <2>2. ((q + 1) * n + 0) % n = 0
      BY <1>1, OneRemainder
   <2>3. (q + 1) * n + 0 = h + 1
      BY <1>1, <1>3, <2>1
   <2>. QED BY <1>1, <1>3, <2>2, <2>3
<1>. QED BY <1>1, <1>2, <1>3, SMTT(30), Z3T(30)

\* n numbers in a row meet every place of a schedule of n.
LEMMA RoundCovers ==
   ASSUME NEW n \in Nat \ {0}, NEW a \in Nat, a >= n, NEW p \in 0..(n - 1)
   PROVE  \E k \in 0..a : a - k < n /\ k % n = p
<1>. DEFINE q == (a - p) \div n
            k == q * n + p
<1>1. a - p \in Nat
   OBVIOUS
<1>2. q \in Nat /\ q * n \in Nat /\ q * n <= a - p /\ a - p < q * n + n
   BY <1>1, Division, Zenon
<1>3. k \in 0..a /\ a - k < n
   BY <1>2
<1>4. k % n = p
   BY <1>2, OneRemainder
<1>. QED BY <1>3, <1>4, Zenon

\* A shuffle of a set is a sequence of its elements, each of them once.
LEMMA ShuffleRange ==
   ASSUME NEW A, IsFiniteSet(A), NEW s \in Shuffles(A)
   PROVE  /\ Range(s) = A
          /\ Len(s) = Cardinality(A)
          /\ s \in [1..Cardinality(A) -> A]
<1>. DEFINE n == Cardinality(A)
<1>1. n \in Nat
   BY FS_CardinalityType, Zenon
<1>2. s \in [1..n -> A] /\ \A x \in A : \E i \in 1..n : s[i] = x
   BY Zenon DEF Shuffles, Bijection, Injection, Surjection
<1>3. Range(s) = A
   BY <1>2, Zenon DEF Range
<1>4. Len(s) = n
   BY <1>1, <1>2
<1>. QED BY <1>2, <1>3, <1>4, Zenon

\* nth_element at the place offset: fewer than 30% are below the number it finds,
\* and the number is the one of some witness.
LEMMA NthConfirmed ==
   ASSUME NEW ws, NEW A, IsFiniteSet(A), A # {}, NEW h \in Nat,
          \A w \in A : ws[w].confirmed \in Nat /\ ws[w].confirmed <= h
   PROVE  LET v == nth_confirmed(ws, A) IN
          /\ \E w \in A : v = ws[w].confirmed
          /\ 10 * Cardinality({w \in A : ws[w].confirmed >= v}) >= 7 * Cardinality(A)
<1>. DEFINE n == Cardinality(A)
            m == offset_of(n)
            Below(k) == {w \in A : ws[w].confirmed < k}
            UpTo(k) == {w \in A : ws[w].confirmed <= k}
            AtLeast(k) == {w \in A : ws[w].confirmed >= k}
            Good(k) == Cardinality(Below(k)) <= m /\ Cardinality(UpTo(k)) > m
            Values == {ws[w].confirmed : w \in A}
            T == {k \in 0..h : Cardinality(UpTo(k)) > m}
<1>1. nth_confirmed(ws, A) = CHOOSE x \in Values : Good(x)
   BY Zenon DEF nth_confirmed
<1>2. n \in Nat \ {0}
   BY FS_CardinalityType, FS_EmptySet
<1>3. m \in Nat /\ m < n /\ 10 * m <= 3 * n
   BY <1>2 DEF offset_of
<1>4. \A k : Cardinality(Below(k)) \in Nat /\ Cardinality(UpTo(k)) \in Nat
   <2>1. \A k : Below(k) \in SUBSET A /\ UpTo(k) \in SUBSET A
      BY Zenon
   <2>. HIDE DEF Below, UpTo
   <2>. QED BY <2>1, FS_Subset, FS_CardinalityType, Zenon
<1>5. UpTo(h) = A /\ Cardinality(Below(0)) = 0
   <2>1. UpTo(h) = A /\ Below(0) = {}
      OBVIOUS
   <2>. QED BY <2>1, FS_EmptySet, Zenon
<1>6. \A k \in Nat \ {0} : Below(k) = UpTo(k - 1)
   OBVIOUS
<1>7. \A k \in Nat : k \notin Values => UpTo(k) = Below(k)
   OBVIOUS
<1>8. \A k \in Values : AtLeast(k) = A \ Below(k)
   OBVIOUS
<1>9. \A k : A \cap Below(k) = Below(k)
   BY Zenon
<1>. HIDE DEF n, m, Below, UpTo, AtLeast
<1>10. PICK k \in T : \A j \in T : k <= j
   <2>1. T \in SUBSET Nat /\ h \in T
      BY <1>3, <1>5, <1>2 DEF n
   <2>. HIDE DEF T
   <2>. QED BY <2>1, LeastNat, Zenon
<1>11. Cardinality(Below(k)) <= m
   <2>1. CASE k = 0
      BY <1>3, <1>5, <2>1
   <2>2. CASE k # 0
      <3>1. k - 1 \in 0..h /\ k - 1 \notin T
         BY <1>10, <2>2
      <3>2. ~(Cardinality(UpTo(k - 1)) > m)
         BY <3>1, Zenon
      <3>. QED BY <1>3, <1>4, <1>6, <2>2, <3>2, SMTT(30), Z3T(30)
   <2>. QED BY <2>1, <2>2, Zenon
<1>12. k \in Values /\ Good(k)
   <2>1. Cardinality(UpTo(k)) > m /\ k \in Nat
      OBVIOUS
   <2>2. k \in Values
      <3>. HIDE DEF Values
      <3>. QED BY <1>3, <1>4, <1>7, <1>11, <2>1
   <2>. QED BY <1>11, <2>1, <2>2, Zenon
<1>. DEFINE v == CHOOSE x \in Values : Good(x)
<1>13. v \in Values /\ Good(v)
   <2>. HIDE DEF Values, Good
   <2>. QED BY <1>12, Zenon
<1>. HIDE DEF v
<1>14. 10 * Cardinality(AtLeast(v)) >= 7 * n
   <2>1. Cardinality(A \ Below(v)) = n - Cardinality(Below(v))
      BY <1>9, FS_Difference, ZenonT(30) DEF n
   <2>2. AtLeast(v) = A \ Below(v)
      BY <1>8, <1>13, Zenon
   <2>. QED BY <1>2, <1>3, <1>4, <1>13, <2>1, <2>2, SMTT(30), Z3T(30)
<1>15. \E w \in A : v = ws[w].confirmed
   BY <1>13, Zenon
<1>. QED BY <1>1, <1>14, <1>15, Zenon DEF v, n, AtLeast
-----------------------------------------------------------------------------
(* Witnesses *)

WitnessFields == [missed : Nat, last_aslot : Nat, confirmed : Nat]

\* The shapes that the counters depend on, and that no witness is ahead of the
\* head. Together with IInv this is the type invariant.
TInv ==
   /\ TypeOK
   /\ \A w \in Witness : wit[w].confirmed <= dgp.head /\ wit[w].last_aslot <= dgp.aslot
   /\ dgp.lib <= dgp.head
   /\ shuffled \in Shuffles(Range(shuffled))

\* The active witnesses are a finite set of witnesses, and not empty.
LEMMA ActiveSet ==
   ASSUME NEW A \in ActiveSets
   PROVE  /\ A # {} /\ A \subseteq Witness /\ IsFiniteSet(A)
          /\ Cardinality(A) \in Nat \ {0}
<1>1. A # {} /\ A \subseteq Witness /\ IsFiniteSet(A)
   BY ScheduleAssumption, Zenon DEF ScheduleAssumption
<1>. QED BY <1>1, FS_CardinalityType, FS_EmptySet, Zenon

\* The first invariants hold of the genesis state.
LEMMA InitTypes == Init => TInv
<1>. SUFFICES ASSUME Init PROVE TInv
   BY Zenon
<1>1. active \in ActiveSets /\ shuffled \in Shuffles(active)
   BY Zenon DEF Init
<1>2. Range(shuffled) = active
   BY <1>1, ActiveSet, ShuffleRange, Zenon
<1>3. Witness # {}
   BY <1>1, ActiveSet, Zenon
<1>4. dgp \in [head : Nat, time : Nat, witness : Witness, aslot : Nat,
               maintenance : BOOLEAN, next_maintenance_time : Nat,
               recently_missed : Nat, slots_filled : [1..Window -> {0, 1}], lib : Nat]
   <2>1. (CHOOSE w \in Witness : TRUE) \in Witness
      BY <1>3, Zenon
   <2>2. Genesis \in Nat
      BY ScheduleAssumption, Zenon DEF ScheduleAssumption
   <2>. QED BY <2>1, <2>2, Zenon DEF Init
<1>5. wit = [w \in Witness |-> [missed |-> 0, last_aslot |-> 0, confirmed |-> 0]]
   BY Zenon DEF Init
<1>6. TypeOK
   BY <1>1, <1>2, <1>4, <1>5 DEF TypeOK, Init
<1>. QED BY <1>1, <1>2, <1>5, <1>6 DEF TInv, Init

\* The bits of the window stay bits, however many slots were missed.
LEMMA WindowBits ==
   ASSUME NEW f \in [1..Window -> {0, 1}], NEW missed \in Nat
   PROVE  slots_shifted(f, missed) \in [1..Window -> {0, 1}]
<1>1. Window \in Nat
   BY ScheduleAssumption, Zenon DEF ScheduleAssumption
<1>2. ASSUME NEW i \in 1..Window, ~(i <= missed), i # missed + 1
      PROVE  i - missed - 1 \in 1..Window
   BY <1>1, <1>2
<1>. QED BY <1>2, Zenon DEF slots_shifted

\* The count of recent misses does not fall below zero.
LEMMA RecentlyMissed ==
   ASSUME NEW d, d.recently_missed \in Nat, NEW num \in Nat, NEW missed \in Nat
   PROVE  recently_missed(d, num, missed) \in Nat
BY DEF recently_missed, RECENTLY_MISSED_COUNT_INCREMENT, RECENTLY_MISSED_COUNT_DECREMENT

\* The slot of a block's own time is 0 once the head has moved to that time.
LEMMA OwnSlot ==
   ASSUME NEW d, HeadOK(d), NEW p \in Params
   PROVE  get_slot_at_time(d, p, d.time) = 0
<1>1. p.interval \in Nat \ {0}
   BY ScheduleAssumption, Zenon DEF ScheduleAssumption
<1>2. get_slot_time(d, p, 1) = Base(d, p) + 1 * p.interval
   BY SlotTimes
<1>3. Base(d, p) \in Nat /\ d.time < Base(d, p) + p.interval /\ d.time \in Nat
   BY SlotTimes, Zenon DEF HeadOK
<1>4. d.time < get_slot_time(d, p, 1)
   BY <1>1, <1>2, <1>3
<1>. QED BY <1>4, Zenon DEF get_slot_at_time

\* What a block does to the head and to the counters, field by field.
LEMMA BlockEffect ==
   ASSUME IInv, TInv, NEW b \in Block, apply_block(b)
   PROVE  LET slot == get_slot_at_time(dgp, params, b.time)
              nth == nth_confirmed(wit', active) IN
          /\ slot \in Nat \ {0}
          /\ b.witness = get_scheduled_witness(dgp, slot)
          /\ dgp' = [f \in Fields |-> dgp'[f]]
          /\ dgp'.head = dgp.head + 1
          /\ dgp'.witness = b.witness
          /\ dgp'.aslot = dgp.aslot + slot
          /\ dgp'.recently_missed \in Nat
          /\ dgp'.slots_filled \in [1..Window -> {0, 1}]
          /\ dgp'.lib = IF nth > dgp.lib THEN nth ELSE dgp.lib
          /\ quorum' = IF dgp'.lib > dgp.lib THEN active ELSE quorum
          /\ clean' = IF slot = 1 /\ active' = active /\ Range(shuffled) = active
                      THEN clean + 1 ELSE 0
          /\ wit' \in [Witness -> WitnessFields]
          /\ wit'[b.witness].last_aslot = dgp'.aslot
          /\ wit'[b.witness].confirmed = dgp'.head
          /\ \A w \in Witness \ {b.witness} : /\ wit'[w].last_aslot = wit[w].last_aslot
                                              /\ wit'[w].confirmed = wit[w].confirmed
<1>. DEFINE slot == get_slot_at_time(dgp, params, b.time)
            d1 == update_global_dynamic_data(b, slot - 1)
            ws == update_signing_witness(d1, b, slot - 1)
            d2 == update_last_irreversible_block(d1, ws)
<1>0. b.time \in Nat /\ b.witness \in Witness
   BY ScheduleAssumption DEF ScheduleAssumption, Block
<1>1. slot \in Nat \ {0} /\ b.witness = get_scheduled_witness(dgp, slot)
   <2>1. slot \in Nat
      BY <1>0, SlotAtTime, Zenon DEF IInv
   <2>2. slot > 0 /\ b.witness = get_scheduled_witness(dgp, slot)
      BY Zenon DEF apply_block
   <2>. QED BY <2>1, <2>2
<1>. HIDE DEF slot
<1>2. /\ DOMAIN d1 = Fields
      /\ d1.head = dgp.head + 1 /\ d1.time = b.time /\ d1.witness = b.witness
      /\ d1.maintenance = dgp.maintenance /\ d1.lib = dgp.lib
      /\ d1.recently_missed = recently_missed(dgp, dgp.head + 1, slot - 1)
      /\ d1.slots_filled = slots_shifted(dgp.slots_filled, slot - 1)
      /\ d1.aslot = dgp.aslot + (slot - 1) + 1
   BY Zenon DEF IInv, Fields, update_global_dynamic_data
<1>3. d1.recently_missed \in Nat /\ d1.slots_filled \in [1..Window -> {0, 1}]
   <2>1. /\ dgp.recently_missed \in Nat /\ dgp.head + 1 \in Nat /\ slot - 1 \in Nat
         /\ dgp.slots_filled \in [1..Window -> {0, 1}]
      BY <1>1, SMTT(30), Z3T(30) DEF TInv, TypeOK
   <2>2. recently_missed(dgp, dgp.head + 1, slot - 1) \in Nat
      BY <2>1, RecentlyMissed, Zenon
   <2>3. slots_shifted(dgp.slots_filled, slot - 1) \in [1..Window -> {0, 1}]
      BY <2>1, WindowBits, Zenon
   <2>. QED BY <1>2, <2>2, <2>3, Zenon
<1>4. dgp.aslot \in Nat /\ dgp.head \in Nat /\ d1.aslot = dgp.aslot + slot
   BY <1>1, <1>2 DEF TInv, TypeOK
<1>5. new_block_aslot(d1, b, slot - 1) = d1.aslot
   <2>1. HeadOK(d1)
      BY <1>0, <1>2, <1>4 DEF HeadOK, IInv
   <2>2. get_slot_at_time(d1, params, b.time) = 0
      BY <1>2, <2>1, OwnSlot, Zenon DEF IInv
   <2>. QED BY <1>1, <1>4, <2>2, SMTT(30), Z3T(30) DEF new_block_aslot
<1>. HIDE DEF d1
<1>6. /\ ws \in [Witness -> WitnessFields]
      /\ ws[b.witness].last_aslot = d1.aslot /\ ws[b.witness].confirmed = d1.head
      /\ \A w \in Witness \ {b.witness} : /\ ws[w].last_aslot = wit[w].last_aslot
                                          /\ ws[w].confirmed = wit[w].confirmed
   <2>1. wit \in [Witness -> WitnessFields]
      BY Zenon DEF TInv, TypeOK, WitnessFields
   <2>2. ASSUME NEW w \in Witness PROVE total_missed(w, b, slot - 1) \in Nat
      <3>1. {i \in 1..(slot - 1) : get_scheduled_witness(dgp, i) = w} \in SUBSET (1..(slot - 1))
         BY Zenon
      <3>2. IsFiniteSet(1..(slot - 1))
         BY <1>1, FS_Interval
      <3>3. Cardinality({i \in 1..(slot - 1) : get_scheduled_witness(dgp, i) = w}) \in Nat
         BY <3>1, <3>2, FS_Subset, FS_CardinalityType, Zenon
      <3>4. wit[w].missed \in Nat
         BY <2>1, Zenon DEF WitnessFields
      <3>. QED BY <3>3, <3>4 DEF total_missed
   <2>3. d1.aslot \in Nat /\ d1.head \in Nat
      BY <1>1, <1>2, <1>4
   <2>. QED BY <1>0, <1>5, <2>1, <2>2, <2>3, Zenon DEF update_signing_witness, WitnessFields
<1>7. wit' = ws
   BY Zenon DEF apply_block, d1, slot
<1>. HIDE DEF ws
<1>8. /\ DOMAIN d2 = Fields /\ d2.head = d1.head /\ d2.witness = d1.witness
      /\ d2.aslot = d1.aslot /\ d2.recently_missed = d1.recently_missed
      /\ d2.slots_filled = d1.slots_filled
      /\ d2.lib = IF nth_confirmed(ws, active) > dgp.lib THEN nth_confirmed(ws, active) ELSE dgp.lib
   BY <1>2, Zenon DEF Fields, update_last_irreversible_block
<1>9. /\ quorum' = IF d2.lib > dgp.lib THEN active ELSE quorum
      /\ clean' = IF slot = 1 /\ active' = active /\ Range(shuffled) = active
                  THEN clean + 1 ELSE 0
      /\ \/ dgp' = [d2 EXCEPT !.next_maintenance_time = next_maintenance_time(d2, params'),
                              !.maintenance = TRUE]
         \/ dgp' = [d2 EXCEPT !.maintenance = FALSE]
   BY Zenon DEF apply_block, slot, d1, ws
<1>. HIDE DEF d2
<1>10. /\ DOMAIN dgp' = Fields /\ dgp'.head = d2.head /\ dgp'.witness = d2.witness
       /\ dgp'.aslot = d2.aslot /\ dgp'.recently_missed = d2.recently_missed
       /\ dgp'.slots_filled = d2.slots_filled /\ dgp'.lib = d2.lib
   BY <1>8, <1>9, Zenon DEF Fields
<1>11. dgp' = [f \in Fields |-> dgp'[f]]
   BY <1>8, <1>9, Zenon
<1>. QED BY <1>1, <1>2, <1>3, <1>4, <1>6, <1>7, <1>8, <1>9, <1>10, <1>11, ZenonT(30) DEF slot

\* What a block does to the active witnesses and to their schedule.
LEMMA BlockSchedule ==
   ASSUME IInv, TInv, NEW b \in Block, apply_block(b)
   PROVE  /\ active' \in ActiveSets
          /\ maint_num' = dgp.head + 1 \/ (maint_num' = maint_num /\ active' = active)
          /\ IF (dgp.head + 1) % Cardinality(active') = 0
             THEN shuffled' \in Shuffles(active') /\ Range(shuffled') = active'
             ELSE shuffled' = shuffled
          /\ Range(shuffled') \in ActiveSets
          /\ shuffled' \in Shuffles(Range(shuffled'))
<1>. DEFINE d1 == update_global_dynamic_data(b, get_slot_at_time(dgp, params, b.time) - 1)
<1>1. d1.head = dgp.head + 1
   BY Zenon DEF IInv, Fields, update_global_dynamic_data
<1>2. /\ \/ active' \in ActiveSets /\ maint_num' = d1.head
         \/ active' = active /\ maint_num' = maint_num
      /\ update_witness_schedule(d1.head, active')
   BY Zenon DEF apply_block
<1>3. active' \in ActiveSets /\ active \in ActiveSets
   BY <1>2, Zenon DEF TInv, TypeOK
<1>4. IF (dgp.head + 1) % Cardinality(active') = 0
      THEN shuffled' \in Shuffles(active') ELSE shuffled' = shuffled
   BY <1>1, <1>2, Zenon DEF update_witness_schedule, reshuffle
<1>5. ASSUME shuffled' \in Shuffles(active') PROVE Range(shuffled') = active'
   BY <1>3, <1>5, ActiveSet, ShuffleRange, Zenon
<1>. HIDE DEF d1
<1>. QED BY <1>1, <1>2, <1>3, <1>4, <1>5, Zenon DEF TInv, TypeOK

\* A block raises the irreversible number to one that at least 70% of the active
\* witnesses have reached, or leaves it; the number is some active witness's.
LEMMA BlockLib ==
   ASSUME IInv, TInv, NEW b \in Block, apply_block(b)
   PROVE  /\ dgp'.lib \in Nat /\ dgp'.lib >= dgp.lib /\ dgp'.lib <= dgp'.head
          /\ \E w \in active : wit'[w].confirmed <= dgp'.lib
          /\ dgp'.lib > dgp.lib =>
                10 * Cardinality({w \in active : wit'[w].confirmed >= dgp'.lib})
                   >= 7 * Cardinality(active)
<1>. DEFINE nth == nth_confirmed(wit', active)
<1>1. /\ dgp.head \in Nat /\ dgp.lib \in Nat /\ dgp.lib <= dgp.head /\ active \in ActiveSets
      /\ \A w \in Witness : wit[w].confirmed \in Nat /\ wit[w].confirmed <= dgp.head
   BY Zenon DEF TInv, TypeOK
<1>2. /\ dgp'.head = dgp.head + 1
      /\ dgp'.lib = IF nth > dgp.lib THEN nth ELSE dgp.lib
      /\ wit'[b.witness].confirmed = dgp'.head
      /\ \A w \in Witness \ {b.witness} : wit'[w].confirmed = wit[w].confirmed
   BY BlockEffect, Zenon
<1>3. \A w \in Witness : wit'[w].confirmed \in Nat /\ wit'[w].confirmed <= dgp.head + 1
   BY <1>1, <1>2
<1>4. /\ \E w \in active : nth = wit'[w].confirmed
      /\ 10 * Cardinality({w \in active : wit'[w].confirmed >= nth}) >= 7 * Cardinality(active)
   <2>1. /\ IsFiniteSet(active) /\ active # {} /\ dgp.head + 1 \in Nat
         /\ \A w \in active : wit'[w].confirmed \in Nat /\ wit'[w].confirmed <= dgp.head + 1
      BY <1>1, <1>3, ActiveSet
   <2>. QED BY <2>1, NthConfirmed, Zenon
<1>5. nth \in Nat /\ nth <= dgp.head + 1
   BY <1>1, <1>3, <1>4, ActiveSet, Zenon
<1>. HIDE DEF nth
<1>6. CASE nth > dgp.lib
   BY <1>1, <1>2, <1>4, <1>5, <1>6, SMTT(30), Z3T(30)
<1>7. CASE ~(nth > dgp.lib)
   BY <1>1, <1>2, <1>4, <1>5, <1>7, SMTT(30), Z3T(30)
<1>. QED BY <1>6, <1>7, Zenon

\* apply_block keeps the shapes, and no witness gets ahead of the head.
LEMMA BlockTypes ==
   ASSUME IInv, IInv', TInv, NEW b \in Block, apply_block(b)
   PROVE  TInv'
<1>. DEFINE slot == get_slot_at_time(dgp, params, b.time)
<1>1. /\ slot \in Nat \ {0}
      /\ dgp' = [f \in Fields |-> dgp'[f]]
      /\ dgp'.head = dgp.head + 1 /\ dgp'.witness = b.witness
      /\ dgp'.aslot = dgp.aslot + slot
      /\ dgp'.recently_missed \in Nat
      /\ dgp'.slots_filled \in [1..Window -> {0, 1}]
      /\ wit' \in [Witness -> WitnessFields]
      /\ wit'[b.witness].last_aslot = dgp'.aslot /\ wit'[b.witness].confirmed = dgp'.head
      /\ \A w \in Witness \ {b.witness} : /\ wit'[w].last_aslot = wit[w].last_aslot
                                          /\ wit'[w].confirmed = wit[w].confirmed
   BY BlockEffect, Zenon
<1>. HIDE DEF slot
<1>2. /\ dgp.head \in Nat /\ dgp.aslot \in Nat
      /\ \A w \in Witness : /\ wit[w].confirmed \in Nat /\ wit[w].confirmed <= dgp.head
                            /\ wit[w].last_aslot \in Nat /\ wit[w].last_aslot <= dgp.aslot
   BY Zenon DEF TInv, TypeOK
<1>3. \A w \in Witness : wit'[w].confirmed <= dgp'.head /\ wit'[w].last_aslot <= dgp'.aslot
   BY <1>1, <1>2, SMTT(30), Z3T(30)
<1>4. /\ dgp'.lib \in Nat /\ dgp'.lib <= dgp'.head
      /\ active' \in ActiveSets /\ Range(shuffled') \in ActiveSets
      /\ shuffled' \in Shuffles(Range(shuffled'))
   BY BlockLib, BlockSchedule, Zenon
<1>5. dgp' \in [head : Nat, time : Nat, witness : Witness, aslot : Nat,
                maintenance : BOOLEAN, next_maintenance_time : Nat,
                recently_missed : Nat, slots_filled : [1..Window -> {0, 1}], lib : Nat]
   <2>1. /\ dgp'.time \in Nat /\ dgp'.next_maintenance_time \in Nat
         /\ dgp'.head \in Nat /\ dgp'.aslot \in Nat
      BY <1>1, <1>2, SMTT(30), Z3T(30) DEF IInv, HeadOK
   <2>2. dgp'.maintenance \in BOOLEAN
      BY Zenon DEF IInv, HeadOK
   <2>3. b.witness \in Witness
      BY Zenon DEF Block
   <2>4. dgp' = [head |-> dgp'.head, time |-> dgp'.time, witness |-> dgp'.witness,
                 aslot |-> dgp'.aslot, maintenance |-> dgp'.maintenance,
                 next_maintenance_time |-> dgp'.next_maintenance_time,
                 recently_missed |-> dgp'.recently_missed,
                 slots_filled |-> dgp'.slots_filled, lib |-> dgp'.lib]
      BY <1>1, Zenon DEF Fields
   <2>. QED BY <1>1, <1>4, <2>1, <2>2, <2>3, <2>4, Zenon
<1>. QED BY <1>1, <1>3, <1>4, <1>5, Zenon DEF TInv, TypeOK, WitnessFields, IInv

\* The shapes hold in every reachable state.
LEMMA StepTypes == IInv /\ TInv /\ [Next]_vars => TInv'
<1>. SUFFICES ASSUME IInv, TInv, [Next]_vars PROVE TInv'
   BY Zenon
<1>1. ASSUME NEW b \in Block, apply_block(b) PROVE TInv'
   BY <1>1, BlockInv, BlockTypes, Zenon
<1>2. ASSUME NEW p \in Params, update_global_parameters(p) PROVE TInv'
   BY <1>2, Zenon DEF update_global_parameters, TInv, TypeOK
<1>3. CASE UNCHANGED vars
   BY <1>3, Zenon DEF vars, TInv, TypeOK
<1>. QED BY <1>1, <1>2, <1>3, Zenon DEF Next

\* The shapes of the global properties, of the schedule and of the counters hold
\* in every reachable state; the irreversible number in particular is always the
\* number of a block.
THEOREM ScheduleTypes == Spec => []TypeOK
<1>1. TInv => TypeOK
   BY Zenon DEF TInv
<1>. QED BY <1>1, InitInv, StepInv, InitTypes, StepTypes, PTL DEF Spec

-----------------------------------------------------------------------------
(* The slots that witnesses are credited with *)

\* The genesis state credits nobody.
LEMMA InitCredit == Init => SlotCredit
<1>. SUFFICES ASSUME Init PROVE SlotCredit
   BY Zenon
<1>1. dgp.head = 0 /\ \A w \in Witness : wit[w].confirmed = 0
   BY Zenon DEF Init
<1>. QED BY <1>1 DEF SlotCredit

\* A block has the highest number and the highest slot.
LEMMA StepCredit == IInv /\ TInv /\ SlotCredit /\ [Next]_vars => SlotCredit'
<1>. SUFFICES ASSUME IInv, TInv, SlotCredit, [Next]_vars PROVE SlotCredit'
   BY Zenon
<1>1. ASSUME NEW b \in Block, apply_block(b) PROVE SlotCredit'
   <2>. DEFINE slot == get_slot_at_time(dgp, params, b.time)
   <2>1. /\ slot \in Nat \ {0}
         /\ dgp'.head = dgp.head + 1 /\ dgp'.witness = b.witness
         /\ dgp'.aslot = dgp.aslot + slot
         /\ wit'[b.witness].last_aslot = dgp'.aslot /\ wit'[b.witness].confirmed = dgp'.head
         /\ \A w \in Witness \ {b.witness} : /\ wit'[w].last_aslot = wit[w].last_aslot
                                             /\ wit'[w].confirmed = wit[w].confirmed
      BY <1>1, BlockEffect, Zenon
   <2>. HIDE DEF slot
   <2>2. /\ dgp.head \in Nat /\ dgp.aslot \in Nat
         /\ \A w \in Witness : /\ wit[w].confirmed \in Nat /\ wit[w].confirmed <= dgp.head
                               /\ wit[w].last_aslot \in Nat /\ wit[w].last_aslot <= dgp.aslot
      BY Zenon DEF TInv, TypeOK
   <2>3. ASSUME NEW v \in Witness, NEW w \in Witness, wit'[v].confirmed < wit'[w].confirmed
         PROVE  wit'[v].last_aslot < wit'[w].last_aslot
      <3>1. CASE v = b.witness
         BY <2>1, <2>2, <2>3, <3>1, SMTT(30), Z3T(30)
      <3>2. CASE v # b.witness /\ w = b.witness
         BY <2>1, <2>2, <3>2
      <3>3. CASE v # b.witness /\ w # b.witness
         BY <2>1, <2>3, <3>3, Zenon DEF SlotCredit
      <3>. QED BY <3>1, <3>2, <3>3, Zenon
   <2>. QED BY <2>1, <2>3, Zenon DEF SlotCredit
<1>2. ASSUME NEW p \in Params, update_global_parameters(p) PROVE SlotCredit'
   BY <1>2, Zenon DEF update_global_parameters, SlotCredit
<1>3. CASE UNCHANGED vars
   BY <1>3, Zenon DEF vars, SlotCredit
<1>. QED BY <1>1, <1>2, <1>3, Zenon DEF Next

\* The slots that witnesses are credited with are those of their blocks, for all
\* numbers of missed slots and all intervals: update_signing_witness computes the
\* credit after the head has moved, and the slot of the block is then 0.
THEOREM SlotsAreCredited == Spec => []SlotCredit
BY InitInv, StepInv, InitTypes, StepTypes, InitCredit, StepCredit, PTL DEF Spec

-----------------------------------------------------------------------------
(* The schedule after a change of the active witnesses *)

\* While the schedule is of other witnesses than the active ones, the blocks since
\* the maintenance are fewer than the place of the head in its round: the shuffle
\* comes with place 0, and until then both grow by one with every block.
FreshInv ==
   /\ maint_num \in Nat /\ maint_num <= dgp.head
   /\ \/ Range(shuffled) = active
      \/ dgp.head - maint_num < dgp.head % Cardinality(active)

\* The schedule of the genesis state is of the active witnesses.
LEMMA InitFresh == Init => FreshInv
<1>. SUFFICES ASSUME Init PROVE FreshInv
   BY Zenon
<1>1. active \in ActiveSets /\ shuffled \in Shuffles(active)
   BY Zenon DEF Init
<1>2. Range(shuffled) = active
   BY <1>1, ActiveSet, ShuffleRange, Zenon
<1>. QED BY <1>2, SMTT(30), Z3T(30) DEF Init, FreshInv

\* Every step keeps the schedule fresh enough.
LEMMA StepFresh == IInv /\ TInv /\ FreshInv /\ [Next]_vars => FreshInv'
<1>. SUFFICES ASSUME IInv, TInv, FreshInv, [Next]_vars PROVE FreshInv'
   BY Zenon
<1>1. ASSUME NEW b \in Block, apply_block(b) PROVE FreshInv'
   <2>. DEFINE n == Cardinality(active')
               h == dgp.head
   <2>1. dgp'.head = h + 1 /\ h \in Nat
      BY <1>1, BlockEffect, Zenon DEF TInv, TypeOK
   <2>2. /\ active' \in ActiveSets
         /\ maint_num' = h + 1 \/ (maint_num' = maint_num /\ active' = active)
         /\ IF (h + 1) % n = 0 THEN Range(shuffled') = active' ELSE shuffled' = shuffled
      BY <1>1, BlockSchedule, Zenon
   <2>3. n \in Nat \ {0}
      BY <2>2, ActiveSet, Zenon
   <2>4. maint_num' \in Nat /\ maint_num' <= h + 1
      BY <2>1, <2>2 DEF FreshInv
   <2>5. CASE (h + 1) % n = 0
      BY <2>1, <2>2, <2>4, <2>5, Zenon DEF FreshInv
   <2>6. CASE (h + 1) % n # 0 /\ maint_num' = h + 1
      <3>1. (h + 1) % n \in Nat
         BY <2>1, <2>3
      <3>. QED BY <2>1, <2>4, <2>6, <3>1, SMTT(30), Z3T(30) DEF FreshInv
   <2>7. CASE (h + 1) % n # 0 /\ maint_num' = maint_num /\ active' = active
      <3>1. (h + 1) % n = (h % n) + 1 /\ h % n \in Nat
         BY <2>1, <2>3, <2>7, Modulus, Zenon
      <3>2. shuffled' = shuffled
         BY <2>2, <2>7, Zenon
      <3>. QED BY <2>1, <2>4, <2>7, <3>1, <3>2, SMTT(30), Z3T(30) DEF FreshInv
   <2>. QED BY <2>2, <2>5, <2>6, <2>7, Zenon
<1>2. ASSUME NEW p \in Params, update_global_parameters(p) PROVE FreshInv'
   BY <1>2, Zenon DEF update_global_parameters, FreshInv
<1>3. CASE UNCHANGED vars
   BY <1>3, Zenon DEF vars, FreshInv
<1>. QED BY <1>1, <1>2, <1>3, Zenon DEF Next

\* Witnesses that were voted out stay scheduled for less than one round of the
\* new ones, for all numbers of active witnesses and all changes of them, though
\* update_witness_schedule shuffles only at multiples of their number.
THEOREM ScheduleStaysFresh == Spec => []ScheduleFresh
<1>1. TInv /\ FreshInv => ScheduleFresh
   <2>. SUFFICES ASSUME TInv, FreshInv PROVE ScheduleFresh
      BY Zenon
   <2>1. Cardinality(active) \in Nat \ {0} /\ dgp.head \in Nat
      BY ActiveSet, Zenon DEF TInv, TypeOK
   <2>2. /\ dgp.head % Cardinality(active) < Cardinality(active)
         /\ dgp.head % Cardinality(active) \in Nat
      BY <2>1, Modulus, Zenon
   <2>. QED BY <2>1, <2>2 DEF FreshInv, ScheduleFresh
<1>. QED BY <1>1, InitInv, StepInv, InitTypes, StepTypes, InitFresh, StepFresh, PTL DEF Spec

-----------------------------------------------------------------------------
(* The irreversible number *)

\* The quorum is a set that votes made active, and it has reached the
\* irreversible number.
QuorumInv == quorum \in ActiveSets /\ LibQuorum

\* Everybody has reached number 0.
LEMMA InitQuorum == Init => QuorumInv
<1>. SUFFICES ASSUME Init PROVE QuorumInv
   BY Zenon
<1>1. quorum \in ActiveSets /\ dgp.lib = 0 /\ dgp.head = 0
   BY Zenon DEF Init
<1>2. \A w \in Witness : wit[w].confirmed = 0
   BY Zenon DEF Init
<1>3. {w \in quorum : wit[w].confirmed >= dgp.lib} = quorum
   BY <1>1, <1>2, ActiveSet
<1>4. Cardinality(quorum) \in Nat
   BY <1>1, ActiveSet, Zenon
<1>5. 10 * Cardinality(quorum) >= 7 * Cardinality(quorum)
   BY <1>4
<1>6. 10 * Cardinality({w \in quorum : wit[w].confirmed >= dgp.lib}) >= 7 * Cardinality(quorum)
   BY <1>3, <1>5, Zenon
<1>7. dgp.lib <= dgp.head
   BY <1>1, SMTT(30), Z3T(30)
<1>. QED BY <1>1, <1>6, <1>7, Zenon DEF QuorumInv, LibQuorum

\* The number rises only with a new quorum, and the old quorum keeps its count.
LEMMA StepQuorum == IInv /\ TInv /\ QuorumInv /\ [Next]_vars => QuorumInv'
<1>. SUFFICES ASSUME IInv, TInv, QuorumInv, [Next]_vars PROVE QuorumInv'
   BY Zenon
<1>1. ASSUME NEW b \in Block, apply_block(b) PROVE QuorumInv'
   <2>1. /\ dgp'.lib \in Nat /\ dgp'.lib >= dgp.lib /\ dgp'.lib <= dgp'.head
         /\ dgp'.lib > dgp.lib =>
               10 * Cardinality({w \in active : wit'[w].confirmed >= dgp'.lib})
                  >= 7 * Cardinality(active)
      BY <1>1, BlockLib, Zenon
   <2>2. /\ quorum' = IF dgp'.lib > dgp.lib THEN active ELSE quorum
         /\ dgp'.head = dgp.head + 1 /\ wit'[b.witness].confirmed = dgp'.head
         /\ \A w \in Witness \ {b.witness} : wit'[w].confirmed = wit[w].confirmed
      BY <1>1, BlockEffect, Zenon
   <2>3. /\ active \in ActiveSets /\ quorum \in ActiveSets
         /\ dgp.lib \in Nat /\ dgp.head \in Nat
         /\ \A w \in Witness : wit[w].confirmed \in Nat /\ wit[w].confirmed <= dgp.head
      BY Zenon DEF TInv, TypeOK, QuorumInv
   <2>4. CASE dgp'.lib > dgp.lib
      BY <2>1, <2>2, <2>3, <2>4, Zenon DEF QuorumInv, LibQuorum
   <2>5. CASE ~(dgp'.lib > dgp.lib)
      <3>. DEFINE Old == {w \in quorum : wit[w].confirmed >= dgp.lib}
                  New == {w \in quorum : wit'[w].confirmed >= dgp.lib}
      <3>1. dgp'.lib = dgp.lib /\ quorum' = quorum
         BY <2>1, <2>2, <2>3, <2>5, SMTT(30), Z3T(30)
      <3>2. quorum \subseteq Witness /\ IsFiniteSet(quorum)
         BY <2>3, ActiveSet, Zenon
      <3>3. Old \in SUBSET New /\ New \in SUBSET quorum
         BY <2>2, <2>3, <3>2
      <3>4. 10 * Cardinality(Old) >= 7 * Cardinality(quorum)
         BY Zenon DEF QuorumInv, LibQuorum
      <3>5. {w \in quorum' : wit'[w].confirmed >= dgp'.lib} = New
         BY <3>1, Zenon
      <3>. HIDE DEF Old, New
      <3>6. /\ IsFiniteSet(New) /\ Cardinality(Old) <= Cardinality(New)
            /\ Cardinality(Old) \in Nat /\ Cardinality(New) \in Nat
            /\ Cardinality(quorum) \in Nat
         <4>1. IsFiniteSet(New)
            BY <3>2, <3>3, FS_Subset, Zenon
         <4>2. IsFiniteSet(Old) /\ Cardinality(Old) <= Cardinality(New)
            BY <3>3, <4>1, FS_Subset, Zenon
         <4>. QED BY <3>2, <4>1, <4>2, FS_CardinalityType, Zenon
      <3>7. 10 * Cardinality(New) >= 7 * Cardinality(quorum)
         BY <3>4, <3>6
      <3>. QED BY <2>1, <2>3, <3>1, <3>5, <3>7, ZenonT(30) DEF QuorumInv, LibQuorum
   <2>. QED BY <2>4, <2>5, Zenon
<1>2. ASSUME NEW p \in Params, update_global_parameters(p) PROVE QuorumInv'
   BY <1>2, Zenon DEF update_global_parameters, QuorumInv, LibQuorum
<1>3. CASE UNCHANGED vars
   BY <1>3, Zenon DEF vars, QuorumInv, LibQuorum
<1>. QED BY <1>1, <1>2, <1>3, Zenon DEF Next

\* At least 70% of the witnesses that were active when the irreversible number was
\* raised have signed that block or a later one, for all numbers of witnesses and
\* all changes of them, and the number is never beyond the head.
THEOREM LibHasQuorum == Spec => []LibQuorum
<1>1. QuorumInv => LibQuorum
   BY Zenon DEF QuorumInv
<1>. QED BY <1>1, InitInv, StepInv, InitTypes, StepTypes, InitQuorum, StepQuorum, PTL DEF Spec

-----------------------------------------------------------------------------
(* The irreversible number keeps up with the head *)

\* The clean blocks of the round that the head is in.
CleanHere ==
   LET r == dgp.head % Cardinality(active) IN IF clean < r THEN clean ELSE r

\* Where the clean blocks have brought the witnesses: those of this round have
\* signed at the last places of the schedule; once the whole round before was
\* clean, everybody has signed in it or later; and the irreversible number is not
\* below what some active witness has signed.
RoundInv ==
   LET n == Cardinality(active)
       r == dgp.head % n IN
   /\ clean \in Nat /\ clean <= dgp.aslot
   /\ clean > 0 => /\ Range(shuffled) = active
                   /\ \E w \in active : wit[w].confirmed <= dgp.lib
   /\ \A k \in 0..dgp.aslot : dgp.aslot - k < CleanHere =>
         wit[shuffled[(k % n) + 1]].confirmed >= dgp.head - (dgp.aslot - k)
   /\ clean >= r + n => \A w \in active : wit[w].confirmed >= dgp.head - r - n + 1

\* There are no clean blocks at genesis.
LEMMA InitRound == Init => RoundInv
<1>. SUFFICES ASSUME Init PROVE RoundInv
   BY Zenon
<1>. DEFINE n == Cardinality(active)
<1>1. clean = 0 /\ dgp.aslot = 0 /\ dgp.head = 0 /\ active \in ActiveSets
   BY Zenon DEF Init
<1>2. n \in Nat \ {0} /\ 0 % n \in Nat
   BY <1>1, ActiveSet, Modulus, Zenon
<1>3. CleanHere = 0
   BY <1>1, <1>2 DEF CleanHere
<1>. QED BY <1>1, <1>2, <1>3, SMTT(30), Z3T(30) DEF RoundInv

\* The claim holds when the blocks of two rounds but one were clean: a whole round
\* lies among them, and the irreversible number is at least its first block.
LEMMA RoundKeepsUp ==
   ASSUME TInv, RoundInv
   PROVE  LibKeepsUp
<1>. DEFINE n == Cardinality(active)
            r == dgp.head % n
<1>1. n \in Nat \ {0} /\ dgp.head \in Nat /\ dgp.lib \in Nat
   BY ActiveSet, Zenon DEF TInv, TypeOK
<1>2. r \in Nat /\ r < n
   BY <1>1, Modulus, Zenon
<1>3. ASSUME clean >= 2 * n - 1 PROVE dgp.head - dgp.lib <= 2 * n - 2
   <2>1. clean \in Nat /\ clean > 0 /\ clean >= r + n
      <3>1. clean \in Nat
         BY Zenon DEF RoundInv
      <3>. HIDE DEF n, r
      <3>. QED BY <1>1, <1>2, <1>3, <3>1
   <2>2. PICK w \in active : wit[w].confirmed <= dgp.lib
      BY <2>1, Zenon DEF RoundInv
   <2>3. wit[w].confirmed >= dgp.head - r - n + 1
      BY <2>1, Zenon DEF RoundInv
   <2>4. wit[w].confirmed \in Nat
      BY ActiveSet, Zenon DEF TInv, TypeOK
   <2>. HIDE DEF n, r
   <2>. QED BY <1>1, <1>2, <2>2, <2>3, <2>4, SMTT(30), Z3T(30)
<1>. QED BY <1>3, Zenon DEF LibKeepsUp

\* A block that is not clean starts the count anew.
LEMMA RestartRound ==
   ASSUME clean' = 0, dgp'.aslot \in Nat, dgp'.head \in Nat, active' \in ActiveSets
   PROVE  RoundInv'
<1>. DEFINE n == Cardinality(active')
            r == dgp'.head % n
<1>1. n \in Nat \ {0} /\ r \in Nat /\ r < n
   BY ActiveSet, Modulus, Zenon
<1>2. CleanHere' = 0
   BY <1>1 DEF CleanHere
<1>3. ~(clean' >= r + n)
   <2>. HIDE DEF n, r
   <2>. QED BY <1>1, SMTT(30)
<1>. QED BY <1>2, <1>3 DEF RoundInv

\* A clean block adds the next place of the schedule to those that have signed.
LEMMA CleanBlock ==
   ASSUME IInv, TInv, RoundInv, NEW b \in Block, apply_block(b), clean' # 0
   PROVE  /\ active' = active /\ Range(shuffled) = active
          /\ clean' = clean + 1 /\ dgp'.aslot = dgp.aslot + 1 /\ dgp'.head = dgp.head + 1
          /\ \A w \in Witness : wit'[w].confirmed \in Nat /\ wit'[w].confirmed >= wit[w].confirmed
          /\ \A k \in 0..(dgp.aslot + 1) : dgp.aslot + 1 - k < CleanHere + 1 =>
                wit'[shuffled[(k % Cardinality(active)) + 1]].confirmed
                   >= dgp.head + 1 - (dgp.aslot + 1 - k)
<1>. DEFINE slot == get_slot_at_time(dgp, params, b.time)
            n == Cardinality(active)
<1>1. /\ b.witness = get_scheduled_witness(dgp, slot)
      /\ dgp'.head = dgp.head + 1 /\ dgp'.aslot = dgp.aslot + slot
      /\ clean' = IF slot = 1 /\ active' = active /\ Range(shuffled) = active
                  THEN clean + 1 ELSE 0
      /\ wit'[b.witness].confirmed = dgp'.head
      /\ \A w \in Witness \ {b.witness} : wit'[w].confirmed = wit[w].confirmed
   BY BlockEffect, Zenon
<1>2. slot = 1 /\ active' = active /\ Range(shuffled) = active /\ clean' = clean + 1
   BY <1>1, Zenon
<1>. HIDE DEF slot
<1>3. /\ dgp.head \in Nat /\ dgp.aslot \in Nat /\ active \in ActiveSets
      /\ \A w \in Witness : wit[w].confirmed \in Nat /\ wit[w].confirmed <= dgp.head
      /\ shuffled \in Shuffles(active)
   BY <1>2, Zenon DEF TInv, TypeOK
<1>4. /\ n \in Nat \ {0} /\ active \subseteq Witness
      /\ Len(shuffled) = n /\ shuffled \in [1..n -> active]
   BY <1>3, ActiveSet, ShuffleRange, Zenon
<1>5. \A w \in Witness : wit'[w].confirmed \in Nat /\ wit'[w].confirmed >= wit[w].confirmed
   BY <1>1, <1>3
<1>6. b.witness = shuffled[((dgp.aslot + 1) % n) + 1]
   BY <1>1, <1>2, <1>4, Zenon DEF get_scheduled_witness
<1>7. ASSUME NEW k \in 0..(dgp.aslot + 1), dgp.aslot + 1 - k < CleanHere + 1
      PROVE  wit'[shuffled[(k % n) + 1]].confirmed >= dgp.head + 1 - (dgp.aslot + 1 - k)
   <2>1. CASE k = dgp.aslot + 1
      BY <1>1, <1>3, <1>6, <2>1, SMTT(30), Z3T(30)
   <2>2. CASE k # dgp.aslot + 1
      <3>1. k \in 0..dgp.aslot
         BY <1>3, <2>2
      <3>2. CleanHere \in Nat
         <4>1. clean \in Nat
            BY Zenon DEF RoundInv
         <4>2. dgp.head % n \in Nat
            BY <1>3, <1>4, Modulus, Zenon
         <4>. QED BY <4>1, <4>2, Zenon DEF CleanHere
      <3>3. dgp.aslot - k < CleanHere
         BY <1>3, <1>7, <3>1, <3>2, SMTT(30), Z3T(30)
      <3>4. wit[shuffled[(k % n) + 1]].confirmed >= dgp.head - (dgp.aslot - k)
         BY <3>1, <3>3, Zenon DEF RoundInv
      <3>5. shuffled[(k % n) + 1] \in Witness
         <4>1. k % n \in Nat /\ k % n < n
            BY <1>4, <3>1, Modulus, SMTT(30), Z3T(30)
         <4>. HIDE DEF n
         <4>2. (k % n) + 1 \in 1..n
            BY <1>4, <4>1
         <4>. QED BY <1>4, <4>2, Zenon
      <3>. DEFINE w == shuffled[(k % n) + 1]
      <3>. HIDE DEF w
      <3>6. /\ wit'[w].confirmed >= wit[w].confirmed /\ wit[w].confirmed \in Nat
            /\ wit'[w].confirmed \in Nat
         BY <1>3, <1>5, <3>5, Zenon DEF w
      <3>7. wit[w].confirmed >= dgp.head - (dgp.aslot - k)
         BY <3>4, Zenon DEF w
      <3>8. wit'[w].confirmed >= dgp.head + 1 - (dgp.aslot + 1 - k)
         BY <1>3, <3>1, <3>6, <3>7, SMTT(30), Z3T(30)
      <3>. QED BY <3>8, Zenon DEF w
   <2>. QED BY <2>1, <2>2, ZenonT(30)
<1>. QED BY <1>1, <1>2, <1>3, <1>5, <1>7, Zenon

\* apply_block keeps the claim about the rounds.
LEMMA BlockRound ==
   ASSUME IInv, TInv, TInv', RoundInv, NEW b \in Block, apply_block(b)
   PROVE  RoundInv'
<1>. DEFINE n == Cardinality(active)
            r == dgp.head % n
            h == dgp.head
<1>0. dgp'.aslot \in Nat /\ dgp'.head \in Nat /\ active' \in ActiveSets
   BY Zenon DEF TInv, TypeOK
<1>1. CASE clean' = 0
   BY <1>0, <1>1, RestartRound, Zenon
<1>2. CASE clean' # 0
   <2>1. /\ active' = active /\ Range(shuffled) = active
         /\ clean' = clean + 1 /\ dgp'.aslot = dgp.aslot + 1 /\ dgp'.head = h + 1
         /\ \A w \in Witness : wit'[w].confirmed \in Nat /\ wit'[w].confirmed >= wit[w].confirmed
         /\ \A k \in 0..(dgp.aslot + 1) : dgp.aslot + 1 - k < CleanHere + 1 =>
               wit'[shuffled[(k % n) + 1]].confirmed >= h + 1 - (dgp.aslot + 1 - k)
      BY <1>2, CleanBlock, Zenon
   <2>2. /\ h \in Nat /\ dgp.aslot \in Nat /\ active \in ActiveSets
         /\ \A w \in Witness : wit[w].confirmed \in Nat
         /\ shuffled \in Shuffles(active)
      BY <2>1, Zenon DEF TInv, TypeOK
   <2>3. /\ n \in Nat \ {0} /\ active \subseteq Witness /\ IsFiniteSet(active)
         /\ shuffled \in [1..n -> active]
      BY <2>2, ActiveSet, ShuffleRange, Zenon
   <2>4. /\ r \in Nat /\ r < n
         /\ (h + 1) % n # 0 => (h + 1) % n = r + 1
         /\ (h + 1) % n = 0 => r = n - 1
      BY <2>2, <2>3, Modulus, ZenonT(30)
   <2>5. clean \in Nat /\ clean <= dgp.aslot
      BY Zenon DEF RoundInv
   <2>6. clean' \in Nat /\ clean' <= dgp'.aslot
      BY <2>1, <2>2, <2>5, SMTT(30), Z3T(30)
   <2>7. /\ Range(shuffled') = active'
         /\ (h + 1) % n # 0 => shuffled' = shuffled
      BY <2>1, BlockSchedule, Zenon
   <2>8. \E w \in active' : wit'[w].confirmed <= dgp'.lib
      BY <2>1, BlockLib, Zenon
   <2>9. CleanHere = IF clean < r THEN clean ELSE r
      BY Zenon DEF CleanHere
   <2>10. CleanHere' = IF clean + 1 < (h + 1) % n THEN clean + 1 ELSE (h + 1) % n
      BY <2>1, Zenon DEF CleanHere
   <2>. HIDE DEF n, r, h
   <2>11. CASE (h + 1) % n # 0
      <3>1. CleanHere' = CleanHere + 1 /\ CleanHere \in Nat
         BY <2>4, <2>5, <2>9, <2>10, <2>11, SMTT(30), Z3T(30)
      <3>2. \A k \in 0..dgp'.aslot : dgp'.aslot - k < CleanHere' =>
               wit'[shuffled'[(k % n) + 1]].confirmed >= dgp'.head - (dgp'.aslot - k)
         <4>1. ASSUME NEW k \in 0..(dgp.aslot + 1), dgp.aslot + 1 - k < CleanHere + 1
               PROVE  wit'[shuffled'[(k % n) + 1]].confirmed >= h + 1 - (dgp.aslot + 1 - k)
            <5>1. wit'[shuffled[(k % n) + 1]].confirmed >= h + 1 - (dgp.aslot + 1 - k)
               BY <2>1, <4>1, Zenon
            <5>. QED BY <2>7, <2>11, <5>1, Zenon
         <4>2. dgp'.aslot = dgp.aslot + 1 /\ dgp'.head = h + 1
            BY <2>1, Zenon
         <4>. QED BY <2>2, <3>1, <4>1, <4>2, SMTT(30), Z3T(30)
      <3>3. ASSUME clean' >= (r + 1) + n, NEW w \in active
            PROVE  wit'[w].confirmed >= (h + 1) - (r + 1) - n + 1
         <4>1. clean >= r + n
            BY <2>1, <2>3, <2>4, <2>5, <3>3, SMTT(30), Z3T(30)
         <4>2. wit[w].confirmed >= h - r - n + 1
            BY <4>1, Zenon DEF RoundInv, n, r, h
         <4>3. /\ wit'[w].confirmed \in Nat /\ wit[w].confirmed \in Nat
               /\ wit'[w].confirmed >= wit[w].confirmed
            BY <2>1, <2>2, <2>3, Zenon
         <4>. QED BY <2>2, <2>3, <2>4, <4>2, <4>3, SMTT(30), Z3T(30)
      <3>. QED BY <2>1, <2>4, <2>6, <2>7, <2>8, <2>11, <3>2, <3>3, ZenonT(30) DEF RoundInv, n
   <2>12. CASE (h + 1) % n = 0
      <3>1. CleanHere' = 0
         BY <2>5, <2>10, <2>12, SMTT(30), Z3T(30)
      <3>2. ASSUME clean' >= 0 + n, NEW w \in active
            PROVE  wit'[w].confirmed >= (h + 1) - 0 - n + 1
         <4>1. CleanHere = n - 1 /\ dgp.aslot + 1 >= n
            BY <2>1, <2>2, <2>3, <2>4, <2>5, <2>9, <2>12, <3>2, SMTT(30), Z3T(30)
         <4>2. PICK i \in 1..n : shuffled[i] = w
            <5>1. Range(shuffled) = {shuffled[i] : i \in 1..n}
               BY <2>3, Zenon DEF Range
            <5>. QED BY <2>1, <5>1, Zenon
         <4>. DEFINE a == dgp.aslot + 1
                     p == i - 1
         <4>3. p \in 0..(n - 1) /\ a \in Nat /\ a >= n
            BY <2>2, <2>3, <4>1, SMTT(30), Z3T(30)
         <4>. HIDE DEF a, p
         <4>4. PICK k \in 0..a : a - k < n /\ k % n = p
            BY <2>3, <4>3, RoundCovers, Zenon
         <4>5. shuffled[(k % n) + 1] = w
            <5>1. (k % n) + 1 = i
               BY <4>4 DEF p
            <5>. QED BY <4>2, <5>1, Zenon
         <4>6. wit'[w].confirmed >= h + 1 - (dgp.aslot + 1 - k)
            <5>1. k \in 0..(dgp.aslot + 1) /\ dgp.aslot + 1 - k < CleanHere + 1
               BY <2>2, <2>3, <4>1, <4>3, <4>4, SMTT(30), Z3T(30) DEF a
            <5>. QED BY <2>1, <4>5, <5>1, Zenon
         <4>7. wit'[w].confirmed \in Nat
            BY <2>1, <2>3, Zenon
         <4>8. k \in Int /\ dgp.aslot + 1 - k < n
            BY <2>2, <4>3, <4>4 DEF a
         <4>. QED BY <2>2, <2>3, <4>6, <4>7, <4>8, SMTT(30), Z3T(30)
      <3>3. \A k \in 0..dgp'.aslot : ~(dgp'.aslot - k < CleanHere')
         BY <1>0, <3>1, SMTT(30), Z3T(30)
      <3>. QED BY <2>1, <2>6, <2>7, <2>8, <2>12, <3>2, <3>3, ZenonT(30) DEF RoundInv, n
   <2>. QED BY <2>11, <2>12, Zenon
<1>. QED BY <1>1, <1>2, Zenon

\* Every step keeps the claim about the rounds.
LEMMA StepRound == IInv /\ TInv /\ RoundInv /\ [Next]_vars => RoundInv'
<1>. SUFFICES ASSUME IInv, TInv, RoundInv, [Next]_vars PROVE RoundInv'
   BY Zenon
<1>1. ASSUME NEW b \in Block, apply_block(b) PROVE RoundInv'
   BY <1>1, BlockInv, BlockTypes, BlockRound, Zenon
<1>2. ASSUME NEW p \in Params, update_global_parameters(p) PROVE RoundInv'
   BY <1>2, Zenon DEF update_global_parameters, RoundInv, CleanHere
<1>3. CASE UNCHANGED vars
   BY <1>3, ZenonT(30) DEF vars, RoundInv, CleanHere
<1>. QED BY <1>1, <1>2, <1>3, Zenon DEF Next

\* Once two rounds but one block were clean, the irreversible number trails the
\* head by less than two rounds, for all numbers of witnesses, whatever was missed
\* before and however the rounds are shuffled: apply_block then never reaches the
\* bound of the undo history.
THEOREM LibTrailsClosely == Spec => []LibKeepsUp
<1>1. TInv /\ RoundInv => LibKeepsUp
   BY RoundKeepsUp, Zenon
<1>. QED BY <1>1, InitInv, StepInv, InitTypes, StepTypes, InitRound, StepRound, PTL DEF Spec
=============================================================================
