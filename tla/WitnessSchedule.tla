-------------------------- MODULE WitnessSchedule --------------------------
(***************************************************************************)
(* The clock of the chain: slots, the shuffled schedule of the witnesses,  *)
(* the count of missed slots, the maintenance times and the irreversible   *)
(* number, as apply_block keeps them (db_witness_schedule.cpp,             *)
(* db_update.cpp, db_maint.cpp).                                           *)
(*                                                                         *)
(* A block is a time and a witness; which witnesses the votes make active  *)
(* at a maintenance, and how the pseudo-random numbers shuffle them, is    *)
(* any choice.                                                             *)
(***************************************************************************)
EXTENDS Integers, Sequences, FiniteSets, Functions

CONSTANTS
   Witness,      \* the witness objects
   ActiveSets,   \* the sets of witnesses that votes can make active
   Params,       \* the values of the chain parameters read here
   Genesis,      \* the time of genesis
   MaxUndo,      \* GRAPHENE_MAX_UNDO_HISTORY
   Window,       \* the slots that recent_slots_filled remembers (128)
   MaxTime,      \* bound: the time of the last block
   MaxMiss       \* bound: the slots missed before one block

\* chain_parameters::validate; a witness can only be active when it exists.
ASSUME ScheduleAssumption ==
   /\ Genesis \in Nat /\ MaxTime \in Nat /\ Window \in Nat \ {0}
   /\ \A p \in Params : /\ p.interval \in Nat \ {0}
                        /\ p.skip \in Nat
                        /\ p.maint \in Nat \ {0}
                        /\ p.maint > p.interval /\ p.maint % p.interval = 0
   /\ \A A \in ActiveSets : A # {} /\ A \subseteq Witness /\ IsFiniteSet(A)

VARIABLES
   dgp,        \* dynamic_global_property_object
   params,     \* global_property_object::parameters
   pending,    \* global_property_object::pending_parameters, a set of at most one
   active,     \* global_property_object::active_witnesses
   shuffled,   \* witness_schedule_object::current_shuffled_witnesses
   wit,        \* the counters of the witness objects
   maint_num,  \* history: the number of the last maintenance block
   quorum,     \* history: the witnesses active when lib was last raised
   clean       \* history: blocks since a slot was missed or the active set changed

vars == <<dgp, params, pending, active, shuffled, wit, maint_num, quorum, clean>>

-----------------------------------------------------------------------------
(* Slots *)

slot_time_no_skip(d, p, n) ==
   IF n = 0 THEN 0
   ELSE IF d.head = 0 THEN d.time + n * p.interval
   ELSE (d.time \div p.interval) * p.interval + n * p.interval

get_slot_time(d, p, n) ==
   IF n = 0 THEN 0
   ELSE IF d.head = 0 THEN d.time + n * p.interval
   ELSE (d.time \div p.interval) * p.interval
           + (n + (IF d.maintenance THEN p.skip ELSE 0)) * p.interval

slot_at_time_no_skip(d, p, when) ==
   LET first == slot_time_no_skip(d, p, 1) IN
   IF when < first THEN 0 ELSE (when - first) \div p.interval + 1

get_slot_at_time(d, p, when) ==
   LET first == get_slot_time(d, p, 1) IN
   IF when < first THEN 0 ELSE (when - first) \div p.interval + 1

scheduled_from_first(d, n) == shuffled[(n % Len(shuffled)) + 1]

get_scheduled_witness(d, n) ==
   shuffled[((d.aslot + n) % Len(shuffled)) + 1]

\* The share of filled slots in the window.
witness_participation_rate(d) ==
   (10000 * Cardinality({i \in 1..Window : d.slots_filled[i] = 1})) \div Window

-----------------------------------------------------------------------------
(* The steps of _apply_block *)

\* The low bit is the newest: the bit of the block, then one zero per missed slot.
slots_shifted(filled, missed) ==
   [i \in 1..Window |-> IF i <= missed THEN 0
                        ELSE IF i = missed + 1 THEN 1 ELSE filled[i - missed - 1]]

RECENTLY_MISSED_COUNT_INCREMENT == 4

RECENTLY_MISSED_COUNT_DECREMENT == 3

recently_missed_plain(d, num, missed) ==
   d.recently_missed + (IF missed > 0 THEN RECENTLY_MISSED_COUNT_INCREMENT * missed
                        ELSE -RECENTLY_MISSED_COUNT_DECREMENT)

recently_missed(d, num, missed) ==
   CASE num = 1 -> 0
     [] num # 1 /\ missed > 0 ->
           d.recently_missed + RECENTLY_MISSED_COUNT_INCREMENT * missed
     [] num # 1 /\ missed = 0 /\ d.recently_missed > RECENTLY_MISSED_COUNT_INCREMENT ->
           d.recently_missed - RECENTLY_MISSED_COUNT_DECREMENT
     [] num # 1 /\ missed = 0 /\ d.recently_missed \in 1..RECENTLY_MISSED_COUNT_INCREMENT ->
           d.recently_missed - 1
     [] OTHER -> 0

\* The slots missed before the block, less those of the block's own witness.
total_missed(w, b, missed) ==
   wit[w].missed + IF w = b.witness THEN 0
                   ELSE Cardinality({i \in 1..missed : get_scheduled_witness(dgp, i) = w})

update_global_dynamic_data(b, missed) ==
   [dgp EXCEPT !.head = @ + 1, !.time = b.time, !.witness = b.witness,
               !.recently_missed = recently_missed(dgp, dgp.head + 1, missed),
               !.slots_filled = slots_shifted(@, missed),
               !.aslot = @ + missed + 1]

\* Called after update_global_dynamic_data: d is the new head, and the slot of
\* the block's own time is then 0.
new_block_aslot_again(d, b, missed) == d.aslot + missed + 1

new_block_aslot(d, b, missed) == d.aslot + get_slot_at_time(d, params, b.time)

update_signing_witness(d, b, missed) ==
   [w \in Witness |->
      IF w = b.witness
      THEN [wit[w] EXCEPT !.last_aslot = new_block_aslot(d, b, missed), !.confirmed = d.head]
      ELSE [wit[w] EXCEPT !.missed = total_missed(w, b, missed)]]

\* (100% - GRAPHENE_IRREVERSIBLE_THRESHOLD) * n / 100%
offset_half(n) == n \div 2

offset_of(n) == (3000 * n) \div 10000

\* std::nth_element: the confirmed number at place offset of the sorted ones.
nth_confirmed(ws, A) ==
   CHOOSE v \in {ws[w].confirmed : w \in A} :
      /\ Cardinality({w \in A : ws[w].confirmed < v}) <= offset_of(Cardinality(A))
      /\ Cardinality({w \in A : ws[w].confirmed <= v}) > offset_of(Cardinality(A))

update_last_irreversible_block(d, ws) ==
   [d EXCEPT !.lib = IF nth_confirmed(ws, active) > @ THEN nth_confirmed(ws, active) ELSE @]

\* perform_chain_maintenance: p is the parameters it has just adopted.
next_maintenance_one(d, p) ==
   IF d.head = 1 THEN (d.time \div p.maint + 1) * p.maint
   ELSE d.next_maintenance_time + p.maint

next_maintenance_time(d, p) ==
   IF d.head = 1 THEN (d.time \div p.maint + 1) * p.maint
   ELSE d.next_maintenance_time
           + ((d.time - d.next_maintenance_time) \div p.maint + 1) * p.maint

\* The loop swaps each place with a place behind it: the result is a permutation.
Shuffles(A) == Bijection(1..Cardinality(A), A)

reshuffle_old_size(num, A) == num % Len(shuffled) = 0

reshuffle(num, A) == num % Cardinality(A) = 0

update_witness_schedule(num, A) ==
   IF reshuffle(num, A) THEN shuffled' \in Shuffles(A) ELSE UNCHANGED shuffled

-----------------------------------------------------------------------------
Init ==
   /\ dgp = [head |-> 0, time |-> Genesis, witness |-> CHOOSE w \in Witness : TRUE,
             aslot |-> 0, maintenance |-> FALSE, next_maintenance_time |-> 0,
             recently_missed |-> 0, slots_filled |-> [i \in 1..Window |-> 1], lib |-> 0]
   /\ params \in Params /\ pending = {}
   /\ active \in ActiveSets
   /\ shuffled \in Shuffles(active)   \* the order of the ids
   /\ wit = [w \in Witness |-> [missed |-> 0, last_aslot |-> 0, confirmed |-> 0]]
   /\ maint_num = 0 /\ quorum = active /\ clean = 0

\* validate_block_header accepts any time from slot 1 on, on a boundary or not.
apply_block(b) ==
   LET slot == get_slot_at_time(dgp, params, b.time)
       maint_needed == dgp.next_maintenance_time <= b.time
       d1 == update_global_dynamic_data(b, slot - 1)
       ws == update_signing_witness(d1, b, slot - 1)
       d2 == update_last_irreversible_block(d1, ws) IN
   /\ dgp.time < b.time
   /\ slot > 0 /\ slot <= MaxMiss + 1
   /\ b.witness = get_scheduled_witness(dgp, slot)
   /\ d1.head - dgp.lib < MaxUndo
   /\ wit' = ws
   /\ IF maint_needed
      THEN /\ active' \in ActiveSets
           /\ params' = IF pending = {} THEN params ELSE CHOOSE p \in pending : TRUE
           /\ pending' = {}
           /\ dgp' = [d2 EXCEPT !.next_maintenance_time = next_maintenance_time(d2, params'),
                                !.maintenance = TRUE]
           /\ maint_num' = d1.head
      ELSE /\ dgp' = [d2 EXCEPT !.maintenance = FALSE]
           /\ UNCHANGED <<active, params, pending, maint_num>>
   /\ update_witness_schedule(d1.head, active')
   /\ quorum' = IF d2.lib > dgp.lib THEN active ELSE quorum
   /\ clean' = IF slot = 1 /\ active' = active /\ Range(shuffled) = active THEN clean + 1 ELSE 0

\* committee_member_update_global_parameters, executed by a proposal.
update_global_parameters(p) ==
   /\ pending' = {p}
   /\ UNCHANGED <<dgp, params, active, shuffled, wit, maint_num, quorum, clean>>

Block == [time : (Genesis + 1)..MaxTime, witness : Witness]

Next ==
   \/ \E b \in Block : apply_block(b)
   \/ \E p \in Params : update_global_parameters(p)

Spec == Init /\ [][Next]_vars

-----------------------------------------------------------------------------
\* The shapes of the global properties, the schedule and the counters of the
\* witnesses.
TypeOK ==
   /\ dgp \in [head : Nat, time : Nat, witness : Witness, aslot : Nat,
               maintenance : BOOLEAN, next_maintenance_time : Nat,
               recently_missed : Nat, slots_filled : [1..Window -> {0, 1}], lib : Nat]
   /\ params \in Params /\ pending \subseteq Params
   /\ active \in ActiveSets /\ Range(shuffled) \in ActiveSets
   /\ wit \in [Witness -> [missed : Nat, last_aslot : Nat, confirmed : Nat]]

\* What database.hpp promises of get_slot_at_time: it is the greatest slot whose
\* time is at or before the given one, and 0 when there is none. The first slot
\* is after the head, so that the assertion of maybe_produce_block holds
\* (witness.cpp:290). It must hold after genesis, after a maintenance block, after
\* a block whose time is not on a boundary, and when the interval has just changed.
SlotInverse ==
   /\ get_slot_time(dgp, params, 1) > dgp.time
   /\ \A when \in dgp.time..(MaxTime + 1) :
         LET n == get_slot_at_time(dgp, params, when) IN
         /\ n > 0 => get_slot_time(dgp, params, n) <= when
         /\ when < get_slot_time(dgp, params, n + 1)

\* The next maintenance lies after the head and at most one interval away, even
\* when blocks were missed across several maintenance times and when the
\* maintenance itself has changed the interval (db_maint.cpp:849).
MaintenanceAhead ==
   dgp.head > 0 => /\ dgp.time < dgp.next_maintenance_time
                   /\ dgp.next_maintenance_time <= dgp.time + params.maint

\* The slots that witnesses are credited with are those of their blocks: the last
\* signer has the current one, and slots rise with block numbers. The credit is
\* computed after the head has moved (db_update.cpp:113).
SlotCredit ==
   /\ dgp.head > 0 => wit[dgp.witness].last_aslot = dgp.aslot
   /\ \A v, w \in Witness :
         wit[v].confirmed < wit[w].confirmed => wit[v].last_aslot < wit[w].last_aslot

\* A schedule of witnesses that were voted out does not outlive the maintenance
\* by a full round of the new ones, though the shuffle waits for a multiple of
\* their number (db_witness_schedule.cpp:91).
ScheduleFresh ==
   Range(shuffled) = active \/ dgp.head - maint_num < Cardinality(active)

\* The irreversible block has been built upon by more than two thirds of the
\* witnesses that were active when it became irreversible: at least 70% of them
\* have signed it or a later block (db_update.cpp:155).
LibQuorum ==
   /\ dgp.lib <= dgp.head
   /\ 10 * Cardinality({w \in quorum : wit[w].confirmed >= dgp.lib}) >= 7 * Cardinality(quorum)

\* While nobody misses a slot and the active witnesses stay, the irreversible
\* block trails the head by less than two rounds, however the rounds are shuffled
\* and however many slots were missed before: the undo history stays short.
LibKeepsUp ==
   LET n == Cardinality(active) IN
   clean >= 2 * n - 1 => dgp.head - dgp.lib <= 2 * n - 2

=============================================================================
