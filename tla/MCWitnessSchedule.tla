------------------------ MODULE MCWitnessSchedule ------------------------
(* A small instance of WitnessSchedule: votes change the number and the   *)
(* identity of the active witnesses, maintenance changes the intervals.   *)
EXTENDS WitnessSchedule

CONSTANTS a, b, c

MCThree == {a, b, c}

MCChange == {{a, b, c}, {b, c}, {a}}

\* Intervals that do not divide each other, with and without skipped slots.
MCParams == {[interval |-> 1, maint |-> 4, skip |-> 2],
             [interval |-> 2, maint |-> 4, skip |-> 0],
             [interval |-> 3, maint |-> 6, skip |-> 1]}
=============================================================================
