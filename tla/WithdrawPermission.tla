-------------------------- MODULE WithdrawPermission --------------------------
(***************************************************************************)
(* A withdraw permission: one account lets another withdraw up to a limit  *)
(* in each period of a grid of periods that begins at period_start_time.   *)
(* Only claims move period_start_time, by whole periods, so between claims *)
(* it lags behind the grid or, before the first period, lies ahead of it.  *)
(*                                                                         *)
(* One permission; times are seconds, block time moves by any step.        *)
(***************************************************************************)
EXTENDS Integers

Limits == Nat \ {0}     \* withdrawal limits
Periods == Nat \ {0}    \* values of withdrawal_period_sec
Counts == Nat \ {0}     \* values of periods_until_expiration
Amounts == Nat \ {0}    \* amounts claimed
Ahead == Nat            \* how far ahead of the block time a period may start
Times == Nat            \* block times
Wrap == 4294967296      \* 2^32: expiration is computed in 32 bits

VARIABLES now,       \* head_block_time
          granted,   \* the permission object exists
          permit,    \* the permission object
          balance,   \* of the withdraw_from_account
          first,     \* history: period_start_time of the last create or update
          win,       \* history: begin of the period of the grid that holds now
          taken      \* history: total claimed in that period

vars == <<now, granted, permit, balance, first, win, taken>>

Permit == [withdrawal_limit : Int, withdrawal_period_sec : Int, period_start_time : Int,
           expiration : Int, claimed_this_period : Int]

\* Times and amounts are natural numbers.
TypeOK ==
   /\ now \in Nat /\ granted \in BOOLEAN /\ balance \in Nat
   /\ permit \in Permit
   /\ permit.withdrawal_limit >= 0 /\ permit.withdrawal_period_sec > 0
   /\ permit.claimed_this_period >= 0
   /\ first \in Int /\ win \in Int /\ taken \in Nat

Init ==
   /\ now = 0 /\ granted = FALSE /\ balance \in Nat
   /\ permit = [withdrawal_limit |-> 0, withdrawal_period_sec |-> 1, period_start_time |-> 0,
                expiration |-> 0, claimed_this_period |-> 0]
   /\ first = 0 /\ win = 0 /\ taken = 0

\* The period of the grid through start that holds time t.
GridPoint(start, period, t) == start + ((t - start) \div period) * period

Expiration(start, count, period) == (start + count * period) % Wrap

withdraw_permission_create(limit, period, count, start) ==
   /\ ~granted
   /\ start > now
   /\ Expiration(start, count, period) > now
   /\ permit' = [withdrawal_limit |-> limit, withdrawal_period_sec |-> period,
                 period_start_time |-> start,
                 expiration |-> Expiration(start, count, period), claimed_this_period |-> 0]
   /\ granted' = TRUE
   /\ first' = start /\ win' = GridPoint(start, period, now) /\ taken' = 0
   /\ UNCHANGED <<now, balance>>

\* claimed_this_period stays: what was claimed before the update counts in the
\* first period after it.
withdraw_permission_update(limit, period, count, start) ==
   /\ granted
   /\ start >= now
   /\ Expiration(start, count, period) > now
   /\ permit' = [permit EXCEPT !.withdrawal_limit = limit, !.withdrawal_period_sec = period,
                               !.period_start_time = start,
                               !.expiration = Expiration(start, count, period)]
   /\ first' = start /\ win' = GridPoint(start, period, now) /\ taken' = 0
   /\ UNCHANGED <<now, granted, balance>>

available_this_period ==
   IF now >= permit.period_start_time + permit.withdrawal_period_sec
   THEN permit.withdrawal_limit
   ELSE IF permit.withdrawal_limit > permit.claimed_this_period
        THEN permit.withdrawal_limit - permit.claimed_this_period
        ELSE 0

\* Whole periods from period_start_time to now, truncated toward zero: negative a
\* period or more before the start.
periods ==
   IF now >= permit.period_start_time
   THEN (now - permit.period_start_time) \div permit.withdrawal_period_sec
   ELSE 0 - ((permit.period_start_time - now) \div permit.withdrawal_period_sec)

may_claim(amount) ==
   /\ permit.expiration > now
   /\ amount <= available_this_period
   /\ amount <= balance

start_after == permit.period_start_time + periods * permit.withdrawal_period_sec

claimed_after(amount) ==
   IF periods = 0 THEN permit.claimed_this_period + amount ELSE amount

withdraw_permission_claim(amount) ==
   /\ granted
   /\ may_claim(amount)
   /\ permit' = [permit EXCEPT !.period_start_time = start_after,
                               !.claimed_this_period = claimed_after(amount)]
   /\ balance' = balance - amount
   /\ taken' = taken + amount
   /\ UNCHANGED <<now, granted, first, win>>

withdraw_permission_delete ==
   /\ granted
   /\ granted' = FALSE
   /\ UNCHANGED <<now, permit, balance, first, win, taken>>

\* A block moves the time and update_withdraw_permissions removes the permission
\* when it has expired.
apply_block(t) ==
   /\ t > now
   /\ now' = t
   /\ granted' = (granted /\ permit.expiration > t)
   /\ IF t >= win + permit.withdrawal_period_sec
      THEN win' = GridPoint(win, permit.withdrawal_period_sec, t) /\ taken' = 0
      ELSE UNCHANGED <<win, taken>>
   /\ UNCHANGED <<permit, balance, first>>

Next ==
   \/ \E l \in Limits, p \in Periods, n \in Counts, d \in Ahead :
         \/ withdraw_permission_create(l, p, n, now + d)
         \/ withdraw_permission_update(l, p, n, now + d)
   \/ \E x \in Amounts : withdraw_permission_claim(x)
   \/ withdraw_permission_delete
   \/ \E t \in Times : apply_block(t)

Spec == Init /\ [][Next]_vars

-----------------------------------------------------------------------------
\* In no period of the grid fixed by the last create or update, the ones before
\* period_start_time included, is more than the limit withdrawn: although a claim
\* only moves period_start_time by truncated whole periods, possibly back.
PeriodLimit == granted => taken <= permit.withdrawal_limit

\* Whoever has not claimed in the present period has the whole limit, from the second
\* period on: claims do not make the grid drift, and old ones do not count.
FreshPeriod ==
   granted /\ taken = 0 /\ win >= first + permit.withdrawal_period_sec =>
      available_this_period = permit.withdrawal_limit
=============================================================================
