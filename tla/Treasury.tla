------------------------------- MODULE Treasury -------------------------------
(***************************************************************************)
(* Where the tokens are.  Every operation pays a fee, in the core asset or *)
(* in another asset through its fee pool; fees wait with their payer until *)
(* maintenance cuts them for the network, the referrers and the registrar; *)
(* maintenance also splits the fees of blinded transfers (the fee backed   *)
(* asset, FBA) and takes the pay of the witnesses out of the reserve.  The *)
(* supply of an asset is a counter that each of these keeps by itself.     *)
(*                                                                         *)
(* All hardforks are past: asset 1.3.1 is the core asset, 1.3.0 the one it *)
(* replaced.  Users have one issued asset, created by asset_create.        *)
(* Blinded balances are told apart by nothing but their sum, and vesting,  *)
(* locked and reward balances, all in the core asset, likewise.            *)
(***************************************************************************)
EXTENDS Integers, FiniteSets, Functions

CONSTANTS User,               \* accounts of users
          Special,            \* accounts of the blockchain, which get no cashback
          Temp,               \* the one of them that pays the fees of blinded transfers
          Lifetime,           \* lifetime_referrer of an account
          Referrer,           \* the referrers an account may have had by maintenance
          Registrar,          \* registrar of an account
          Buyback,            \* buyback account of the designated asset
          Designer,           \* its issuer
          CoreIssuer,         \* issuer of the core asset
          NoIssuer,           \* issuer of no user
          Percent,            \* network, lifetime and referrer percentages
          Threshold,          \* cashback_vesting_threshold
          Fees,               \* fees of operations
          Amounts,            \* amounts of operations
          Rate,               \* core units for a unit of the issued asset
          Pay,                \* witness_pay_per_block
          Blocks,             \* blocks to the next maintenance
          Proportion,         \* witness_reward_proportion, of 1000
          Funds,              \* core asset of each user in the genesis state
          MaxSupply,          \* max_supply of the core asset and of the issued one
          NewMax,             \* values of max_supply asset_update may set
          Configurations      \* what the designated asset of the FBA may change to

Old == 0
Core == 1
Uia == 2
Asset == {Old, Core, Uia}
Account == User \cup Special
FbaId == {"transfer_to_blind", "blind_transfer", "transfer_from_blind"}

ASSUME TreasuryAssumption ==
   /\ IsFiniteSet(User) /\ IsFiniteSet(Special)
   /\ Temp \in Special /\ User \cap Special = {} /\ {Designer, Buyback, CoreIssuer} \subseteq User
   /\ NoIssuer \notin User
   /\ Lifetime \in [Account -> Account] /\ Registrar \in [Account -> Account]
   /\ Referrer \in [Account -> (SUBSET Account) \ {{}}]
   /\ Percent \in [{"network", "lifetime", "referrer"} -> 0..100]
   /\ Percent["network"] + Percent["lifetime"] <= 100
   /\ Amounts \subseteq Nat \ {0} /\ Fees \subseteq Nat
   /\ {Threshold, Rate, Pay, Blocks, Proportion, Funds, MaxSupply} \subseteq Nat
   /\ NewMax \subseteq Nat \ {0} /\ Configurations \subseteq BOOLEAN

VARIABLES balance,        \* account_balance_object, by account and asset
          dyn,            \* asset_dynamic_data_object and max_supply, by asset
          issuer,         \* of each asset; the issued one has none before its creation
          pending,        \* pending_fees and pending_vested_fees, by account
          vesting,        \* sum of the vesting balances
          locked,         \* sum of the locked balances
          fba,            \* accumulated_fba_fees
          configured,     \* fba_accumulator_object::is_configured
          witness_budget,
          reward_pool,    \* current_staking_reward_pool
          staking_mode_on,
          budgeted,       \* last_budget_time is set
          cleared         \* history: core taken out of fee pools by asset_update

\* What no operation of a user changes.
chainVars == <<configured, witness_budget, reward_pool, staking_mode_on, budgeted>>

vars == <<balance, dyn, issuer, pending, vesting, locked, fba, cleared, chainVars>>

Data == [current_supply : Nat, accumulated_fees : Nat, fee_pool : Nat,
         confidential_supply : Nat, max_supply : Nat]

\* Every balance, pool and counter is a natural number: nothing is overdrawn, the
\* fee pools that convert fees and the witness budget included.
TypeOK ==
   /\ balance \in [Account -> [Asset -> Nat]]
   /\ dyn \in [Asset -> Data] /\ issuer \in [Asset -> User \cup {NoIssuer}]
   /\ pending \in [Account -> [fees : Nat, vested : Nat]]
   /\ {vesting, locked, witness_budget, reward_pool, cleared} \subseteq Nat
   /\ fba \in [FbaId -> Nat]
   /\ {configured, staking_mode_on, budgeted} \subseteq BOOLEAN

Init ==
   /\ balance = [a \in Account |-> [s \in Asset |-> IF a \in User /\ s = Core THEN Funds ELSE 0]]
   /\ dyn = [s \in Asset |->
                [current_supply |-> IF s = Core THEN Funds * Cardinality(User) ELSE 0,
                 accumulated_fees |-> 0, fee_pool |-> 0, confidential_supply |-> 0,
                 max_supply |-> MaxSupply]]
   /\ issuer = [s \in Asset |-> IF s = Core THEN CoreIssuer ELSE NoIssuer]
   /\ pending = [a \in Account |-> [fees |-> 0, vested |-> 0]]
   /\ vesting = 0 /\ locked = 0 /\ witness_budget = 0 /\ reward_pool = 0 /\ cleared = 0
   /\ fba = [i \in FbaId |-> 0]
   /\ configured = FALSE /\ staking_mode_on \in BOOLEAN /\ budgeted = FALSE

-----------------------------------------------------------------------------
(* Fees.  A fee f is an asset and an amount.                                *)

Exists(s) == s = Uia => issuer[s] # NoIssuer

Fee == [asset : {Core, Uia}, amount : Fees]

core_fee(f) == IF f.asset = Core THEN f.amount ELSE f.amount * Rate

prepare_fee_unchecked(f) == Exists(f.asset)

\* The asset exists, and its pool can pay the core asset for it.
prepare_fee(f) ==
   /\ Exists(f.asset)
   /\ f.asset # Core => core_fee(f) <= dyn[f.asset].fee_pool

convert_fee_drops(f) ==
   IF f.asset = Core THEN dyn ELSE [dyn EXCEPT ![f.asset].fee_pool = @ - core_fee(f)]

\* The asset's fee goes to its issuer, for core asset out of the asset's pool.
convert_fee(f) ==
   IF f.asset = Core THEN dyn
   ELSE [dyn EXCEPT ![f.asset].accumulated_fees = @ + f.amount,
                    ![f.asset].fee_pool = @ - core_fee(f)]

pay_fee(a, fee) ==
   IF fee > Threshold THEN [pending EXCEPT ![a].fees = @ + fee]
   ELSE [pending EXCEPT ![a].vested = @ + fee]

\* bal with amount of s added to the balance of a.
Adjusted(bal, a, s, amount) == [bal EXCEPT ![a][s] = @ + amount]

Charged(bal, a, f) == Adjusted(bal, a, f.asset, 0 - f.amount)

Funded(bal) == \A a \in Account : \A s \in Asset : bal[a][s] >= 0

\* The apply of every evaluator: the fee is converted and goes to the pending fees,
\* do_apply takes the balances to bal and the asset data to dd, and the fee is taken
\* from the payer.
apply(a, f, bal, dd) ==
   /\ prepare_fee(f)
   /\ Funded(Charged(bal, a, f)) /\ balance' = Charged(bal, a, f)
   /\ dyn' = dd
   /\ pending' = pay_fee(a, core_fee(f))
   /\ UNCHANGED chainVars

-----------------------------------------------------------------------------
(* Operations.                                                              *)

transfer(a, b, s, amount, f) ==
   /\ balance[a][s] >= amount
   /\ apply(a, f, Adjusted(Adjusted(balance, a, s, 0 - amount), b, s, amount), convert_fee(f))
   /\ UNCHANGED <<issuer, vesting, locked, fba, cleared>>

asset_create_even(a, f) ==
   LET core_fee_paid == f.amount - f.amount \div 2
   IN  /\ ~Exists(Uia) /\ f.asset = Core
       /\ Funded(Charged(balance, a, f)) /\ balance' = Charged(balance, a, f)
       /\ pending' = pay_fee(a, core_fee_paid)
       /\ dyn' = [dyn EXCEPT ![Uia].fee_pool = @ + core_fee_paid]
       /\ issuer' = [issuer EXCEPT ![Uia] = a]
       /\ UNCHANGED <<vesting, locked, fba, cleared, chainVars>>

\* Half of the creation fee, rounded up, is the network's; the rest is the first
\* fee pool of the new asset.
asset_create(a, f) ==
   LET core_fee_paid == f.amount - f.amount \div 2
       fee_is_odd == f.amount % 2
   IN  /\ ~Exists(Uia) /\ f.asset = Core
       /\ Funded(Charged(balance, a, f)) /\ balance' = Charged(balance, a, f)
       /\ pending' = pay_fee(a, core_fee_paid)
       /\ dyn' = [dyn EXCEPT ![Uia].fee_pool = core_fee_paid - fee_is_odd]
       /\ issuer' = [issuer EXCEPT ![Uia] = a]
       /\ UNCHANGED <<vesting, locked, fba, cleared, chainVars>>

asset_issue_below(a, to, s, amount, f) ==
   /\ a = issuer[s]
   /\ dyn[s].current_supply < dyn[s].max_supply
   /\ apply(a, f, Adjusted(balance, to, s, amount),
            [convert_fee(f) EXCEPT ![s].current_supply = @ + amount])
   /\ UNCHANGED <<issuer, vesting, locked, fba, cleared>>

asset_issue(a, to, s, amount, f) ==
   /\ a = issuer[s]
   /\ dyn[s].current_supply + amount <= dyn[s].max_supply
   /\ apply(a, f, Adjusted(balance, to, s, amount),
            [convert_fee(f) EXCEPT ![s].current_supply = @ + amount])
   /\ UNCHANGED <<issuer, vesting, locked, fba, cleared>>

asset_reserve(a, s, amount, f) ==
   /\ Exists(s)
   /\ dyn[s].current_supply >= amount
   /\ apply(a, f, Adjusted(balance, a, s, 0 - amount),
            [convert_fee(f) EXCEPT ![s].current_supply = @ - amount])
   /\ UNCHANGED <<issuer, vesting, locked, fba, cleared>>

\* Anyone may fund any pool, that of the core asset included.
asset_fund_fee_pool(a, s, amount, f) ==
   /\ Exists(s)
   /\ f.asset = Core
   /\ apply(a, f, Adjusted(balance, a, Core, 0 - amount),
            [dyn EXCEPT ![s].fee_pool = @ + amount])
   /\ UNCHANGED <<issuer, vesting, locked, fba, cleared>>

\* The issuer sets the maximal supply and a new issuer.  An update of the core asset empties its fee
\* pool.  (So does the first update of an asset whose rate is still in 1.3.0; the
\* issued asset has its rate in the core asset from its creation.)
asset_update(a, s, max, new_issuer, f) ==
   LET dd == convert_fee(f)
       pool == IF s = Core THEN dd[s].fee_pool ELSE 0
   IN  /\ a = issuer[s]
       /\ issuer' = [issuer EXCEPT ![s] = new_issuer]
       /\ apply(a, f, balance, [dd EXCEPT ![s].max_supply = max, ![s].fee_pool = @ - pool])
       /\ cleared' = cleared + pool
       /\ UNCHANGED <<vesting, locked, fba>>

asset_claim_fees(a, s, amount, f) ==
   /\ a = issuer[s]
   /\ amount <= convert_fee(f)[s].accumulated_fees
   /\ apply(a, f, Adjusted(balance, a, s, amount),
            [convert_fee(f) EXCEPT ![s].accumulated_fees = @ - amount])
   /\ UNCHANGED <<issuer, vesting, locked, fba, cleared>>

\* Core asset locked for interest, and given back.
balance_lock(a, amount, f) ==
   /\ balance[a][Core] >= amount
   /\ apply(a, f, Adjusted(balance, a, Core, 0 - amount), convert_fee(f))
   /\ locked' = locked + amount
   /\ UNCHANGED <<issuer, vesting, fba, cleared>>

balance_unlock(a, amount, f) ==
   /\ amount <= locked
   /\ apply(a, f, Adjusted(balance, a, Core, amount), convert_fee(f))
   /\ locked' = locked - amount
   /\ UNCHANGED <<issuer, vesting, fba, cleared>>

vesting_balance_create(a, amount, f) ==
   /\ balance[a][Core] >= amount
   /\ apply(a, f, Adjusted(balance, a, Core, 0 - amount), convert_fee(f))
   /\ vesting' = vesting + amount
   /\ UNCHANGED <<issuer, locked, fba, cleared>>

vesting_balance_withdraw(a, amount, f) ==
   /\ amount <= vesting
   /\ apply(a, f, Adjusted(balance, a, Core, amount), convert_fee(f))
   /\ vesting' = vesting - amount
   /\ UNCHANGED <<issuer, locked, fba, cleared>>

-----------------------------------------------------------------------------
(* Blinded transfers.  Their fee goes to their FBA accumulator once the     *)
(* designated asset is configured, and to the pending fees before.          *)

pay_fba_fee(i, a, f) ==
   IF configured
   THEN fba' = [fba EXCEPT ![i] = @ + core_fee(f)] /\ UNCHANGED pending
   ELSE pending' = pay_fee(a, core_fee(f)) /\ UNCHANGED fba

\* amount of s leaves the balance of a for the blinded ones.
transfer_to_blind(a, s, amount, f) ==
   LET bal == Charged(Adjusted(balance, a, s, 0 - amount), a, f)
   IN  /\ Exists(s) /\ prepare_fee(f)
       /\ Funded(bal) /\ balance' = bal
       /\ dyn' = [convert_fee(f) EXCEPT ![s].confidential_supply = @ + amount]
       /\ pay_fba_fee("transfer_to_blind", a, f)
       /\ UNCHANGED <<issuer, vesting, locked, cleared, chainVars>>

\* The fee, in the asset of the inputs, leaves the blinded balances by the temporary
\* account.
blind_transfer(f) ==
   LET dd == convert_fee(f)
   IN  /\ prepare_fee(f)
       /\ dd[f.asset].confidential_supply >= f.amount
       /\ dyn' = [dd EXCEPT ![f.asset].confidential_supply = @ - f.amount]
       /\ pay_fba_fee("blind_transfer", Temp, f)
       /\ UNCHANGED <<balance, issuer, vesting, locked, cleared, chainVars>>

transfer_from_blind(b, amount, f) ==
   LET dd == convert_fee(f)
   IN  /\ prepare_fee(f)
       /\ dd[f.asset].confidential_supply >= amount + f.amount
       /\ balance' = Adjusted(balance, b, f.asset, amount)
       /\ dyn' = [dd EXCEPT ![f.asset].confidential_supply = @ - (amount + f.amount)]
       /\ pay_fba_fee("transfer_from_blind", Temp, f)
       /\ UNCHANGED <<issuer, vesting, locked, cleared, chainVars>>

\* The holders of the designated asset gain or lose control of its issuer.
set_configured(c) ==
   /\ configured' = c
   /\ UNCHANGED <<balance, dyn, issuer, pending, vesting, locked, fba, cleared,
                  witness_budget, reward_pool, staking_mode_on, budgeted>>

-----------------------------------------------------------------------------
(* Blocks and maintenance.                                                  *)

LeastOf(a, b) == IF a <= b THEN a ELSE b

\* The producer of a block is paid from the budget; in staking mode a part of its pay
\* goes to the pool of the voters.
update_signing_witness ==
   LET witness_pay == LeastOf(Pay, witness_budget)
       witness_rewards == IF staking_mode_on THEN LeastOf((witness_pay * Proportion) \div 1000, witness_pay)
                          ELSE witness_pay
   IN  /\ witness_pay > 0
       /\ witness_budget' = witness_budget - witness_pay
       /\ vesting' = vesting + witness_rewards
       /\ reward_pool' = reward_pool + (witness_pay - witness_rewards)
       /\ UNCHANGED <<balance, dyn, issuer, pending, locked, fba, cleared,
                      configured, staking_mode_on, budgeted>>

cut_fee(a, p) == (a * p) \div 100

fba_buyback(i) == cut_fee(fba[i], 60)
fba_issuer(i) == cut_fee(fba[i], 20)
fba_network(i) == IF configured THEN fba[i] - (fba_buyback(i) + fba_issuer(i)) ELSE fba[i]

\* The buyback account and the issuer of the designated asset are paid in asset(x),
\* which is 1.3.0; the share of the network leaves the supply of the core asset.
split_fba_balance ==
   LET bought == SumFunction([i \in FbaId |-> fba_buyback(i)])
       issued == SumFunction([i \in FbaId |-> fba_issuer(i)])
   IN  IF configured
       THEN Adjusted(Adjusted(balance, Buyback, Old, bought), Designer, Old, issued)
       ELSE balance

\* The cuts of one account's pending fees, of one kind.
network_cut(fee) == cut_fee(fee, Percent["network"])
lifetime_cut(fee) == cut_fee(fee, Percent["lifetime"])
referral(fee) == fee - network_cut(fee) - lifetime_cut(fee)
referrer_cut(fee) == cut_fee(referral(fee), Percent["referrer"])
registrar_cut(fee) == referral(fee) - referrer_cut(fee)

\* Cashback of an account of the blockchain goes back to the reserve: of a fee, the
\* part kept for the vesting balances of the receivers, and the part that is burned.
Kept(a, r, fee) ==
     (IF Lifetime[a] \in Special THEN 0 ELSE lifetime_cut(fee))
   + (IF r \in Special THEN 0 ELSE referrer_cut(fee))
   + (IF Registrar[a] \in Special THEN 0 ELSE registrar_cut(fee))
Burned(a, r, fee) ==
     (IF Lifetime[a] \in Special THEN lifetime_cut(fee) ELSE 0)
   + (IF r \in Special THEN referrer_cut(fee) ELSE 0)
   + (IF Registrar[a] \in Special THEN registrar_cut(fee) ELSE 0)

\* What becomes of both kinds of pending fees of all accounts, with referrers r.
process_fees(r) ==
   LET sum(Cut(_, _, _)) == SumFunction([a \in Account |->
                               Cut(a, r[a], pending[a].fees) + Cut(a, r[a], pending[a].vested)])
       network(a, x, fee) == network_cut(fee)
   IN  [network |-> sum(network), kept |-> sum(Kept), burned |-> sum(Burned)]

\* The witness budget for the next interval, out of the reserve; the supply then
\* counts the new budget and neither the old one nor the accumulated fees.
process_budget(dd) ==
   LET core == dd[Core]
       reserve == core.max_supply - core.current_supply + core.accumulated_fees + witness_budget
       total_budget == IF budgeted THEN reserve ELSE 0
       new_budget == LeastOf(Pay * Blocks, total_budget)
       supply_delta == new_budget - core.accumulated_fees - witness_budget
   IN  /\ dyn' = [dd EXCEPT ![Core].current_supply = @ + supply_delta,
                            ![Core].accumulated_fees = 0]
       /\ witness_budget' = new_budget
       /\ budgeted' = TRUE

\* First the FBA fees, then the fees of every account, last the budget.
perform_chain_maintenance ==
   \E r \in [Account -> Account] :
      /\ \A a \in Account : r[a] \in Referrer[a]
      /\ balance' = split_fba_balance
      /\ fba' = [i \in FbaId |-> 0]
      /\ vesting' = vesting + process_fees(r).kept
      /\ pending' = [a \in Account |-> [fees |-> 0, vested |-> 0]]
      /\ process_budget([dyn EXCEPT
            ![Core].current_supply = @ - SumFunction([i \in FbaId |-> fba_network(i)])
                                       - process_fees(r).burned,
            ![Core].accumulated_fees = @ + process_fees(r).network])
      /\ UNCHANGED <<issuer, locked, cleared, configured, reward_pool, staking_mode_on>>

-----------------------------------------------------------------------------
UserOperation(a, f) ==
   \/ \E b \in User, s \in Asset, x \in Amounts : transfer(a, b, s, x, f)
   \/ asset_create(a, f)
   \/ \E b \in User, s \in Asset, x \in Amounts : asset_issue(a, b, s, x, f)
   \/ \E s \in Asset, x \in Amounts : asset_reserve(a, s, x, f)
   \/ \E s \in Asset, x \in Amounts : asset_fund_fee_pool(a, s, x, f)
   \/ \E s \in Asset, x \in NewMax, b \in User : asset_update(a, s, x, b, f)
   \/ \E s \in Asset, x \in Amounts : asset_claim_fees(a, s, x, f)
   \/ \E x \in Amounts : balance_lock(a, x, f)
   \/ \E x \in Amounts : balance_unlock(a, x, f)
   \/ \E x \in Amounts : vesting_balance_create(a, x, f)
   \/ \E x \in Amounts : vesting_balance_withdraw(a, x, f)
   \/ \E s \in Asset, x \in Amounts : transfer_to_blind(a, s, x, f)
   \/ blind_transfer(f)
   \/ \E x \in Amounts : transfer_from_blind(a, x, f)

Next ==
   \/ \E a \in User, f \in Fee : UserOperation(a, f)
   \/ \E c \in Configurations : set_configured(c)
   \/ update_signing_witness
   \/ perform_chain_maintenance

Spec == Init /\ [][Next]_vars

-----------------------------------------------------------------------------
InBalances(s) == SumFunction([a \in Account |-> balance[a][s]])
InPools == SumFunction([s \in Asset |-> dyn[s].fee_pool])
InPending == SumFunction([a \in Account |-> pending[a].fees + pending[a].vested])
InAsset(s) == InBalances(s) + dyn[s].accumulated_fees + dyn[s].confidential_supply

\* What holds the core asset besides balances, fees and blinded balances.
InChain == InPools + InPending + vesting + locked + witness_budget + reward_pool

\* No fee conversion, cut, split, burn, lock or budget creates or loses core asset:
\* what all accounts, pools and accumulators hold is what current_supply says.  1.3.0
\* and 1.3.1 are counted together, for split_fba_balance takes from the one and pays
\* in the other; and what asset_update took out of a fee pool is counted.
CoreConserved ==
   dyn[Core].current_supply + dyn[Old].current_supply =
      InAsset(Core) + InAsset(Old) + InChain + SumFunction(fba) + cleared

\* The issued asset's supply is what accounts, its issuer's fees and blinded balances
\* hold: asset_issue, asset_reserve, convert_fee and asset_claim_fees agree on it.
IssuedConserved == dyn[Uia].current_supply = InAsset(Uia)

\* asset_issue and process_budget stay within the maximal supply, while fees, burns
\* and budgets move the supply up and down.  This needs that the issuers do not lower
\* max_supply below the supply: asset_update does not compare the two.
SupplyWithinMax == \A s \in Asset : dyn[s].current_supply <= dyn[s].max_supply

=============================================================================
