---------------------------- MODULE TreasuryTypes ----------------------------
(***************************************************************************)
(* No balance, pool, accumulator or counter is ever overdrawn, and no      *)
(* supply exceeds its maximum, for all accounts, fees, amounts,            *)
(* percentages and rates, as long as no issuer sets max_supply below the   *)
(* supply.  (asset_update does not compare the two, and process_budget     *)
(* would make a negative budget of a negative reserve.)                    *)
(*                                                                         *)
(* That maintenance does not burn more than the supply is no guard of the  *)
(* code: it follows from the books, which is why the invariant has them.   *)
(***************************************************************************)
EXTENDS TreasuryProofs

\* The data of all assets, none overdrawn and each supply within its maximum; 1.3.0 has
\* no supply.
Fits(dd) ==
   /\ dd \in [Asset -> Data]
   /\ dd[Old].current_supply = 0
   /\ \A s \in Asset : dd[s].current_supply <= dd[s].max_supply

\* The inductive invariant, beside Books.
Sound == TypeOK /\ Fits(dyn) /\ issuer[Old] = NoIssuer

\* No maximal supply is set below the supply.
Prudent ==
   \A s \in Asset : \/ dyn'[s].max_supply = dyn[s].max_supply
                    \/ dyn[s].current_supply <= dyn'[s].max_supply

-----------------------------------------------------------------------------
(* Changes of the data, and fees.                                           *)

\* Replacing the data of one asset.
LEMMA DataSet ==
   ASSUME NEW dd, Fits(dd), NEW s \in Asset, NEW e \in Data, NEW ee,
          ee = [t \in Asset |-> IF t = s THEN e ELSE dd[t]]
   PROVE  e.current_supply <= e.max_supply /\ (s = Old => e.current_supply = 0) => Fits(ee)
<1>1. /\ dd \in [Asset -> Data] /\ dd[Old].current_supply = 0 /\ Old \in Asset
      /\ \A t \in Asset : dd[t].current_supply <= dd[t].max_supply
   BY Accounts, Zenon DEF Fits
<1>2. ee \in [Asset -> Data] /\ ee[s] = e /\ \A t \in Asset : t # s => ee[t] = dd[t]
   BY <1>1, Zenon
<1>. QED BY <1>1, <1>2, Zenon DEF Fits

\* Setting one field of the data of one asset.
LEMMA FieldSet ==
   ASSUME NEW dd, Fits(dd), NEW s \in Asset, NEW v \in Nat
   PROVE  /\ Fits([dd EXCEPT ![s].accumulated_fees = v])
          /\ Fits([dd EXCEPT ![s].fee_pool = v])
          /\ Fits([dd EXCEPT ![s].confidential_supply = v])
          /\ v <= dd[s].max_supply /\ (s = Old => v = 0) => Fits([dd EXCEPT ![s].current_supply = v])
<1>1. /\ dd \in [Asset -> Data] /\ dd[s] \in Data /\ DOMAIN dd = Asset
      /\ dd[s].current_supply <= dd[s].max_supply /\ (s = Old => dd[s].current_supply = 0)
   BY Accounts, Zenon DEF Fits
<1>. DEFINE set(c, x, p, b) == [current_supply |-> c, accumulated_fees |-> x, fee_pool |-> p,
                                confidential_supply |-> b, max_supply |-> dd[s].max_supply]
            c0 == dd[s].current_supply
            x0 == dd[s].accumulated_fees
            p0 == dd[s].fee_pool
            b0 == dd[s].confidential_supply
<1>2. /\ c0 \in Nat /\ x0 \in Nat /\ p0 \in Nat /\ b0 \in Nat /\ dd[s].max_supply \in Nat
      /\ c0 <= dd[s].max_supply
   BY <1>1, Zenon DEF Data
<1>3. Fits([dd EXCEPT ![s].accumulated_fees = v])
   <2>. DEFINE ee == [dd EXCEPT ![s].accumulated_fees = v]
               e == set(c0, v, p0, b0)
   <2>1. ee[s] = e /\ e \in Data
      BY <1>1, <1>2, Zenon DEF Data
   <2>2. ee = [t \in Asset |-> IF t = s THEN e ELSE dd[t]]
      BY <1>1, <2>1, Zenon
   <2>3. e.current_supply <= e.max_supply /\ (s = Old => e.current_supply = 0)
      BY <1>1, Zenon
   <2>. HIDE DEF ee, e
   <2>. QED BY <2>1, <2>2, <2>3, DataSet, SMTT(30), Z3T(30) DEF ee
<1>4. Fits([dd EXCEPT ![s].fee_pool = v])
   <2>. DEFINE ee == [dd EXCEPT ![s].fee_pool = v]
               e == set(c0, x0, v, b0)
   <2>1. ee[s] = e /\ e \in Data
      BY <1>1, <1>2, Zenon DEF Data
   <2>2. ee = [t \in Asset |-> IF t = s THEN e ELSE dd[t]]
      BY <1>1, <2>1, Zenon
   <2>3. e.current_supply <= e.max_supply /\ (s = Old => e.current_supply = 0)
      BY <1>1, Zenon
   <2>. HIDE DEF ee, e
   <2>. QED BY <2>1, <2>2, <2>3, DataSet, SMTT(30), Z3T(30) DEF ee
<1>5. Fits([dd EXCEPT ![s].confidential_supply = v])
   <2>. DEFINE ee == [dd EXCEPT ![s].confidential_supply = v]
               e == set(c0, x0, p0, v)
   <2>1. ee[s] = e /\ e \in Data
      BY <1>1, <1>2, Zenon DEF Data
   <2>2. ee = [t \in Asset |-> IF t = s THEN e ELSE dd[t]]
      BY <1>1, <2>1, Zenon
   <2>3. e.current_supply <= e.max_supply /\ (s = Old => e.current_supply = 0)
      BY <1>1, Zenon
   <2>. HIDE DEF ee, e
   <2>. QED BY <2>1, <2>2, <2>3, DataSet, SMTT(30), Z3T(30) DEF ee
<1>6. ASSUME v <= dd[s].max_supply, s = Old => v = 0
      PROVE  Fits([dd EXCEPT ![s].current_supply = v])
   <2>. DEFINE ee == [dd EXCEPT ![s].current_supply = v]
               e == set(v, x0, p0, b0)
   <2>1. ee[s] = e /\ e \in Data
      BY <1>1, <1>2, Zenon DEF Data
   <2>2. ee = [t \in Asset |-> IF t = s THEN e ELSE dd[t]]
      BY <1>1, <2>1, Zenon
   <2>3. e.current_supply <= e.max_supply /\ (s = Old => e.current_supply = 0)
      BY <1>6, Zenon
   <2>. HIDE DEF ee, e
   <2>. QED BY <2>1, <2>2, <2>3, DataSet, SMTT(30), Z3T(30) DEF ee
<1>. QED BY <1>3, <1>4, <1>5, <1>6, Zenon

\* Setting the maximal supply of an asset, not below its supply, and its fee pool.
LEMMA MaxSet ==
   ASSUME NEW dd, Fits(dd), NEW s \in Asset, NEW v \in Nat, NEW p \in Nat
   PROVE  dd[s].current_supply <= v => Fits([dd EXCEPT ![s].max_supply = v, ![s].fee_pool = p])
<1>. DEFINE e == [current_supply |-> dd[s].current_supply,
                  accumulated_fees |-> dd[s].accumulated_fees, fee_pool |-> p,
                  confidential_supply |-> dd[s].confidential_supply, max_supply |-> v]
            ee == [dd EXCEPT ![s].max_supply = v, ![s].fee_pool = p]
<1>1. /\ dd \in [Asset -> Data] /\ dd[s] \in Data /\ DOMAIN dd = Asset
      /\ s = Old => dd[s].current_supply = 0
   BY Accounts, Zenon DEF Fits
<1>2. e \in Data
   BY <1>1, Zenon DEF Data
<1>3. ee[s] = e
   BY <1>1, Zenon DEF Data
<1>4. ee = [t \in Asset |-> IF t = s THEN e ELSE dd[t]]
   BY <1>1, <1>3, Zenon
<1>5. e.current_supply = dd[s].current_supply /\ e.max_supply = v
   BY Zenon
<1>. HIDE DEF ee, e
<1>. QED BY <1>1, <1>2, <1>4, <1>5, DataSet, SMTT(30), Z3T(30) DEF ee

\* prepare_fee has looked that the pool can pay: no conversion overdraws a fee pool.
\* The supplies stay as they are.
LEMMA ConvertFits ==
   ASSUME Fits(dyn), NEW f \in Fee, prepare_fee(f)
   PROVE  /\ Fits(convert_fee(f))
          /\ \A s \in Asset :
                /\ convert_fee(f)[s].current_supply = dyn[s].current_supply
                /\ convert_fee(f)[s].max_supply = dyn[s].max_supply
                /\ convert_fee(f)[s].fee_pool \in Nat
                /\ convert_fee(f)[s].accumulated_fees \in Nat
                /\ convert_fee(f)[s].confidential_supply \in Nat
<1>. DEFINE v == core_fee(f)
            ee == convert_fee(f)
<1>1. /\ dyn \in [Asset -> Data] /\ DOMAIN dyn = Asset /\ dyn[Uia] \in Data
      /\ dyn[Uia].current_supply <= dyn[Uia].max_supply
   BY Accounts, Zenon DEF Fits
<1>2. f.asset \in {Core, Uia} /\ f.amount \in Nat /\ v \in Nat
   BY FeeTypes, Zenon
<1>3. CASE f.asset = Core
   BY <1>1, <1>3, ZenonT(30) DEF convert_fee, Data
<1>4. CASE f.asset = Uia
   <2>. DEFINE e == [current_supply |-> dyn[Uia].current_supply,
                     accumulated_fees |-> dyn[Uia].accumulated_fees + f.amount,
                     fee_pool |-> dyn[Uia].fee_pool - v,
                     confidential_supply |-> dyn[Uia].confidential_supply,
                     max_supply |-> dyn[Uia].max_supply]
   <2>1. v <= dyn[Uia].fee_pool
      BY <1>4, Accounts, Zenon DEF prepare_fee
   <2>2. ee = [dyn EXCEPT ![Uia].accumulated_fees = @ + f.amount, ![Uia].fee_pool = @ - v]
      BY <1>4, Accounts, ZenonT(30) DEF convert_fee
   <2>. HIDE DEF v, ee
   <2>3. e \in Data
      BY <1>1, <1>2, <2>1, SMTT(30), Z3T(30) DEF Data
   <2>4. ee[Uia] = e
      BY <1>1, <2>2, Accounts, ZenonT(30) DEF Data
   <2>5. ee = [t \in Asset |-> IF t = Uia THEN e ELSE dyn[t]]
      BY <1>1, <2>2, <2>4, ZenonT(30)
   <2>6. e.current_supply = dyn[Uia].current_supply /\ e.max_supply = dyn[Uia].max_supply
      BY Zenon
   <2>7. Uia \in Asset /\ Uia # Old
      BY Accounts, ZenonT(30)
   <2>. HIDE DEF e
   <2>8. Fits(ee)
      BY <1>1, <2>3, <2>5, <2>6, <2>7, DataSet, SMTT(30), Z3T(30)
   <2>9. \A s \in Asset : /\ ee[s] \in Data /\ ee[s].current_supply = dyn[s].current_supply
                          /\ ee[s].max_supply = dyn[s].max_supply
      BY <1>1, <2>3, <2>5, <2>6, ZenonT(30)
   <2>. QED BY <2>8, <2>9, Zenon DEF ee, Data
<1>. QED BY <1>2, <1>3, <1>4, ZenonT(30)

\* Pending fees only grow until maintenance.
LEMMA PayNat ==
   ASSUME TypeOK, NEW a \in Account, NEW v \in Nat
   PROVE  pay_fee(a, v) \in [Account -> [fees : Nat, vested : Nat]]
<1>1. /\ pending \in [Account -> [fees : Nat, vested : Nat]]
      /\ pending[a] \in [fees : Nat, vested : Nat]
   BY Zenon DEF TypeOK
<1>2. CASE v > Threshold
   BY <1>1, <1>2, SMTT(30), Z3T(30) DEF pay_fee
<1>3. CASE ~(v > Threshold)
   BY <1>1, <1>3, SMTT(30), Z3T(30) DEF pay_fee
<1>. QED BY <1>2, <1>3, Zenon

\* A ledger of integers without a negative balance is one of naturals.
LEMMA FundedNat ==
   ASSUME NEW bal \in Ledger, Funded(bal)
   PROVE  bal \in [Account -> [Asset -> Nat]]
<1>1. ASSUME NEW a \in Account PROVE bal[a] \in [Asset -> Nat]
   BY <1>1 DEF Ledger, Funded
<1>. QED BY <1>1, Zenon DEF Ledger

\* apply leaves all sound when do_apply does.
LEMMA ApplySound ==
   ASSUME Sound, Shape', NEW a \in User, NEW f \in Fee, NEW bal, NEW dd
   PROVE  /\ apply(a, f, bal, dd) /\ Fits(dd)
          /\ vesting' \in Nat /\ locked' \in Nat /\ cleared' \in Nat /\ fba' = fba
          /\ issuer'[Old] = NoIssuer
          => Sound'
<1>0. SUFFICES
         ASSUME apply(a, f, bal, dd), Fits(dd),
                vesting' \in Nat, locked' \in Nat, cleared' \in Nat, fba' = fba,
                issuer'[Old] = NoIssuer
         PROVE  Sound'
   BY Zenon
<1>1. balance' \in [Account -> [Asset -> Nat]]
   BY <1>0, FundedNat, Zenon DEF apply, Shape
<1>2. dyn' = dd /\ dd \in [Asset -> Data] /\ issuer' \in [Asset -> User \cup {NoIssuer}]
   BY <1>0, Zenon DEF apply, Fits, Shape
<1>3. pending' \in [Account -> [fees : Nat, vested : Nat]]
   BY <1>0, PayNat, FeeTypes, Accounts, ZenonT(30) DEF apply, Sound
<1>4. /\ witness_budget' = witness_budget /\ reward_pool' = reward_pool
      /\ configured' = configured /\ staking_mode_on' = staking_mode_on /\ budgeted' = budgeted
   BY <1>0, Zenon DEF apply, chainVars
<1>5. TypeOK'
   BY <1>0, <1>1, <1>2, <1>3, <1>4, ZenonT(30) DEF TypeOK, Sound
<1>. QED BY <1>0, <1>2, <1>5, ZenonT(30) DEF Sound

-----------------------------------------------------------------------------
(* Operations.                                                              *)

\* What is known before an operation that pays its fee by apply.
LEMMA SoundBefore ==
   ASSUME Sound
   PROVE  /\ Fits(dyn) /\ dyn \in [Asset -> Data] /\ issuer[Old] = NoIssuer
          /\ vesting \in Nat /\ locked \in Nat /\ cleared \in Nat
          /\ \A x \in Amounts : x \in Nat
          /\ \A s \in Asset : /\ dyn[s] \in Data /\ dyn[s].current_supply \in Nat
                              /\ dyn[s].fee_pool \in Nat /\ dyn[s].accumulated_fees \in Nat
                              /\ dyn[s].confidential_supply \in Nat
                              /\ dyn[s].max_supply \in Nat
<1>1. dyn \in [Asset -> Data] /\ Fits(dyn) /\ issuer[Old] = NoIssuer
   BY Zenon DEF Sound, Fits
<1>2. vesting \in Nat /\ locked \in Nat /\ cleared \in Nat
   BY Zenon DEF Sound, TypeOK
<1>3. \A x \in Amounts : x \in Nat
   BY TreasuryAssumption, Zenon
<1>. QED BY <1>1, <1>2, <1>3, ZenonT(30) DEF Data

\* Transfers, and what moves core asset between a balance and the locked or vesting
\* balances: nothing is taken that is not there.
LEMMA MoveSound ==
   ASSUME Sound, Shape', NEW a \in User, NEW f \in Fee, NEW x \in Amounts,
          \/ \E b \in User, s \in Asset : transfer(a, b, s, x, f)
          \/ balance_lock(a, x, f) \/ balance_unlock(a, x, f)
          \/ vesting_balance_create(a, x, f) \/ vesting_balance_withdraw(a, x, f)
   PROVE  Sound'
<1>1. PICK bal : /\ apply(a, f, bal, convert_fee(f))
                 /\ UNCHANGED <<issuer, fba, cleared>>
                 /\ \/ vesting' = vesting
                    \/ vesting' = vesting + x
                    \/ x <= vesting /\ vesting' = vesting - x
                 /\ \/ locked' = locked
                    \/ locked' = locked + x
                    \/ x <= locked /\ locked' = locked - x
   BY Zenon DEF transfer, balance_lock, balance_unlock, vesting_balance_create,
      vesting_balance_withdraw
<1>2. prepare_fee(f)
   BY <1>1, Zenon DEF apply
<1>3. Fits(dyn) /\ issuer[Old] = NoIssuer
   BY SoundBefore, Zenon
<1>4. Fits(convert_fee(f))
   BY <1>2, <1>3, ConvertFits, ZenonT(30)
<1>5. vesting' \in Nat /\ locked' \in Nat /\ cleared' \in Nat
   <2>1. vesting \in Nat /\ locked \in Nat /\ cleared \in Nat /\ x \in Nat
      BY SoundBefore, Zenon
   <2>. QED BY <1>1, <2>1, SMTT(30), Z3T(30)
<1>. QED BY <1>1, <1>3, <1>4, <1>5, ApplySound, ZenonT(30)

\* asset_issue stays within the maximal supply.
LEMMA IssueSound ==
   ASSUME Sound, Shape', NEW a \in User, NEW f \in Fee, NEW b \in User, NEW s \in Asset,
          NEW x \in Amounts, asset_issue(a, b, s, x, f)
   PROVE  Sound'
<1>. DEFINE ee == convert_fee(f)
            dd == [ee EXCEPT ![s].current_supply = @ + x]
            v == ee[s].current_supply + x
<1>1. /\ a = issuer[s] /\ dyn[s].current_supply + x <= dyn[s].max_supply
      /\ apply(a, f, Adjusted(balance, b, s, x), dd)
      /\ UNCHANGED <<issuer, vesting, locked, fba, cleared>>
   BY Zenon DEF asset_issue
<1>2. /\ Fits(dyn) /\ issuer[Old] = NoIssuer /\ x \in Nat /\ dyn[s].current_supply \in Nat
      /\ vesting \in Nat /\ locked \in Nat /\ cleared \in Nat
   BY SoundBefore, Zenon
<1>3. prepare_fee(f)
   BY <1>1, Zenon DEF apply
<1>4. /\ Fits(ee) /\ ee[s].current_supply = dyn[s].current_supply
      /\ ee[s].max_supply = dyn[s].max_supply
   BY <1>2, <1>3, ConvertFits, ZenonT(30)
<1>5. s # Old
   BY <1>1, <1>2, TreasuryAssumption, ZenonT(30)
<1>6. Fits(dd)
   <2>1. dd = [ee EXCEPT ![s].current_supply = v]
      BY Zenon
   <2>2. v \in Nat /\ v <= ee[s].max_supply
      BY <1>1, <1>2, <1>4, SMTT(30), Z3T(30)
   <2>. HIDE DEF ee, v, dd
   <2>. QED BY <1>4, <1>5, <2>1, <2>2, FieldSet, ZenonT(30)
<1>. HIDE DEF dd
<1>. QED BY <1>1, <1>2, <1>6, ApplySound, ZenonT(30)

\* asset_reserve takes no more than the supply.
LEMMA ReserveSound ==
   ASSUME Sound, Shape', NEW a \in User, NEW f \in Fee, NEW s \in Asset,
          NEW x \in Amounts, asset_reserve(a, s, x, f)
   PROVE  Sound'
<1>. DEFINE ee == convert_fee(f)
            dd == [ee EXCEPT ![s].current_supply = @ - x]
            v == ee[s].current_supply - x
<1>1. /\ dyn[s].current_supply >= x
      /\ apply(a, f, Adjusted(balance, a, s, 0 - x), dd)
      /\ UNCHANGED <<issuer, vesting, locked, fba, cleared>>
   BY Zenon DEF asset_reserve
<1>2. /\ Fits(dyn) /\ issuer[Old] = NoIssuer /\ x \in Nat /\ dyn[s].current_supply \in Nat
      /\ vesting \in Nat /\ locked \in Nat /\ cleared \in Nat
      /\ dyn[s].current_supply <= dyn[s].max_supply /\ dyn[s].max_supply \in Nat
      /\ s = Old => dyn[s].current_supply = 0
   BY SoundBefore, Zenon DEF Fits
<1>3. prepare_fee(f)
   BY <1>1, Zenon DEF apply
<1>4. /\ Fits(ee) /\ ee[s].current_supply = dyn[s].current_supply
      /\ ee[s].max_supply = dyn[s].max_supply
   BY <1>2, <1>3, ConvertFits, ZenonT(30)
<1>5. Fits(dd)
   <2>1. dd = [ee EXCEPT ![s].current_supply = v]
      BY Zenon
   <2>2. v \in Nat /\ v <= ee[s].max_supply /\ (s = Old => v = 0)
      BY <1>1, <1>2, <1>4, SMTT(30), Z3T(30)
   <2>. HIDE DEF ee, v, dd
   <2>. QED BY <1>4, <2>1, <2>2, FieldSet, ZenonT(30)
<1>. HIDE DEF dd
<1>. QED BY <1>1, <1>2, <1>5, ApplySound, ZenonT(30)

\* Funding a pool.
LEMMA FundSound ==
   ASSUME Sound, Shape', NEW a \in User, NEW f \in Fee, NEW s \in Asset,
          NEW x \in Amounts, asset_fund_fee_pool(a, s, x, f)
   PROVE  Sound'
<1>. DEFINE dd == [dyn EXCEPT ![s].fee_pool = @ + x]
            v == dyn[s].fee_pool + x
<1>1. /\ apply(a, f, Adjusted(balance, a, Core, 0 - x), dd)
      /\ UNCHANGED <<issuer, vesting, locked, fba, cleared>>
   BY Zenon DEF asset_fund_fee_pool
<1>2. /\ Fits(dyn) /\ issuer[Old] = NoIssuer /\ x \in Nat /\ dyn[s].fee_pool \in Nat
      /\ vesting \in Nat /\ locked \in Nat /\ cleared \in Nat
   BY SoundBefore, Zenon
<1>3. Fits(dd)
   <2>1. dd = [dyn EXCEPT ![s].fee_pool = v] /\ v \in Nat
      BY <1>2
   <2>. HIDE DEF v, dd
   <2>. QED BY <1>2, <2>1, FieldSet, ZenonT(30)
<1>. HIDE DEF dd
<1>. QED BY <1>1, <1>2, <1>3, ApplySound, ZenonT(30)

\* An issuer claims no more than the accumulated fees, those of this operation included.
LEMMA ClaimSound ==
   ASSUME Sound, Shape', NEW a \in User, NEW f \in Fee, NEW s \in Asset,
          NEW x \in Amounts, asset_claim_fees(a, s, x, f)
   PROVE  Sound'
<1>. DEFINE ee == convert_fee(f)
            dd == [ee EXCEPT ![s].accumulated_fees = @ - x]
            v == ee[s].accumulated_fees - x
<1>1. /\ x <= ee[s].accumulated_fees
      /\ apply(a, f, Adjusted(balance, a, s, x), dd)
      /\ UNCHANGED <<issuer, vesting, locked, fba, cleared>>
   BY Zenon DEF asset_claim_fees
<1>2. /\ Fits(dyn) /\ issuer[Old] = NoIssuer /\ x \in Nat
      /\ vesting \in Nat /\ locked \in Nat /\ cleared \in Nat
   BY SoundBefore, Zenon
<1>3. prepare_fee(f)
   BY <1>1, Zenon DEF apply
<1>4. Fits(ee) /\ ee[s].accumulated_fees \in Nat
   BY <1>2, <1>3, ConvertFits, ZenonT(30)
<1>5. Fits(dd)
   <2>1. dd = [ee EXCEPT ![s].accumulated_fees = v] /\ v \in Nat
      BY <1>1, <1>2, <1>4, SMTT(30), Z3T(30)
   <2>. HIDE DEF ee, v, dd
   <2>. QED BY <1>4, <2>1, FieldSet, ZenonT(30)
<1>. HIDE DEF dd
<1>. QED BY <1>1, <1>2, <1>5, ApplySound, ZenonT(30)

\* A prudent issuer updates the asset.
LEMMA UpdateSound ==
   ASSUME Sound, Shape', Prudent, NEW a \in User, NEW f \in Fee, NEW s \in Asset,
          NEW x \in NewMax, NEW b \in User, asset_update(a, s, x, b, f)
   PROVE  Sound'
<1>. DEFINE ee == convert_fee(f)
            pool == IF s = Core THEN ee[s].fee_pool ELSE 0
            p == ee[s].fee_pool - pool
            dd == [ee EXCEPT ![s].max_supply = x, ![s].fee_pool = p]
<1>1. /\ a = issuer[s] /\ issuer' = [issuer EXCEPT ![s] = b]
      /\ apply(a, f, balance, [ee EXCEPT ![s].max_supply = x, ![s].fee_pool = @ - pool])
      /\ cleared' = cleared + pool /\ UNCHANGED <<vesting, locked, fba>>
   BY Zenon DEF asset_update
<1>2. /\ Fits(dyn) /\ issuer[Old] = NoIssuer /\ dyn[s].current_supply \in Nat
      /\ vesting \in Nat /\ locked \in Nat /\ cleared \in Nat
      /\ dyn[s].current_supply <= dyn[s].max_supply
   BY SoundBefore, ZenonT(30) DEF Fits
<1>3. prepare_fee(f)
   BY <1>1, Zenon DEF apply
<1>4. /\ Fits(ee) /\ ee \in [Asset -> Data] /\ ee[s].fee_pool \in Nat
      /\ ee[s].current_supply = dyn[s].current_supply
   BY <1>2, <1>3, ConvertFits, ZenonT(30) DEF Fits
<1>5. s # Old
   BY <1>1, <1>2, TreasuryAssumption, ZenonT(30)
<1>6. pool \in Nat /\ p \in Nat /\ x \in Nat
   BY <1>4, TreasuryAssumption, SMTT(30), Z3T(30)
<1>7. apply(a, f, balance, dd)
   BY <1>1, Zenon
<1>. HIDE DEF ee, pool, p
<1>8. ee[s].current_supply <= x
   <2>1. dyn'[s].max_supply = x
      <3>1. dyn' = dd
         BY <1>7, Zenon DEF apply
      <3>2. dd[s].max_supply = x
         BY <1>4, Zenon DEF Data
      <3>. QED BY <3>1, <3>2, Zenon
   <2>. QED BY <1>2, <1>4, <2>1, ZenonT(30) DEF Prudent
<1>9. Fits(dd)
   BY <1>4, <1>6, <1>8, MaxSet, ZenonT(30)
<1>. HIDE DEF dd
<1>10. issuer'[Old] = NoIssuer
   BY <1>1, <1>2, <1>5, Accounts, SMTT(30), Z3T(30)
<1>11. vesting' \in Nat /\ locked' \in Nat /\ cleared' \in Nat /\ fba' = fba
   BY <1>1, <1>2, <1>6, SMTT(30), Z3T(30)
<1>. QED BY <1>7, <1>9, <1>10, <1>11, ApplySound, ZenonT(30)

\* asset_create halves its fee.
LEMMA CreateSound ==
   ASSUME Sound, Shape', NEW a \in User, NEW f \in Fee, asset_create(a, f)
   PROVE  Sound'
<1>. DEFINE paid == f.amount - f.amount \div 2
            pool == paid - (f.amount % 2)
            dd == [dyn EXCEPT ![Uia].fee_pool = pool]
<1>1. /\ Funded(Charged(balance, a, f)) /\ balance' = Charged(balance, a, f)
      /\ pending' = pay_fee(a, paid) /\ dyn' = dd /\ issuer' = [issuer EXCEPT ![Uia] = a]
      /\ UNCHANGED <<vesting, locked, fba, cleared, chainVars>>
   BY Zenon DEF asset_create
<1>2. /\ Fits(dyn) /\ issuer[Old] = NoIssuer
      /\ vesting \in Nat /\ locked \in Nat /\ cleared \in Nat
   BY SoundBefore, ZenonT(30)
<1>3. paid \in Nat /\ pool \in Nat
   <2>1. f.amount \in Nat
      BY FeeTypes, Zenon
   <2>. QED BY <2>1, SMTT(30), Z3T(30)
<1>. HIDE DEF paid, pool
<1>4. Fits(dd) /\ dd \in [Asset -> Data]
   BY <1>2, <1>3, Accounts, FieldSet, ZenonT(30) DEF Fits
<1>5. balance' \in [Account -> [Asset -> Nat]]
   BY <1>1, FundedNat, ZenonT(30) DEF Shape
<1>6. pending' \in [Account -> [fees : Nat, vested : Nat]]
   BY <1>1, <1>3, PayNat, Accounts, ZenonT(30) DEF Sound
<1>7. /\ witness_budget' = witness_budget /\ reward_pool' = reward_pool /\ configured' = configured
      /\ staking_mode_on' = staking_mode_on /\ budgeted' = budgeted /\ fba' = fba
      /\ vesting' = vesting /\ locked' = locked /\ cleared' = cleared
   BY <1>1, ZenonT(30) DEF chainVars
<1>8. issuer' \in [Asset -> User \cup {NoIssuer}] /\ issuer'[Old] = NoIssuer
   BY <1>1, <1>2, Accounts, ZenonT(30) DEF Shape
<1>. HIDE DEF dd
<1>9. TypeOK'
   BY <1>1, <1>2, <1>4, <1>5, <1>6, <1>7, <1>8, SMTT(30), Z3T(30) DEF Sound, TypeOK
<1>. QED BY <1>1, <1>4, <1>8, <1>9, ZenonT(30) DEF Sound

\* The fee of a blinded transfer adds to an accumulator or to the pending fees.
LEMMA FbaNat ==
   ASSUME TypeOK, NEW i \in FbaId, NEW a \in Account, NEW f \in Fee, pay_fba_fee(i, a, f)
   PROVE  fba' \in [FbaId -> Nat] /\ pending' \in [Account -> [fees : Nat, vested : Nat]]
<1>1. /\ fba \in [FbaId -> Nat] /\ pending \in [Account -> [fees : Nat, vested : Nat]]
      /\ core_fee(f) \in Nat
   BY FeeTypes, Zenon DEF TypeOK
<1>2. CASE configured
   BY <1>1, <1>2, SMTT(30), Z3T(30) DEF pay_fba_fee
<1>3. CASE ~configured
   BY <1>1, <1>3, PayNat, SMTT(30), Z3T(30) DEF pay_fba_fee
<1>. QED BY <1>2, <1>3, Zenon

\* Blinded transfers leave all sound when what they take was there.
LEMMA BlindSound ==
   ASSUME Sound, Shape', NEW i \in FbaId, NEW a \in Account, NEW f \in Fee, NEW s \in Asset,
          prepare_fee(f), NEW v \in Nat
   PROVE  /\ pay_fba_fee(i, a, f)
          /\ dyn' = [convert_fee(f) EXCEPT ![s].confidential_supply = v]
          /\ Funded(balance')
          /\ UNCHANGED <<issuer, vesting, locked, cleared, chainVars>>
          => Sound'
<1>0. SUFFICES
         ASSUME pay_fba_fee(i, a, f),
                dyn' = [convert_fee(f) EXCEPT ![s].confidential_supply = v],
                Funded(balance'), UNCHANGED <<issuer, vesting, locked, cleared, chainVars>>
         PROVE  Sound'
   BY ZenonT(30)
<1>1. Fits(dyn) /\ issuer[Old] = NoIssuer
   BY SoundBefore, ZenonT(30)
<1>2. Fits(convert_fee(f))
   BY <1>1, ConvertFits, ZenonT(30)
<1>3. Fits(dyn') /\ dyn' \in [Asset -> Data]
   <2>1. Fits([convert_fee(f) EXCEPT ![s].confidential_supply = v])
      BY <1>2, FieldSet, ZenonT(30)
   <2>2. Fits(dyn')
      BY <1>0, <2>1, ZenonT(30)
   <2>. QED BY <2>2, Zenon DEF Fits
<1>4. balance' \in [Account -> [Asset -> Nat]]
   BY <1>0, FundedNat, Zenon DEF Shape
<1>5. fba' \in [FbaId -> Nat] /\ pending' \in [Account -> [fees : Nat, vested : Nat]]
   BY <1>0, FbaNat, ZenonT(30) DEF Sound
<1>6. /\ witness_budget' = witness_budget /\ reward_pool' = reward_pool /\ configured' = configured
      /\ staking_mode_on' = staking_mode_on /\ budgeted' = budgeted /\ issuer' = issuer
      /\ vesting' = vesting /\ locked' = locked /\ cleared' = cleared
   BY <1>0, ZenonT(30) DEF chainVars
<1>7. TypeOK'
   BY <1>3, <1>4, <1>5, <1>6, SMTT(30), Z3T(30) DEF Sound, TypeOK
<1>. QED BY <1>1, <1>3, <1>6, <1>7, ZenonT(30) DEF Sound

\* The three kinds of blinded transfers.
LEMMA BlindsSound ==
   ASSUME Sound, Shape', NEW a \in User, NEW f \in Fee,
          \/ \E s \in Asset, x \in Amounts : transfer_to_blind(a, s, x, f)
          \/ blind_transfer(f)
          \/ \E x \in Amounts : transfer_from_blind(a, x, f)
   PROVE  Sound'
<1>. DEFINE ee == convert_fee(f)
            t == f.asset
<1>1. /\ a \in Account /\ Temp \in Account /\ t \in Asset /\ f.amount \in Nat
      /\ "transfer_to_blind" \in FbaId /\ "blind_transfer" \in FbaId
      /\ "transfer_from_blind" \in FbaId
   BY Accounts, FeeTypes, Zenon DEF FbaId
<1>2. Fits(dyn) /\ \A x \in Amounts : x \in Nat
   BY SoundBefore, Zenon
<1>3. prepare_fee(f)
   BY Zenon DEF transfer_to_blind, blind_transfer, transfer_from_blind
<1>4. \A s \in Asset : ee[s].confidential_supply \in Nat
   BY <1>2, <1>3, ConvertFits, ZenonT(30)
<1>5. balance \in [Account -> [Asset -> Nat]]
   BY Zenon DEF Sound, TypeOK
<1>6. ASSUME NEW s \in Asset, NEW x \in Amounts, transfer_to_blind(a, s, x, f) PROVE Sound'
   <2>. DEFINE v == ee[s].confidential_supply + x
   <2>1. /\ dyn' = [ee EXCEPT ![s].confidential_supply = v] /\ Funded(balance')
         /\ pay_fba_fee("transfer_to_blind", a, f)
         /\ UNCHANGED <<issuer, vesting, locked, cleared, chainVars>>
      BY <1>6, Zenon DEF transfer_to_blind
   <2>2. v \in Nat
      BY <1>2, <1>4, SMTT(30), Z3T(30)
   <2>. HIDE DEF v
   <2>. QED BY <1>1, <1>3, <2>1, <2>2, BlindSound, ZenonT(30)
<1>7. ASSUME blind_transfer(f) PROVE Sound'
   <2>. DEFINE v == ee[t].confidential_supply - f.amount
   <2>1. /\ ee[t].confidential_supply >= f.amount
         /\ dyn' = [ee EXCEPT ![t].confidential_supply = v] /\ balance' = balance
         /\ pay_fba_fee("blind_transfer", Temp, f)
         /\ UNCHANGED <<issuer, vesting, locked, cleared, chainVars>>
      BY <1>7, Zenon DEF blind_transfer
   <2>2. v \in Nat
      BY <1>1, <1>4, <2>1, SMTT(30), Z3T(30)
   <2>3. Funded(balance')
      BY <1>5, <2>1, SMTT(30), Z3T(30) DEF Funded
   <2>. HIDE DEF v
   <2>. QED BY <1>1, <1>3, <2>1, <2>2, <2>3, BlindSound, ZenonT(30)
<1>8. ASSUME NEW x \in Amounts, transfer_from_blind(a, x, f) PROVE Sound'
   <2>. DEFINE v == ee[t].confidential_supply - (x + f.amount)
   <2>1. /\ ee[t].confidential_supply >= x + f.amount
         /\ dyn' = [ee EXCEPT ![t].confidential_supply = v]
         /\ balance' = Adjusted(balance, a, t, x)
         /\ pay_fba_fee("transfer_from_blind", Temp, f)
         /\ UNCHANGED <<issuer, vesting, locked, cleared, chainVars>>
      BY <1>8, ZenonT(30) DEF transfer_from_blind
   <2>2. v \in Nat
      BY <1>1, <1>2, <1>4, <2>1, SMTT(30), Z3T(30)
   <2>3. Funded(balance')
      <3>1. x \in Nat
         BY <1>2, Zenon
      <3>. QED BY <1>1, <1>5, <2>1, <3>1, SMTT(30), Z3T(30) DEF Funded, Adjusted
   <2>. HIDE DEF v
   <2>. QED BY <1>1, <1>3, <2>1, <2>2, <2>3, BlindSound, ZenonT(30)
<1>. QED BY <1>6, <1>7, <1>8, SMTT(30), Z3T(30)

\* A witness is paid from the budget, and the pool of the voters from the pay.
LEMMA WitnessSound ==
   ASSUME Sound, update_signing_witness
   PROVE  Sound'
<1>. DEFINE pay == LeastOf(Pay, witness_budget)
            share == (pay * Proportion) \div 1000
            rewards == IF staking_mode_on THEN LeastOf(share, pay) ELSE pay
<1>1. /\ witness_budget' = witness_budget - pay /\ vesting' = vesting + rewards
      /\ reward_pool' = reward_pool + (pay - rewards)
      /\ UNCHANGED <<balance, dyn, issuer, pending, locked, fba, cleared,
                     configured, staking_mode_on, budgeted>>
   BY Zenon DEF update_signing_witness
<1>2. witness_budget \in Nat /\ vesting \in Nat /\ reward_pool \in Nat
   BY ZenonT(30) DEF Sound, TypeOK
<1>3. pay \in Nat /\ pay <= witness_budget
   BY <1>2, TreasuryAssumption, SMTT(30), Z3T(30) DEF LeastOf
<1>. HIDE DEF pay
<1>4. share \in Nat
   <2>1. pay * Proportion \in Nat
      BY <1>3, TreasuryAssumption, SMTT(30), Z3T(30)
   <2>. QED BY <2>1, SMTT(30), Z3T(30)
<1>. HIDE DEF share
<1>5. rewards \in Nat /\ rewards <= pay
   BY <1>3, <1>4, SMTT(30), Z3T(30) DEF LeastOf
<1>. HIDE DEF rewards
<1>6. witness_budget' \in Nat /\ vesting' \in Nat /\ reward_pool' \in Nat
   BY <1>1, <1>2, <1>3, <1>5, SMTT(30), Z3T(30)
<1>7. TypeOK'
   BY <1>1, <1>6, ZenonT(30) DEF Sound, TypeOK
<1>. QED BY <1>1, <1>7, ZenonT(30) DEF Sound

-----------------------------------------------------------------------------
(* Maintenance.                                                             *)

\* A cut by a percentage is between nothing and all.
LEMMA CutNat ==
   ASSUME NEW x \in Nat, NEW p \in 0..100
   PROVE  cut_fee(x, p) \in Nat /\ cut_fee(x, p) <= x
<1>1. x * p \in Nat /\ x * p <= x * 100
   OBVIOUS
<1>. QED BY <1>1 DEF cut_fee

\* The cuts of a fee are not negative: the percentages of network and lifetime referrer
\* are at most 100 together, and rounding is down.
LEMMA CutsNat ==
   ASSUME NEW a, NEW r, NEW fee \in Nat
   PROVE  network_cut(fee) \in Nat /\ Kept(a, r, fee) \in Nat /\ Burned(a, r, fee) \in Nat
<1>. DEFINE n == network_cut(fee)
            l == lifetime_cut(fee)
            rest == referral(fee)
            p == referrer_cut(fee)
            q == registrar_cut(fee)
            pn == Percent["network"]
            pl == Percent["lifetime"]
<1>1. /\ pn \in 0..100 /\ pl \in 0..100 /\ Percent["referrer"] \in 0..100 /\ pn + pl <= 100
   BY TreasuryAssumption, Zenon
<1>2. n \in Nat /\ l \in Nat /\ n + l <= fee
   <2>. HIDE DEF pn, pl
   <2>1. n = (fee * pn) \div 100 /\ l = (fee * pl) \div 100
      BY Zenon DEF network_cut, lifetime_cut, cut_fee, pn, pl
   <2>2. fee * pn \in Nat /\ fee * pl \in Nat /\ fee * pn + fee * pl <= fee * 100
      <3>1. fee * pn \in Nat /\ fee * pl \in Nat /\ fee * (pn + pl) = fee * pn + fee * pl
         BY <1>1, SMTT(30), Z3T(30)
      <3>2. fee * (pn + pl) <= fee * 100
         BY <1>1, SMTT(30), Z3T(30)
      <3>. QED BY <3>1, <3>2, ZenonT(30)
   <2>. HIDE DEF n, l
   <2>. QED BY <2>1, <2>2, SMTT(30), Z3T(30)
<1>. HIDE DEF n, l
<1>3. rest \in Nat
   BY <1>2, SMTT(30), Z3T(30) DEF referral, n, l
<1>. HIDE DEF rest
<1>4. p \in Nat /\ p <= rest
   BY <1>1, <1>3, CutNat, ZenonT(30) DEF referrer_cut, rest
<1>5. q = rest - p
   BY Zenon DEF registrar_cut, rest
<1>. HIDE DEF p, q
<1>6. q \in Nat
   BY <1>3, <1>4, <1>5, SMTT(30), Z3T(30)
<1>7. Kept(a, r, fee) =   (IF Lifetime[a] \in Special THEN 0 ELSE l)
                        + (IF r \in Special THEN 0 ELSE p)
                        + (IF Registrar[a] \in Special THEN 0 ELSE q)
   BY Zenon DEF Kept, l, p, q
<1>8. Burned(a, r, fee) =   (IF Lifetime[a] \in Special THEN l ELSE 0)
                          + (IF r \in Special THEN p ELSE 0)
                          + (IF Registrar[a] \in Special THEN q ELSE 0)
   BY Zenon DEF Burned, l, p, q
<1>9. Kept(a, r, fee) \in Nat
   BY <1>2, <1>4, <1>6, <1>7, SMTT(30), Z3T(30)
<1>10. Burned(a, r, fee) \in Nat
   BY <1>2, <1>4, <1>6, <1>8, SMTT(30), Z3T(30)
<1>. QED BY <1>2, <1>9, <1>10, ZenonT(30) DEF n

\* So are their sums over all accounts.
LEMMA ProcessedNat ==
   ASSUME TypeOK, NEW r
   PROVE  /\ process_fees(r).network \in Nat /\ process_fees(r).kept \in Nat
          /\ process_fees(r).burned \in Nat
<1>. DEFINE N == NetworkCuts
            K == KeptCuts(r)
            B == BurnedCuts(r)
            S(g) == SumFunctionOnSet(g, Account)
<1>1. /\ process_fees(r).network = S(N) /\ process_fees(r).kept = S(K)
      /\ process_fees(r).burned = S(B)
   BY Zenon DEF process_fees, NetworkCuts, KeptCuts, BurnedCuts, SumFunction
<1>2. ASSUME NEW a \in Account PROVE N[a] \in Nat /\ K[a] \in Nat /\ B[a] \in Nat
   <2>. DEFINE x == pending[a].fees
               y == pending[a].vested
   <2>1. x \in Nat /\ y \in Nat
      BY Zenon DEF TypeOK
   <2>2. /\ N[a] = network_cut(x) + network_cut(y)
         /\ K[a] = Kept(a, r[a], x) + Kept(a, r[a], y)
         /\ B[a] = Burned(a, r[a], x) + Burned(a, r[a], y)
      BY Zenon DEF NetworkCuts, KeptCuts, BurnedCuts
   <2>. HIDE DEF N, K, B, x, y
   <2>3. network_cut(x) \in Nat /\ Kept(a, r[a], x) \in Nat /\ Burned(a, r[a], x) \in Nat
      BY <2>1, CutsNat, ZenonT(30)
   <2>4. network_cut(y) \in Nat /\ Kept(a, r[a], y) \in Nat /\ Burned(a, r[a], y) \in Nat
      BY <2>1, CutsNat, ZenonT(30)
   <2>. QED BY <2>2, <2>3, <2>4, SMTT(30), Z3T(30)
<1>. HIDE DEF N, K, B
<1>3. S(N) \in Nat /\ S(K) \in Nat /\ S(B) \in Nat
   BY <1>2, Accounts, SumType, ZenonT(30)
<1>. QED BY <1>1, <1>3, ZenonT(30)

\* The shares of the accumulated fees of blinded transfers, and what their payment leaves
\* in the balances.
LEMMA SplitNat ==
   ASSUME TypeOK
   PROVE  /\ SumFunction([i \in FbaId |-> fba_network(i)]) \in Nat
          /\ split_fba_balance \in [Account -> [Asset -> Nat]]
<1>. DEFINE nn == [i \in FbaId |-> fba_network(i)]
            bb == [i \in FbaId |-> fba_buyback(i)]
            ii == [i \in FbaId |-> fba_issuer(i)]
            S(g) == SumFunctionOnSet(g, FbaId)
<1>1. ASSUME NEW i \in FbaId PROVE nn[i] \in Nat /\ bb[i] \in Nat /\ ii[i] \in Nat
   <2>. DEFINE x == fba[i]
   <2>1. x \in Nat
      BY Zenon DEF TypeOK
   <2>2. /\ bb[i] = (x * 60) \div 100 /\ ii[i] = (x * 20) \div 100
         /\ nn[i] = IF configured THEN x - (bb[i] + ii[i]) ELSE x
      BY Zenon DEF fba_network, fba_buyback, fba_issuer, cut_fee
   <2>. HIDE DEF x, nn, bb, ii
   <2>. QED BY <2>1, <2>2, SMTT(30), Z3T(30)
<1>. HIDE DEF nn, bb, ii
<1>2. IsFiniteSet(FbaId)
   BY FbaFinite, Zenon
<1>3. S(nn) \in Nat /\ S(bb) \in Nat /\ S(ii) \in Nat
   BY <1>1, <1>2, SumType, ZenonT(30)
<1>4. /\ SumFunction(nn) = S(nn)
      /\ split_fba_balance = IF configured
                             THEN Adjusted(Adjusted(balance, Buyback, Old, S(bb)), Designer, Old, S(ii))
                             ELSE balance
   BY Zenon DEF split_fba_balance, SumFunction, nn, bb, ii
<1>5. balance \in [Account -> [Asset -> Nat]]
   BY Zenon DEF TypeOK
<1>6. ASSUME NEW bal \in [Account -> [Asset -> Nat]], NEW a \in Account, NEW x \in Nat
      PROVE  Adjusted(bal, a, Old, x) \in [Account -> [Asset -> Nat]]
   BY Accounts, SMTT(30), Z3T(30) DEF Adjusted
<1>7. split_fba_balance \in [Account -> [Asset -> Nat]]
   BY <1>3, <1>4, <1>5, <1>6, Accounts, ZenonT(30)
<1>. QED BY <1>3, <1>4, <1>7, ZenonT(30) DEF nn

\* What accounts hold is not negative when no balance is.
LEMMA CoreInNat ==
   ASSUME NEW bal \in [Account -> [Asset -> Nat]]
   PROVE  CoreIn(bal) \in Nat
<1>1. ASSUME NEW s \in Asset PROVE Total(bal, s) \in Nat
   <2>. DEFINE f == [a \in Account |-> bal[a][s]]
   <2>1. \A a \in Account : f[a] \in Nat
      BY Zenon
   <2>. HIDE DEF f
   <2>2. SumFunctionOnSet(f, Account) \in Nat
      BY <2>1, Accounts, SumType, ZenonT(30)
   <2>. QED BY <2>2, Zenon DEF f, Total
<1>. QED BY <1>1, Accounts, SMTT(30), Z3T(30) DEF CoreIn

\* Maintenance.  The reserve is not negative, for the supply is within its maximum and
\* the shares taken from it are not negative; the budget is at most the reserve, so the
\* new supply is within the maximum.  That it is not negative either is in the books.
LEMMA MaintenanceSound ==
   ASSUME Sound, Books', perform_chain_maintenance
   PROVE  Sound'
<1>1. TypeOK /\ Fits(dyn) /\ issuer[Old] = NoIssuer
   BY Zenon DEF Sound
<1>2. PICK r \in [Account -> Account] :
         /\ balance' = split_fba_balance
         /\ fba' = [i \in FbaId |-> 0]
         /\ vesting' = vesting + process_fees(r).kept
         /\ pending' = [a \in Account |-> [fees |-> 0, vested |-> 0]]
         /\ process_budget([dyn EXCEPT
               ![Core].current_supply = @ - SumFunction([i \in FbaId |-> fba_network(i)])
                                          - process_fees(r).burned,
               ![Core].accumulated_fees = @ + process_fees(r).network])
         /\ UNCHANGED <<issuer, locked, cleared, configured, reward_pool, staking_mode_on>>
   BY Zenon DEF perform_chain_maintenance
<1>. DEFINE N == process_fees(r).network
            K == process_fees(r).kept
            B == process_fees(r).burned
            left == SumFunction([i \in FbaId |-> fba_network(i)])
            dd == [dyn EXCEPT ![Core].current_supply = @ - left - B,
                              ![Core].accumulated_fees = @ + N]
            reserve == dd[Core].max_supply - dd[Core].current_supply
                          + dd[Core].accumulated_fees + witness_budget
            budget == LeastOf(Pay * Blocks, IF budgeted THEN reserve ELSE 0)
            delta == budget - dd[Core].accumulated_fees - witness_budget
            ee == [dd EXCEPT ![Core].current_supply = @ + delta, ![Core].accumulated_fees = 0]
<1>3. /\ balance' = split_fba_balance /\ fba' = [i \in FbaId |-> 0] /\ vesting' = vesting + K
      /\ pending' = [a \in Account |-> [fees |-> 0, vested |-> 0]]
      /\ UNCHANGED <<issuer, locked, cleared, configured, reward_pool, staking_mode_on>>
   BY <1>2, Zenon
<1>4. dyn' = ee /\ witness_budget' = budget /\ budgeted' = TRUE
   BY <1>2, ZenonT(30) DEF process_budget
<1>5. N \in Nat /\ K \in Nat /\ B \in Nat
   BY <1>1, ProcessedNat, ZenonT(30)
<1>6. left \in Nat /\ split_fba_balance \in [Account -> [Asset -> Nat]]
   BY <1>1, SplitNat, ZenonT(30)
<1>. HIDE DEF N, K, B, left
<1>7. /\ dyn \in [Asset -> Data] /\ dyn[Core] \in Data /\ DOMAIN dyn = Asset /\ Core \in Asset
      /\ Old \in Asset /\ Uia \in Asset /\ Core # Uia /\ Core # Old /\ dyn[Old].current_supply = 0
      /\ dyn[Core].current_supply <= dyn[Core].max_supply
   BY <1>1, Accounts, ZenonT(30) DEF Fits
<1>8. dd[Core] = [current_supply |-> dyn[Core].current_supply - left - B,
                  accumulated_fees |-> dyn[Core].accumulated_fees + N,
                  fee_pool |-> dyn[Core].fee_pool,
                  confidential_supply |-> dyn[Core].confidential_supply,
                  max_supply |-> dyn[Core].max_supply]
   BY <1>7, ZenonT(30) DEF Data
<1>9. DOMAIN dd = Asset /\ \A t \in Asset : t # Core => dd[t] = dyn[t]
   BY <1>7, Zenon
<1>. HIDE DEF dd
<1>. DEFINE c == dyn[Core].current_supply
            acc == dyn[Core].accumulated_fees
            max == dyn[Core].max_supply
            e == [current_supply |-> dd[Core].current_supply + delta,
                  accumulated_fees |-> 0,
                  fee_pool |-> dyn[Core].fee_pool,
                  confidential_supply |-> dyn[Core].confidential_supply,
                  max_supply |-> max]
<1>10. ee[Core] = e
   <2>1. dd[Core] \in Entry
      BY <1>5, <1>6, <1>7, <1>8, SMTT(30), Z3T(30) DEF Data, Entry
   <2>2. ee[Core] = [current_supply |-> dd[Core].current_supply + delta,
                     accumulated_fees |-> 0,
                     fee_pool |-> dd[Core].fee_pool,
                     confidential_supply |-> dd[Core].confidential_supply,
                     max_supply |-> dd[Core].max_supply]
      <3>. HIDE DEF delta
      <3>. QED BY <1>7, <1>9, <2>1, ZenonT(30) DEF Entry
   <2>3. /\ dd[Core].fee_pool = dyn[Core].fee_pool /\ dd[Core].max_supply = max
         /\ dd[Core].confidential_supply = dyn[Core].confidential_supply
      BY <1>8, SMTT(30), Z3T(30)
   <2>. HIDE DEF ee, delta, max
   <2>. QED BY <2>2, <2>3, ZenonT(30)
<1>11. ee = [t \in Asset |-> IF t = Core THEN e ELSE dyn[t]]
   BY <1>7, <1>9, <1>10, ZenonT(30)
<1>12. c \in Nat /\ acc \in Nat /\ max \in Nat /\ c <= max /\ witness_budget \in Nat
   BY <1>1, <1>7, ZenonT(30) DEF Data, TypeOK
<1>13. /\ dd[Core].max_supply = max /\ dd[Core].current_supply = c - left - B
       /\ dd[Core].accumulated_fees = acc + N
   BY <1>8, SMTT(30), Z3T(30)
<1>14. reserve = max - (c - left - B) + (acc + N) + witness_budget
   BY <1>13, Zenon
<1>15. delta = budget - (acc + N) - witness_budget
   BY <1>13, ZenonT(30)
<1>. HIDE DEF reserve
<1>16. reserve \in Nat
   BY <1>5, <1>6, <1>12, <1>14, SMTT(30), Z3T(30)
<1>17. budget \in Nat /\ budget <= reserve
   <2>1. Pay * Blocks \in Nat
      BY TreasuryAssumption, SMTT(30), Z3T(30)
   <2>. QED BY <1>16, <2>1, SMTT(30), Z3T(30) DEF LeastOf
<1>. HIDE DEF budget, delta, ee
<1>18. dd[Core].current_supply + delta \in Int /\ dd[Core].current_supply + delta <= max
   <2>. HIDE DEF c, acc, max
   <2>. QED BY <1>5, <1>6, <1>12, <1>13, <1>14, <1>15, <1>16, <1>17, SMTT(30), Z3T(30)
<1>. DEFINE v == dd[Core].current_supply + delta
<1>19. v \in Nat
   <2>1. CoreOf(ee) = v - 0 - dyn[Core].confidential_supply
                        + 0 - dyn[Old].accumulated_fees - dyn[Old].confidential_supply
                        - dyn[Old].fee_pool - dyn[Core].fee_pool - dyn[Uia].fee_pool
      <3>1. ee[Core] = e /\ ee[Old] = dyn[Old] /\ ee[Uia] = dyn[Uia]
         BY <1>7, <1>11, ZenonT(30)
      <3>2. dyn[Old].current_supply = 0
         BY <1>7, ZenonT(30)
      <3>. HIDE DEF v
      <3>. QED BY <3>1, <3>2, SMTT(30), Z3T(30) DEF CoreOf, v
   <2>2. dyn[Old] \in Data /\ dyn[Uia] \in Data
      BY <1>7, ZenonT(30)
   <2>3. CoreIn(balance') \in Nat
      BY <1>3, <1>6, CoreInNat, ZenonT(30)
   <2>4. PendingTotal(pending') = 0
      BY <1>3, NothingPending, ZenonT(30)
   <2>5. FbaTotal(fba') = 0
      <3>1. \A i \in FbaId : fba'[i] = 0
         BY <1>3, ZenonT(30)
      <3>2. /\ "transfer_to_blind" \in FbaId /\ "blind_transfer" \in FbaId
            /\ "transfer_from_blind" \in FbaId
         BY Zenon DEF FbaId
      <3>3. FbaTotal(fba') = fba'["transfer_to_blind"] + fba'["blind_transfer"]
                                + fba'["transfer_from_blind"]
         BY <3>1, FbaSum, SMTT(30), Z3T(30)
      <3>. QED BY <3>1, <3>2, <3>3, SMTT(30), Z3T(30)
   <2>6. Elsewhere' \in Nat
      <3>1. Elsewhere' = (vesting + K) + locked + budget + reward_pool + 0 + cleared
         BY <1>3, <1>4, <2>5, ZenonT(30) DEF Elsewhere
      <3>2. vesting \in Nat /\ locked \in Nat /\ reward_pool \in Nat /\ cleared \in Nat
         BY <1>1, ZenonT(30) DEF TypeOK
      <3>. QED BY <1>5, <1>17, <3>1, <3>2, SMTT(30), Z3T(30)
   <2>7. CoreOf(ee) - CoreIn(balance') - 0 = Elsewhere'
      BY <1>4, <2>4, ZenonT(30) DEF Books, Free
   <2>. DEFINE o1 == dyn[Old].accumulated_fees
               o2 == dyn[Old].confidential_supply
               o3 == dyn[Old].fee_pool
               o4 == dyn[Core].fee_pool
               o5 == dyn[Uia].fee_pool
               o6 == dyn[Core].confidential_supply
   <2>8. o1 \in Nat /\ o2 \in Nat /\ o3 \in Nat /\ o4 \in Nat /\ o5 \in Nat /\ o6 \in Nat
      BY <1>7, <2>2, ZenonT(30) DEF Data
   <2>9. CoreOf(ee) = v - 0 - o6 + 0 - o1 - o2 - o3 - o4 - o5
      BY <2>1, Zenon
   <2>. DEFINE held == CoreIn(balance')
               other == Elsewhere'
               free == CoreOf(ee)
   <2>10. v \in Int /\ held \in Nat /\ other \in Nat /\ free - held - 0 = other
      BY <1>18, <2>3, <2>6, <2>7, ZenonT(30)
   <2>11. free = v - 0 - o6 + 0 - o1 - o2 - o3 - o4 - o5
      BY <2>9, ZenonT(30)
   <2>. HIDE DEF v, o1, o2, o3, o4, o5, o6, held, other, free
   <2>. QED BY <2>8, <2>10, <2>11, SMTT(30), Z3T(30)
<1>20. Fits(ee)
   <2>. HIDE DEF v
   <2>1. e \in Data
      BY <1>7, <1>12, <1>19, ZenonT(30) DEF Data, v
   <2>2. e.current_supply <= e.max_supply /\ (Core = Old => e.current_supply = 0)
      BY <1>7, <1>18, ZenonT(30)
   <2>3. Fits(dyn) /\ Core \in Asset
      BY <1>1, <1>7, ZenonT(30)
   <2>. HIDE DEF e, ee
   <2>. QED BY <1>11, <2>1, <2>2, <2>3, DataSet, ZenonT(30)
<1>21. TypeOK'
   <2>1. vesting' \in Nat
      BY <1>1, <1>3, <1>5, SMTT(30), Z3T(30) DEF TypeOK
   <2>2. pending' \in [Account -> [fees : Nat, vested : Nat]] /\ fba' \in [FbaId -> Nat]
      BY <1>3, ZenonT(30)
   <2>3. dyn' \in [Asset -> Data]
      BY <1>4, <1>20, ZenonT(30) DEF Fits
   <2>. QED BY <1>1, <1>3, <1>4, <1>6, <1>17, <2>1, <2>2, <2>3, SMTT(30), Z3T(30) DEF TypeOK
<1>22. Fits(dyn')
   BY <1>4, <1>20, ZenonT(30)
<1>23. issuer'[Old] = NoIssuer
   BY <1>1, <1>3, ZenonT(30)
<1>. QED BY <1>21, <1>22, <1>23, ZenonT(30) DEF Sound, Fits

-----------------------------------------------------------------------------
(* Types and supplies.                                                      *)

\* The genesis state, with a supply within the maximum.
LEMMA InitSound ==
   ASSUME Init, SupplyWithinMax
   PROVE  Sound
<1>. DEFINE c == Funds * Cardinality(User)
<1>1. Funds \in Nat /\ MaxSupply \in Nat /\ CoreIssuer \in User
   BY TreasuryAssumption, Zenon
<1>2. Cardinality(User) \in Nat
   BY TreasuryAssumption, FS_CardinalityType, ZenonT(30)
<1>3. c \in Nat
   BY <1>1, <1>2, SMTT(30), Z3T(30)
<1>4. dyn = [s \in Asset |-> [current_supply |-> IF s = Core THEN c ELSE 0,
                              accumulated_fees |-> 0, fee_pool |-> 0,
                              confidential_supply |-> 0, max_supply |-> MaxSupply]]
   BY Zenon DEF Init
<1>. HIDE DEF c
<1>5. dyn \in [Asset -> Data] /\ dyn[Old].current_supply = 0
   BY <1>1, <1>3, <1>4, Accounts, ZenonT(30) DEF Data
<1>6. Fits(dyn)
   BY <1>5, Zenon DEF Fits, SupplyWithinMax
<1>7. balance \in [Account -> [Asset -> Nat]]
   BY <1>1, Zenon DEF Init
<1>8. issuer \in [Asset -> User \cup {NoIssuer}] /\ issuer[Old] = NoIssuer
   BY <1>1, Accounts, ZenonT(30) DEF Init
<1>9. /\ pending \in [Account -> [fees : Nat, vested : Nat]] /\ fba \in [FbaId -> Nat]
      /\ {vesting, locked, witness_budget, reward_pool, cleared} \subseteq Nat
   BY DEF Init
<1>10. {configured, staking_mode_on, budgeted} \subseteq BOOLEAN
   BY Zenon DEF Init
<1>. QED BY <1>5, <1>6, <1>7, <1>8, <1>9, <1>10, ZenonT(30) DEF Sound, TypeOK

\* No step overdraws anything or takes a supply over its maximum, unless it lowers the
\* maximum below the supply.
LEMMA StepSound ==
   ASSUME Sound, Books', Prudent, [Next]_vars
   PROVE  Sound'
<1>. Shape'
   BY ZenonT(30) DEF Books
<1>1. ASSUME NEW a \in User, NEW f \in Fee, UserOperation(a, f) PROVE Sound'
   BY <1>1, MoveSound, CreateSound, IssueSound, ReserveSound, FundSound, UpdateSound,
      ClaimSound, BlindsSound, SMTT(30), Z3T(30)
   DEF UserOperation
<1>2. ASSUME NEW c \in Configurations, set_configured(c) PROVE Sound'
   <2>1. configured' \in BOOLEAN
      BY <1>2, TreasuryAssumption, ZenonT(30) DEF set_configured
   <2>. QED BY <1>2, <2>1, ZenonT(30) DEF set_configured, Sound, TypeOK
<1>3. ASSUME UNCHANGED vars PROVE Sound'
   BY <1>3, ZenonT(30) DEF vars, chainVars, Sound, TypeOK
<1>. QED BY <1>1, <1>2, <1>3, WitnessSound, MaintenanceSound, SMTT(30), Z3T(30) DEF Next

\* The invariant of types and supplies.
LEMMA AlwaysSound == Spec /\ SupplyWithinMax /\ [][Prudent]_vars => []Sound
<1>1. Init /\ SupplyWithinMax => Sound
   BY InitSound, ZenonT(30)
<1>2. Sound /\ Books' /\ [Next]_vars /\ [Prudent]_vars => Sound'
   <2>1. ASSUME UNCHANGED vars PROVE Sound => Sound'
      BY <2>1, Zenon DEF vars, chainVars, Sound, TypeOK
   <2>. QED BY <2>1, StepSound, ZenonT(30)
<1>. QED BY <1>1, <1>2, AlwaysBooks, PTL DEF Spec

\* In a chain whose genesis supply is within its maximum, and whose issuers never set
\* max_supply below the supply, every balance, fee pool, accumulator, supply and budget
\* stays a natural number: no operation, cut, split, burn or budget overdraws one, for
\* any accounts, fees, amounts, rates and percentages.  Both hypotheses are needed:
\* neither the genesis state nor asset_update compares the two, and process_budget
\* makes a negative witness budget of a negative reserve.
THEOREM NothingOverdrawn == Spec /\ SupplyWithinMax /\ [][Prudent]_vars => []TypeOK
<1>1. Sound => TypeOK
   BY Zenon DEF Sound
<1>. QED BY <1>1, AlwaysSound, PTL

\* Under the same hypotheses asset_issue and process_budget keep every supply within its
\* maximum in all reachable states, though fees and burns lower the supply in between.
THEOREM SupplyStaysWithinMax == Spec /\ SupplyWithinMax /\ [][Prudent]_vars => []SupplyWithinMax
<1>1. Sound => SupplyWithinMax
   BY Zenon DEF Sound, Fits, SupplyWithinMax
<1>. QED BY <1>1, AlwaysSound, PTL
=============================================================================
