--------------------------- MODULE TreasuryProofs ---------------------------
(***************************************************************************)
(* The supplies are what accounts, pools and accumulators hold, after      *)
(* every operation and every maintenance.  The books and most of the       *)
(* operations are in TreasuryBooks; here are creation and update of the    *)
(* assets, the blinded transfers, the pay of the witnesses, the            *)
(* maintenance, and the theorems.                                          *)
(***************************************************************************)
EXTENDS TreasuryBooks

-----------------------------------------------------------------------------
(* The assets, and blinded transfers. *)

\* What an update takes out of the pool of the core asset is counted as cleared.
LEMMA UpdateKeeps ==
   ASSUME Books, NEW a \in User, NEW f \in Fee, NEW s \in Asset, NEW x \in NewMax,
          NEW b \in User, asset_update(a, s, x, b, f)
   PROVE  Books'
<1>. DEFINE ee == convert_fee(f)
            pool == IF s = Core THEN ee[s].fee_pool ELSE 0
            dd == [ee EXCEPT ![s].max_supply = x, ![s].fee_pool = @ - pool]
            z == 0
<1>1. /\ a = issuer[s] /\ issuer' = [issuer EXCEPT ![s] = b]
      /\ apply(a, f, balance, dd) /\ cleared' = cleared + pool
      /\ UNCHANGED <<vesting, locked, fba>>
   BY Zenon DEF asset_update
<1>2. /\ balance \in Ledger /\ ee \in Book /\ CoreOf(ee) \in Int /\ IssuedOf(ee) \in Int
      /\ CoreIn(balance) \in Int /\ IssuedIn(balance) \in Int
      /\ issuer[Uia] = NoIssuer => ee[Uia].fee_pool = 0
      /\ vesting \in Int /\ locked \in Int /\ cleared \in Int
      /\ issuer \in [Asset -> User \cup {NoIssuer}]
   BY <1>1, Before, Zenon DEF apply, prepare_fee
<1>. HIDE DEF ee
<1>3. /\ ee[s] \in Entry /\ DOMAIN ee = Asset /\ ee[s].fee_pool \in Int
      /\ pool \in Int /\ x \in Int /\ Core # Uia
   BY <1>2, TreasuryAssumption, Accounts DEF Book, Entry
<1>. HIDE DEF pool
<1>4. dd[s] = [current_supply |-> ee[s].current_supply,
               accumulated_fees |-> ee[s].accumulated_fees,
               fee_pool |-> ee[s].fee_pool - pool,
               confidential_supply |-> ee[s].confidential_supply,
               max_supply |-> x]
   BY <1>3, Zenon DEF Entry
<1>5. /\ dd[s] \in Entry
      /\ dd[s].current_supply = ee[s].current_supply + 0
      /\ dd[s].accumulated_fees = ee[s].accumulated_fees + 0
      /\ dd[s].fee_pool = ee[s].fee_pool + (0 - pool)
      /\ dd[s].confidential_supply = ee[s].confidential_supply + 0
   BY <1>3, <1>4 DEF Entry
<1>6. dd \in Book /\ \A t \in Asset : t # s => dd[t] = ee[t]
   BY <1>2, <1>3, <1>5, Zenon DEF Book
<1>7. CoreOf(dd) = CoreOf(ee) + pool /\ IssuedOf(dd) = IssuedOf(ee) + z
   <2>. HIDE DEF dd
   <2>1. /\ CoreOf(dd) = CoreOf(ee) + IF s = Uia THEN 0 - (0 - pool) ELSE 0 - 0 - (0 - pool) - 0
         /\ IssuedOf(dd) = IssuedOf(ee) + IF s = Uia THEN 0 - 0 - 0 ELSE 0
      BY <1>2, <1>3, <1>5, <1>6, DataChange, SMTT(30), Z3T(30)
   <2>. QED BY <1>2, <1>3, <2>1, SMTT(30), Z3T(30)
<1>8. issuer' \in [Asset -> User \cup {NoIssuer}]
   BY <1>1, <1>2, Zenon
<1>9. issuer'[Uia] = NoIssuer => dd[Uia].fee_pool = 0
   <2>. SUFFICES ASSUME issuer'[Uia] = NoIssuer PROVE dd[Uia].fee_pool = 0
      BY Zenon
   <2>1. s # Uia
      BY <1>1, <1>2, TreasuryAssumption, Accounts, Zenon
   <2>2. issuer[Uia] = NoIssuer
      BY <1>1, <1>2, <2>1, Accounts, Zenon
   <2>. QED BY <1>2, <1>6, <2>1, <2>2, Accounts, Zenon
<1>. HIDE DEF dd
<1>10. vesting' + locked' + cleared' = vesting + locked + cleared + pool - z
   BY <1>1, <1>2, <1>3, SMTT(30), Z3T(30)
<1>11. vesting' \in Int /\ locked' \in Int /\ cleared' \in Int /\ fba' = fba
   BY <1>1, <1>2, <1>3, SMTT(30), Z3T(30)
<1>12. z \in Int /\ CoreIn(balance) = CoreIn(balance) + z /\ IssuedIn(balance) = IssuedIn(balance) + z
   BY <1>2
<1>. HIDE DEF z
<1>. QED BY <1>1, <1>2, <1>3, <1>6, <1>7, <1>8, <1>9, <1>10, <1>11, <1>12, ApplyKeeps, SMTT(30), Z3T(30) DEF ee

\* The fee of asset_create is split between the pending fees and the first fee pool of
\* the asset, which was empty; an odd unit goes to the pending fees.
LEMMA CreateKeeps ==
   ASSUME Books, NEW a \in User, NEW f \in Fee, asset_create(a, f)
   PROVE  Books'
<1>. DEFINE paid == f.amount - f.amount \div 2
            odd == f.amount % 2
            first == paid - odd
            new == Charged(balance, a, f)
            dd == [dyn EXCEPT ![Uia].fee_pool = first]
            pen == pay_fee(a, paid)
<1>1. /\ ~Exists(Uia) /\ f.asset = Core /\ balance' = new /\ pending' = pen
      /\ dyn' = dd /\ issuer' = [issuer EXCEPT ![Uia] = a]
      /\ UNCHANGED <<vesting, locked, fba, cleared, chainVars>>
   BY Zenon DEF asset_create
<1>2. Shape /\ a \in Account /\ Core \in Asset /\ Uia \in Asset /\ Core # Uia
   BY Accounts, Zenon DEF Books
<1>3. /\ f.amount \in Int /\ 0 - f.amount \in Int /\ paid \in Int /\ first \in Int
      /\ paid + first = f.amount
   <2>1. f.amount \in Nat
      BY FeeTypes, Zenon
   <2>. QED BY <2>1
<1>4. new \in Ledger /\ CoreIn(new) = CoreIn(balance) + (0 - f.amount) /\ IssuedIn(new) = IssuedIn(balance) + 0
   BY <1>1, <1>2, <1>3, AdjustedSums, ZenonT(30) DEF Charged, Shape
<1>5. dyn[Uia] \in Entry /\ dyn[Uia].fee_pool = 0
   BY <1>1, <1>2, Zenon DEF Exists, Shape, Book
<1>. HIDE DEF first
<1>6. dd \in Book /\ CoreOf(dd) = CoreOf(dyn) + (0 - first) /\ IssuedOf(dd) = IssuedOf(dyn)
   <2>1. /\ dd \in Book /\ CoreOf(dd) = CoreOf(dyn) + (dyn[Uia].fee_pool - first)
         /\ IssuedOf(dd) = IssuedOf(dyn)
      BY <1>2, <1>3, PoolMove, Zenon DEF Shape
   <2>. QED BY <1>5, <2>1, Zenon
<1>. HIDE DEF paid
<1>7. pen \in Waiting /\ PendingTotal(pen) = PendingTotal(pending) + paid
   BY <1>2, <1>3, PaySum, Zenon DEF Shape
<1>8. Elsewhere' = Elsewhere
   BY <1>1, Zenon DEF Elsewhere, chainVars
<1>9. /\ CoreOf(dyn) \in Int /\ CoreIn(balance) \in Int /\ PendingTotal(pending) \in Int
      /\ IssuedOf(dyn) \in Int /\ IssuedIn(balance) \in Int
   BY <1>2, BooksTypes, Zenon
<1>10. Free' = CoreOf(dd) - CoreIn(new) - PendingTotal(pen) /\ FreeIssued' = IssuedOf(dd) - IssuedIn(new)
   BY <1>1, Zenon DEF Free, FreeIssued
<1>. HIDE DEF dd, new, pen
<1>11. Free' = Free
   BY <1>3, <1>4, <1>6, <1>7, <1>9, <1>10, SMTT(30) DEF Free
<1>12. FreeIssued' = FreeIssued
   BY <1>4, <1>6, <1>9, <1>10 DEF FreeIssued
<1>13. Shape'
   <2>1. issuer'[Uia] # NoIssuer /\ issuer' \in [Asset -> User \cup {NoIssuer}]
      BY <1>1, <1>2, TreasuryAssumption, Zenon DEF Shape
   <2>2. /\ vesting' \in Int /\ locked' \in Int /\ cleared' \in Int /\ fba' \in [FbaId -> Int]
         /\ witness_budget' \in Int /\ reward_pool' \in Int
      BY <1>1, <1>2, Zenon DEF Shape, chainVars
   <2>3. balance' \in Ledger /\ dyn' \in Book /\ pending' \in Waiting
      BY <1>1, <1>4, <1>6, <1>7, Zenon
   <2>. QED BY <2>1, <2>2, <2>3, ZenonT(30) DEF Shape
<1>. QED BY <1>8, <1>11, <1>12, <1>13, Zenon DEF Books

\* There are three accumulators.
LEMMA FbaFinite == IsFiniteSet(FbaId)
<1>1. IsFiniteSet({"transfer_to_blind"})
   BY FS_Singleton, Zenon
<1>2. IsFiniteSet({"transfer_to_blind"} \cup {"blind_transfer"})
   BY <1>1, FS_AddElement, Zenon
<1>3. IsFiniteSet(({"transfer_to_blind"} \cup {"blind_transfer"}) \cup {"transfer_from_blind"})
   BY <1>2, FS_AddElement, Zenon
<1>4. FbaId = ({"transfer_to_blind"} \cup {"blind_transfer"}) \cup {"transfer_from_blind"}
   BY Zenon DEF FbaId
<1>. QED BY <1>3, <1>4, Zenon

\* The fee of a blinded transfer goes to an accumulator or to the pending fees.
LEMMA FbaPays ==
   ASSUME Shape, NEW i \in FbaId, NEW a \in Account, NEW f \in Fee, pay_fba_fee(i, a, f)
   PROVE  /\ fba' \in [FbaId -> Int] /\ pending' \in Waiting
          /\ PendingTotal(pending') + FbaTotal(fba') =
                PendingTotal(pending) + FbaTotal(fba) + core_fee(f)
<1>. DEFINE v == core_fee(f)
<1>1. v \in Int
   BY FeeTypes
<1>2. fba \in [FbaId -> Int] /\ pending \in Waiting
   BY Zenon DEF Shape
<1>3. FbaTotal(fba) \in Int /\ PendingTotal(pending) \in Int
   BY <1>2, FbaSum, PendingType, ZenonT(30)
<1>4. CASE configured
   <2>. DEFINE new == [fba EXCEPT ![i] = @ + v]
   <2>1. fba' = new /\ pending' = pending
      BY <1>4, Zenon DEF pay_fba_fee
   <2>. HIDE DEF v
   <2>2. new \in [FbaId -> Int] /\ new[i] - fba[i] = v /\ \A j \in FbaId \ {i} : fba[j] = new[j]
      BY <1>1, <1>2
   <2>3. IsFiniteSet(FbaId)
      BY FbaFinite, Zenon
   <2>. HIDE DEF new
   <2>4. FbaTotal(new) = FbaTotal(fba) + v
      <3>1. \A x \in FbaId : fba[x] \in Int /\ new[x] \in Int
         BY <1>2, <2>2, Zenon
      <3>. QED BY <2>2, <2>3, <3>1, SumUpdate, ZenonT(30) DEF FbaTotal
   <2>. QED BY <1>1, <1>2, <1>3, <2>1, <2>2, <2>4, SMTT(30), Z3T(30) DEF v
<1>5. CASE ~configured
   <2>1. fba' = fba /\ pending' = pay_fee(a, v)
      BY <1>5, Zenon DEF pay_fba_fee
   <2>. HIDE DEF v
   <2>2. pay_fee(a, v) \in Waiting /\ PendingTotal(pay_fee(a, v)) = PendingTotal(pending) + v
      BY <1>1, <1>2, PaySum, Zenon
   <2>. QED BY <1>1, <1>2, <1>3, <2>1, <2>2 DEF v
<1>. QED BY <1>4, <1>5, Zenon

\* The blinded transfers: what they put into and take out of the blinded balances is
\* what leaves and enters the balances, but for the fee.
LEMMA BlindKeeps ==
   ASSUME Books, NEW f \in Fee, NEW i \in FbaId, NEW a \in Account, Exists(f.asset),
          NEW bal \in Ledger, NEW dd \in Book, NEW c \in Int, NEW e \in Int
   PROVE  /\ pay_fba_fee(i, a, f) /\ balance' = bal /\ dyn' = dd
          /\ CoreOf(dd) = CoreOf(convert_fee(f)) + c
          /\ CoreIn(bal) = CoreIn(balance) + (IF f.asset = Uia THEN c ELSE c - f.amount)
          /\ IssuedOf(dd) = IssuedOf(convert_fee(f)) + e
          /\ IssuedIn(bal) = IssuedIn(balance) + (IF f.asset = Uia THEN e - f.amount ELSE e)
          /\ issuer[Uia] = NoIssuer => dd[Uia].fee_pool = 0
          /\ UNCHANGED <<issuer, vesting, locked, cleared, chainVars>>
          => Books'
<1>. DEFINE v == core_fee(f)
            pen == PendingTotal(pending')
            acc == FbaTotal(fba')
            fee == IF f.asset = Uia THEN 0 ELSE f.amount
            own == IF f.asset = Uia THEN f.amount ELSE 0
<1>0. SUFFICES
         ASSUME pay_fba_fee(i, a, f), balance' = bal, dyn' = dd,
                CoreOf(dd) = CoreOf(convert_fee(f)) + c,
                CoreIn(bal) = CoreIn(balance) + (IF f.asset = Uia THEN c ELSE c - f.amount),
                IssuedOf(dd) = IssuedOf(convert_fee(f)) + e,
                IssuedIn(bal) = IssuedIn(balance) + (IF f.asset = Uia THEN e - f.amount ELSE e),
                issuer[Uia] = NoIssuer => dd[Uia].fee_pool = 0,
                UNCHANGED <<issuer, vesting, locked, cleared, chainVars>>
         PROVE  Books'
   BY Zenon
<1>1. Shape /\ Free = Elsewhere /\ FreeIssued = 0
   BY Zenon DEF Books
<1>2. f.amount \in Int /\ v \in Int /\ fee \in Int /\ own \in Int
   BY FeeTypes, SMTT(30)
<1>3. /\ fba' \in [FbaId -> Int] /\ pending' \in Waiting
      /\ pen + acc = PendingTotal(pending) + FbaTotal(fba) + v
   BY <1>0, <1>1, FbaPays, Zenon
<1>4. pen \in Int /\ acc \in Int /\ FbaTotal(fba) \in Int
   BY <1>1, <1>3, PendingType, FbaSum, Zenon DEF Shape
<1>5. /\ CoreOf(convert_fee(f)) = CoreOf(dyn) + (v - fee)
      /\ IssuedOf(convert_fee(f)) = IssuedOf(dyn) - own
   <2>1. /\ CoreOf(convert_fee(f)) = CoreOf(dyn) + IF f.asset = Uia THEN v ELSE 0
         /\ IssuedOf(convert_fee(f)) = IssuedOf(dyn) - own
      BY <1>1, ConvertSums, Zenon DEF Shape
   <2>2. v - fee = IF f.asset = Uia THEN v ELSE 0
      BY FeeTypes, Accounts DEF core_fee
   <2>. QED BY <2>1, <2>2, Zenon
<1>6. /\ CoreOf(dyn) \in Int /\ CoreIn(balance) \in Int /\ PendingTotal(pending) \in Int
      /\ IssuedOf(dyn) \in Int /\ IssuedIn(balance) \in Int
   BY <1>1, BooksTypes, Zenon
<1>7. Free' = CoreOf(dd) - CoreIn(bal) - pen /\ FreeIssued' = IssuedOf(dd) - IssuedIn(bal)
   BY <1>0, Zenon DEF Free, FreeIssued
<1>8. CoreIn(bal) = CoreIn(balance) + (c - fee) /\ IssuedIn(bal) = IssuedIn(balance) + (e - own)
   BY <1>0, <1>2, SMTT(30), Z3T(30)
<1>9. CoreOf(dd) = CoreOf(dyn) + (v - fee) + c /\ IssuedOf(dd) = IssuedOf(dyn) - own + e
   BY <1>0, <1>5, ZenonT(30)
<1>10. /\ vesting' = vesting /\ locked' = locked /\ cleared' = cleared
       /\ issuer' = issuer /\ witness_budget' = witness_budget /\ reward_pool' = reward_pool
   BY <1>0, Zenon DEF chainVars
<1>. HIDE DEF v, pen, acc, fee, own
<1>11. FreeIssued' = 0
   BY <1>1, <1>2, <1>6, <1>7, <1>8, <1>9, SMTT(30), Z3T(30) DEF FreeIssued
<1>12. Free' = Free + acc - FbaTotal(fba)
   <2>1. pen = PendingTotal(pending) + FbaTotal(fba) + v - acc
      BY <1>2, <1>3, <1>4, <1>6, SMTT(30), Z3T(30)
   <2>. QED BY <1>2, <1>4, <1>6, <1>7, <1>8, <1>9, <2>1, SMTT(30), Z3T(30) DEF Free
<1>13. Elsewhere' = Elsewhere + acc - FbaTotal(fba)
   <2>1. Elsewhere' = vesting + locked + witness_budget + reward_pool + acc + cleared
      BY <1>10, Zenon DEF Elsewhere, acc
   <2>2. /\ vesting \in Int /\ locked \in Int /\ cleared \in Int
         /\ witness_budget \in Int /\ reward_pool \in Int
      BY <1>1, Zenon DEF Shape
   <2>. QED BY <1>4, <2>1, <2>2, SMTT(30), Z3T(30) DEF Elsewhere
<1>14. Shape'
   BY <1>0, <1>1, <1>3, <1>10, ZenonT(30) DEF Shape
<1>. QED BY <1>1, <1>11, <1>12, <1>13, <1>14, ZenonT(30) DEF Books

\* transfer_to_blind moves the amount from a balance to the confidential supply.
LEMMA ToBlindKeeps ==
   ASSUME Books, NEW a \in User, NEW f \in Fee, NEW s \in Asset, NEW x \in Amounts,
          transfer_to_blind(a, s, x, f)
   PROVE  Books'
<1>. DEFINE taken == Adjusted(balance, a, s, 0 - x)
            bal == Charged(taken, a, f)
            ee == convert_fee(f)
            dd == [ee EXCEPT ![s].confidential_supply = @ + x]
            c == IF s = Uia THEN 0 ELSE 0 - x
            e == IF s = Uia THEN 0 - x ELSE 0
<1>1. /\ Exists(f.asset) /\ balance' = bal /\ dyn' = dd
      /\ pay_fba_fee("transfer_to_blind", a, f)
      /\ UNCHANGED <<issuer, vesting, locked, cleared, chainVars>>
   BY Zenon DEF transfer_to_blind, prepare_fee
<1>2. /\ a \in Account /\ balance \in Ledger /\ CoreIn(balance) \in Int /\ IssuedIn(balance) \in Int
      /\ ee \in Book /\ CoreOf(ee) \in Int /\ IssuedOf(ee) \in Int
      /\ issuer[Uia] = NoIssuer => ee[Uia].fee_pool = 0
   BY <1>1, Before, ZenonT(30)
<1>3. /\ x \in Int /\ 0 - x \in Int /\ c \in Int /\ e \in Int
      /\ f.asset \in Asset /\ f.amount \in Int /\ 0 - f.amount \in Int
   BY AmountType, FeeTypes, SMTT(30), Z3T(30)
<1>4. /\ taken \in Ledger /\ CoreIn(taken) = CoreIn(balance) + c
      /\ IssuedIn(taken) = IssuedIn(balance) + e
   BY <1>2, <1>3, AdjustedSums, SMTT(30), Z3T(30)
<1>. HIDE DEF taken, ee
<1>5. /\ bal \in Ledger
      /\ CoreIn(bal) = CoreIn(taken) + IF f.asset = Uia THEN 0 ELSE 0 - f.amount
      /\ IssuedIn(bal) = IssuedIn(taken) + IF f.asset = Uia THEN 0 - f.amount ELSE 0
   <2>1. taken \in Ledger
      BY <1>4, Zenon
   <2>. QED BY <1>2, <1>3, <2>1, AdjustedSums, SMTT(30), Z3T(30) DEF Charged
<1>6. ee[s] \in Entry /\ ee[s].confidential_supply \in Int /\ ee[s].confidential_supply + x \in Int
   BY <1>2, <1>3 DEF Book, Entry
<1>7. dd \in Book /\ CoreOf(dd) = CoreOf(ee) + c /\ IssuedOf(dd) = IssuedOf(ee) + e
   <2>. DEFINE v == ee[s].confidential_supply + x
   <2>1. ee[s].confidential_supply - v = 0 - x
      BY <1>3, <1>6
   <2>2. /\ dd \in Book
         /\ CoreOf(dd) = CoreOf(ee) + IF s = Uia THEN 0 ELSE ee[s].confidential_supply - v
         /\ IssuedOf(dd) = IssuedOf(ee) + IF s = Uia THEN ee[s].confidential_supply - v ELSE 0
      BY <1>2, <1>6, BlindMove, Zenon
   <2>. QED BY <2>1, <2>2, ZenonT(30)
<1>8. issuer[Uia] = NoIssuer => dd[Uia].fee_pool = 0
   BY <1>2, Accounts, ZenonT(30) DEF Book, Entry
<1>. HIDE DEF bal, dd, c, e
<1>9. /\ CoreIn(bal) = CoreIn(balance) + (IF f.asset = Uia THEN c ELSE c - f.amount)
      /\ IssuedIn(bal) = IssuedIn(balance) + (IF f.asset = Uia THEN e - f.amount ELSE e)
   BY <1>2, <1>3, <1>4, <1>5, SMTT(30), Z3T(30)
<1>10. "transfer_to_blind" \in FbaId
   BY Zenon DEF FbaId
<1>. QED BY <1>1, <1>2, <1>3, <1>5, <1>7, <1>8, <1>9, <1>10, BlindKeeps, ZenonT(30) DEF ee

\* blind_transfer and transfer_from_blind, which pay y besides the fee (y is 0 for the
\* first) to an account out of the blinded balances.
LEMMA FromBlindKeeps ==
   ASSUME Books, NEW u \in User, NEW f \in Fee, Exists(f.asset), NEW i \in FbaId,
          NEW bal \in Ledger, NEW y \in Nat
   PROVE  /\ CoreIn(bal) = CoreIn(balance) + (IF f.asset = Uia THEN 0 ELSE y)
          /\ IssuedIn(bal) = IssuedIn(balance) + (IF f.asset = Uia THEN y ELSE 0)
          /\ balance' = bal /\ pay_fba_fee(i, Temp, f)
          /\ dyn' = [convert_fee(f) EXCEPT ![f.asset].confidential_supply = @ - (y + f.amount)]
          /\ UNCHANGED <<issuer, vesting, locked, cleared, chainVars>>
          => Books'
<1>. DEFINE ee == convert_fee(f)
            s == f.asset
            dd == [ee EXCEPT ![s].confidential_supply = @ - (y + f.amount)]
            c == IF s = Uia THEN 0 ELSE y + f.amount
            e == IF s = Uia THEN y + f.amount ELSE 0
<1>0. SUFFICES
         ASSUME CoreIn(bal) = CoreIn(balance) + (IF s = Uia THEN 0 ELSE y),
                IssuedIn(bal) = IssuedIn(balance) + (IF s = Uia THEN y ELSE 0),
                balance' = bal, pay_fba_fee(i, Temp, f), dyn' = dd,
                UNCHANGED <<issuer, vesting, locked, cleared, chainVars>>
         PROVE  Books'
   BY Zenon
<1>1. /\ ee \in Book /\ CoreOf(ee) \in Int /\ IssuedOf(ee) \in Int
      /\ CoreIn(balance) \in Int /\ IssuedIn(balance) \in Int
      /\ issuer[Uia] = NoIssuer => ee[Uia].fee_pool = 0
   BY Before, Zenon
<1>2. s \in Asset /\ f.amount \in Int /\ c \in Int /\ e \in Int /\ y + f.amount \in Int /\ Temp \in Account
   BY FeeTypes, Accounts
<1>. HIDE DEF ee
<1>4. ee[s] \in Entry /\ ee[s].confidential_supply \in Int
   BY <1>1, <1>2, Zenon DEF Book, Entry
<1>5. dd \in Book /\ CoreOf(dd) = CoreOf(ee) + c /\ IssuedOf(dd) = IssuedOf(ee) + e
   <2>. DEFINE v == ee[s].confidential_supply - (y + f.amount)
   <2>1. ee[s].confidential_supply - v = y + f.amount /\ v \in Int
      BY <1>2, <1>4, SMTT(30), Z3T(30)
   <2>2. /\ dd \in Book
         /\ CoreOf(dd) = CoreOf(ee) + IF s = Uia THEN 0 ELSE ee[s].confidential_supply - v
         /\ IssuedOf(dd) = IssuedOf(ee) + IF s = Uia THEN ee[s].confidential_supply - v ELSE 0
      BY <1>1, <1>2, <2>1, BlindMove, ZenonT(30)
   <2>. QED BY <2>1, <2>2, ZenonT(30)
<1>6. issuer[Uia] = NoIssuer => dd[Uia].fee_pool = 0
   BY <1>1, Accounts, ZenonT(30) DEF Book, Entry
<1>7. /\ CoreIn(bal) = CoreIn(balance) + (IF s = Uia THEN c ELSE c - f.amount)
      /\ IssuedIn(bal) = IssuedIn(balance) + (IF s = Uia THEN e - f.amount ELSE e)
   BY <1>0, <1>1, <1>2, SMTT(30), Z3T(30)
<1>. HIDE DEF dd, c, e
<1>. QED BY <1>0, <1>2, <1>5, <1>6, <1>7, BlindKeeps, ZenonT(30) DEF ee

\* blind_transfer takes no more than its fee out of the confidential supply.
LEMMA BlindTransferKeeps ==
   ASSUME Books, NEW u \in User, NEW f \in Fee, blind_transfer(f)
   PROVE  Books'
<1>1. f.amount \in Int /\ 0 + f.amount = f.amount /\ "blind_transfer" \in FbaId /\ 0 \in Nat
   BY FeeTypes DEF FbaId
<1>2. /\ Exists(f.asset) /\ balance' = balance /\ pay_fba_fee("blind_transfer", Temp, f)
      /\ UNCHANGED <<issuer, vesting, locked, cleared, chainVars>>
      /\ dyn' = [convert_fee(f) EXCEPT ![f.asset].confidential_supply = @ - (0 + f.amount)]
   BY <1>1, Zenon DEF blind_transfer, prepare_fee
<1>3. balance \in Ledger /\ CoreIn(balance) \in Int /\ IssuedIn(balance) \in Int
   BY <1>2, Before, Zenon
<1>4. /\ CoreIn(balance) = CoreIn(balance) + (IF f.asset = Uia THEN 0 ELSE 0)
      /\ IssuedIn(balance) = IssuedIn(balance) + (IF f.asset = Uia THEN 0 ELSE 0)
   BY <1>3
<1>. QED BY <1>1, <1>2, <1>3, <1>4, FromBlindKeeps, ZenonT(30)

\* transfer_from_blind moves the amount from the confidential supply to a balance.
LEMMA TransferFromBlindKeeps ==
   ASSUME Books, NEW a \in User, NEW f \in Fee, NEW x \in Amounts, transfer_from_blind(a, x, f)
   PROVE  Books'
<1>. DEFINE bal == Adjusted(balance, a, f.asset, x)
<1>1. x \in Nat /\ x \in Int /\ a \in Account /\ f.asset \in Asset /\ "transfer_from_blind" \in FbaId
   BY AmountType, Accounts, FeeTypes, Zenon DEF FbaId
<1>2. /\ Exists(f.asset) /\ balance' = bal /\ pay_fba_fee("transfer_from_blind", Temp, f)
      /\ UNCHANGED <<issuer, vesting, locked, cleared, chainVars>>
      /\ dyn' = [convert_fee(f) EXCEPT ![f.asset].confidential_supply = @ - (x + f.amount)]
   BY Zenon DEF transfer_from_blind, prepare_fee
<1>3. balance \in Ledger
   BY <1>2, Before, Zenon
<1>4. /\ bal \in Ledger
      /\ CoreIn(bal) = CoreIn(balance) + (IF f.asset = Uia THEN 0 ELSE x)
      /\ IssuedIn(bal) = IssuedIn(balance) + (IF f.asset = Uia THEN x ELSE 0)
   BY <1>1, <1>3, AdjustedSums, Zenon
<1>. HIDE DEF bal
<1>. QED BY <1>1, <1>2, <1>4, FromBlindKeeps, ZenonT(30)

\* The pay of a witness leaves the budget for its vesting balance and the reward pool.
LEMMA WitnessKeeps ==
   ASSUME Books, update_signing_witness
   PROVE  Books'
<1>. DEFINE pay == LeastOf(Pay, witness_budget)
            part == (pay * Proportion) \div 1000
            rewards == IF staking_mode_on THEN LeastOf(part, pay) ELSE pay
<1>1. /\ witness_budget' = witness_budget - pay /\ vesting' = vesting + rewards
      /\ reward_pool' = reward_pool + (pay - rewards)
      /\ UNCHANGED <<balance, dyn, issuer, pending, locked, fba, cleared>>
   BY Zenon DEF update_signing_witness
<1>2. Shape /\ Free = Elsewhere /\ FreeIssued = 0
   BY Zenon DEF Books
<1>3. /\ vesting \in Int /\ locked \in Int /\ cleared \in Int
      /\ witness_budget \in Int /\ reward_pool \in Int /\ FbaTotal(fba) \in Int
   BY <1>2, FbaSum, ZenonT(30) DEF Shape
<1>4. pay \in Int /\ Proportion \in Int
   BY <1>3, TreasuryAssumption, SMTT(30), Z3T(30) DEF LeastOf
<1>. HIDE DEF pay
<1>5. pay * Proportion \in Int
   BY <1>4, SMTT(30), Z3T(30)
<1>6. part \in Int
   BY <1>5
<1>. HIDE DEF part
<1>7. rewards \in Int
   BY <1>4, <1>6, ZenonT(30) DEF LeastOf
<1>. HIDE DEF rewards
<1>8. Free' = Free /\ FreeIssued' = FreeIssued
   BY <1>1, Zenon DEF Free, FreeIssued
<1>9. Elsewhere' = Elsewhere
   BY <1>1, <1>3, <1>4, <1>7, SMTT(30), Z3T(30) DEF Elsewhere
<1>10. Shape'
   BY <1>1, <1>2, <1>3, <1>4, <1>7, SMTT(30), Z3T(30) DEF Shape
<1>. QED BY <1>2, <1>8, <1>9, <1>10, ZenonT(30) DEF Books

-----------------------------------------------------------------------------
(* Maintenance.                                                             *)

\* A cut of a fee is a number.
LEMMA CutType ==
   ASSUME NEW x \in Int, NEW p \in Int
   PROVE  cut_fee(x, p) \in Int
<1>1. x * p \in Int
   OBVIOUS
<1>. QED BY <1>1 DEF cut_fee

\* The network's part of a fee, the part kept for the receivers and the part burned
\* make up the fee, whatever the percentages and whoever the receivers are.
LEMMA FeeIsCut ==
   ASSUME NEW a, NEW r, NEW fee \in Int
   PROVE  /\ network_cut(fee) \in Int /\ Kept(a, r, fee) \in Int /\ Burned(a, r, fee) \in Int
          /\ network_cut(fee) + Kept(a, r, fee) + Burned(a, r, fee) = fee
<1>1. Percent["network"] \in Int /\ Percent["lifetime"] \in Int /\ Percent["referrer"] \in Int
   BY TreasuryAssumption, SMTT(30), Z3T(30)
<1>. DEFINE n == network_cut(fee)
            l == lifetime_cut(fee)
            p == referrer_cut(fee)
            q == registrar_cut(fee)
<1>2. n \in Int /\ l \in Int
   BY <1>1, CutType, ZenonT(30) DEF network_cut, lifetime_cut
<1>3. referral(fee) \in Int /\ referral(fee) = fee - n - l
   BY <1>2 DEF referral
<1>4. p \in Int
   BY <1>1, <1>3, CutType, ZenonT(30) DEF referrer_cut
<1>5. q = fee - n - l - p
   BY <1>3, Zenon DEF registrar_cut
<1>. HIDE DEF n, l, p, q
<1>6. Kept(a, r, fee) =   (IF Lifetime[a] \in Special THEN 0 ELSE l)
                        + (IF r \in Special THEN 0 ELSE p)
                        + (IF Registrar[a] \in Special THEN 0 ELSE q)
   BY Zenon DEF Kept, l, p, q
<1>7. Burned(a, r, fee) =   (IF Lifetime[a] \in Special THEN l ELSE 0)
                          + (IF r \in Special THEN p ELSE 0)
                          + (IF Registrar[a] \in Special THEN q ELSE 0)
   BY Zenon DEF Burned, l, p, q
<1>8. /\ n \in Int /\ Kept(a, r, fee) \in Int /\ Burned(a, r, fee) \in Int
      /\ n + Kept(a, r, fee) + Burned(a, r, fee) = fee
   BY <1>2, <1>4, <1>5, <1>6, <1>7, SMTT(30), Z3T(30)
<1>. QED BY <1>8, ZenonT(30) DEF n

\* What process_fees makes of the pending fees of both kinds, added up.
NetworkCuts == [a \in Account |-> network_cut(pending[a].fees) + network_cut(pending[a].vested)]
KeptCuts(r) == [a \in Account |-> Kept(a, r[a], pending[a].fees) + Kept(a, r[a], pending[a].vested)]
BurnedCuts(r) == [a \in Account |-> Burned(a, r[a], pending[a].fees) + Burned(a, r[a], pending[a].vested)]

\* Maintenance hands out exactly the pending fees.
LEMMA FeesAreProcessed ==
   ASSUME Shape, NEW r
   PROVE  /\ process_fees(r).network \in Int /\ process_fees(r).kept \in Int
          /\ process_fees(r).burned \in Int
          /\ process_fees(r).network + process_fees(r).kept + process_fees(r).burned =
                PendingTotal(pending)
<1>. DEFINE N == NetworkCuts
            K == KeptCuts(r)
            B == BurnedCuts(r)
            NK == [a \in Account |-> N[a] + K[a]]
            P == [a \in Account |-> pending[a].fees + pending[a].vested]
            S(g) == SumFunctionOnSet(g, Account)
<1>1. /\ process_fees(r).network = S(N) /\ process_fees(r).kept = S(K)
      /\ process_fees(r).burned = S(B)
   BY ZenonT(30) DEF process_fees, NetworkCuts, KeptCuts, BurnedCuts, SumFunction
<1>2. ASSUME NEW a \in Account
      PROVE  N[a] \in Int /\ K[a] \in Int /\ B[a] \in Int /\ N[a] + K[a] + B[a] = P[a]
   <2>. DEFINE x == pending[a].fees
               y == pending[a].vested
   <2>1. x \in Int /\ y \in Int
      BY Zenon DEF Shape, Waiting
   <2>2. /\ N[a] = network_cut(x) + network_cut(y) /\ P[a] = x + y
         /\ K[a] = Kept(a, r[a], x) + Kept(a, r[a], y)
         /\ B[a] = Burned(a, r[a], x) + Burned(a, r[a], y)
      BY Zenon DEF NetworkCuts, KeptCuts, BurnedCuts
   <2>. HIDE DEF N, K, B, P, x, y
   <2>3. /\ network_cut(x) \in Int /\ Kept(a, r[a], x) \in Int /\ Burned(a, r[a], x) \in Int
         /\ network_cut(x) + Kept(a, r[a], x) + Burned(a, r[a], x) = x
      BY <2>1, FeeIsCut, ZenonT(30)
   <2>4. /\ network_cut(y) \in Int /\ Kept(a, r[a], y) \in Int /\ Burned(a, r[a], y) \in Int
         /\ network_cut(y) + Kept(a, r[a], y) + Burned(a, r[a], y) = y
      BY <2>1, FeeIsCut, Zenon
   <2>. QED BY <2>1, <2>2, <2>3, <2>4, SMTT(30), Z3T(30)
<1>3. \A a \in Account : NK[a] = N[a] + K[a]
   BY Zenon
<1>. HIDE DEF N, K, B, NK, P
<1>4. \A a \in Account : N[a] \in Int /\ K[a] \in Int /\ NK[a] = N[a] + K[a]
   BY <1>2, <1>3, Zenon
<1>5. S(NK) = S(N) + S(K)
   BY <1>4, Accounts, SumAdd, ZenonT(30)
<1>6. \A a \in Account : NK[a] \in Int /\ B[a] \in Int /\ P[a] = NK[a] + B[a]
   BY <1>2, <1>3, SMTT(30), Z3T(30)
<1>7. S(P) = S(NK) + S(B)
   BY <1>6, Accounts, SumAdd, Zenon
<1>8. S(N) \in Int /\ S(K) \in Int /\ S(B) \in Int
   BY <1>2, Accounts, SumType, Zenon
<1>. HIDE DEF S
<1>9. S(N) + S(K) + S(B) = S(P)
   BY <1>5, <1>7, <1>8, Zenon
<1>10. S(P) = PendingTotal(pending)
   BY Zenon DEF S, P, PendingTotal
<1>. QED BY <1>1, <1>8, <1>9, <1>10, ZenonT(30)

\* The split of the FBA fees: what the buyback account and the issuer get in the
\* balances and what leaves the supply make up the accumulated fees.
LEMMA FbaIsSplit ==
   ASSUME Shape
   PROVE  LET left == SumFunction([i \in FbaId |-> fba_network(i)])
          IN  /\ left \in Int /\ split_fba_balance \in Ledger
              /\ CoreIn(split_fba_balance) - CoreIn(balance) + left = FbaTotal(fba)
              /\ IssuedIn(split_fba_balance) = IssuedIn(balance)
<1>. DEFINE bb == [i \in FbaId |-> fba_buyback(i)]
            ii == [i \in FbaId |-> fba_issuer(i)]
            nn == [i \in FbaId |-> fba_network(i)]
            k1 == "transfer_to_blind"
            k2 == "blind_transfer"
            k3 == "transfer_from_blind"
<1>1. \A i \in FbaId : fba[i] \in Int /\ bb[i] \in Int /\ ii[i] \in Int
   <2>. SUFFICES ASSUME NEW i \in FbaId
                 PROVE  fba[i] \in Int /\ bb[i] \in Int /\ ii[i] \in Int
      BY Zenon
   <2>1. fba[i] \in Int
      BY Zenon DEF Shape
   <2>2. cut_fee(fba[i], 60) \in Int /\ cut_fee(fba[i], 20) \in Int
      BY <2>1 DEF cut_fee
   <2>. QED BY <2>1, <2>2, Zenon DEF fba_buyback, fba_issuer
<1>2. \A i \in FbaId : nn[i] = IF configured THEN fba[i] - (bb[i] + ii[i]) ELSE fba[i]
   BY Zenon DEF fba_network
<1>3. /\ SumFunction(bb) = FbaTotal(bb) /\ SumFunction(ii) = FbaTotal(ii)
      /\ SumFunction(nn) = FbaTotal(nn)
   BY Zenon DEF SumFunction, FbaTotal
<1>4. split_fba_balance =
         IF configured
         THEN Adjusted(Adjusted(balance, Buyback, Old, SumFunction(bb)), Designer, Old, SumFunction(ii))
         ELSE balance
   BY Zenon DEF split_fba_balance
<1>. HIDE DEF bb, ii, nn
<1>5. \A i \in FbaId : nn[i] \in Int
   BY <1>1, <1>2, SMTT(30), Z3T(30)
<1>6. FbaTotal(bb) \in Int /\ FbaTotal(bb) = bb[k1] + bb[k2] + bb[k3]
   BY <1>1, FbaSum, ZenonT(30)
<1>7. FbaTotal(ii) \in Int /\ FbaTotal(ii) = ii[k1] + ii[k2] + ii[k3]
   BY <1>1, FbaSum, ZenonT(30)
<1>8. FbaTotal(nn) \in Int /\ FbaTotal(nn) = nn[k1] + nn[k2] + nn[k3]
   BY <1>5, FbaSum, ZenonT(30)
<1>9. FbaTotal(fba) \in Int /\ FbaTotal(fba) = fba[k1] + fba[k2] + fba[k3]
   BY <1>1, FbaSum, Zenon
<1>10. k1 \in FbaId /\ k2 \in FbaId /\ k3 \in FbaId
   BY Zenon DEF FbaId
<1>11. balance \in Ledger /\ CoreIn(balance) \in Int /\ IssuedIn(balance) \in Int
   BY BooksTypes, Zenon DEF Shape
<1>. HIDE DEF k1, k2, k3
<1>12. CASE configured
   <2>. DEFINE x == FbaTotal(bb)
               y == FbaTotal(ii)
               one == Adjusted(balance, Buyback, Old, x)
               two == Adjusted(one, Designer, Old, y)
   <2>1. split_fba_balance = two
      BY <1>3, <1>4, <1>12, ZenonT(30)
   <2>2. one \in Ledger /\ CoreIn(one) = CoreIn(balance) + x /\ IssuedIn(one) = IssuedIn(balance) + 0
      BY <1>6, <1>11, Accounts, AdjustedSums, SMTT(30), Z3T(30)
   <2>. HIDE DEF one
   <2>3. two \in Ledger /\ CoreIn(two) = CoreIn(one) + y /\ IssuedIn(two) = IssuedIn(one) + 0
      BY <1>7, <2>2, Accounts, AdjustedSums, SMTT(30), Z3T(30)
   <2>. HIDE DEF two
   <2>4. FbaTotal(nn) + x + y = FbaTotal(fba)
      <3>1. /\ nn[k1] = fba[k1] - (bb[k1] + ii[k1]) /\ nn[k2] = fba[k2] - (bb[k2] + ii[k2])
            /\ nn[k3] = fba[k3] - (bb[k3] + ii[k3])
         BY <1>2, <1>10, <1>12, ZenonT(30)
      <3>2. /\ fba[k1] \in Int /\ fba[k2] \in Int /\ fba[k3] \in Int
            /\ bb[k1] \in Int /\ bb[k2] \in Int /\ bb[k3] \in Int
            /\ ii[k1] \in Int /\ ii[k2] \in Int /\ ii[k3] \in Int
         BY <1>1, <1>10, Zenon
      <3>. QED BY <1>6, <1>7, <1>8, <1>9, <3>1, <3>2, SMTT(30), Z3T(30)
   <2>5. x \in Int /\ y \in Int
      BY <1>6, <1>7, ZenonT(30)
   <2>. HIDE DEF x, y
   <2>6. CoreIn(two) - CoreIn(balance) + FbaTotal(nn) = FbaTotal(fba)
      BY <1>8, <1>11, <2>2, <2>3, <2>4, <2>5, SMTT(30), Z3T(30)
   <2>7. IssuedIn(two) = IssuedIn(balance)
      BY <1>11, <2>2, <2>3, SMTT(30), Z3T(30)
   <2>. QED BY <1>3, <1>8, <2>1, <2>3, <2>6, <2>7, ZenonT(30) DEF nn
<1>13. CASE ~configured
   <2>1. split_fba_balance = balance
      BY <1>4, <1>13, Zenon
   <2>2. nn[k1] = fba[k1] /\ nn[k2] = fba[k2] /\ nn[k3] = fba[k3]
      BY <1>2, <1>10, <1>13, ZenonT(30)
   <2>3. FbaTotal(nn) = FbaTotal(fba)
      BY <1>8, <1>9, <2>2, ZenonT(30)
   <2>4. CoreIn(balance) - CoreIn(balance) + FbaTotal(nn) = FbaTotal(fba)
      BY <1>9, <1>11, <2>3, SMTT(30), Z3T(30)
   <2>. QED BY <1>3, <1>8, <1>11, <2>1, <2>4, ZenonT(30) DEF nn
<1>. QED BY <1>12, <1>13, ZenonT(30)

\* Nothing is pending after maintenance.
LEMMA NothingPending ==
   ASSUME NEW p, p = [a \in Account |-> [fees |-> 0, vested |-> 0]]
   PROVE  p \in Waiting /\ PendingTotal(p) = 0
<1>. DEFINE f == [a \in Account |-> p[a].fees + p[a].vested]
<1>1. p \in Waiting
   BY DEF Waiting
<1>2. \A a \in Account : f[a] = IF a \in {} THEN 0 ELSE 0
   BY SMTT(30), Z3T(30)
<1>. HIDE DEF f
<1>3. SumFunctionOnSet(f, Account) = 0 * Cardinality({})
   BY <1>2, Accounts, SumConstant, SMTT(30), Z3T(30)
<1>4. SumFunctionOnSet(f, Account) = 0
   BY <1>3, FS_EmptySet, SMTT(30), Z3T(30)
<1>. QED BY <1>1, <1>4, Zenon DEF f, PendingTotal

\* Maintenance: the share of the network and the burned cashback leave the supply, the
\* network's cuts go through the accumulated fees into the reserve, and the supply
\* counts the new budget in place of the old one.
LEMMA MaintenanceKeeps ==
   ASSUME Books, perform_chain_maintenance
   PROVE  Books'
<1>1. Shape /\ Free = Elsewhere /\ FreeIssued = 0
   BY Zenon DEF Books
<1>2. PICK r \in [Account -> Account] :
         /\ balance' = split_fba_balance
         /\ fba' = [i \in FbaId |-> 0]
         /\ vesting' = vesting + process_fees(r).kept
         /\ pending' = [a \in Account |-> [fees |-> 0, vested |-> 0]]
         /\ process_budget([dyn EXCEPT
               ![Core].current_supply = @ - SumFunction([i \in FbaId |-> fba_network(i)])
                                          - process_fees(r).burned,
               ![Core].accumulated_fees = @ + process_fees(r).network])
         /\ UNCHANGED <<issuer, locked, cleared, configured, reward_pool, staking_mode_on>>
   BY Zenon DEF perform_chain_maintenance
<1>. DEFINE N == process_fees(r).network
            K == process_fees(r).kept
            B == process_fees(r).burned
            left == SumFunction([i \in FbaId |-> fba_network(i)])
            dd == [dyn EXCEPT ![Core].current_supply = @ - left - B,
                              ![Core].accumulated_fees = @ + N]
            reserve == dd[Core].max_supply - dd[Core].current_supply
                          + dd[Core].accumulated_fees + witness_budget
            budget == LeastOf(Pay * Blocks, IF budgeted THEN reserve ELSE 0)
            delta == budget - dd[Core].accumulated_fees - witness_budget
            ee == [dd EXCEPT ![Core].current_supply = @ + delta, ![Core].accumulated_fees = 0]
            bal == split_fba_balance
<1>3. /\ balance' = bal /\ fba' = [i \in FbaId |-> 0] /\ vesting' = vesting + K
      /\ pending' = [a \in Account |-> [fees |-> 0, vested |-> 0]]
      /\ issuer' = issuer /\ locked' = locked /\ cleared' = cleared /\ reward_pool' = reward_pool
   BY <1>2, Zenon
<1>4. dyn' = ee /\ witness_budget' = budget
   BY <1>2, Zenon DEF process_budget
<1>5. N \in Int /\ K \in Int /\ B \in Int /\ N + K + B = PendingTotal(pending)
   BY <1>1, FeesAreProcessed, ZenonT(30)
<1>6. /\ left \in Int /\ bal \in Ledger
      /\ CoreIn(bal) - CoreIn(balance) + left = FbaTotal(fba)
      /\ IssuedIn(bal) = IssuedIn(balance)
   BY <1>1, FbaIsSplit, ZenonT(30)
<1>. HIDE DEF N, K, B, left, bal
<1>7. dyn \in Book /\ dyn[Core] \in Entry /\ DOMAIN dyn = Asset /\ Core \in Asset /\ Core # Uia
   BY <1>1, Accounts, Zenon DEF Shape, Book
<1>8. dd[Core] = [current_supply |-> dyn[Core].current_supply - left - B,
                  accumulated_fees |-> dyn[Core].accumulated_fees + N,
                  fee_pool |-> dyn[Core].fee_pool,
                  confidential_supply |-> dyn[Core].confidential_supply,
                  max_supply |-> dyn[Core].max_supply]
   BY <1>7, Zenon DEF Entry
<1>9. DOMAIN dd = Asset /\ \A t \in Asset : t # Core => dd[t] = dyn[t]
   BY <1>7, Zenon
<1>10. dd[Core] \in Entry
   BY <1>5, <1>6, <1>7, <1>8, SMTT(30), Z3T(30) DEF Entry
<1>. HIDE DEF dd
<1>11. witness_budget \in Int /\ budget \in Int /\ delta \in Int
   <2>1. witness_budget \in Int /\ Pay * Blocks \in Int
      BY <1>1, TreasuryAssumption, SMTT(30), Z3T(30) DEF Shape
   <2>2. reserve \in Int
      BY <1>10, <2>1, SMTT(30), Z3T(30) DEF Entry
   <2>. HIDE DEF reserve
   <2>3. budget \in Int
      BY <2>1, <2>2, SMTT(30), Z3T(30) DEF LeastOf
   <2>. HIDE DEF budget
   <2>. QED BY <1>10, <2>1, <2>3, SMTT(30), Z3T(30) DEF Entry
<1>. HIDE DEF budget, delta
<1>12. ee[Core] = [current_supply |-> dd[Core].current_supply + delta,
                   accumulated_fees |-> 0,
                   fee_pool |-> dd[Core].fee_pool,
                   confidential_supply |-> dd[Core].confidential_supply,
                   max_supply |-> dd[Core].max_supply]
   BY <1>7, <1>9, <1>10, ZenonT(30) DEF Entry
<1>13. ee[Core] \in Entry
   BY <1>10, <1>11, <1>12, SMTT(30), Z3T(30) DEF Entry
<1>14. ee \in Book /\ \A t \in Asset : t # Core => ee[t] = dyn[t]
   BY <1>7, <1>9, <1>13, ZenonT(30) DEF Book
<1>. HIDE DEF ee
<1>. DEFINE acc == dyn[Core].accumulated_fees
            c == 0 - left - B + delta
<1>15. acc \in Int /\ c \in Int /\ 0 - acc \in Int
   BY <1>5, <1>6, <1>7, <1>11, SMTT(30), Z3T(30) DEF Entry
<1>16. /\ ee[Core].current_supply = dyn[Core].current_supply + c
       /\ ee[Core].accumulated_fees = acc + (0 - acc)
       /\ ee[Core].fee_pool = dyn[Core].fee_pool + 0
       /\ ee[Core].confidential_supply = dyn[Core].confidential_supply + 0
   BY <1>5, <1>6, <1>7, <1>8, <1>11, <1>12, SMTT(30), Z3T(30) DEF Entry
<1>17. delta = budget - acc - N - witness_budget
   BY <1>5, <1>7, <1>8, <1>11, SMTT(30), Z3T(30) DEF Entry, delta
<1>18. CoreOf(ee) = CoreOf(dyn) + (c + acc) /\ IssuedOf(ee) = IssuedOf(dyn)
   <2>. HIDE DEF c
   <2>1. /\ CoreOf(ee) = CoreOf(dyn) + IF Core = Uia THEN 0 - 0 ELSE c - (0 - acc) - 0 - 0
         /\ IssuedOf(ee) = IssuedOf(dyn) + IF Core = Uia THEN c - (0 - acc) - 0 ELSE 0
      BY <1>7, <1>14, <1>15, <1>16, DataChange, SMTT(30), Z3T(30)
   <2>2. CoreOf(dyn) \in Int /\ IssuedOf(dyn) \in Int
      BY <1>7, DataTypes, ZenonT(30)
   <2>. QED BY <1>7, <1>15, <2>1, <2>2, SMTT(30), Z3T(30)
<1>19. /\ pending' \in Waiting /\ PendingTotal(pending') = 0
   BY <1>3, NothingPending, ZenonT(30)
<1>20. FbaTotal(fba') = 0 /\ fba' \in [FbaId -> Int]
   <2>1. \A i \in FbaId : fba'[i] = 0
      BY <1>3, ZenonT(30)
   <2>2. /\ "transfer_to_blind" \in FbaId /\ "blind_transfer" \in FbaId
         /\ "transfer_from_blind" \in FbaId
      BY Zenon DEF FbaId
   <2>3. FbaTotal(fba') = fba'["transfer_to_blind"] + fba'["blind_transfer"] + fba'["transfer_from_blind"]
      BY <2>1, FbaSum, SMTT(30), Z3T(30)
   <2>. QED BY <1>3, <2>1, <2>2, <2>3, SMTT(30), Z3T(30)
<1>21. /\ CoreOf(dyn) \in Int /\ CoreIn(balance) \in Int /\ PendingTotal(pending) \in Int
       /\ IssuedOf(dyn) \in Int /\ IssuedIn(balance) \in Int
       /\ Free = CoreOf(dyn) - CoreIn(balance) - PendingTotal(pending)
       /\ CoreIn(bal) \in Int
   BY <1>1, <1>6, BooksTypes, TotalType, ZenonT(30) DEF Free
<1>22. FreeIssued' = 0
   BY <1>1, <1>3, <1>4, <1>6, <1>18, ZenonT(30) DEF FreeIssued
<1>23. Free' = CoreOf(ee) - CoreIn(bal) - 0
   BY <1>3, <1>4, <1>19, ZenonT(30) DEF Free
<1>24. FbaTotal(fba) \in Int
   BY <1>1, FbaSum, ZenonT(30) DEF Shape
<1>25. Free' = Free + K - FbaTotal(fba) + budget - witness_budget
   <2>1. CoreIn(bal) = CoreIn(balance) + FbaTotal(fba) - left
      BY <1>6, <1>21, <1>24, SMTT(30), Z3T(30)
   <2>2. CoreOf(ee) = CoreOf(dyn) - left - B + budget - N - witness_budget
      BY <1>5, <1>6, <1>11, <1>15, <1>17, <1>18, <1>21, SMTT(30), Z3T(30)
   <2>3. PendingTotal(pending) = N + K + B
      BY <1>5, ZenonT(30)
   <2>. QED BY <1>5, <1>6, <1>11, <1>21, <1>23, <1>24, <2>1, <2>2, <2>3, SMTT(30), Z3T(30)
<1>26. Elsewhere' = Elsewhere + K - FbaTotal(fba) + budget - witness_budget
   <2>1. vesting \in Int /\ locked \in Int /\ cleared \in Int /\ reward_pool \in Int
      BY <1>1, Zenon DEF Shape
   <2>2. Elsewhere' = (vesting + K) + locked + budget + reward_pool + 0 + cleared
      BY <1>3, <1>4, <1>20, ZenonT(30) DEF Elsewhere
   <2>. QED BY <1>5, <1>11, <1>24, <2>1, <2>2, SMTT(30), Z3T(30) DEF Elsewhere
<1>27. Shape'
   <2>. vesting \in Int
      BY <1>1, ZenonT(30) DEF Shape
   <2>1. vesting' \in Int
      BY <1>3, <1>5, SMTT(30), Z3T(30)
   <2>2. dyn'[Uia] = dyn[Uia] /\ dyn' \in Book /\ balance' \in Ledger
      BY <1>3, <1>4, <1>6, <1>7, <1>14, Accounts, ZenonT(30)
   <2>. QED BY <1>1, <1>3, <1>4, <1>11, <1>19, <1>20, <2>1, <2>2, SMTT(30), Z3T(30) DEF Shape
<1>. QED BY <1>1, <1>22, <1>25, <1>26, <1>27, ZenonT(30) DEF Books

-----------------------------------------------------------------------------
(* Conservation.                                                            *)

\* The genesis state: the supply is what the users got.
LEMMA InitBooks ==
   ASSUME Init
   PROVE  Books
<1>. DEFINE c == Funds * Cardinality(User)
            e == [current_supply |-> 0, accumulated_fees |-> 0, fee_pool |-> 0,
                  confidential_supply |-> 0, max_supply |-> MaxSupply]
            g == [current_supply |-> c, accumulated_fees |-> 0, fee_pool |-> 0,
                  confidential_supply |-> 0, max_supply |-> MaxSupply]
<1>1. Funds \in Nat /\ MaxSupply \in Nat /\ IsFiniteSet(User) /\ User \subseteq Account
   BY TreasuryAssumption, Accounts, Zenon
<1>2. Cardinality(User) \in Nat
   BY <1>1, FS_CardinalityType, Zenon
<1>3. c \in Nat
   BY <1>1, <1>2, SMTT(30), Z3T(30)
<1>. HIDE DEF c
<1>4. /\ DOMAIN dyn = Asset /\ dyn[Core] = g /\ dyn[Old] = e /\ dyn[Uia] = e
      /\ dyn = [s \in Asset |-> dyn[s]]
   BY Accounts, Zenon DEF Init, c
<1>5. e \in Entry /\ g \in Entry
   BY <1>1, <1>3, SMTT(30), Z3T(30) DEF Entry
<1>6. dyn \in Book
   <2>1. \A s \in Asset : dyn[s] \in Entry
      BY <1>4, <1>5, Accounts, ZenonT(30)
   <2>. QED BY <1>4, <2>1, Zenon DEF Book
<1>7. CoreOf(dyn) = c /\ IssuedOf(dyn) = 0
   BY <1>3, <1>4, SMTT(30), Z3T(30) DEF CoreOf, IssuedOf
<1>8. balance = [a \in Account |-> [s \in Asset |-> IF a \in User /\ s = Core THEN Funds ELSE 0]]
   BY Zenon DEF Init
<1>9. balance \in Ledger
   BY <1>1, <1>8, SMTT(30), Z3T(30) DEF Ledger
<1>10. Total(balance, Core) = c
   <2>. DEFINE f == [a \in Account |-> balance[a][Core]]
   <2>1. \A a \in Account : f[a] = IF a \in User THEN Funds ELSE 0
      BY <1>8, Accounts, ZenonT(30)
   <2>. HIDE DEF f
   <2>2. SumFunctionOnSet(f, Account) = Funds * Cardinality(User)
      BY <1>1, <2>1, Accounts, SumConstant, SMTT(30), Z3T(30)
   <2>. QED BY <2>2, Zenon DEF f, Total, c
<1>11. ASSUME NEW s \in Asset, s # Core PROVE Total(balance, s) = 0
   <2>. DEFINE f == [a \in Account |-> balance[a][s]]
   <2>1. \A a \in Account : f[a] = IF a \in {} THEN 0 ELSE 0
      BY <1>8, <1>11, ZenonT(30)
   <2>. HIDE DEF f
   <2>2. SumFunctionOnSet(f, Account) = 0 * Cardinality({})
      BY <2>1, Accounts, SumConstant, SMTT(30), Z3T(30)
   <2>3. SumFunctionOnSet(f, Account) = 0
      BY <2>2, FS_EmptySet, SMTT(30), Z3T(30)
   <2>. QED BY <2>3, Zenon DEF f, Total
<1>12. CoreIn(balance) = c /\ IssuedIn(balance) = 0
   BY <1>3, <1>10, <1>11, Accounts, SMTT(30), Z3T(30) DEF CoreIn, IssuedIn
<1>13. pending \in Waiting /\ PendingTotal(pending) = 0
   BY NothingPending, Zenon DEF Init
<1>14. fba \in [FbaId -> Int] /\ FbaTotal(fba) = 0
   <2>1. fba \in [FbaId -> Int] /\ \A i \in FbaId : fba[i] = 0
      BY DEF Init
   <2>2. /\ "transfer_to_blind" \in FbaId /\ "blind_transfer" \in FbaId
         /\ "transfer_from_blind" \in FbaId
      BY Zenon DEF FbaId
   <2>3. FbaTotal(fba) = fba["transfer_to_blind"] + fba["blind_transfer"] + fba["transfer_from_blind"]
      BY <2>1, FbaSum, Zenon
   <2>. QED BY <2>1, <2>2, <2>3, SMTT(30), Z3T(30)
<1>15. vesting = 0 /\ locked = 0 /\ witness_budget = 0 /\ reward_pool = 0 /\ cleared = 0
   BY ZenonT(30) DEF Init
<1>16. Shape
   <2>1. issuer \in [Asset -> User \cup {NoIssuer}]
      BY TreasuryAssumption, ZenonT(30) DEF Init
   <2>2. dyn[Uia].fee_pool = 0
      BY <1>4, SMTT(30), Z3T(30)
   <2>. QED BY <1>6, <1>9, <1>13, <1>14, <1>15, <2>1, <2>2, SMTT(30), Z3T(30) DEF Shape
<1>17. Elsewhere = 0
   BY <1>14, <1>15, SMTT(30), Z3T(30) DEF Elsewhere
<1>18. Free = 0 /\ FreeIssued = 0
   BY <1>3, <1>7, <1>12, <1>13, SMTT(30), Z3T(30) DEF Free, FreeIssued
<1>. QED BY <1>16, <1>17, <1>18, Zenon DEF Books

\* Every step keeps the books.
LEMMA StepBooks ==
   ASSUME Books, [Next]_vars
   PROVE  Books'
<1>1. ASSUME NEW a \in User, NEW f \in Fee, UserOperation(a, f) PROVE Books'
   BY <1>1, TransferKeeps, CreateKeeps, IssueKeeps, ReserveKeeps, FundKeeps, UpdateKeeps,
      ClaimKeeps, LockKeeps, ToBlindKeeps, BlindTransferKeeps, TransferFromBlindKeeps, SMTT(30), Z3T(30)
   DEF UserOperation
<1>2. ASSUME NEW c, set_configured(c) PROVE Books'
   BY <1>2, Zenon DEF set_configured, Books, Shape, Free, FreeIssued, Elsewhere
<1>3. ASSUME UNCHANGED vars PROVE Books'
   BY <1>3, Zenon DEF vars, chainVars, Books, Shape, Free, FreeIssued, Elsewhere
<1>. QED BY <1>1, <1>2, <1>3, WitnessKeeps, MaintenanceKeeps, SMTT(30), Z3T(30) DEF Next

\* The books are balanced in every reachable state.
LEMMA AlwaysBooks == Spec => []Books
<1>1. Init => Books
   BY InitBooks, Zenon
<1>2. Books /\ [Next]_vars => Books'
   BY StepBooks, Zenon
<1>. QED BY <1>1, <1>2, PTL DEF Spec

\* No fee conversion, cut, split, burn, lock, blinded transfer, pay or budget creates or
\* loses core asset, for any accounts, fees, rates, percentages and budgets: what all
\* balances, pools and accumulators hold is what current_supply says.
THEOREM CoreIsConserved == Spec => []CoreConserved
<1>1. Books => CoreConserved
   BY BooksMeaning, ZenonT(30) DEF Books
<1>. QED BY <1>1, AlwaysBooks, PTL

\* The supply of the issued asset is what the accounts, its issuer's fees and the
\* blinded balances hold, for any number of accounts and any fees in the asset.
THEOREM IssuedIsConserved == Spec => []IssuedConserved
<1>1. Books => IssuedConserved
   BY BooksMeaning, Zenon DEF Books
<1>. QED BY <1>1, AlwaysBooks, PTL
=============================================================================
