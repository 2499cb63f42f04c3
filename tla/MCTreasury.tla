------------------------------ MODULE MCTreasury ------------------------------
(***************************************************************************)
(* Instances of Treasury for TLC: one user, whose registrar is an account  *)
(* of the blockchain, and the account of blinded transfers.                *)
(***************************************************************************)
EXTENDS Treasury, TLC

MCLifetime == "u" :> "u" @@ "temp" :> "temp"
MCReferrer == "u" :> {"u", "temp"} @@ "temp" :> {"temp"}
MCRegistrar == "u" :> "temp" @@ "temp" :> "temp"
MCPercent == "network" :> 40 @@ "lifetime" :> 40 @@ "referrer" :> 50
=============================================================================
