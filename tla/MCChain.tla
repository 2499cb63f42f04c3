------------------------------- MODULE MCChain -------------------------------
(***************************************************************************)
(* Instances of Chain for TLC.  Branches a and b leave the first block; b  *)
(* ends one block higher.  With four witnesses the second lowest           *)
(* confirmation is irreversible: block 1 once a3 is applied.  Branches c   *)
(* and d leave block b2.                                                   *)
(***************************************************************************)
EXTENDS Chain, TLC

MCBlock == {"a1", "a2", "a3", "a4", "b2", "b3", "b4", "b5"}

MCThree == MCBlock \cup {"c3", "c4", "c5", "c6"}

MCParent == "a1" :> Genesis @@ "a2" :> "a1" @@ "a3" :> "a2" @@ "a4" :> "a3"
            @@ "b2" :> "a1" @@ "b3" :> "b2" @@ "b4" :> "b3" @@ "b5" :> "b4"

MCThreeParent == MCParent @@ "c3" :> "b2" @@ "c4" :> "c3" @@ "c5" :> "c4"
                 @@ "c6" :> "c5"

MCNum == Genesis :> 0 @@ "a1" :> 1 @@ "a2" :> 2 @@ "a3" :> 3 @@ "a4" :> 4
         @@ "b2" :> 2 @@ "b3" :> 3 @@ "b4" :> 4 @@ "b5" :> 5

MCThreeNum == MCNum @@ "c3" :> 3 @@ "c4" :> 4 @@ "c5" :> 5 @@ "c6" :> 6

MCProducer == "a1" :> 1 @@ "a2" :> 2 @@ "a3" :> 3 @@ "a4" :> 3
              @@ "b2" :> 4 @@ "b3" :> 1 @@ "b4" :> 4 @@ "b5" :> 1

MCThreeProducer == MCProducer @@ "c3" :> 3 @@ "c4" :> 2 @@ "c5" :> 4 @@ "c6" :> 1

MCFour == MCThree \cup {"d3", "d4", "d5"}

MCFourParent == MCThreeParent @@ "d3" :> "b2" @@ "d4" :> "d3" @@ "d5" :> "d4"

MCFourNum == MCThreeNum @@ "d3" :> 3 @@ "d4" :> 4 @@ "d5" :> 5

MCFourProducer == MCThreeProducer @@ "d3" :> 1 @@ "d4" :> 4 @@ "d5" :> 1

\* Three valid branches, and one that begins with an invalid block.
MCFourBadD == MCFour \ {"d3"}

\* A branch with an invalid block.
MCInvalid == MCBlock \ {"b3"}

\* Two branches that share an invalid block.
MCThreeInvalid == MCThree \ {"b2"}

MCStateOf[b \in Block \cup {Genesis}] ==
   IF b = Genesis THEN GenesisState ELSE Applied(MCStateOf[Parent[b]], b)
=============================================================================
