SPECIFICATION FairSpec
CONSTANTS
   Block <- MCBlock
   Genesis = "genesis"
   NoBlock = NoBlock
   Parent <- MCParent
   Num <- MCNum
   Producer <- MCProducer
   Valid <- MCInvalid
   Witness = {1, 2, 3, 4}
   Nesting = {1}
   MinUndoHistory = 10
   MaxUndoHistory = 10000
   UndoPoint = 50
   FlushPoint = 10000
   StateOf <- MCStateOf
   MaxRestarts = 0
INVARIANT LogHoldsChain
