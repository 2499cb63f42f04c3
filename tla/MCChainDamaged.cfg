SPECIFICATION FairSpec
CONSTANTS
   Block <- MCBlock
   Genesis = "genesis"
   NoBlock = NoBlock
   Parent <- MCParent
   Num <- MCNum
   Producer <- MCProducer
   Valid <- MCInvalid
   Witness = {1, 2, 3, 4}
   Nesting = {1}
   MinUndoHistory = 10
   MaxUndoHistory = 10000
   UndoPoint = 0
   FlushPoint = 2
   StateOf <- MCStateOf
   MaxRestarts = 2
INVARIANT UndoFollowsChain
PROPERTY ThreadReturns
