SPECIFICATION Spec
CONSTANTS
   Block <- MCBlock
   Genesis = "genesis"
   NoBlock = NoBlock
   Parent <- MCParent
   Num <- MCNum
   Producer <- MCProducer
   Valid <- MCBlock
   Witness = {1, 2, 3, 4}
   Nesting = {1}
   MinUndoHistory = 10
   MaxUndoHistory = 10000
   UndoPoint = 1
   FlushPoint = 2
   StateOf <- MCStateOf
   MaxRestarts = 2
INVARIANTS TypeOK StateMatchesHead LogHoldsChain UndoAboveFlushed
 
