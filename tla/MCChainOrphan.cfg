SPECIFICATION FairSpec
CONSTANTS
   Block <- MCThree
   Genesis = "genesis"
   NoBlock = NoBlock
   Parent <- MCThreeParent
   Num <- MCThreeNum
   Producer <- MCThreeProducer
   Valid <- MCThreeInvalid
   Witness = {1, 2, 3, 4}
   Nesting = {1}
   MinUndoHistory = 10
   MaxUndoHistory = 10000
   UndoPoint = 50
   FlushPoint = 10000
   StateOf <- MCStateOf
   MaxRestarts = 0
INVARIANT LinkedTree
