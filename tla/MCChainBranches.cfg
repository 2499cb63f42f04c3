SPECIFICATION FairSpec
CONSTANTS
   Block <- MCFour
   Genesis = "genesis"
   NoBlock = NoBlock
   Parent <- MCFourParent
   Num <- MCFourNum
   Producer <- MCFourProducer
   Valid <- MCFourBadD
   Witness = {1, 2, 3, 4}
   Nesting = {1}
   MinUndoHistory = 10
   MaxUndoHistory = 10000
   UndoPoint = 50
   FlushPoint = 10000
   StateOf <- MCStateOf
   MaxRestarts = 0
INVARIANTS StateMatchesHead AdoptsHighest UndoReachesIrreversible UndoFollowsChain PushUnwinds RestoreApplies 
PROPERTY ThreadReturns
