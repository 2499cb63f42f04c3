SPECIFICATION Spec
CONSTANTS
   a = a  b = b  c = c
   Witness <- MCThree
   ActiveSets <- MCChange
   Params <- MCParams
   Genesis = 5
   MaxUndo = 20
   Window = 2
   MaxTime = 15
   MaxMiss = 4
INVARIANTS TypeOK SlotInverse MaintenanceAhead SlotCredit ScheduleFresh LibQuorum LibKeepsUp
