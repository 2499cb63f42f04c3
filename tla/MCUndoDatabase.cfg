SPECIFICATION Spec
CONSTANTS
   Index = {x}
   MaxInstance = 2
   Value = {v, w}
   Null = Null
   Sizes = {2, 3}
   MaxSessions = 3
SYMMETRY Symmetry
INVARIANTS TypeOK SessionsBacked NoCausalViolation UndoRestores UndoNeverThrows
PROPERTIES ImplementsSnapshotStack
