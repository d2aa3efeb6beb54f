\* The entry is applied before its handler registers.
SPECIFICATION Spec
CONSTANTS
  Call = {c}
  Unencodable = {}
  NoOp = NoOp
  Foreign = Foreign
  Slots = 1
  Churn = FALSE
  MaxLog = 2
  MaxTerms = 1
  MaxBoots = 0
INVARIANT WaiterNotForgotten
CHECK_DEADLOCK FALSE
