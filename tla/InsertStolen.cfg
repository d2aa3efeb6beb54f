\* The proposed entry is replaced by another leader's.
SPECIFICATION Spec
CONSTANTS
  Call = {c}
  Unencodable = {}
  NoOp = NoOp
  Foreign = Foreign
  Slots = 1
  Churn = TRUE
  MaxLog = 3
  MaxTerms = 2
  MaxBoots = 0
INVARIANT AcknowledgedIsOwn
CHECK_DEADLOCK FALSE
