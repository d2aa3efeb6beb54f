\* A cluster of one node with restarts, kills and failed snapshots.
SPECIFICATION Spec
CONSTANTS
  Server = {a}
  Cmd = {v}
  NoOp = NoOp
  Nil = Nil
  Faults = {"crash", "writeError", "readError"}
  MaxElections = 4
  MaxLog = 6
  MaxCalls = 1
  MaxBoots = 4
INVARIANTS SoloCommits TermsOrdered
CHECK_DEADLOCK FALSE
