\* Two nodes, one of which restarts from its snapshot, with AppendEntries calls that overtake each other.
SPECIFICATION Spec
CONSTANTS
  Server = {a, b}
  Cmd = {v}
  NoOp = NoOp
  Nil = Nil
  Faults = {}
  MaxElections = 2
  MaxLog = 3
  MaxCalls = 2
  MaxBoots = 1
SYMMETRY Symmetry
INVARIANTS TypeOK OneVotePerTerm SentCoversCommit
PROPERTY ReplicatedLogSpec
CHECK_DEADLOCK FALSE
