\* Three nodes whose logs have diverged under two leaders, and a third election,
\* which the first of the two may win with a reply of its first leadership in flight.
SPECIFICATION RepairSpec
CONSTANTS
  Server = {a, b, c}
  Cmd = {v}
  NoOp = NoOp
  Nil = Nil
  Faults = {}
  MaxElections = 3
  MaxLog = 3
  MaxCalls = 2
  MaxBoots = 0
SYMMETRY Symmetry
INVARIANTS AckedOwnTerm LogMatching AckedTrue RepairMakesProgress TermsOrdered PrevEntryKnown
CHECK_DEADLOCK FALSE
