\* Three nodes, two elections and an attempt that begins at any time.
SPECIFICATION FairSpec
CONSTANTS
  Node = {a, b, c}
  Nil = Nil
  Attempt = {t}
  MaxElections = 2
  MaxChanges = 4
INVARIANTS TypeOK TwoForwards ProposedOnce AnswersTrue CalmIsServed
PROPERTY AttemptsEnd
CHECK_DEADLOCK FALSE
