---------------------------- MODULE ReplicatedLog ----------------------------
(***************************************************************************)
(* What internal/consensus promises to the rest of a node: one log that    *)
(* only grows, and at every node a prefix of it that only grows.  "All     *)
(* nodes commit the same entries in the same order" (applier.go).          *)
(***************************************************************************)
EXTENDS Sequences, SequencesExt

CONSTANT Node

VARIABLES
  chosen,    \* the sequence of committed entries
  learned    \* learned[n]: the entries node n knows to be committed

Init ==
  /\ chosen = <<>>
  /\ learned = [n \in Node |-> <<>>]

\* Node n learns more of the chosen log, or is the one that extends it.
Learn(n) ==
  /\ IsPrefix(chosen, chosen')
  /\ \E k \in Len(learned[n])..Len(chosen') :
       /\ learned' = [learned EXCEPT ![n] = SubSeq(chosen', 1, k)]
       /\ chosen' # chosen => k = Len(chosen')
  /\ IsPrefix(learned[n], learned'[n])

Next == \E n \in Node : Learn(n)

Spec == Init /\ [][Next]_<<chosen, learned>>
=============================================================================
