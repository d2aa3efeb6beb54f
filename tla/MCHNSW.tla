------------------------------- MODULE MCHNSW -------------------------------
(* Small graphs for TLC: vectors are points on a line, the nearer the more *)
(* similar, at distances that all differ.  Calls are numbers, so that      *)
(* their vectors can be listed.                                            *)
EXTENDS HNSW

CONSTANT Position   \* of the vector of each call

Distance(p, r) == IF p > r THEN p - r ELSE r - p
OnALine == [pair \in Call \X Call |-> -Distance(Position[pair[1]], Position[pair[2]])]
Marks == <<0, 6, 1, 4, 5>>

\* Every insertion has an id of its own.
Distinct == [i \in Insertion |-> i]

\* The calls of Insert are numbered in the order they begin; any order of the
\* vectors is an order of the marks.
InOrder == \A i, j \in Insertion : j < i /\ pc[i] # "new" => pc[j] # "new"

OrderedSpec == Init /\ [][Next /\ InOrder']_vars /\ Fairness
=============================================================================
