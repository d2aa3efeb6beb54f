------------------------------ MODULE HashRing ------------------------------
(***************************************************************************)
(* internal/sharding/hashring.go: the consistent-hashing ring.             *)
(*                                                                         *)
(* Every method holds the ring's mutex throughout, so each of AddNode and  *)
(* RemoveNode is one action and a lookup is a function of the state.       *)
(* CRC-32 may put the virtual points of an address anywhere, also on top   *)
(* of each other: "crc" is any function and never changes.                 *)
(*                                                                         *)
(* As in RaftLog, the variant above an operator is named for what is wrong *)
(* with it and is used by nothing.                                         *)
(***************************************************************************)
EXTENDS Integers, Sequences, FiniteSets, FiniteSetsExt, Functions

CONSTANTS
  Address,       \* the nodes that may be on the ring
  NoNode,        \* "": nobody is responsible
  virtualNodes,  \* points per node
  Circle,        \* how many hash values there are; 2^32 for CRC-32
  MaxPoints      \* bound: points on the ring

Hash == 0..(Circle - 1)

ASSUME HashRingAssumption ==
  /\ NoNode \notin Address
  /\ {virtualNodes, Circle} \subseteq Nat \ {0}
  /\ MaxPoints \in Nat

VARIABLES
  crc,           \* the hash of "<address>-<i>"
  sortedHashes, hashToNode,
  members,       \* history: the nodes added and not removed since
  removed        \* history: whether RemoveNode ever found points on the ring

vars == <<crc, sortedHashes, hashToNode, members, removed>>

Init ==
  /\ crc \in [Address \X (1..virtualNodes) -> Hash]
  /\ sortedHashes = <<>> /\ hashToNode = <<>>
  /\ members = {} /\ removed = FALSE

\* Where the points of a node are.
Points(a) == {crc[<<a, i>>] : i \in 1..virtualNodes}

-----------------------------------------------------------------------------
\* The values of key in ascending order, each as often as key takes it: the r-th
\* is the least that r of them do not exceed.
Ascending(key) ==
  [r \in 1..Cardinality(DOMAIN key) |->
     Min({v \in Range(key) : Cardinality({k \in DOMAIN key : key[k] <= v}) >= r})]

\* sort.Slice by <.
Unsorted(hashes) == hashes
Sorted(hashes) == Ascending(hashes)

\* A point is appended for each virtual node, also where one is already, and
\* belongs to the node that was added last.
AddNode(a) ==
  /\ Len(sortedHashes) + virtualNodes <= MaxPoints
  /\ sortedHashes' = Sorted(sortedHashes \o [i \in 1..virtualNodes |-> crc[<<a, i>>]])
  /\ hashToNode' = [h \in DOMAIN hashToNode \cup Points(a) |->
                      IF h \in Points(a) THEN a ELSE hashToNode[h]]
  /\ members' = members \cup {a}
  /\ UNCHANGED <<crc, removed>>

\* What stays in the map when all points in gone are deleted from it.
WithoutNone(gone) == hashToNode
Without(gone) == Restrict(hashToNode, DOMAIN hashToNode \ gone)

\* The hashes that are not in gone, in the order they are in.
Filtered(hashes, gone) ==
  LET kept == Ascending([k \in {k \in DOMAIN hashes : hashes[k] \notin gone} |-> k])
  IN  [r \in DOMAIN kept |-> hashes[kept[r]]]

\* Every point where the node has one goes, whoever owns it by now.
RemoveNode(a) ==
  /\ sortedHashes' = Filtered(sortedHashes, Points(a))
  /\ hashToNode' = Without(Points(a))
  /\ members' = members \ {a}
  /\ removed' = (removed \/ sortedHashes # <<>>)
  /\ UNCHANGED crc

Next == \E a \in Address : AddNode(a) \/ RemoveNode(a)

Spec == Init /\ [][Next]_vars

-----------------------------------------------------------------------------
\* The point that ends a clockwise walk from h.
After(point, h) == point > h
AtOrAfter(point, h) == point >= h

\* sort.Search: bisection for the first of n points at or after h, counted from
\* 0; n if there is none.
Search(n, h) ==
  LET from[ij \in (0..n) \X (0..n)] ==
        LET i == ij[1]
            j == ij[2]
            m == (i + j) \div 2
        IN  IF i >= j THEN i
            ELSE IF AtOrAfter(sortedHashes[m + 1], h) THEN from[<<i, m>>] ELSE from[<<m + 1, j>>]
  IN  from[<<0, n>>]

\* GetResponsibleNode for an id with hash h.
GetResponsibleNode(h) ==
  LET n     == Len(sortedHashes)
      idx   == Search(n, h)
      point == sortedHashes[IF idx >= n THEN 1 ELSE idx + 1]
  IN  IF n = 0 THEN NoNode
      ELSE IF point \in DOMAIN hashToNode THEN hashToNode[point] ELSE NoNode

\* Nodes: the addresses that own a point.
Nodes == Range(hashToNode)

-----------------------------------------------------------------------------
\* The list and the map describe the same points, after any additions and
\* removals: a lookup reads one through the other.
TypeOK ==
  /\ crc \in [Address \X (1..virtualNodes) -> Hash]
  /\ sortedHashes \in Seq(Hash)
  /\ hashToNode \in [Range(sortedHashes) -> Address]
  /\ members \subseteq Address /\ removed \in BOOLEAN

\* No point of a is also a point of another node.
Apart(a) == \A b \in Address \ {a} : Points(a) \cap Points(b) = {}

\* The nodes that a walk clockwise from h meets first, by the definition of
\* consistent hashing: who is on the ring, not how it got there.
Clockwise(h, p) == (p - h + Circle) % Circle
Nearest(h) ==
  {a \in members : \E p \in Points(a) :
     \A b \in members : \A q \in Points(b) : Clockwise(h, p) <= Clockwise(h, q)}

\* Every key has the owner that consistent hashing says ("the first real node
\* encountered when walking clockwise", hashring.go:96-97), past the last point
\* too, and none only on an empty ring; where points coincide, one of the nodes
\* that share the nearest.
LookupAlwaysNearest ==
  \A h \in Hash : GetResponsibleNode(h) \in IF members = {} THEN {NoNode} ELSE Nearest(h)

\* A removal takes shared points away from both nodes, so after one the code
\* keeps that promise only for points that are apart.
LookupIsNearest == (removed => \A a \in Address : Apart(a)) => LookupAlwaysNearest

\* Nodes() lists exactly the nodes on the ring, unless points coincide.
NodesAreMembers == (\A a \in Address : Apart(a)) => Nodes = members

\* "Key reassignment is proportional only to the newly added node's share"
\* (hashring.go:14-15): a node that joins takes keys for itself and moves none
\* between others, wherever its points fall; one that leaves gives up its own
\* keys and moves no other, if its points are its own.
OnlyOwnKeysMove ==
  [][\A a \in Address, h \in Hash :
       /\ AddNode(a) => GetResponsibleNode(h)' \in {GetResponsibleNode(h), a}
       /\ RemoveNode(a) /\ Apart(a) /\ GetResponsibleNode(h) # a
            => GetResponsibleNode(h)' = GetResponsibleNode(h)]_vars
=============================================================================
