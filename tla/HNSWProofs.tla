----------------------------- MODULE HNSWProofs -----------------------------
(***************************************************************************)
(* The graph of HNSW for any number of insertions and searches at a time,  *)
(* any vectors and any parameters: no access misses and no list outgrows   *)
(* its limit; and, when no id is inserted twice, the entry point is sound  *)
(* and, while insertions follow one another, links stay on their layer and *)
(* a graph small enough for its parameters is searched exactly.            *)
(***************************************************************************)
EXTENDS HNSW, FiniteSetTheorems, SequenceTheorems, TLAPS

\* The insertions whose Node is, or was, in the map.
Registered == {i \in Insertion : pc[i] \notin {"new", "registering"}}

\* The map and the insertions agree, and there is an entry point when there
\* is a Node.
MapSound ==
  /\ \A id \in DOMAIN nodes : nodes[id] \in Registered /\ Id[nodes[id]] = id
  /\ \A i \in Registered : Id[i] \in DOMAIN nodes
  /\ IF DOMAIN nodes = {} THEN entryPoint = NoId ELSE entryPoint \in DOMAIN nodes

\* Every id that a list or a call holds is in the map: ids never leave it.
ListsInMap ==
  \A i \in Insertion :
    /\ todo[i] \in Seq(DOMAIN nodes) /\ kept[i] \in Seq(DOMAIN nodes)
    /\ \A l \in Layer : neighbors[i][l] \in Seq(DOMAIN nodes)

CallsInMap ==
  \A c \in Call :
    /\ found[c] \subseteq Registered
    /\ pc[c] = "walk" => found[c] # {}
    /\ pc[c] \in {"layer", "back", "wire"} => ep[c] \in DOMAIN nodes

\* A list being wired back is not used up, and the one kept from a prune fits.
Wired ==
  \A i \in Insertion :
    /\ pc[i] \in {"back", "wire"} => todo[i] # <<>>
    /\ pc[i] = "wire" => Len(kept[i]) <= MaxLinks(layer[i])

GraphInv ==
  TypeOK /\ MapSound /\ ListsInMap /\ CallsInMap /\ Wired /\ DegreeBounded

-----------------------------------------------------------------------------
(* Calculations.                                                           *)

LEMMA MaxLinksType == \A l \in Layer : MaxLinks(l) \in Nat \ {0}
BY HNSWAssumption DEF MaxLinks, Layer

LEMMA WidthType == \A c \in Call : Width(c) \in Nat \ {0}
BY HNSWAssumption DEF Width

\* The best of D: at most k of its elements, and one at least if there is one.
LEMMA BestFirstRule ==
  ASSUME NEW D, IsFiniteSet(D), NEW score, NEW k \in Nat \ {0}, NEW f \in BestFirst(D, score, k)
  PROVE  f \in Seq(D) /\ Len(f) <= k /\ (D # {} => Len(f) >= 1)
<1>1. PICK n \in 0..k : f \in [1..n -> D] /\ (n = k \/ n = Cardinality(D))
  BY DEF BestFirst
<1>2. f \in Seq(D) /\ Len(f) = n
  BY <1>1, SeqDef
<1>3. D # {} => n >= 1
  <2>1. Cardinality(D) \in Nat /\ (Cardinality(D) = 0 <=> D = {})
    BY FS_CardinalityType, FS_EmptySet
  <2> QED
    BY <1>1, <2>1
<1> QED
  BY <1>1, <1>2, <1>3

\* A heap is never empty once something was pushed.
LEMMA HeapsRule ==
  ASSUME NEW D, NEW score, NEW k \in Nat \ {0}, NEW F \in Heaps(D, score, k), D # {}
  PROVE  F \subseteq D /\ F # {}
<1>1. Cardinality({}) = 0
  BY FS_EmptySet
<1> QED
  BY <1>1 DEF Heaps

\* What a walk hands on: a list of ids in the map, short enough, not empty.
LEMMA FoundRule ==
  ASSUME GraphInv, NEW c \in Call, pc[c] = "walk", NEW k \in Nat \ {0}, NEW ids \in Found(c, k)
  PROVE  /\ ids \in Seq(DOMAIN nodes) /\ Len(ids) <= k /\ Len(ids) >= 1
         /\ ids[1] \in DOMAIN nodes
         /\ \A j \in 1..Len(ids) : \E n \in found[c] : ids[j] = Id[n]
<1>1. PICK best \in BestFirst(found[c], ScoreTo(c), k) :
         ids = [j \in 1..Len(best) |-> Id[best[j]]]
  BY DEF Found
<1>2. found[c] \subseteq Insertion /\ IsFiniteSet(found[c]) /\ found[c] # {}
  <2>1. found[c] \subseteq Insertion /\ found[c] # {}
    BY DEF GraphInv, TypeOK, CallsInMap
  <2> QED
    BY <2>1, HNSWAssumption, FS_Subset
<1>3. best \in Seq(found[c]) /\ Len(best) <= k /\ Len(best) >= 1
  BY <1>1, <1>2, BestFirstRule
<1>4. Len(best) \in Nat /\ \A j \in 1..Len(best) : best[j] \in found[c]
  BY <1>3
<1>5. \A n \in found[c] : Id[n] \in DOMAIN nodes
  BY DEF GraphInv, CallsInMap, MapSound
<1>6. ids \in [1..Len(best) -> DOMAIN nodes]
  BY <1>1, <1>4, <1>5
<1>7. ids \in Seq(DOMAIN nodes) /\ Len(ids) = Len(best)
  BY <1>4, <1>6, SeqDef
<1> QED
  BY <1>1, <1>3, <1>4, <1>5, <1>6, <1>7

\* Lists over the map stay such lists when the map grows.
LEMMA ListsGrow ==
  ASSUME NEW S, NEW T, S \subseteq T
  PROVE  Seq(S) \subseteq Seq(T)
BY SeqMonotonic

\* A list of ids in the map is a list of ids.
LEMMA ListsOfIds == TypeOK => Seq(DOMAIN nodes) \subseteq Seq(Ids)
<1>1. TypeOK => DOMAIN nodes \subseteq Ids
  BY DEF TypeOK
<1> QED
  BY <1>1, ListsGrow

-----------------------------------------------------------------------------
LEMMA GraphInit == Init => GraphInv
<1> SUFFICES ASSUME Init PROVE GraphInv
  OBVIOUS
<1>1. DOMAIN nodes = {}
  BY DEF Init
<1>2. 0 \in Layer /\ MaxLevel \in Nat
  BY HNSWAssumption DEF Layer
<1>3. <<>> \in Seq(Ids) /\ <<>> \in Seq(DOMAIN nodes) /\ Len(<<>>) = 0
  BY EmptySeq
<1>4. TypeOK
  BY <1>1, <1>2, <1>3 DEF Init, TypeOK, CallState
<1>5. MapSound /\ ListsInMap /\ CallsInMap /\ Wired
  BY <1>1, <1>3 DEF Init, MapSound, Registered, ListsInMap, CallsInMap, Wired, Call
<1>6. DegreeBounded
  BY <1>3, MaxLinksType DEF Init, DegreeBounded
<1> QED
  BY <1>4, <1>5, <1>6 DEF GraphInv

-----------------------------------------------------------------------------
(* Steps.                                                                  *)

\* Steps that change neither the map nor who is registered.
LEMMA MapKept ==
  ASSUME GraphInv, UNCHANGED <<nodes, entryPoint>>, Registered' = Registered
  PROVE  MapSound'
BY DEF GraphInv, MapSound

\* Steps that leave the lists alone.
LEMMA ListsKept ==
  ASSUME GraphInv, UNCHANGED <<nodes, neighbors, backVars>>
  PROVE  ListsInMap' /\ DegreeBounded'
BY DEF GraphInv, ListsInMap, DegreeBounded, backVars

LEMMA GraphCallInsert ==
  ASSUME GraphInv, NEW i \in Insertion, CallInsert(i)
  PROVE  GraphInv'
<1>1. TypeOK /\ i \in Call
  BY DEF GraphInv, Call
<1>2. /\ pc[i] = "new" /\ pc' = [pc EXCEPT ![i] = "registering"]
      /\ UNCHANGED <<graphVars, ep, layer, top, walkVars, backVars, result, stored, bare>>
  BY DEF CallInsert
<1>3. overlapped' \in BOOLEAN
  BY DEF CallInsert
<1>4. TypeOK'
  BY <1>1, <1>2, <1>3 DEF TypeOK, CallState, graphVars, walkVars, backVars
<1>5. Registered' = Registered
  <2>1. pc \in [Call -> CallState]
    BY <1>1 DEF TypeOK
  <2>2. \A j \in Insertion : pc'[j] = IF j = i THEN "registering" ELSE pc[j]
    BY <1>1, <1>2, <2>1 DEF Call
  <2> QED
    BY <1>2, <2>2 DEF Registered
<1>6. MapSound' /\ ListsInMap' /\ DegreeBounded'
  BY <1>2, <1>5, MapKept, ListsKept DEF graphVars
<1>7. CallsInMap' /\ Wired'
  BY <1>1, <1>2, <1>5
  DEF GraphInv, TypeOK, CallsInMap, Wired, graphVars, walkVars, backVars, Call
<1> QED
  BY <1>4, <1>6, <1>7 DEF GraphInv

LEMMA GraphRegister ==
  ASSUME GraphInv, NEW i \in Insertion, Register(i)
  PROVE  GraphInv'
<1>1. /\ TypeOK /\ MapSound /\ ListsInMap /\ CallsInMap /\ Wired /\ DegreeBounded
      /\ i \in Call /\ Id[i] \in Ids
  <2>1. Id[i] \in Ids
    BY HNSWAssumption
  <2> QED
    BY <2>1 DEF GraphInv, Call
<1>2. /\ pc[i] = "registering"
      /\ nodes' = [id \in DOMAIN nodes \cup {Id[i]} |-> IF id = Id[i] THEN i ELSE nodes[id]]
      /\ UNCHANGED <<neighbors, walkVars, backVars, result, history>>
  BY DEF Register
<1>3. PICK lvl \in Layer :
        /\ level' = [level EXCEPT ![i] = lvl]
        /\ maxLayer' = IF Empty \/ lvl > maxLayer THEN lvl ELSE maxLayer
        /\ IF Empty
           THEN /\ entryPoint' = Id[i]
                /\ pc' = [pc EXCEPT ![i] = "done"]
                /\ UNCHANGED <<ep, layer, top>>
           ELSE /\ pc' = [pc EXCEPT ![i] = "layer"]
                /\ ep' = [ep EXCEPT ![i] = entryPoint]
                /\ top' = [top EXCEPT ![i] = maxLayer]
                /\ layer' = [layer EXCEPT ![i] = StartLayer(lvl)]
                /\ UNCHANGED entryPoint
  BY DEF Register
<1>4. /\ DOMAIN nodes' = DOMAIN nodes \cup {Id[i]}
      /\ nodes'[Id[i]] = i
      /\ \A id \in DOMAIN nodes \ {Id[i]} : nodes'[id] = nodes[id]
  BY <1>2
<1>5. /\ pc' \in [Call -> CallState] /\ Registered' = Registered \cup {i}
      /\ \A c \in Call \ {i} : pc'[c] = pc[c] /\ ep'[c] = ep[c]
      /\ pc'[i] \in {"done", "layer"}
  <2>1. pc' = [pc EXCEPT ![i] = "done"] \/ pc' = [pc EXCEPT ![i] = "layer"]
    BY <1>3
  <2>2. ep' = ep \/ ep' = [ep EXCEPT ![i] = entryPoint]
    BY <1>3
  <2>3. pc' \in [Call -> CallState]
    BY <1>1, <2>1 DEF TypeOK, CallState
  <2>4. \A c \in Call \ {i} : pc'[c] = pc[c] /\ ep'[c] = ep[c]
    BY <1>1, <2>1, <2>2 DEF TypeOK
  <2>5. pc'[i] \in {"done", "layer"}
    BY <1>1, <2>1 DEF TypeOK
  <2>6. Registered' = Registered \cup {i}
    BY <2>4, <2>5 DEF Registered, Call
  <2> QED
    BY <2>3, <2>4, <2>5, <2>6
<1>6. TypeOK'
  <2>1. DOMAIN nodes' \subseteq Ids /\ \A id \in DOMAIN nodes' : nodes'[id] \in Insertion
    BY <1>1, <1>4 DEF TypeOK
  <2>2. /\ entryPoint' \in Ids \cup {NoId} /\ maxLayer' \in Layer
        /\ level' \in [Insertion -> Layer]
    BY <1>1, <1>3 DEF TypeOK
  <2>3. ep' \in [Call -> Ids \cup {NoId}]
    BY <1>1, <1>3 DEF TypeOK
  <2>4. layer' \in [Call -> Layer] /\ top' \in [Insertion -> Layer]
    BY <1>1, <1>3 DEF TypeOK, StartLayer
  <2> QED
    BY <1>1, <1>2, <1>5, <2>1, <2>2, <2>3, <2>4 DEF TypeOK, walkVars, backVars, history
<1>7. MapSound'
  <2>1. \A id \in DOMAIN nodes' : nodes'[id] \in Registered' /\ Id[nodes'[id]] = id
    BY <1>1, <1>4, <1>5 DEF MapSound
  <2>2. \A j \in Registered' : Id[j] \in DOMAIN nodes'
    BY <1>1, <1>4, <1>5 DEF MapSound
  <2>3. entryPoint' \in DOMAIN nodes' /\ DOMAIN nodes' # {}
    BY <1>1, <1>3, <1>4 DEF MapSound, Empty
  <2> QED
    BY <2>1, <2>2, <2>3 DEF MapSound
<1>8. ListsInMap' /\ DegreeBounded'
  <2>1. Seq(DOMAIN nodes) \subseteq Seq(DOMAIN nodes')
    BY <1>4, ListsGrow
  <2> QED
    BY <1>1, <1>2, <2>1 DEF ListsInMap, DegreeBounded, backVars
<1>9. CallsInMap'
  <2>1. found' = found
    BY <1>2 DEF walkVars
  <2>2. pc'[i] = "layer" => ep'[i] \in DOMAIN nodes'
    BY <1>1, <1>3, <1>4 DEF TypeOK, MapSound, Empty
  <2> SUFFICES ASSUME NEW c \in Call
               PROVE  /\ found[c] \subseteq Registered'
                      /\ pc'[c] = "walk" => found[c] # {}
                      /\ pc'[c] \in {"layer", "back", "wire"} => ep'[c] \in DOMAIN nodes'
    BY <2>1 DEF CallsInMap
  <2>3. found[c] \subseteq Registered'
    BY <1>1, <1>5 DEF CallsInMap
  <2>4. CASE c = i
    BY <1>5, <2>2, <2>3, <2>4
  <2>5. CASE c # i
    BY <1>1, <1>4, <1>5, <2>3, <2>5 DEF CallsInMap
  <2> QED
    BY <2>4, <2>5
<1>10. Wired'
  <2>1. \A j \in Insertion : pc'[j] \in {"back", "wire"} => pc[j] = pc'[j] /\ layer'[j] = layer[j]
    <3>1. layer' = layer \/ layer' = [layer EXCEPT ![i] = StartLayer(lvl)]
      BY <1>3
    <3>2. \A j \in Insertion \ {i} : layer'[j] = layer[j]
      BY <1>1, <3>1 DEF TypeOK, Call
    <3> QED
      BY <1>5, <3>2 DEF Call
  <2> QED
    BY <1>1, <1>2, <2>1 DEF Wired, backVars
<1> QED
  BY <1>6, <1>7, <1>8, <1>9, <1>10 DEF GraphInv

LEMMA GraphCallSearch ==
  ASSUME GraphInv, NEW q \in Query, CallSearch(q)
  PROVE  GraphInv'
<1>1. /\ TypeOK /\ MapSound /\ ListsInMap /\ CallsInMap /\ Wired /\ DegreeBounded
      /\ q \in Call /\ q \notin Insertion
  BY HNSWAssumption DEF GraphInv, Call
<1>2. /\ UNCHANGED <<graphVars, top, walkVars, backVars, result, bare, overlapped>>
      /\ stored' = [stored EXCEPT ![q] = {Id[i] : i \in {j \in Insertion : pc[j] = "done"}}]
      /\ \/ entryPoint = NoId /\ pc' = [pc EXCEPT ![q] = "done"] /\ UNCHANGED <<ep, layer>>
         \/ /\ entryPoint # NoId /\ pc' = [pc EXCEPT ![q] = "layer"]
            /\ ep' = [ep EXCEPT ![q] = entryPoint]
            /\ layer' = [layer EXCEPT ![q] = maxLayer]
  BY DEF CallSearch
<1>3. stored' \in [Query -> SUBSET Ids]
  <2>1. {Id[i] : i \in {j \in Insertion : pc[j] = "done"}} \subseteq Ids
    BY HNSWAssumption
  <2> QED
    BY <1>1, <1>2, <2>1 DEF TypeOK
<1>4. pc' \in [Call -> CallState]
  BY <1>1, <1>2 DEF TypeOK, CallState
<1>5. ep' \in [Call -> Ids \cup {NoId}] /\ layer' \in [Call -> Layer]
  <2>1. entryPoint \in Ids \cup {NoId} /\ maxLayer \in Layer
    BY <1>1 DEF TypeOK
  <2>2. ep' \in [Call -> Ids \cup {NoId}]
    BY <1>1, <1>2, <2>1 DEF TypeOK
  <2>3. layer' \in [Call -> Layer]
    BY <1>1, <1>2, <2>1 DEF TypeOK
  <2> QED
    BY <2>2, <2>3
<1>6. TypeOK'
  BY <1>1, <1>2, <1>3, <1>4, <1>5 DEF TypeOK, graphVars, walkVars, backVars
<1>7. /\ \A c \in Call \ {q} : pc'[c] = pc[c] /\ ep'[c] = ep[c] /\ layer'[c] = layer[c]
      /\ pc'[q] \in {"done", "layer"}
      /\ pc'[q] = "layer" => ep'[q] = entryPoint /\ entryPoint # NoId
  BY <1>1, <1>2 DEF TypeOK
<1>8. Registered' = Registered
  BY <1>1, <1>7 DEF Registered, Call
<1>9. MapSound' /\ ListsInMap' /\ DegreeBounded'
  BY <1>2, <1>8, MapKept, ListsKept DEF graphVars
<1>10. CallsInMap'
  <2>1. UNCHANGED <<nodes, found>> /\ (entryPoint # NoId => entryPoint \in DOMAIN nodes)
    BY <1>1, <1>2 DEF MapSound, graphVars, walkVars
  <2> QED
    BY <1>1, <1>7, <1>8, <2>1 DEF CallsInMap
<1>11. Wired'
  <2>1. UNCHANGED <<todo, kept>> /\ \A i \in Insertion : i \in Call \ {q}
    BY <1>1, <1>2 DEF backVars, Call
  <2> QED
    BY <1>1, <1>7, <2>1 DEF Wired
<1> QED
  BY <1>6, <1>9, <1>10, <1>11 DEF GraphInv

LEMMA GraphEnterLayer ==
  ASSUME GraphInv, NEW c \in Call, EnterLayer(c)
  PROVE  GraphInv'
<1> DEFINE start == nodes[ep[c]]
<1>1. TypeOK /\ MapSound /\ ListsInMap /\ CallsInMap /\ Wired /\ DegreeBounded
  BY DEF GraphInv
<1>2. /\ pc[c] = "layer" /\ pc' = [pc EXCEPT ![c] = "walk"]
      /\ visited'  = [visited EXCEPT ![c] = {start}]
      /\ frontier' = [frontier EXCEPT ![c] = {start}]
      /\ found'    = [found EXCEPT ![c] = {start}]
      /\ UNCHANGED <<graphVars, ep, layer, top, backVars, result, stored, overlapped>>
  BY DEF EnterLayer
<1>3. start \in Registered /\ start \in Insertion
  <2>1. ep[c] \in DOMAIN nodes
    BY <1>1, <1>2 DEF CallsInMap
  <2>2. start \in Registered
    BY <1>1, <2>1 DEF MapSound
  <2> QED
    BY <2>2 DEF Registered
<1>4. bare' \in [Query -> BOOLEAN]
  <2>1. \/ bare' = bare
        \/ bare' = [bare EXCEPT ![c] = pc[start] # "done" /\ neighbors[start][0] = <<>>]
    BY DEF EnterLayer
  <2> QED
    BY <1>1, <2>1 DEF TypeOK
<1> HIDE DEF start
<1>5. /\ visited' \in [Call -> SUBSET Insertion] /\ frontier' \in [Call -> SUBSET Insertion]
      /\ found' \in [Call -> SUBSET Insertion] /\ pc' \in [Call -> CallState]
  BY <1>1, <1>2, <1>3 DEF TypeOK, CallState
<1>6. TypeOK'
  BY <1>1, <1>2, <1>4, <1>5 DEF TypeOK, graphVars, backVars
<1>7. Registered' = Registered
  BY <1>1, <1>2 DEF TypeOK, Registered, Call
<1>8. MapSound' /\ ListsInMap' /\ DegreeBounded'
  BY <1>2, <1>7, MapKept, ListsKept DEF graphVars
<1>9. CallsInMap'
  BY <1>1, <1>2, <1>3, <1>7 DEF TypeOK, CallsInMap, graphVars
<1>10. Wired'
  BY <1>1, <1>2 DEF TypeOK, Wired, backVars, Call
<1> QED
  BY <1>6, <1>8, <1>9, <1>10 DEF GraphInv

\* What a list leads to is a Node that is in the map.
LEMMA LinkedRegistered ==
  ASSUME GraphInv, NEW n \in Insertion, NEW l \in Layer
  PROVE  Linked(n, l) \subseteq Registered
<1>1. neighbors[n][l] \in Seq(DOMAIN nodes)
  BY DEF GraphInv, ListsInMap
<1>2. Range(neighbors[n][l]) \subseteq DOMAIN nodes
  BY <1>1 DEF Range
<1> QED
  BY <1>2 DEF GraphInv, MapSound, Linked

LEMMA GraphExpand ==
  ASSUME GraphInv, NEW c \in Call, Expand(c)
  PROVE  GraphInv'
<1>1. TypeOK /\ MapSound /\ ListsInMap /\ CallsInMap /\ Wired /\ DegreeBounded
  BY DEF GraphInv
<1>2. /\ pc[c] = "walk"
      /\ UNCHANGED <<graphVars, pc, ep, layer, top, backVars, result, history>>
  BY DEF Expand
<1>3. PICK n \in Candidates(c) :
        \E F \in Heaps(found[c] \cup (Linked(n, layer[c]) \ visited[c]), ScoreTo(c), Width(c)) :
          /\ visited' = [visited EXCEPT ![c] = @ \cup (Linked(n, layer[c]) \ visited[c])]
          /\ found' = [found EXCEPT ![c] = F]
          /\ \E tied \in SUBSET (Linked(n, layer[c]) \ visited[c]) :
               frontier' = [frontier EXCEPT ![c] =
                 (@ \ {n}) \cup ((Linked(n, layer[c]) \ visited[c]) \cap F) \cup tied]
  BY DEF Expand, StillTied
<1> DEFINE fresh == Linked(n, layer[c]) \ visited[c]
<1>4. fresh \subseteq Registered /\ Registered \subseteq Insertion
  <2>1. n \in Insertion /\ layer[c] \in Layer
    BY <1>1 DEF TypeOK, Candidates
  <2> QED
    BY <2>1, LinkedRegistered DEF Registered
<1> HIDE DEF fresh
<1>5. PICK F \in Heaps(found[c] \cup fresh, ScoreTo(c), Width(c)) :
        /\ visited' = [visited EXCEPT ![c] = @ \cup fresh]
        /\ found' = [found EXCEPT ![c] = F]
        /\ \E new \in SUBSET fresh : frontier' = [frontier EXCEPT ![c] = (@ \ {n}) \cup new]
  <2>1. PICK F \in Heaps(found[c] \cup fresh, ScoreTo(c), Width(c)), tied \in SUBSET fresh :
          /\ visited' = [visited EXCEPT ![c] = @ \cup fresh]
          /\ found' = [found EXCEPT ![c] = F]
          /\ frontier' = [frontier EXCEPT ![c] = (@ \ {n}) \cup (fresh \cap F) \cup tied]
    BY <1>3 DEF fresh
  <2>2. (fresh \cap F) \cup tied \in SUBSET fresh
    OBVIOUS
  <2>3. frontier' = [frontier EXCEPT ![c] = (@ \ {n}) \cup ((fresh \cap F) \cup tied)]
    <3>1. \A x : (x \cup (fresh \cap F)) \cup tied = x \cup ((fresh \cap F) \cup tied)
      OBVIOUS
    <3> QED
      BY <2>1, <3>1
  <2> QED
    BY <2>1, <2>2, <2>3
<1>6. F \subseteq found[c] \cup fresh /\ F # {}
  <2>1. found[c] # {} /\ Width(c) \in Nat \ {0}
    BY <1>1, <1>2, WidthType DEF CallsInMap
  <2> QED
    BY <2>1, HeapsRule
<1>7. F \subseteq Registered
  BY <1>1, <1>4, <1>6 DEF CallsInMap
<1>8. /\ visited' \in [Call -> SUBSET Insertion] /\ frontier' \in [Call -> SUBSET Insertion]
      /\ found' \in [Call -> SUBSET Insertion]
  BY <1>1, <1>4, <1>5, <1>7 DEF TypeOK
<1>9. TypeOK'
  BY <1>1, <1>2, <1>8 DEF TypeOK, graphVars, backVars, history
<1>10. Registered' = Registered
  BY <1>2 DEF Registered
<1>11. MapSound' /\ ListsInMap' /\ DegreeBounded'
  BY <1>2, <1>10, MapKept, ListsKept DEF graphVars
<1>12. CallsInMap'
  BY <1>1, <1>2, <1>5, <1>6, <1>7, <1>10 DEF TypeOK, CallsInMap, graphVars
<1>13. Wired'
  BY <1>1, <1>2 DEF Wired, backVars
<1> QED
  BY <1>9, <1>11, <1>12, <1>13 DEF GraphInv

\* The end of a walk empties the heaps of its call.
LEMMA HeapsEmptied ==
  ASSUME GraphInv, NEW c \in Call, WalkOver(c)
  PROVE  /\ visited' \in [Call -> SUBSET Insertion] /\ frontier' \in [Call -> SUBSET Insertion]
         /\ found' \in [Call -> SUBSET Insertion]
         /\ found'[c] = {} /\ \A d \in Call \ {c} : found'[d] = found[d]
BY DEF GraphInv, TypeOK, WalkOver

LEMMA GraphDescend ==
  ASSUME GraphInv, NEW c \in Call, Descend(c)
  PROVE  GraphInv'
<1>1. TypeOK /\ MapSound /\ ListsInMap /\ CallsInMap /\ Wired /\ DegreeBounded
  BY DEF GraphInv
<1>2. /\ Greedy(c) /\ WalkOver(c) /\ pc[c] = "walk"
      /\ layer' = [layer EXCEPT ![c] = @ - 1]
      /\ pc' = [pc EXCEPT ![c] = "layer"]
      /\ UNCHANGED <<graphVars, top, backVars, result, history>>
  BY DEF Descend, WalkOver
<1>3. PICK ids \in Found(c, 1) : ep' = [ep EXCEPT ![c] = ids[1]]
  BY DEF Descend
<1>4. ids[1] \in DOMAIN nodes
  BY <1>2, <1>3, FoundRule, 1 \in Nat \ {0}
<1>5. layer' \in [Call -> Layer]
  <2>1. layer[c] \in Layer /\ layer[c] > Floor(c) /\ Floor(c) \in Layer /\ MaxLevel \in Nat
    BY <1>1, <1>2, HNSWAssumption DEF TypeOK, Greedy, Floor, Layer
  <2>2. layer[c] - 1 \in Layer
    BY <2>1 DEF Layer
  <2> QED
    BY <1>1, <1>2, <2>2 DEF TypeOK
<1>6. ep' \in [Call -> Ids \cup {NoId}] /\ pc' \in [Call -> CallState]
  <2>1. ids[1] \in Ids
    BY <1>1, <1>4 DEF TypeOK
  <2> QED
    BY <1>1, <1>2, <1>3, <2>1 DEF TypeOK, CallState
<1>7. TypeOK'
  BY <1>1, <1>2, <1>5, <1>6, HeapsEmptied DEF TypeOK, graphVars, backVars, history
<1>8. Registered' = Registered
  BY <1>1, <1>2 DEF TypeOK, Registered, Call
<1>9. MapSound' /\ ListsInMap' /\ DegreeBounded'
  BY <1>2, <1>8, MapKept, ListsKept DEF graphVars
<1>10. CallsInMap'
  <2>1. /\ pc'[c] = "layer" /\ ep'[c] \in DOMAIN nodes
        /\ \A d \in Call \ {c} : pc'[d] = pc[d] /\ ep'[d] = ep[d]
    BY <1>1, <1>2, <1>3, <1>4 DEF TypeOK
  <2> QED
    BY <1>1, <1>2, <1>8, <2>1, HeapsEmptied DEF CallsInMap, graphVars
<1>11. Wired'
  <2>1. \A d \in Call : pc'[d] \in {"back", "wire"} => pc'[d] = pc[d] /\ layer'[d] = layer[d]
    BY <1>1, <1>2 DEF TypeOK
  <2> QED
    BY <1>1, <1>2, <2>1 DEF Wired, backVars, Call
<1> QED
  BY <1>7, <1>9, <1>10, <1>11 DEF GraphInv

LEMMA GraphAnswer ==
  ASSUME GraphInv, NEW q \in Query, Answer(q)
  PROVE  GraphInv'
<1>1. /\ TypeOK /\ MapSound /\ ListsInMap /\ CallsInMap /\ Wired /\ DegreeBounded
      /\ q \in Call /\ q \notin Insertion
  BY HNSWAssumption DEF GraphInv, Call
<1>2. /\ WalkOver(q) /\ pc[q] = "walk"
      /\ pc' = [pc EXCEPT ![q] = "done"]
      /\ UNCHANGED <<graphVars, ep, layer, top, backVars, history>>
  BY DEF Answer, WalkOver
<1>3. PICK ids \in Found(q, TopK) : result' = [result EXCEPT ![q] = ids]
  BY DEF Answer
<1>4. ids \in Seq(Ids)
  <2>1. ids \in Seq(DOMAIN nodes)
    BY <1>1, <1>2, <1>3, FoundRule, HNSWAssumption
  <2> QED
    BY <1>1, <2>1, ListsOfIds
<1>5. TypeOK'
  <2>1. result' \in [Query -> Seq(Ids)] /\ pc' \in [Call -> CallState]
    BY <1>1, <1>2, <1>3, <1>4 DEF TypeOK, CallState
  <2> QED
    BY <1>1, <1>2, <2>1, HeapsEmptied DEF TypeOK, graphVars, backVars, history
<1>6. Registered' = Registered
  BY <1>1, <1>2 DEF TypeOK, Registered
<1>7. MapSound' /\ ListsInMap' /\ DegreeBounded'
  BY <1>2, <1>6, MapKept, ListsKept DEF graphVars
<1>8. CallsInMap'
  <2>1. pc'[q] = "done" /\ \A d \in Call \ {q} : pc'[d] = pc[d]
    BY <1>1, <1>2 DEF TypeOK
  <2> QED
    BY <1>1, <1>2, <1>6, <2>1, HeapsEmptied DEF CallsInMap, graphVars
<1>9. Wired'
  BY <1>1, <1>2 DEF TypeOK, Wired, backVars
<1> QED
  BY <1>5, <1>7, <1>8, <1>9 DEF GraphInv

LEMMA GraphLink ==
  ASSUME GraphInv, NEW i \in Insertion, Link(i)
  PROVE  GraphInv'
<1> DEFINE l == layer[i]
<1>1. /\ TypeOK /\ MapSound /\ ListsInMap /\ CallsInMap /\ Wired /\ DegreeBounded
      /\ i \in Call /\ l \in Layer
  BY DEF GraphInv, Call, TypeOK
<1>2. /\ WalkOver(i) /\ pc[i] = "walk" /\ pc' = [pc EXCEPT ![i] = "back"]
      /\ UNCHANGED <<nodes, entryPoint, maxLayer, level, layer, top, nbr, kept, result, history>>
  BY DEF Link, WalkOver
<1>3. PICK ids \in Found(i, MaxLinks(l)) :
        /\ neighbors' = [neighbors EXCEPT ![i][l] = ids]
        /\ todo' = [todo EXCEPT ![i] = ids]
        /\ ep' = [ep EXCEPT ![i] = ids[1]]
  BY DEF Link
<1>4. /\ ids \in Seq(DOMAIN nodes) /\ Len(ids) <= MaxLinks(l) /\ ids # <<>>
      /\ ids[1] \in DOMAIN nodes
  <2>1. MaxLinks(l) \in Nat \ {0}
    BY <1>1, MaxLinksType
  <2>2. ids \in Seq(DOMAIN nodes) /\ Len(ids) <= MaxLinks(l) /\ Len(ids) >= 1
        /\ ids[1] \in DOMAIN nodes
    BY <1>1, <1>2, <1>3, <2>1, FoundRule
  <2>3. Len(<<>>) = 0
    BY EmptySeq
  <2> QED
    BY <2>2, <2>3
<1>5. ids \in Seq(Ids) /\ ids[1] \in Ids
  BY <1>1, <1>4, ListsOfIds
<1>6. TypeOK'
  <2>1. /\ neighbors' \in [Insertion -> [Layer -> Seq(Ids)]]
        /\ todo' \in [Insertion -> Seq(Ids)]
        /\ ep' \in [Call -> Ids \cup {NoId}] /\ pc' \in [Call -> CallState]
    BY <1>1, <1>2, <1>3, <1>5 DEF TypeOK, CallState
  <2> QED
    BY <1>1, <1>2, <2>1, HeapsEmptied DEF TypeOK, history
<1>7. Registered' = Registered
  BY <1>1, <1>2 DEF TypeOK, Registered, Call
<1>8. MapSound'
  BY <1>2, <1>7, MapKept
<1>9. /\ neighbors'[i][l] = ids
      /\ \A j \in Insertion, k \in Layer : ~ (j = i /\ k = l) => neighbors'[j][k] = neighbors[j][k]
  BY <1>1, <1>3 DEF TypeOK
<1>10. ListsInMap' /\ DegreeBounded'
  <2>1. \A j \in Insertion : todo'[j] \in Seq(DOMAIN nodes)
    BY <1>1, <1>3, <1>4 DEF TypeOK, ListsInMap
  <2> QED
    BY <1>1, <1>2, <1>4, <1>9, <2>1 DEF ListsInMap, DegreeBounded
<1>11. CallsInMap'
  <2>1. /\ pc'[i] = "back" /\ ep'[i] = ids[1]
        /\ \A d \in Call \ {i} : pc'[d] = pc[d] /\ ep'[d] = ep[d]
    BY <1>1, <1>2, <1>3 DEF TypeOK
  <2> QED
    BY <1>1, <1>2, <1>4, <1>7, <2>1, HeapsEmptied DEF CallsInMap
<1>12. Wired'
  <2>1. /\ pc'[i] = "back" /\ todo'[i] = ids
        /\ \A j \in Insertion \ {i} : pc'[j] = pc[j] /\ todo'[j] = todo[j]
    BY <1>1, <1>2, <1>3 DEF TypeOK, Call
  <2> QED
    BY <1>1, <1>2, <1>4, <2>1 DEF Wired
<1> QED
  BY <1>6, <1>8, <1>10, <1>11, <1>12 DEF GraphInv

\* One neighbour is dealt with.
LEMMA AdvanceRule ==
  ASSUME GraphInv, NEW i \in Insertion, pc[i] \in {"back", "wire"}, Advance(i)
  PROVE  /\ todo' \in [Insertion -> Seq(Ids)] /\ pc' \in [Call -> CallState]
         /\ layer' \in [Call -> Layer]
         /\ \A j \in Insertion : todo'[j] \in Seq(DOMAIN nodes)
         /\ \A j \in Insertion \ {i} : todo'[j] = todo[j]
         /\ \A c \in Call \ {i} : pc'[c] = pc[c] /\ layer'[c] = layer[c]
         /\ pc'[i] \in {"back", "layer", "promote", "done"}
         /\ pc'[i] = "back" => todo'[i] # <<>>
         /\ Registered' = Registered
<1>1. TypeOK /\ ListsInMap /\ Wired /\ i \in Call
  BY DEF GraphInv, Call
<1>2. /\ todo[i] \in Seq(DOMAIN nodes) /\ todo[i] \in Seq(Ids) /\ todo[i] # <<>>
      /\ layer[i] \in Layer
  BY <1>1 DEF TypeOK, ListsInMap, Wired
<1>3. /\ Tail(todo[i]) \in Seq(DOMAIN nodes) /\ Tail(todo[i]) \in Seq(Ids)
      /\ Len(todo[i]) > 1 => Tail(todo[i]) # <<>>
  <2>1. /\ Tail(todo[i]) \in Seq(DOMAIN nodes)
        /\ Len(Tail(todo[i])) = Len(todo[i]) - 1 /\ Len(todo[i]) \in Nat
    BY <1>2, HeadTailProperties, LenProperties
  <2>2. Tail(todo[i]) \in Seq(Ids)
    BY <1>2, HeadTailProperties
  <2>3. Len(todo[i]) > 1 => Len(Tail(todo[i])) # 0
    <3>1. \A j, k \in Nat : j = k - 1 /\ k > 1 => j # 0
      OBVIOUS
    <3>2. Len(Tail(todo[i])) \in Nat
      BY <2>2, LenProperties
    <3> QED
      BY <2>1, <3>1, <3>2, Zenon
  <2>4. Len(<<>>) = 0
    BY EmptySeq
  <2> QED
    BY <2>1, <2>2, <2>3, <2>4
<1>4. todo' = [todo EXCEPT ![i] = Tail(@)]
  BY DEF Advance
<1>5. /\ todo' \in [Insertion -> Seq(Ids)] /\ todo'[i] = Tail(todo[i])
      /\ \A j \in Insertion : todo'[j] \in Seq(DOMAIN nodes)
      /\ \A j \in Insertion \ {i} : todo'[j] = todo[j]
  BY <1>1, <1>3, <1>4 DEF TypeOK, ListsInMap
<1>6. /\ \/ pc' = [pc EXCEPT ![i] = "back"] /\ Len(todo[i]) > 1
         \/ pc' = [pc EXCEPT ![i] = "layer"]
         \/ pc' = [pc EXCEPT ![i] = "promote"]
         \/ pc' = [pc EXCEPT ![i] = "done"]
      /\ layer' = layer \/ (LayersLeft(layer[i]) /\ layer' = [layer EXCEPT ![i] = @ - 1])
  BY DEF Advance
<1>7. layer' \in [Call -> Layer] /\ \A c \in Call \ {i} : layer'[c] = layer[c]
  <2>1. LayersLeft(layer[i]) => layer[i] - 1 \in Layer
    BY <1>2, HNSWAssumption DEF LayersLeft, Layer
  <2> QED
    BY <1>1, <1>6, <2>1 DEF TypeOK
<1>8. /\ pc' \in [Call -> CallState] /\ \A c \in Call \ {i} : pc'[c] = pc[c]
      /\ pc'[i] \in {"back", "layer", "promote", "done"}
      /\ pc'[i] = "back" => Len(todo[i]) > 1
  BY <1>1, <1>6 DEF TypeOK, CallState
<1>9. Registered' = Registered
  BY <1>1, <1>8 DEF Registered, Call
<1> QED
  BY <1>3, <1>5, <1>7, <1>8, <1>9

LEMMA GraphPhaseA ==
  ASSUME GraphInv, NEW i \in Insertion, PhaseA(i)
  PROVE  GraphInv'
<1> DEFINE n == nodes[Head(todo[i])]
           l == layer[i]
           old == neighbors[n][l]
           candidates == <<i>> \o [k \in 1..Len(old) |-> nodes[old[k]]]
           score == [k \in 1..Len(candidates) |-> Similarity[<<n, candidates[k]>>]]
<1>1. /\ TypeOK /\ MapSound /\ ListsInMap /\ CallsInMap /\ Wired /\ DegreeBounded
      /\ i \in Call /\ l \in Layer
  BY DEF GraphInv, Call, TypeOK
<1>2. /\ pc[i] = "back"
      /\ UNCHANGED <<graphVars, ep, top, walkVars, result, history>>
  BY DEF PhaseA
<1>3. CASE Advance(i) /\ UNCHANGED <<nbr, kept>>
  <2>1. TypeOK'
    BY <1>1, <1>2, <1>3, AdvanceRule DEF TypeOK, graphVars, walkVars, history
  <2>2. MapSound'
    BY <1>2, <1>3, MapKept, AdvanceRule DEF graphVars
  <2>3. ListsInMap' /\ DegreeBounded'
    BY <1>1, <1>2, <1>3, AdvanceRule DEF ListsInMap, DegreeBounded, graphVars
  <2>4. /\ pc'[i] \in {"back", "layer", "promote", "done"}
        /\ pc'[i] = "back" => todo'[i] # <<>>
        /\ \A c \in Call \ {i} : pc'[c] = pc[c] /\ layer'[c] = layer[c]
        /\ \A j \in Insertion \ {i} : todo'[j] = todo[j]
        /\ Registered' = Registered
    BY <1>2, <1>3, AdvanceRule
  <2>5. CallsInMap'
    <3>1. UNCHANGED <<nodes, found, ep>>
      BY <1>2 DEF graphVars, walkVars
    <3> QED
      BY <1>1, <1>2, <2>4, <3>1 DEF CallsInMap
  <2>6. Wired'
    BY <1>1, <1>3, <2>4 DEF Wired, Call
  <2> QED
    BY <2>1, <2>2, <2>3, <2>5, <2>6 DEF GraphInv
<1>4. CASE /\ \E best \in BestFirst(1..Len(candidates), score, MaxLinks(l)) :
                kept' = [kept EXCEPT ![i] = [k \in 1..Len(best) |-> Id[candidates[best[k]]]]]
           /\ nbr' = [nbr EXCEPT ![i] = n]
           /\ pc' = [pc EXCEPT ![i] = "wire"]
           /\ UNCHANGED <<todo, layer>>
  <2>1. Head(todo[i]) \in DOMAIN nodes
    <3>1. todo[i] \in Seq(DOMAIN nodes) /\ todo[i] # <<>>
      BY <1>1, <1>2 DEF ListsInMap, Wired
    <3> QED
      BY <3>1
  <2>2. n \in Insertion
    BY <1>1, <2>1 DEF TypeOK
  <2>3. candidates \in Seq(Registered)
    <3>1. old \in Seq(DOMAIN nodes)
      BY <1>1, <2>2 DEF ListsInMap
    <3>2. [k \in 1..Len(old) |-> nodes[old[k]]] \in Seq(Registered)
      <4>1. Len(old) \in Nat /\ \A k \in 1..Len(old) : nodes[old[k]] \in Registered
        <5>1. \A id \in DOMAIN nodes : nodes[id] \in Registered
          BY <1>1 DEF MapSound
        <5> HIDE DEF old
        <5> QED
          BY <3>1, <5>1
      <4> HIDE DEF old
      <4> QED
        BY <4>1, SeqDef
    <3>3. <<i>> \in Seq(Registered)
      <4>1. i \in Registered
        BY <1>2 DEF Registered
      <4> QED
        BY <4>1
    <3> HIDE DEF old
    <3> QED
      BY <3>2, <3>3, ConcatProperties
  <2> HIDE DEF candidates
  <2>4. PICK best \in BestFirst(1..Len(candidates), score, MaxLinks(l)) :
          kept' = [kept EXCEPT ![i] = [k \in 1..Len(best) |-> Id[candidates[best[k]]]]]
    BY <1>4
  <2> HIDE DEF score
  <2> DEFINE new == [k \in 1..Len(best) |-> Id[candidates[best[k]]]]
  <2>5. new \in Seq(DOMAIN nodes) /\ Len(new) <= MaxLinks(l)
    <3>1. Len(candidates) \in Nat /\ IsFiniteSet(1..Len(candidates))
      BY <2>3, FS_Interval
    <3>2. MaxLinks(l) \in Nat \ {0}
      BY <1>1, MaxLinksType
    <3>3. best \in Seq(1..Len(candidates)) /\ Len(best) <= MaxLinks(l)
      BY <2>4, <3>1, <3>2, BestFirstRule
    <3>4. Len(best) \in Nat /\ \A k \in 1..Len(best) : Id[candidates[best[k]]] \in DOMAIN nodes
      <4>1. \A k \in 1..Len(best) : candidates[best[k]] \in Registered
        BY <2>3, <3>3
      <4> QED
        BY <1>1, <3>3, <4>1 DEF MapSound
    <3>5. new \in Seq(DOMAIN nodes) /\ Len(new) = Len(best)
      <4>1. new \in [1..Len(best) -> DOMAIN nodes]
        BY <3>4
      <4> QED
        BY <3>4, <4>1, SeqDef
    <3> QED
      BY <3>3, <3>5
  <2>6. new \in Seq(Ids)
    BY <1>1, <2>5, ListsOfIds
  <2>7. kept' = [kept EXCEPT ![i] = new]
    BY <2>4
  <2> HIDE DEF new
  <2>8. TypeOK'
    <3>1. /\ kept' \in [Insertion -> Seq(Ids)] /\ nbr' \in [Insertion -> Insertion]
          /\ pc' \in [Call -> CallState]
      BY <1>1, <1>4, <2>2, <2>6, <2>7 DEF TypeOK, CallState
    <3> QED
      BY <1>1, <1>2, <1>4, <3>1 DEF TypeOK, graphVars, walkVars, history
  <2>9. Registered' = Registered
    BY <1>1, <1>2, <1>4 DEF TypeOK, Registered, Call
  <2>10. MapSound'
    BY <1>2, <2>9, MapKept DEF graphVars
  <2>11. ListsInMap' /\ DegreeBounded'
    BY <1>1, <1>2, <1>4, <2>5, <2>7 DEF TypeOK, ListsInMap, DegreeBounded, graphVars
  <2>12. CallsInMap'
    <3>1. /\ UNCHANGED <<nodes, found, ep>> /\ pc'[i] = "wire"
          /\ \A c \in Call \ {i} : pc'[c] = pc[c]
      BY <1>1, <1>2, <1>4 DEF TypeOK, graphVars, walkVars
    <3> QED
      BY <1>1, <1>2, <2>9, <3>1 DEF CallsInMap
  <2>13. Wired'
    <3>1. /\ kept'[i] = new /\ \A j \in Insertion \ {i} : kept'[j] = kept[j] /\ pc'[j] = pc[j]
      BY <1>1, <1>4, <2>7 DEF TypeOK, Call
    <3> QED
      BY <1>1, <1>2, <1>4, <2>5, <3>1 DEF Wired
  <2> QED
    BY <2>8, <2>10, <2>11, <2>12, <2>13 DEF GraphInv
<1> QED
  BY <1>3, <1>4 DEF PhaseA

\* Phase B meets a list as it is now, not as phase A copied it.
LEMMA GraphPhaseB ==
  ASSUME GraphInv, NEW i \in Insertion, PhaseB(i)
  PROVE  GraphInv'
<1> DEFINE n == nbr[i]
           l == layer[i]
           list == neighbors[n][l]
           new == IF Fits(list, l) THEN Append(list, Id[i]) ELSE kept[i]
<1>1. /\ TypeOK /\ MapSound /\ ListsInMap /\ CallsInMap /\ Wired /\ DegreeBounded
      /\ i \in Call /\ l \in Layer /\ n \in Insertion
  BY DEF GraphInv, Call, TypeOK
<1>2. /\ pc[i] = "wire" /\ Advance(i)
      /\ neighbors' = [neighbors EXCEPT ![n][l] = IF Fits(@, l) THEN Append(@, Id[i]) ELSE kept[i]]
      /\ nbr' = [nbr EXCEPT ![i] = i] /\ kept' = [kept EXCEPT ![i] = <<>>]
      /\ UNCHANGED <<nodes, entryPoint, maxLayer, level, ep, top, walkVars, result, history>>
  BY DEF PhaseB
<1>3. new \in Seq(DOMAIN nodes) /\ Len(new) <= MaxLinks(l)
  <2>1. list \in Seq(DOMAIN nodes) /\ kept[i] \in Seq(DOMAIN nodes) /\ Len(kept[i]) <= MaxLinks(l)
    BY <1>1, <1>2 DEF ListsInMap, Wired
  <2>2. Id[i] \in DOMAIN nodes
    BY <1>1, <1>2 DEF MapSound, Registered
  <2> HIDE DEF list
  <2>3. Append(list, Id[i]) \in Seq(DOMAIN nodes) /\ Len(Append(list, Id[i])) = Len(list) + 1
    BY <2>1, <2>2
  <2> QED
    BY <2>1, <2>3 DEF Fits
<1>4. /\ neighbors'[n][l] = new
      /\ \A j \in Insertion, k \in Layer : ~ (j = n /\ k = l) => neighbors'[j][k] = neighbors[j][k]
  BY <1>1, <1>2 DEF TypeOK
<1>5. new \in Seq(Ids)
  BY <1>1, <1>3, ListsOfIds
<1>6. neighbors' \in [Insertion -> [Layer -> Seq(Ids)]]
  <2>1. neighbors' = [neighbors EXCEPT ![n][l] = new]
    BY <1>2
  <2> HIDE DEF new
  <2> QED
    BY <1>1, <1>5, <2>1 DEF TypeOK
<1> HIDE DEF new
<1>7. /\ todo' \in [Insertion -> Seq(Ids)] /\ pc' \in [Call -> CallState]
      /\ layer' \in [Call -> Layer]
      /\ \A j \in Insertion : todo'[j] \in Seq(DOMAIN nodes)
      /\ \A j \in Insertion \ {i} : todo'[j] = todo[j]
      /\ \A c \in Call \ {i} : pc'[c] = pc[c] /\ layer'[c] = layer[c]
      /\ pc'[i] \in {"back", "layer", "promote", "done"}
      /\ pc'[i] = "back" => todo'[i] # <<>>
      /\ Registered' = Registered
  BY <1>2, AdvanceRule
<1>8. /\ kept' \in [Insertion -> Seq(Ids)] /\ nbr' \in [Insertion -> Insertion]
      /\ \A j \in Insertion : kept'[j] \in Seq(DOMAIN nodes)
      /\ \A j \in Insertion \ {i} : kept'[j] = kept[j]
  <2>1. <<>> \in Seq(Ids) /\ <<>> \in Seq(DOMAIN nodes)
    BY EmptySeq
  <2> QED
    BY <1>1, <1>2, <2>1 DEF TypeOK, ListsInMap
<1>9. TypeOK'
  BY <1>1, <1>2, <1>6, <1>7, <1>8 DEF TypeOK, walkVars, history
<1>10. MapSound'
  BY <1>2, <1>7, MapKept
<1>11. ListsInMap' /\ DegreeBounded'
  <2>1. nodes' = nodes
    BY <1>2
  <2>2. /\ \A j \in Insertion : todo'[j] \in Seq(DOMAIN nodes) /\ kept'[j] \in Seq(DOMAIN nodes)
    BY <1>7, <1>8
  <2>3. ASSUME NEW j \in Insertion, NEW k \in Layer
        PROVE  neighbors'[j][k] \in Seq(DOMAIN nodes) /\ Len(neighbors'[j][k]) <= MaxLinks(k)
    <3>1. CASE j = n /\ k = l
      BY <1>3, <1>4, <3>1
    <3>2. CASE ~ (j = n /\ k = l)
      <4>1. neighbors'[j][k] = neighbors[j][k]
        BY <1>4, <3>2
      <4>2. neighbors[j][k] \in Seq(DOMAIN nodes) /\ Len(neighbors[j][k]) <= MaxLinks(k)
        BY <1>1 DEF ListsInMap, DegreeBounded
      <4> QED
        BY <4>1, <4>2
    <3> QED
      BY <3>1, <3>2
  <2> HIDE DEF n, l, list
  <2> QED
    BY <2>1, <2>2, <2>3 DEF ListsInMap, DegreeBounded
<1>12. CallsInMap'
  <2>1. UNCHANGED <<nodes, found, ep>>
    BY <1>2 DEF walkVars
  <2> QED
    BY <1>1, <1>2, <1>7, <2>1 DEF CallsInMap
<1>13. Wired'
  BY <1>1, <1>7, <1>8 DEF Wired, Call
<1> QED
  BY <1>9, <1>10, <1>11, <1>12, <1>13 DEF GraphInv

LEMMA GraphPromotion ==
  ASSUME GraphInv, NEW i \in Insertion, AskPromotion(i) \/ Promote(i)
  PROVE  GraphInv'
<1>1. /\ TypeOK /\ MapSound /\ ListsInMap /\ CallsInMap /\ Wired /\ DegreeBounded
      /\ i \in Call
  BY DEF GraphInv, Call
<1>2. /\ pc[i] \in {"promote", "promoting"}
      /\ pc' = [pc EXCEPT ![i] = "promoting"] \/ pc' = [pc EXCEPT ![i] = "done"]
      /\ UNCHANGED <<nodes, maxLayer, level, neighbors, ep, layer, top, walkVars, backVars, result,
                    history>>
      /\ entryPoint' \in {entryPoint, Id[i]}
  BY DEF AskPromotion, Promote, graphVars
<1>3. /\ pc' \in [Call -> CallState] /\ \A c \in Call \ {i} : pc'[c] = pc[c]
      /\ pc'[i] \in {"promoting", "done"}
  BY <1>1, <1>2 DEF TypeOK, CallState
<1>4. Registered' = Registered
  BY <1>1, <1>2, <1>3 DEF Registered, Call
<1>5. Id[i] \in DOMAIN nodes
  BY <1>1, <1>2 DEF MapSound, Registered
<1>6. TypeOK'
  <2>1. entryPoint' \in Ids \cup {NoId}
    BY <1>1, <1>2, <1>5 DEF TypeOK
  <2> QED
    BY <1>1, <1>2, <1>3, <2>1 DEF TypeOK, walkVars, backVars, history
<1>7. MapSound'
  BY <1>1, <1>2, <1>4, <1>5 DEF MapSound
<1>8. ListsInMap' /\ DegreeBounded'
  BY <1>2, ListsKept
<1>9. CallsInMap'
  <2>1. UNCHANGED <<nodes, found, ep>>
    BY <1>2 DEF walkVars
  <2> QED
    BY <1>1, <1>3, <1>4, <2>1 DEF CallsInMap
<1>10. Wired'
  <2>1. UNCHANGED <<todo, kept, layer>>
    BY <1>2 DEF backVars
  <2> QED
    BY <1>1, <1>3, <2>1 DEF Wired, Call
<1> QED
  BY <1>6, <1>7, <1>8, <1>9, <1>10 DEF GraphInv

LEMMA GraphStep ==
  ASSUME GraphInv, [Next]_vars
  PROVE  GraphInv'
<1>1. CASE UNCHANGED vars
  BY <1>1 DEF GraphInv, TypeOK, MapSound, Registered, ListsInMap, CallsInMap, Wired, DegreeBounded,
              vars, graphVars, walkVars, backVars, history
<1>2. ASSUME NEW c \in Call, Step(c) PROVE GraphInv'
  BY <1>2, GraphEnterLayer, GraphExpand, GraphDescend, GraphRegister, GraphLink, GraphPhaseA,
     GraphPhaseB, GraphPromotion, GraphAnswer
  DEF Step
<1> QED
  BY <1>1, <1>2, GraphCallInsert, GraphCallSearch DEF Next

LEMMA GraphAlways == Spec => []GraphInv
<1>1. Init => GraphInv
  BY GraphInit
<1>2. GraphInv /\ [Next]_vars => GraphInv'
  BY GraphStep
<1> QED
  BY <1>1, <1>2, PTL DEF Spec

\* Every variable keeps its type, with any number of insertions and searches at
\* a time and ids that repeat.  In particular what a call looks up in g.nodes is
\* there, and the walk hands on at least one Node: upper[0] and candidates[0]
\* (hnsw.go:291, 336, 491) exist.
THEOREM GraphTypeCorrect == Spec => []TypeOK
<1>1. GraphInv => TypeOK
  BY DEF GraphInv
<1> QED
  BY <1>1, GraphAlways, PTL

\* No neighbour list outgrows its limit, however many insertions wire the same
\* neighbour at a time: phase B looks at the list again before it appends.
THEOREM DegreeAlwaysBounded == Spec => []DegreeBounded
<1>1. GraphInv => DegreeBounded
  BY DEF GraphInv
<1> QED
  BY <1>1, GraphAlways, PTL

-----------------------------------------------------------------------------
(* The entry point, when no id is inserted twice.                          *)

DistinctIds == IsInjective(Id)

\* The map leads to the Node that an insertion put there.
LEMMA OwnNode ==
  ASSUME GraphInv, DistinctIds, NEW i \in Registered
  PROVE  Id[i] \in DOMAIN nodes /\ nodes[Id[i]] = i
<1>1. Id[i] \in DOMAIN nodes /\ nodes[Id[i]] \in Registered /\ Id[nodes[Id[i]]] = Id[i]
  BY DEF GraphInv, MapSound
<1>2. Registered \subseteq Insertion /\ DOMAIN Id = Insertion
  BY HNSWAssumption DEF Registered
<1> QED
  BY <1>1, <1>2 DEF DistinctIds, IsInjective

\* An insertion that begins brings a new id.
LEMMA NewId ==
  ASSUME GraphInv, DistinctIds, NEW i \in Insertion, i \notin Registered
  PROVE  Id[i] \notin DOMAIN nodes
<1>1. ASSUME Id[i] \in DOMAIN nodes PROVE FALSE
  <2>1. nodes[Id[i]] \in Registered /\ Id[nodes[Id[i]]] = Id[i]
    BY <1>1 DEF GraphInv, MapSound
  <2>2. Registered \subseteq Insertion /\ DOMAIN Id = Insertion
    BY HNSWAssumption DEF Registered
  <2> QED
    BY <2>1, <2>2 DEF DistinctIds, IsInjective
<1> QED
  BY <1>1

LEMMA LevelsType ==
  TypeOK => /\ maxLayer \in Int
            /\ \A j \in Insertion : level[j] \in Int /\ top[j] \in Int
<1>1. Layer \subseteq Int
  BY HNSWAssumption DEF Layer
<1> QED
  BY <1>1 DEF TypeOK

LevelsBelow == \A i \in Registered : level[i] <= maxLayer

EntryInv == GraphInv /\ LevelsBelow /\ EntryPointSound

\* Steps that neither register nor promote a Node.
Quiet ==
  /\ UNCHANGED <<nodes, entryPoint, maxLayer, level, top>>
  /\ Registered' = Registered
  /\ \A j \in Insertion :
       /\ pc[j] = "done" => pc'[j] = "done"
       /\ j \in Wiring => j \in Wiring' \/ level[j] <= top[j]

LEMMA WiringRule ==
  \A i \in Insertion : i \in Wiring <=> pc[i] \notin {"new", "registering", "done"}
BY DEF Wiring, Running

LEMMA WiringRuleNext ==
  \A i \in Insertion : i \in Wiring' <=> pc'[i] \notin {"new", "registering", "done"}
BY DEF Wiring, Running

\* Where a step of one call leads.
LEMMA OneMoves ==
  ASSUME GraphInv, NEW c \in Call, NEW s, pc' = [pc EXCEPT ![c] = s],
         UNCHANGED <<nodes, entryPoint, maxLayer, level, top>>,
         c \in Insertion =>
           \/ pc[c] = "new" /\ s = "registering"
           \/ c \in Wiring /\ s \in {"layer", "walk", "back", "wire", "promote", "promoting"}
           \/ c \in Wiring /\ s = "done" /\ level[c] <= top[c]
  PROVE  Quiet
<1>1. pc'[c] = s /\ \A d \in Call \ {c} : pc'[d] = pc[d]
  BY DEF GraphInv, TypeOK
<1>2. ASSUME NEW j \in Insertion
      PROVE  /\ pc[j] = "done" => pc'[j] = "done"
             /\ j \in Wiring => j \in Wiring' \/ level[j] <= top[j]
             /\ j \in Registered' <=> j \in Registered
  <2>1. CASE j = c
    BY <1>1, <2>1, WiringRule, WiringRuleNext DEF Registered
  <2>2. CASE j # c
    BY <1>1, <2>2, WiringRule, WiringRuleNext DEF Registered, Call
  <2> QED
    BY <2>1, <2>2
<1>3. Registered' = Registered
  BY <1>2 DEF Registered
<1> QED
  BY <1>2, <1>3 DEF Quiet

LEMMA AdvanceQuiet ==
  ASSUME GraphInv, NEW i \in Insertion, pc[i] \in {"back", "wire"}, Advance(i),
         UNCHANGED <<nodes, entryPoint, maxLayer, level, top>>
  PROVE  Quiet
<1>1. i \in Wiring /\ i \in Call
  BY WiringRule DEF Call
<1>2. CASE pc' = [pc EXCEPT ![i] = "back"]
  BY <1>1, <1>2, OneMoves
<1>3. CASE pc' = [pc EXCEPT ![i] = "layer"]
  BY <1>1, <1>3, OneMoves
<1>4. CASE pc' = [pc EXCEPT ![i] = IF level[i] > top[i] THEN "promote" ELSE "done"]
  <2>1. level[i] > top[i] \/ level[i] <= top[i]
    BY HNSWAssumption DEF GraphInv, TypeOK, Layer
  <2>2. CASE level[i] > top[i]
    <3>1. pc' = [pc EXCEPT ![i] = "promote"]
      BY <1>4, <2>2
    <3> QED
      BY <1>1, <3>1, OneMoves
  <2>3. CASE level[i] <= top[i]
    <3>1. ~ level[i] > top[i]
      BY <2>3, HNSWAssumption DEF GraphInv, TypeOK, Layer
    <3>2. pc' = [pc EXCEPT ![i] = "done"]
      BY <1>4, <3>1
    <3> QED
      BY <1>1, <2>3, <3>2, OneMoves
  <2> QED
    BY <2>1, <2>2, <2>3
<1> QED
  BY <1>2, <1>3, <1>4 DEF Advance

LEMMA StepQuiet ==
  ASSUME GraphInv, NEW c \in Call, Step(c)
  PROVE  \/ Quiet
         \/ c \in Insertion /\ (Register(c) \/ Promote(c))
<1>1. ASSUME EnterLayer(c) PROVE Quiet
  <2>1. pc[c] = "layer" /\ pc' = [pc EXCEPT ![c] = "walk"] /\ UNCHANGED <<graphVars, top>>
    BY <1>1 DEF EnterLayer
  <2> QED
    BY <2>1, OneMoves, WiringRule DEF graphVars
<1>2. ASSUME Expand(c) PROVE Quiet
  <2>1. UNCHANGED <<graphVars, pc, top>>
    BY <1>2 DEF Expand
  <2> QED
    BY <2>1, WiringRule, WiringRuleNext DEF Quiet, Registered, graphVars
<1>3. ASSUME Descend(c) PROVE Quiet
  <2>1. pc[c] = "walk" /\ pc' = [pc EXCEPT ![c] = "layer"] /\ UNCHANGED <<graphVars, top>>
    BY <1>3 DEF Descend, WalkOver
  <2> QED
    BY <2>1, OneMoves, WiringRule DEF graphVars
<1>4. ASSUME c \in Insertion, Link(c) PROVE Quiet
  <2>1. /\ pc[c] = "walk" /\ pc' = [pc EXCEPT ![c] = "back"]
        /\ UNCHANGED <<nodes, entryPoint, maxLayer, level, top>>
    BY <1>4, HNSWAssumption DEF Link, WalkOver
  <2> QED
    BY <2>1, OneMoves, WiringRule
<1>5. ASSUME c \in Insertion, PhaseA(c) PROVE Quiet
  <2>1. pc[c] = "back" /\ UNCHANGED <<graphVars, top>>
    BY <1>5 DEF PhaseA
  <2>2. CASE Advance(c)
    BY <1>5, <2>1, <2>2, AdvanceQuiet DEF graphVars
  <2>3. CASE pc' = [pc EXCEPT ![c] = "wire"]
    BY <2>1, <2>3, OneMoves, WiringRule DEF graphVars
  <2> QED
    BY <1>5, <2>2, <2>3 DEF PhaseA
<1>6. ASSUME c \in Insertion, PhaseB(c) PROVE Quiet
  <2>1. /\ pc[c] = "wire" /\ Advance(c)
        /\ UNCHANGED <<nodes, entryPoint, maxLayer, level, top>>
    BY <1>6 DEF PhaseB
  <2> QED
    BY <1>6, <2>1, AdvanceQuiet
<1>7. ASSUME c \in Insertion, AskPromotion(c) PROVE Quiet
  <2>1. pc[c] = "promote" /\ pc' = [pc EXCEPT ![c] = "promoting"] /\ UNCHANGED <<graphVars, top>>
    BY <1>7 DEF AskPromotion
  <2> QED
    BY <2>1, OneMoves, WiringRule DEF graphVars
<1>8. ASSUME c \in Query, Answer(c) PROVE Quiet
  <2>1. pc' = [pc EXCEPT ![c] = "done"] /\ UNCHANGED <<graphVars, top>>
    BY <1>8 DEF Answer
  <2>2. c \notin Insertion
    BY <1>8, HNSWAssumption
  <2> QED
    BY <2>1, <2>2, OneMoves DEF graphVars
<1> QED
  BY <1>1, <1>2, <1>3, <1>4, <1>5, <1>6, <1>7, <1>8 DEF Step

LEMMA CallQuiet ==
  /\ \A i \in Insertion : GraphInv /\ CallInsert(i) => Quiet
  /\ \A q \in Query : GraphInv /\ CallSearch(q) => Quiet
<1>1. ASSUME GraphInv, NEW i \in Insertion, CallInsert(i) PROVE Quiet
  <2>1. /\ i \in Call /\ pc[i] = "new" /\ pc' = [pc EXCEPT ![i] = "registering"]
        /\ UNCHANGED <<graphVars, top>>
    BY <1>1 DEF CallInsert, Call
  <2> QED
    BY <1>1, <2>1, OneMoves DEF graphVars
<1>2. ASSUME GraphInv, NEW q \in Query, CallSearch(q) PROVE Quiet
  <2>1. q \in Call /\ q \notin Insertion
    BY HNSWAssumption DEF Call
  <2>2. /\ \E s \in {"done", "layer"} : pc' = [pc EXCEPT ![q] = s]
        /\ UNCHANGED <<graphVars, top>>
    BY <1>2 DEF CallSearch
  <2> QED
    BY <1>2, <2>1, <2>2, OneMoves DEF graphVars
<1> QED
  BY <1>1, <1>2

LEMMA EntryQuiet ==
  ASSUME EntryInv, Quiet
  PROVE  LevelsBelow' /\ EntryPointSound'
<1>1. LevelsBelow'
  BY DEF EntryInv, LevelsBelow, Quiet
<1>2. ASSUME entryPoint # NoId
      PROVE  /\ pc'[nodes[entryPoint]] = "done"
             /\ \/ level[nodes[entryPoint]] = maxLayer
                \/ \E i \in Wiring' : level[i] = maxLayer /\ level[i] > top[i]
  <2>1. nodes[entryPoint] \in Insertion /\ pc[nodes[entryPoint]] = "done"
    BY <1>2 DEF EntryInv, GraphInv, TypeOK, MapSound, EntryPointSound
  <2>2. ASSUME NEW i \in Wiring, level[i] > top[i] PROVE i \in Wiring'
    <3>1. i \in Insertion
      BY DEF Wiring, Running
    <3>2. level[i] \in Int /\ top[i] \in Int
      BY <3>1, HNSWAssumption DEF EntryInv, GraphInv, TypeOK, Layer
    <3> QED
      BY <2>2, <3>1, <3>2 DEF Quiet
  <2> QED
    BY <1>2, <2>1, <2>2 DEF EntryInv, EntryPointSound, Quiet
<1>3. EntryPointSound'
  BY <1>2 DEF Quiet, EntryPointSound
<1> QED
  BY <1>1, <1>3

LEMMA EntryRegister ==
  ASSUME EntryInv, DistinctIds, NEW i \in Insertion, Register(i)
  PROVE  LevelsBelow' /\ EntryPointSound'
<1>1. /\ TypeOK /\ MapSound /\ GraphInv /\ i \in Call
      /\ maxLayer \in Int /\ \A j \in Insertion : level[j] \in Int /\ top[j] \in Int
  BY LevelsType DEF EntryInv, GraphInv, Call
<1>2. /\ pc[i] = "registering"
      /\ nodes' = [id \in DOMAIN nodes \cup {Id[i]} |-> IF id = Id[i] THEN i ELSE nodes[id]]
  BY DEF Register
<1>3. PICK lvl \in Layer :
        /\ level' = [level EXCEPT ![i] = lvl]
        /\ maxLayer' = IF Empty \/ lvl > maxLayer THEN lvl ELSE maxLayer
        /\ IF Empty
           THEN entryPoint' = Id[i] /\ pc' = [pc EXCEPT ![i] = "done"] /\ UNCHANGED top
           ELSE /\ pc' = [pc EXCEPT ![i] = "layer"] /\ top' = [top EXCEPT ![i] = maxLayer]
                /\ UNCHANGED entryPoint
  BY DEF Register
<1>4. lvl \in Int
  BY HNSWAssumption DEF Layer
<1>5. i \notin Registered /\ Id[i] \notin DOMAIN nodes
  BY <1>1, <1>2, NewId DEF Registered
<1>6. /\ level'[i] = lvl /\ \A j \in Insertion \ {i} : level'[j] = level[j]
      /\ nodes'[Id[i]] = i /\ \A id \in DOMAIN nodes : nodes'[id] = nodes[id]
  BY <1>1, <1>2, <1>3, <1>5 DEF TypeOK
<1>7. pc'[i] \in {"done", "layer"} /\ \A c \in Call \ {i} : pc'[c] = pc[c]
  BY <1>1, <1>3 DEF TypeOK
<1>8. Registered' = Registered \cup {i} /\ Registered \subseteq Insertion
  BY <1>7 DEF Registered, Call
<1>9. LevelsBelow'
  <2>1. Empty => Registered = {}
    BY <1>1 DEF MapSound, Empty
  <2>2. \A j \in Registered : level[j] <= maxLayer
    BY DEF EntryInv, LevelsBelow
  <2>3. ASSUME NEW j \in Registered' PROVE level'[j] <= maxLayer'
    <3>1. CASE j = i
      BY <1>1, <1>3, <1>4, <1>6, <3>1
    <3>2. CASE j # i
      <4>1. j \in Registered /\ level'[j] = level[j] /\ level[j] <= maxLayer /\ ~Empty
        BY <1>6, <1>8, <2>1, <2>2, <3>2
      <4> QED
        BY <1>1, <1>3, <1>4, <1>8, <4>1
    <3> QED
      BY <3>1, <3>2
  <2> QED
    BY <2>3 DEF LevelsBelow
<1>10. CASE Empty
  <2>1. entryPoint' = Id[i] /\ pc'[i] = "done" /\ maxLayer' = lvl
    BY <1>1, <1>3, <1>10 DEF TypeOK
  <2>2. /\ nodes'[entryPoint'] = i /\ level'[i] = maxLayer'
    BY <1>6, <2>1
  <2> QED
    BY <1>9, <2>1, <2>2 DEF EntryPointSound
<1>11. CASE ~Empty
  <2>1. entryPoint' = entryPoint /\ entryPoint \in DOMAIN nodes /\ entryPoint # NoId
    BY <1>1, <1>3, <1>11, NoIdAssumption DEF MapSound, TypeOK, Empty
  <2> DEFINE n == nodes[entryPoint]
  <2>2. n \in Insertion /\ pc[n] = "done" /\ n # i /\ nodes'[entryPoint] = n
    BY <1>1, <1>2, <1>6, <2>1 DEF TypeOK, EntryInv, EntryPointSound
  <2>3. /\ pc'[n] = "done" /\ level'[n] = level[n]
        /\ pc'[i] = "layer" /\ top'[i] = maxLayer
        /\ \A j \in Insertion \ {i} : top'[j] = top[j]
    BY <1>1, <1>3, <1>6, <1>7, <1>11, <2>2 DEF TypeOK, Call
  <2>4. \/ level[n] = maxLayer
        \/ \E j \in Wiring : level[j] = maxLayer /\ level[j] > top[j]
    <3>1. EntryPointSound
      BY DEF EntryInv
    <3> QED
      BY <2>1, <3>1 DEF EntryPointSound
  <2> HIDE DEF n
  <2>5. \/ level'[n] = maxLayer'
        \/ \E j \in Wiring' : level'[j] = maxLayer' /\ level'[j] > top'[j]
    <3>1. CASE lvl > maxLayer
      <4>1. i \in Wiring' /\ level'[i] = maxLayer' /\ level'[i] > top'[i]
        BY <1>3, <1>6, <2>3, <3>1, WiringRuleNext
      <4> QED
        BY <4>1
    <3>2. CASE ~ lvl > maxLayer
      <4>1. maxLayer' = maxLayer
        BY <1>3, <1>11, <3>2
      <4>2. ASSUME NEW j \in Wiring PROVE j \in Wiring' /\ level'[j] = level[j] /\ top'[j] = top[j]
        <5>1. j \in Insertion /\ j # i
          BY <1>2, WiringRule DEF Wiring, Running
        <5> QED
          BY <1>6, <1>7, <2>3, <5>1, WiringRule, WiringRuleNext DEF Call
      <4> QED
        BY <2>3, <2>4, <4>1, <4>2
    <3> QED
      BY <3>1, <3>2
  <2>6. entryPoint' # NoId /\ nodes'[entryPoint'] = n /\ pc'[n] = "done"
    BY <2>1, <2>2, <2>3
  <2> QED
    BY <1>9, <2>5, <2>6 DEF EntryPointSound
<1> QED
  BY <1>10, <1>11

LEMMA EntryPromote ==
  ASSUME EntryInv, DistinctIds, NEW i \in Insertion, Promote(i)
  PROVE  LevelsBelow' /\ EntryPointSound'
<1>1. /\ TypeOK /\ MapSound /\ GraphInv /\ i \in Call
      /\ maxLayer \in Int /\ \A j \in Insertion : level[j] \in Int /\ top[j] \in Int
  BY LevelsType DEF EntryInv, GraphInv, Call
<1>2. /\ pc[i] = "promoting" /\ pc' = [pc EXCEPT ![i] = "done"]
      /\ entryPoint' = IF StillHighest(i) THEN Id[i] ELSE entryPoint
      /\ UNCHANGED <<nodes, maxLayer, level, top>>
  BY DEF Promote
<1>3. i \in Registered /\ nodes[Id[i]] = i /\ level[i] <= maxLayer
  <2>1. i \in Registered
    BY <1>2 DEF Registered
  <2> QED
    BY <1>1, <2>1, OwnNode DEF EntryInv, LevelsBelow
<1>4. pc'[i] = "done" /\ \A c \in Call \ {i} : pc'[c] = pc[c]
  BY <1>1, <1>2 DEF TypeOK
<1>5. LevelsBelow'
  <2>1. Registered' = Registered
    BY <1>1, <1>2, <1>4 DEF Registered, Call
  <2> QED
    BY <1>2, <2>1 DEF EntryInv, LevelsBelow
<1>6. CASE StillHighest(i)
  <2>1. entryPoint' = Id[i] /\ level[i] = maxLayer
    BY <1>1, <1>2, <1>3, <1>6 DEF StillHighest
  <2> QED
    BY <1>2, <1>3, <1>4, <1>5, <2>1 DEF EntryPointSound
<1>7. CASE ~StillHighest(i)
  <2>1. entryPoint' = entryPoint /\ level[i] # maxLayer
    BY <1>1, <1>2, <1>7 DEF StillHighest
  <2>2. \A j \in Wiring : j # i => j \in Wiring'
    BY <1>4, WiringRule, WiringRuleNext DEF Wiring, Running, Call
  <2>3. ASSUME entryPoint # NoId
        PROVE  /\ pc'[nodes[entryPoint]] = "done"
               /\ \/ level[nodes[entryPoint]] = maxLayer
                  \/ \E j \in Wiring' : level[j] = maxLayer /\ level[j] > top[j]
    <3>1. /\ pc[nodes[entryPoint]] = "done" /\ nodes[entryPoint] \in Call
      BY <1>1, <2>3 DEF EntryInv, EntryPointSound, MapSound, TypeOK, Call
    <3>2. pc'[nodes[entryPoint]] = "done"
      BY <1>2, <1>4, <3>1
    <3> QED
      BY <2>1, <2>2, <2>3, <3>2 DEF EntryInv, EntryPointSound
  <2> QED
    BY <1>2, <1>5, <2>1, <2>3 DEF EntryPointSound
<1> QED
  BY <1>6, <1>7

LEMMA EntryStep ==
  ASSUME EntryInv, DistinctIds, [Next]_vars
  PROVE  EntryInv'
<1>1. GraphInv /\ GraphInv'
  BY GraphStep DEF EntryInv
<1>2. CASE UNCHANGED vars
  <2>1. UNCHANGED <<nodes, entryPoint, maxLayer, level, top, pc>>
    BY <1>2 DEF vars, graphVars
  <2>2. Quiet
    BY <2>1, WiringRule, WiringRuleNext DEF Quiet, Registered
  <2> QED
    BY <1>1, <2>2, EntryQuiet DEF EntryInv
<1>3. CASE Next
  <2>1. Quiet \/ \E i \in Insertion : Register(i) \/ Promote(i)
    BY <1>1, <1>3, CallQuiet, StepQuiet DEF Next
  <2> QED
    BY <1>1, <2>1, EntryQuiet, EntryRegister, EntryPromote DEF EntryInv
<1> QED
  BY <1>2, <1>3

LEMMA EntryAlways ==
  ASSUME DistinctIds
  PROVE  Spec => []EntryInv
<1>1. Init => EntryInv
  <2>1. Init => LevelsBelow /\ EntryPointSound
    BY DEF Init, LevelsBelow, Registered, EntryPointSound, Call
  <2> QED
    BY <2>1, GraphInit DEF EntryInv
<1>2. EntryInv /\ [Next]_vars => EntryInv'
  BY EntryStep
<1> QED
  BY <1>1, <1>2, PTL DEF Spec

\* The entry point is a finished Node and on the top layer, unless a Node that
\* raised maxLayer is on its way to become the entry point: phase 4 is the only
\* place that gives the graph a new entry point, and it looks again whether
\* another insertion has gone higher.  For any number of insertions at a time.
THEOREM EntryPointAlwaysSound ==
  ASSUME DistinctIds
  PROVE  Spec => []EntryPointSound
<1>1. EntryInv => EntryPointSound
  BY DEF EntryInv
<1> QED
  BY <1>1, EntryAlways, PTL

-----------------------------------------------------------------------------
(* Links stay on their layer.                                              *)

\* One insertion at a time, as long as none has overlapped another.
Alone == \A i, j \in Running : i = j

LinksOnLayer ==
  \A i \in Insertion, l \in Layer : \A id \in Range(neighbors[i][l]) : level[nodes[id]] >= l

\* What an insertion works with on a layer lies on that layer, its own Node too.
CallOnLayer(i) ==
  /\ pc[i] = "layer" => level[nodes[ep[i]]] >= layer[i]
  /\ pc[i] = "walk" => \A n \in found[i] : level[n] >= layer[i]
  /\ pc[i] \in {"back", "wire"} => level[nodes[ep[i]]] >= layer[i] /\ level[i] >= layer[i]
  /\ pc[i] = "wire" => \A id \in Range(kept[i]) : level[nodes[id]] >= layer[i]

LevelInv ==
  /\ EntryInv
  /\ ~overlapped => Alone /\ LinksOnLayer /\ \A i \in Insertion : CallOnLayer(i)

LEMMA LayersAreIntegers ==
  TypeOK => /\ \A i \in Insertion : level[i] \in Int
            /\ \A c \in Call : layer[c] \in Int /\ layer[c] \in Layer
<1>1. Layer \subseteq Int
  BY HNSWAssumption DEF Layer
<1> QED
  BY <1>1 DEF TypeOK

\* A step of one call moves that call only.
LEMMA StepsOne ==
  ASSUME GraphInv, NEW c \in Call, Step(c)
  PROVE  /\ pc[c] \notin {"new", "done"} /\ overlapped' = overlapped
         /\ \A d \in Call \ {c} : /\ pc'[d] = pc[d] /\ ep'[d] = ep[d] /\ layer'[d] = layer[d]
                                  /\ found'[d] = found[d]
         /\ \A d \in Insertion \ {c} : kept'[d] = kept[d]
<1> USE DEF GraphInv, TypeOK
<1>1. CASE EnterLayer(c)
  BY <1>1 DEF EnterLayer, backVars
<1>2. CASE Expand(c)
  <2>1. /\ pc[c] = "walk" /\ UNCHANGED <<pc, ep, layer, backVars, history>>
        /\ \E F : found' = [found EXCEPT ![c] = F]
    BY <1>2 DEF Expand
  <2> QED
    BY <2>1 DEF backVars, history
<1>3. CASE Descend(c)
  <2>1. /\ WalkOver(c) /\ UNCHANGED <<backVars, history>>
        /\ \E e : ep' = [ep EXCEPT ![c] = e]
        /\ layer' = [layer EXCEPT ![c] = @ - 1] /\ pc' = [pc EXCEPT ![c] = "layer"]
    BY <1>3 DEF Descend
  <2> QED
    BY <2>1 DEF WalkOver, backVars, history
<1>4. CASE c \in Insertion /\ Register(c)
  <2>1. /\ pc[c] = "registering" /\ UNCHANGED <<walkVars, backVars, history>>
        /\ pc' = [pc EXCEPT ![c] = "done"] \/ pc' = [pc EXCEPT ![c] = "layer"]
        /\ ep' = ep \/ ep' = [ep EXCEPT ![c] = entryPoint]
        /\ layer' = layer \/ \E k : layer' = [layer EXCEPT ![c] = k]
    BY <1>4 DEF Register
  <2> QED
    BY <2>1 DEF walkVars, backVars, history
<1>5. CASE c \in Insertion /\ Link(c)
  <2>1. /\ WalkOver(c) /\ UNCHANGED <<layer, kept, history>>
        /\ \E e : ep' = [ep EXCEPT ![c] = e]
        /\ pc' = [pc EXCEPT ![c] = "back"]
    BY <1>5 DEF Link
  <2> QED
    BY <2>1 DEF WalkOver, history
<1>6. CASE c \in Insertion /\ PhaseA(c)
  <2>1. pc[c] = "back" /\ UNCHANGED <<ep, walkVars, history>>
    BY <1>6 DEF PhaseA
  <2>2. CASE Advance(c) /\ UNCHANGED kept
    BY <1>6, <2>1, <2>2, AdvanceRule DEF walkVars, history
  <2>3. CASE /\ \E k : kept' = [kept EXCEPT ![c] = k]
             /\ pc' = [pc EXCEPT ![c] = "wire"] /\ UNCHANGED layer
    BY <1>6, <2>1, <2>3 DEF walkVars, history
  <2>4. \/ Advance(c) /\ UNCHANGED kept
        \/ /\ \E k : kept' = [kept EXCEPT ![c] = k]
           /\ pc' = [pc EXCEPT ![c] = "wire"] /\ UNCHANGED layer
    BY <1>6 DEF PhaseA
  <2> QED
    BY <2>2, <2>3, <2>4
<1>7. CASE c \in Insertion /\ PhaseB(c)
  <2>1. /\ pc[c] = "wire" /\ Advance(c) /\ UNCHANGED <<ep, walkVars, history>>
        /\ kept' = [kept EXCEPT ![c] = <<>>]
    BY <1>7 DEF PhaseB
  <2> QED
    BY <1>7, <2>1, AdvanceRule DEF walkVars, history
<1>8. CASE c \in Insertion /\ (AskPromotion(c) \/ Promote(c))
  BY <1>8 DEF AskPromotion, Promote, walkVars, backVars, history
<1>9. CASE c \in Query /\ Answer(c)
  BY <1>9 DEF Answer, WalkOver, backVars, history
<1> QED
  BY <1>1, <1>2, <1>3, <1>4, <1>5, <1>6, <1>7, <1>8, <1>9 DEF Step

\* A Node in the map stays there and keeps its level.
LEMMA LevelsKept ==
  ASSUME GraphInv, DistinctIds, NEW c \in Call, Step(c)
  PROVE  /\ \A id \in DOMAIN nodes : /\ nodes[id] \in Insertion /\ nodes'[id] = nodes[id]
                                     /\ level'[nodes[id]] = level[nodes[id]]
         /\ \A i \in Registered : level'[i] = level[i]
<1>1. \A id \in DOMAIN nodes : nodes[id] \in Registered /\ nodes[id] \in Insertion
  BY DEF GraphInv, MapSound, Registered
<1>2. CASE UNCHANGED <<nodes, level>>
  BY <1>1, <1>2
<1>3. CASE c \in Insertion /\ Register(c)
  <2>1. /\ c \notin Registered
        /\ nodes' = [id \in DOMAIN nodes \cup {Id[c]} |-> IF id = Id[c] THEN c ELSE nodes[id]]
        /\ \E lvl : level' = [level EXCEPT ![c] = lvl]
    BY <1>3 DEF Register, Registered
  <2>2. Id[c] \notin DOMAIN nodes
    BY <1>3, <2>1, NewId
  <2>3. Registered \subseteq Insertion
    BY DEF Registered
  <2> QED
    BY <1>1, <2>1, <2>2, <2>3 DEF GraphInv, TypeOK
<1> QED
  BY <1>2, <1>3, StepQuiet DEF Quiet, Promote

\* What the calls that do not move work with, and what the lists held, is still
\* on its layer.
LEMMA LevelFrame ==
  ASSUME LevelInv, DistinctIds, NEW c \in Call, Step(c), ~overlapped
  PROVE  /\ Alone'
         /\ \A i \in Insertion \ {c} : CallOnLayer(i)'
         /\ \A i \in Insertion, l \in Layer : \A id \in Range(neighbors[i][l]) :
              level'[nodes'[id]] >= l
<1>1. GraphInv /\ Alone /\ LinksOnLayer /\ \A i \in Insertion : CallOnLayer(i)
  BY DEF LevelInv, EntryInv
<1>2. /\ pc[c] \notin {"new", "done"}
      /\ \A d \in Call \ {c} : /\ pc'[d] = pc[d] /\ ep'[d] = ep[d] /\ layer'[d] = layer[d]
                               /\ found'[d] = found[d]
      /\ \A d \in Insertion \ {c} : kept'[d] = kept[d]
  BY <1>1, StepsOne
<1>3. /\ \A id \in DOMAIN nodes : level'[nodes'[id]] = level[nodes[id]]
      /\ \A i \in Registered : level'[i] = level[i]
  BY <1>1, LevelsKept
<1>4. Running' \subseteq Running
  BY <1>2 DEF Running, Call
<1>5. Alone'
  BY <1>1, <1>4 DEF Alone
<1>6. ASSUME NEW i \in Insertion \ {c} PROVE CallOnLayer(i)'
  <2>1. /\ pc[i] \in {"layer", "back", "wire"} => ep[i] \in DOMAIN nodes
        /\ found[i] \subseteq Registered
        /\ pc[i] \in {"back", "wire"} => i \in Registered
    BY <1>1 DEF GraphInv, CallsInMap, Registered, Call
  <2>2. Range(kept[i]) \subseteq DOMAIN nodes
    <3>1. kept[i] \in Seq(DOMAIN nodes)
      BY <1>1 DEF GraphInv, ListsInMap
    <3> QED
      BY <3>1 DEF Range
  <2>3. CallOnLayer(i) /\ i \in Call \ {c}
    BY <1>1 DEF Call
  <2> QED
    BY <1>2, <1>3, <2>1, <2>2, <2>3 DEF CallOnLayer
<1>7. ASSUME NEW i \in Insertion, NEW l \in Layer, NEW id \in Range(neighbors[i][l])
      PROVE  level'[nodes'[id]] >= l
  <2>1. id \in DOMAIN nodes
    <3>1. neighbors[i][l] \in Seq(DOMAIN nodes)
      BY <1>1 DEF GraphInv, ListsInMap
    <3> QED
      BY <3>1 DEF Range
  <2> QED
    BY <1>1, <1>3, <2>1 DEF LinksOnLayer
<1> QED
  BY <1>5, <1>6, <1>7

\* The first layer of an insertion is that of its entry point, as nobody else
\* is inserting.
LEMMA LevelRegister ==
  ASSUME LevelInv, DistinctIds, NEW i \in Insertion, Register(i), ~overlapped
  PROVE  CallOnLayer(i)' /\ LinksOnLayer'
<1>1. GraphInv /\ TypeOK /\ Alone /\ EntryPointSound /\ i \in Call /\ Step(i)
  BY DEF LevelInv, EntryInv, GraphInv, Call, Step
<1>2. /\ pc[i] = "registering" /\ UNCHANGED neighbors
      /\ \/ pc' = [pc EXCEPT ![i] = "done"]
         \/ /\ ~Empty /\ pc' = [pc EXCEPT ![i] = "layer"]
            /\ ep' = [ep EXCEPT ![i] = entryPoint]
            /\ \E lvl \in Layer : layer' = [layer EXCEPT ![i] = StartLayer(lvl)]
  BY DEF Register
<1>3. LinksOnLayer'
  BY <1>1, <1>2, LevelFrame DEF LinksOnLayer
<1>4. CASE pc' = [pc EXCEPT ![i] = "done"]
  <2>1. pc'[i] = "done"
    BY <1>1, <1>4 DEF TypeOK
  <2> QED
    BY <1>3, <2>1 DEF CallOnLayer
<1>5. CASE /\ ~Empty /\ pc' = [pc EXCEPT ![i] = "layer"]
           /\ ep' = [ep EXCEPT ![i] = entryPoint]
           /\ layer' = [layer EXCEPT ![i] = maxLayer]
  <2>1. pc'[i] = "layer" /\ ep'[i] = entryPoint /\ layer'[i] = maxLayer
    BY <1>1, <1>5 DEF TypeOK
  <2>2. entryPoint \in DOMAIN nodes /\ entryPoint # NoId
    BY <1>1, <1>5, NoIdAssumption DEF GraphInv, MapSound, TypeOK, Empty
  <2>3. Wiring = {}
    BY <1>1, <1>2 DEF Alone, Wiring, Running
  <2>4. level[nodes[entryPoint]] = maxLayer
    BY <1>1, <2>2, <2>3 DEF EntryPointSound
  <2>5. level'[nodes'[entryPoint]] = maxLayer /\ maxLayer \in Int
    BY <1>1, <2>2, <2>4, LevelsKept, LevelsType
  <2>6. level'[nodes'[ep'[i]]] >= layer'[i]
    BY <2>1, <2>5
  <2> QED
    BY <1>3, <2>1, <2>6 DEF CallOnLayer
<1> QED
  BY <1>2, <1>4, <1>5 DEF StartLayer

\* What a walk of a layer finds is on that layer.
LEMMA LevelWalk ==
  ASSUME LevelInv, DistinctIds, NEW i \in Insertion, EnterLayer(i) \/ Expand(i), ~overlapped
  PROVE  CallOnLayer(i)' /\ LinksOnLayer'
<1>1. /\ GraphInv /\ TypeOK /\ LinksOnLayer /\ CallOnLayer(i) /\ i \in Call /\ Step(i)
  BY DEF LevelInv, EntryInv, GraphInv, Call, Step
<1>2. UNCHANGED <<graphVars, layer>>
  BY DEF EnterLayer, Expand
<1>3. LinksOnLayer'
  BY <1>1, <1>2 DEF LinksOnLayer, graphVars
<1>4. CASE EnterLayer(i)
  <2>1. /\ pc[i] = "layer" /\ pc' = [pc EXCEPT ![i] = "walk"]
        /\ found' = [found EXCEPT ![i] = {nodes[ep[i]]}]
    BY <1>4 DEF EnterLayer
  <2>2. pc'[i] = "walk" /\ found'[i] = {nodes[ep[i]]}
    BY <1>1, <2>1 DEF TypeOK
  <2> QED
    BY <1>1, <1>2, <1>3, <2>1, <2>2 DEF CallOnLayer, graphVars
<1>5. CASE Expand(i)
  <2>1. PICK n \in Candidates(i) :
          \E F \in Heaps(found[i] \cup (Linked(n, layer[i]) \ visited[i]), ScoreTo(i), Width(i)) :
            found' = [found EXCEPT ![i] = F]
    BY <1>5 DEF Expand
  <2>2. n \in Insertion /\ layer[i] \in Layer /\ pc[i] = "walk" /\ pc' = pc
    BY <1>1, <1>5 DEF TypeOK, Candidates, Expand
  <2>3. \A m \in Linked(n, layer[i]) : level[m] >= layer[i]
    BY <1>1, <2>2 DEF Linked, LinksOnLayer
  <2>4. found'[i] \subseteq found[i] \cup Linked(n, layer[i])
    BY <1>1, <2>1 DEF TypeOK, Heaps
  <2>5. \A m \in found[i] : level[m] >= layer[i]
    BY <1>1, <2>2 DEF CallOnLayer
  <2> QED
    BY <1>2, <1>3, <2>2, <2>3, <2>4, <2>5 DEF CallOnLayer, graphVars
<1> QED
  BY <1>4, <1>5

\* What a walk hands on lies on the layer that was walked.
LEMMA FoundOnLayer ==
  ASSUME LevelInv, DistinctIds, ~overlapped, NEW i \in Insertion, pc[i] = "walk",
         NEW k \in Nat \ {0}, NEW ids \in Found(i, k)
  PROVE  /\ ids[1] \in Range(ids)
         /\ \A id \in Range(ids) : id \in DOMAIN nodes /\ level[nodes[id]] >= layer[i]
<1>1. GraphInv /\ CallOnLayer(i) /\ i \in Call
  BY DEF LevelInv, EntryInv, Call
<1>2. /\ ids \in Seq(DOMAIN nodes) /\ Len(ids) >= 1
      /\ \A j \in 1..Len(ids) : \E n \in found[i] : ids[j] = Id[n]
  BY <1>1, FoundRule
<1>3. ids[1] \in Range(ids)
  BY <1>2 DEF Range
<1>4. ASSUME NEW id \in Range(ids) PROVE id \in DOMAIN nodes /\ level[nodes[id]] >= layer[i]
  <2>1. PICK n \in found[i] : id = Id[n]
    BY <1>2 DEF Range
  <2>2. n \in Registered
    BY <1>1 DEF GraphInv, CallsInMap
  <2>3. id \in DOMAIN nodes /\ nodes[id] = n
    BY <1>1, <2>1, <2>2, OwnNode
  <2> QED
    BY <1>1, <2>3 DEF CallOnLayer
<1> QED
  BY <1>3, <1>4

LEMMA LevelDescend ==
  ASSUME LevelInv, DistinctIds, NEW i \in Insertion, Descend(i), ~overlapped
  PROVE  CallOnLayer(i)' /\ LinksOnLayer'
<1>1. GraphInv /\ TypeOK /\ LinksOnLayer /\ i \in Call
  BY DEF LevelInv, EntryInv, GraphInv, Call
<1>2. /\ pc[i] = "walk" /\ pc' = [pc EXCEPT ![i] = "layer"]
      /\ layer' = [layer EXCEPT ![i] = @ - 1] /\ UNCHANGED graphVars
  BY DEF Descend, WalkOver
<1>3. PICK ids \in Found(i, 1) : ep' = [ep EXCEPT ![i] = ids[1]]
  BY DEF Descend
<1>4. ids[1] \in DOMAIN nodes /\ level[nodes[ids[1]]] >= layer[i]
  <2>1. 1 \in Nat \ {0}
    OBVIOUS
  <2> QED
    BY <1>2, <1>3, <2>1, FoundOnLayer
<1>5. pc'[i] = "layer" /\ ep'[i] = ids[1] /\ layer'[i] = layer[i] - 1
  BY <1>1, <1>2, <1>3 DEF TypeOK
<1>6. level[nodes[ids[1]]] >= layer[i] - 1
  <2>1. level[nodes[ids[1]]] \in Int /\ layer[i] \in Int
    BY <1>1, <1>4, LayersAreIntegers DEF TypeOK
  <2> QED
    BY <1>4, <2>1
<1> QED
  BY <1>1, <1>2, <1>5, <1>6 DEF CallOnLayer, LinksOnLayer, graphVars

LEMMA LevelLink ==
  ASSUME LevelInv, DistinctIds, NEW i \in Insertion, Link(i), ~overlapped
  PROVE  CallOnLayer(i)' /\ LinksOnLayer'
<1> DEFINE l == layer[i]
<1>1. GraphInv /\ TypeOK /\ LinksOnLayer /\ i \in Call /\ l \in Layer
  BY DEF LevelInv, EntryInv, GraphInv, TypeOK, Call
<1>2. /\ pc[i] = "walk" /\ pc' = [pc EXCEPT ![i] = "back"] /\ ~Greedy(i)
      /\ UNCHANGED <<nodes, level, layer>>
  BY DEF Link, WalkOver
<1>3. PICK ids \in Found(i, MaxLinks(l)) :
        /\ neighbors' = [neighbors EXCEPT ![i][l] = ids]
        /\ ep' = [ep EXCEPT ![i] = ids[1]]
  BY DEF Link
<1>4. /\ ids[1] \in Range(ids)
      /\ \A id \in Range(ids) : level[nodes[id]] >= l
  <2>1. MaxLinks(l) \in Nat \ {0}
    BY <1>1, MaxLinksType
  <2> QED
    BY <1>2, <1>3, <2>1, FoundOnLayer
<1>5. pc'[i] = "back" /\ ep'[i] = ids[1]
  BY <1>1, <1>2, <1>3 DEF TypeOK
<1>6. level[i] >= l
  <2>1. level[i] \in Int /\ l \in Int
    BY <1>1, LayersAreIntegers
  <2> QED
    BY <1>2, <2>1 DEF Greedy, Floor
<1>7. CallOnLayer(i)'
  BY <1>2, <1>4, <1>5, <1>6 DEF CallOnLayer
<1>8. LinksOnLayer'
  <2>1. ASSUME NEW j \in Insertion, NEW k \in Layer, NEW id \in Range(neighbors'[j][k])
        PROVE  level[nodes[id]] >= k
    <3>1. CASE j = i /\ k = l
      BY <1>1, <1>3, <1>4, <2>1, <3>1 DEF TypeOK
    <3>2. CASE ~ (j = i /\ k = l)
      BY <1>1, <1>3, <2>1, <3>2 DEF TypeOK, LinksOnLayer
    <3> QED
      BY <3>1, <3>2
  <2> QED
    BY <1>2, <2>1 DEF LinksOnLayer
<1> QED
  BY <1>7, <1>8

\* The next neighbour or the next layer, from the best candidate of this one.
LEMMA LevelAdvance ==
  ASSUME GraphInv, NEW i \in Insertion, pc[i] \in {"back", "wire"}, Advance(i), CallOnLayer(i),
         UNCHANGED <<nodes, level, ep>>
  PROVE  CallOnLayer(i)'
<1>1. TypeOK /\ i \in Call /\ ep[i] \in DOMAIN nodes
  BY DEF GraphInv, Call, CallsInMap
<1>2. level[nodes[ep[i]]] \in Int /\ layer[i] \in Int
  BY <1>1, LayersAreIntegers DEF TypeOK
<1>3. \/ pc'[i] = "back" /\ layer'[i] = layer[i]
      \/ pc'[i] = "layer" /\ layer'[i] = layer[i] - 1
      \/ pc'[i] \in {"promote", "done"}
  BY <1>1 DEF Advance, TypeOK
<1>4. level[nodes[ep[i]]] >= layer[i] /\ level[i] >= layer[i]
  BY DEF CallOnLayer
<1>5. level[nodes[ep[i]]] >= layer[i] - 1
  BY <1>2, <1>4
<1> QED
  BY <1>3, <1>4, <1>5 DEF CallOnLayer

LEMMA LevelPhaseA ==
  ASSUME LevelInv, DistinctIds, NEW i \in Insertion, PhaseA(i), ~overlapped
  PROVE  CallOnLayer(i)' /\ LinksOnLayer'
<1> DEFINE n == nodes[Head(todo[i])]
           l == layer[i]
           old == neighbors[n][l]
           candidates == <<i>> \o [k \in 1..Len(old) |-> nodes[old[k]]]
           score == [k \in 1..Len(candidates) |-> Similarity[<<n, candidates[k]>>]]
<1>1. /\ GraphInv /\ TypeOK /\ LinksOnLayer /\ CallOnLayer(i) /\ i \in Call /\ l \in Layer
  BY DEF LevelInv, EntryInv, GraphInv, TypeOK, Call
<1>2. pc[i] = "back" /\ UNCHANGED <<graphVars, ep>>
  BY DEF PhaseA
<1>3. LinksOnLayer'
  BY <1>1, <1>2 DEF LinksOnLayer, graphVars
<1>4. CASE Advance(i)
  BY <1>1, <1>2, <1>3, <1>4, LevelAdvance DEF graphVars
<1>5. CASE /\ \E best \in BestFirst(1..Len(candidates), score, MaxLinks(l)) :
                kept' = [kept EXCEPT ![i] = [k \in 1..Len(best) |-> Id[candidates[best[k]]]]]
           /\ pc' = [pc EXCEPT ![i] = "wire"]
           /\ UNCHANGED layer
  <2>1. n \in Insertion
    <3>1. todo[i] \in Seq(DOMAIN nodes) /\ todo[i] # <<>>
      BY <1>1, <1>2 DEF GraphInv, ListsInMap, Wired
    <3>2. Head(todo[i]) \in DOMAIN nodes
      BY <3>1
    <3> QED
      BY <1>1, <3>2 DEF TypeOK
  <2>2. old \in Seq(DOMAIN nodes) /\ \A k \in 1..Len(old) : level[nodes[old[k]]] >= l
    <3>1. old \in Seq(DOMAIN nodes)
      BY <1>1, <2>1 DEF GraphInv, ListsInMap
    <3>2. \A id \in Range(old) : level[nodes[id]] >= l
      BY <1>1, <2>1 DEF LinksOnLayer
    <3> HIDE DEF old, l
    <3> QED
      BY <3>1, <3>2 DEF Range
  <2>3. level[i] >= l
    BY <1>1, <1>2 DEF CallOnLayer
  <2> DEFINE High == {j \in Registered : level[j] >= l}
  <2>4. candidates \in Seq(High)
    <3>1. [k \in 1..Len(old) |-> nodes[old[k]]] \in Seq(High)
      <4>1. \A id \in DOMAIN nodes : nodes[id] \in Registered
        BY <1>1 DEF GraphInv, MapSound
      <4>2. Len(old) \in Nat /\ \A k \in 1..Len(old) : old[k] \in DOMAIN nodes
        <5> HIDE DEF old
        <5> QED
          BY <2>2
      <4>3. \A k \in 1..Len(old) : nodes[old[k]] \in High
        <5> HIDE DEF old, l
        <5> QED
          BY <2>2, <4>1, <4>2
      <4> HIDE DEF old, High
      <4> QED
        BY <4>2, <4>3, SeqDef
    <3>2. i \in High
      BY <1>2, <2>3 DEF Registered
    <3>3. <<i>> \in Seq(High)
      BY <3>2
    <3> HIDE DEF old, High
    <3> QED
      BY <3>1, <3>3, ConcatProperties
  <2> HIDE DEF candidates
  <2>5. PICK best \in BestFirst(1..Len(candidates), score, MaxLinks(l)) :
          kept' = [kept EXCEPT ![i] = [k \in 1..Len(best) |-> Id[candidates[best[k]]]]]
    BY <1>5
  <2> HIDE DEF score
  <2>6. best \in Seq(1..Len(candidates))
    <3>1. Len(candidates) \in Nat /\ IsFiniteSet(1..Len(candidates))
      BY <2>4, FS_Interval
    <3>2. MaxLinks(l) \in Nat \ {0}
      BY <1>1, MaxLinksType
    <3> QED
      BY <2>5, <3>1, <3>2, BestFirstRule
  <2>7. ASSUME NEW id \in Range(kept'[i]) PROVE level[nodes[id]] >= l
    <3>1. kept'[i] = [k \in 1..Len(best) |-> Id[candidates[best[k]]]]
      BY <1>1, <2>5 DEF TypeOK
    <3>2. PICK k \in 1..Len(best) : id = Id[candidates[best[k]]]
      BY <2>7, <3>1 DEF Range
    <3>3. candidates[best[k]] \in High
      BY <2>4, <2>6
    <3>4. nodes[id] = candidates[best[k]]
      BY <1>1, <3>2, <3>3, OwnNode
    <3> QED
      BY <3>3, <3>4
  <2>8. pc'[i] = "wire"
    BY <1>1, <1>5 DEF TypeOK
  <2> QED
    BY <1>1, <1>2, <1>3, <1>5, <2>7, <2>8 DEF CallOnLayer, graphVars
<1> QED
  BY <1>4, <1>5 DEF PhaseA

LEMMA LevelPhaseB ==
  ASSUME LevelInv, DistinctIds, NEW i \in Insertion, PhaseB(i), ~overlapped
  PROVE  CallOnLayer(i)' /\ LinksOnLayer'
<1> DEFINE n == nbr[i]
           l == layer[i]
           list == neighbors[n][l]
           new == IF Fits(list, l) THEN Append(list, Id[i]) ELSE kept[i]
<1>1. /\ GraphInv /\ TypeOK /\ LinksOnLayer /\ CallOnLayer(i) /\ i \in Call
      /\ l \in Layer /\ n \in Insertion
  BY DEF LevelInv, EntryInv, GraphInv, TypeOK, Call
<1>2. /\ pc[i] = "wire" /\ Advance(i) /\ UNCHANGED <<nodes, level, ep>>
      /\ neighbors' = [neighbors EXCEPT ![n][l] = IF Fits(@, l) THEN Append(@, Id[i]) ELSE kept[i]]
  BY DEF PhaseB
<1>3. CallOnLayer(i)'
  BY <1>1, <1>2, LevelAdvance
<1>4. \A id \in Range(new) : level[nodes[id]] >= l
  <2>1. \A id \in Range(kept[i]) : level[nodes[id]] >= l
    BY <1>1, <1>2 DEF CallOnLayer
  <2>2. \A id \in Range(list) : level[nodes[id]] >= l
    BY <1>1 DEF LinksOnLayer
  <2>3. nodes[Id[i]] = i /\ level[i] >= l
    <3>1. i \in Registered
      BY <1>2 DEF Registered
    <3> QED
      BY <1>1, <1>2, <3>1, OwnNode DEF CallOnLayer
  <2>4. Range(Append(list, Id[i])) \subseteq Range(list) \cup {Id[i]}
    <3>1. list \in Seq(Ids) /\ Id[i] \in Ids
      BY <1>1, HNSWAssumption DEF TypeOK
    <3> HIDE DEF list
    <3> QED
      BY <3>1 DEF Range
  <2> HIDE DEF list
  <2> QED
    BY <2>1, <2>2, <2>3, <2>4
<1>5. neighbors' = [neighbors EXCEPT ![n][l] = new]
  BY <1>2
<1> HIDE DEF new
<1>6. ASSUME NEW j \in Insertion, NEW k \in Layer, NEW id \in Range(neighbors'[j][k])
      PROVE  level[nodes[id]] >= k
  <2>1. CASE j = n /\ k = l
    BY <1>1, <1>4, <1>5, <1>6, <2>1 DEF TypeOK
  <2>2. CASE ~ (j = n /\ k = l)
    BY <1>1, <1>5, <1>6, <2>2 DEF TypeOK, LinksOnLayer
  <2> QED
    BY <2>1, <2>2
<1>7. LinksOnLayer'
  BY <1>2, <1>6 DEF LinksOnLayer
<1> QED
  BY <1>3, <1>7

LEMMA LevelPromotion ==
  ASSUME LevelInv, NEW i \in Insertion, AskPromotion(i) \/ Promote(i), ~overlapped
  PROVE  CallOnLayer(i)' /\ LinksOnLayer'
<1>1. TypeOK /\ LinksOnLayer /\ i \in Call
  BY DEF LevelInv, EntryInv, GraphInv, Call
<1>2. pc'[i] \in {"promoting", "done"} /\ UNCHANGED <<nodes, level, neighbors>>
  BY <1>1 DEF AskPromotion, Promote, TypeOK, graphVars
<1> QED
  BY <1>1, <1>2 DEF CallOnLayer, LinksOnLayer

\* A search links nothing.
LEMMA LevelSearch ==
  ASSUME LevelInv, NEW q \in Query, Step(q), ~overlapped
  PROVE  LinksOnLayer'
<1>1. q \notin Insertion
  BY HNSWAssumption
<1>2. UNCHANGED <<nodes, level, neighbors>>
  BY <1>1 DEF Step, EnterLayer, Expand, Descend, Answer, graphVars
<1> QED
  BY <1>2 DEF LevelInv, LinksOnLayer

\* A call that begins works with nothing yet; one that begins beside another
\* ends what is claimed.
LEMMA LevelCall ==
  ASSUME LevelInv, NEW c \in Call, ~overlapped',
         (c \in Insertion /\ CallInsert(c)) \/ (c \in Query /\ CallSearch(c))
  PROVE  Alone' /\ LinksOnLayer' /\ \A i \in Insertion : CallOnLayer(i)'
<1>1. TypeOK
  BY DEF LevelInv, EntryInv, GraphInv
<1>2. CASE c \in Insertion /\ CallInsert(c)
  <2>1. /\ pc' = [pc EXCEPT ![c] = "registering"]
        /\ overlapped' = (overlapped \/ Running # {})
        /\ UNCHANGED <<graphVars, ep, layer, walkVars, backVars>>
    BY <1>2 DEF CallInsert
  <2>2. ~overlapped /\ Running = {}
    BY <2>1
  <2>3. pc'[c] = "registering" /\ \A d \in Call \ {c} : pc'[d] = pc[d]
    BY <1>1, <2>1 DEF TypeOK
  <2>4. \A j \in Running' : j = c
    BY <2>2, <2>3 DEF Running, Call
  <2>5. Alone'
    BY <2>4 DEF Alone
  <2>6. LinksOnLayer /\ \A i \in Insertion : CallOnLayer(i)
    BY <2>2 DEF LevelInv
  <2>7. ASSUME NEW i \in Insertion PROVE CallOnLayer(i)'
    BY <2>1, <2>3, <2>6
    DEF CallOnLayer, graphVars, walkVars, backVars, Call
  <2> QED
    BY <2>1, <2>5, <2>6, <2>7 DEF LinksOnLayer, graphVars
<1>3. CASE c \in Query /\ CallSearch(c)
  <2>1. c \notin Insertion
    BY <1>3, HNSWAssumption
  <2>2. /\ UNCHANGED <<graphVars, walkVars, backVars, overlapped>>
        /\ \E s : pc' = [pc EXCEPT ![c] = s]
        /\ ep' = ep \/ ep' = [ep EXCEPT ![c] = entryPoint]
        /\ layer' = layer \/ layer' = [layer EXCEPT ![c] = maxLayer]
    BY <1>3 DEF CallSearch
  <2>3. \A i \in Insertion : pc'[i] = pc[i] /\ ep'[i] = ep[i] /\ layer'[i] = layer[i]
    BY <1>1, <2>1, <2>2 DEF TypeOK, Call
  <2>4. Alone /\ LinksOnLayer /\ \A i \in Insertion : CallOnLayer(i)
    BY <2>2 DEF LevelInv
  <2>5. Running' = Running
    BY <2>3 DEF Running
  <2> QED
    BY <2>2, <2>3, <2>4, <2>5
    DEF Alone, LinksOnLayer, CallOnLayer, graphVars, walkVars, backVars
<1> QED
  BY <1>2, <1>3

LEMMA LevelStep ==
  ASSUME LevelInv, DistinctIds, [Next]_vars
  PROVE  LevelInv'
<1>1. EntryInv' /\ GraphInv
  BY EntryStep DEF LevelInv, EntryInv
<1> SUFFICES ASSUME ~overlapped'
             PROVE  Alone' /\ LinksOnLayer' /\ \A i \in Insertion : CallOnLayer(i)'
  BY <1>1 DEF LevelInv
<1>2. CASE UNCHANGED vars
  <2>1. UNCHANGED <<nodes, level, neighbors, pc, ep, layer, found, kept, overlapped>>
    BY <1>2 DEF vars, graphVars, walkVars, backVars, history
  <2>2. Alone /\ LinksOnLayer /\ \A i \in Insertion : CallOnLayer(i)
    BY <2>1 DEF LevelInv
  <2>3. Alone' /\ LinksOnLayer'
    BY <2>1, <2>2 DEF Alone, Running, LinksOnLayer
  <2>4. \A i \in Insertion : CallOnLayer(i)'
    BY <2>1, <2>2 DEF CallOnLayer
  <2> QED
    BY <2>3, <2>4
<1>3. ASSUME NEW c \in Call, Step(c)
      PROVE  Alone' /\ LinksOnLayer' /\ \A i \in Insertion : CallOnLayer(i)'
  <2>1. ~overlapped
    BY <1>1, <1>3, StepsOne
  <2>2. Alone' /\ \A i \in Insertion \ {c} : CallOnLayer(i)'
    BY <1>3, <2>1, LevelFrame
  <2>3. ASSUME c \in Insertion PROVE CallOnLayer(c)' /\ LinksOnLayer'
    <3>1. c \notin Query
      BY <2>3, HNSWAssumption
    <3> QED
      BY <1>3, <2>1, <2>3, <3>1, LevelRegister, LevelWalk, LevelDescend, LevelLink, LevelPhaseA,
         LevelPhaseB, LevelPromotion
      DEF Step
  <2>4. c \in Query => LinksOnLayer'
    BY <1>3, <2>1, LevelSearch
  <2> QED
    BY <2>2, <2>3, <2>4 DEF Call
<1>4. CASE Next
  <2>1. CASE \E c \in Call : Step(c)
    BY <1>3, <2>1
  <2>2. CASE \E i \in Insertion : CallInsert(i)
    <3>1. PICK i \in Insertion : CallInsert(i)
      BY <2>2
    <3> QED
      BY <3>1, LevelCall DEF Call
  <2>3. CASE \E q \in Query : CallSearch(q)
    <3>1. PICK q \in Query : CallSearch(q)
      BY <2>3
    <3> QED
      BY <3>1, LevelCall DEF Call
  <2> QED
    BY <1>4, <2>1, <2>2, <2>3 DEF Next
<1> QED
  BY <1>2, <1>3, <1>4

LEMMA LevelInit == Init => LevelInv
<1>1. ASSUME Init PROVE EntryInv /\ Alone /\ LinksOnLayer /\ \A i \in Insertion : CallOnLayer(i)
  <2>1. GraphInv /\ LevelsBelow /\ EntryPointSound
    BY <1>1, GraphInit DEF Init, LevelsBelow, Registered, EntryPointSound, Call
  <2>2. \A i \in Insertion : pc[i] = "new"
    BY <1>1 DEF Init, Call
  <2>3. \A i \in Insertion, l \in Layer : Range(neighbors[i][l]) = {}
    <3>1. DOMAIN <<>> = {}
      OBVIOUS
    <3> QED
      BY <1>1, <3>1 DEF Init, Range
  <2> QED
    BY <2>1, <2>2, <2>3 DEF EntryInv, Alone, Running, LinksOnLayer, CallOnLayer
<1> QED
  BY <1>1 DEF LevelInv

LEMMA LevelAlways ==
  ASSUME DistinctIds
  PROVE  Spec => []LevelInv
<1>1. Init => LevelInv
  BY LevelInit
<1>2. LevelInv /\ [Next]_vars => LevelInv'
  BY LevelStep
<1> QED
  BY <1>1, <1>2, PTL DEF Spec

\* As long as insertions follow one another, every link leads to a Node of the
\* link's layer, so that the entry point the walk hands down is always one of
\* the layer it is handed to.  It is the entry point's being on the top layer
\* (EntryPointAlwaysSound) that starts the descent of phase 3 there.
THEOREM LinksAlwaysOnLayer ==
  ASSUME DistinctIds
  PROVE  Spec => []LinksStayOnLayer
<1>1. LevelInv => LinksStayOnLayer
  BY DEF LevelInv, LinksOnLayer, LinksStayOnLayer
<1> QED
  BY <1>1, LevelAlways, PTL

-----------------------------------------------------------------------------
(* Small graphs are searched exactly, when insertions follow one another.  *)
(* On layer 0 every finished Node then links to every other, so a walk     *)
(* that expands one of them has found them all.                            *)

\* No list on layer 0 is ever full, and the searches cover the graph.
SmallGraph ==
  /\ Cardinality(Insertion) <= MaxLinks(0) + 1
  /\ Cardinality(Insertion) <= EfConstruction /\ Cardinality(Insertion) <= Ef

LEMMA SizeType == IsFiniteSet(Insertion) /\ Cardinality(Insertion) \in Nat
BY HNSWAssumption, FS_CardinalityType

LEMMA SubsetSize ==
  ASSUME NEW D \in SUBSET Insertion
  PROVE  IsFiniteSet(D) /\ Cardinality(D) \in Nat /\ Cardinality(D) <= Cardinality(Insertion)
<1>1. IsFiniteSet(D) /\ Cardinality(D) <= Cardinality(Insertion)
  BY SizeType, FS_Subset
<1> QED
  BY <1>1, FS_CardinalityType

\* A heap that is large enough keeps everything.
LEMMA HeapKeepsAll ==
  ASSUME NEW D \in SUBSET Insertion, NEW score, NEW k \in Nat, Cardinality(Insertion) <= k,
         NEW F \in Heaps(D, score, k)
  PROVE  F = D
<1>1. IsFiniteSet(D) /\ Cardinality(D) \in Nat /\ Cardinality(D) <= Cardinality(Insertion)
  BY SubsetSize
<1>2. F \in SUBSET D /\ (F = D \/ Cardinality(F) = k)
  BY DEF Heaps
<1>3. Cardinality(F) <= Cardinality(D) /\ (Cardinality(D) = Cardinality(F) => F = D)
  BY <1>1, <1>2, FS_Subset
<1> QED
  BY <1>1, <1>2, <1>3, SizeType

\* A list without repetitions is as long as it has elements.
LEMMA SimpleLength ==
  ASSUME NEW S, IsFiniteSet(S), NEW f \in Seq(S), IsInjective(f)
  PROVE  /\ Len(f) <= Cardinality(S)
         /\ Len(f) = Cardinality(S) => Range(f) = S
<1>1. Len(f) \in Nat /\ f \in [1..Len(f) -> S]
  BY LenProperties
<1>2. f \in Injection(1..Len(f), S)
  BY <1>1 DEF Injection
<1>3. Cardinality(1..Len(f)) = Len(f)
  BY <1>1, FS_Interval
<1>4. /\ Len(f) <= Cardinality(S)
      /\ Len(f) = Cardinality(S) <=> f \in Surjection(1..Len(f), S)
  BY <1>2, <1>3, FS_Injection
<1>5. f \in Surjection(1..Len(f), S) => Range(f) = S
  BY <1>1 DEF Surjection, Range
<1> QED
  BY <1>4, <1>5

\* The best of D: no element twice, and the others are no better; none is left
\* out for less than k.
LEMMA BestFirstBest ==
  ASSUME NEW D \in SUBSET Insertion, NEW score, NEW k \in Nat \ {0},
         NEW f \in BestFirst(D, score, k)
  PROVE  /\ f \in Seq(D) /\ IsInjective(f) /\ Range(f) \subseteq D
         /\ Range(f) # D => Len(f) = k /\ k < Cardinality(D)
         /\ \A j \in 1..Len(f) : \A d \in D \ Range(f) : score[f[j]] >= score[d]
<1>1. IsFiniteSet(D) /\ Cardinality(D) \in Nat
  BY SubsetSize
<1>2. PICK n \in 0..k : f \in [1..n -> D] /\ (n = k \/ n = Cardinality(D))
  BY DEF BestFirst
<1>3. f \in Seq(D) /\ Len(f) = n
  BY <1>2, SeqDef
<1>4. IsInjective(f) /\ \A j \in 1..Len(f) : \A d \in D \ Range(f) : score[f[j]] >= score[d]
  BY DEF BestFirst
<1>5. Len(f) <= Cardinality(D) /\ (Len(f) = Cardinality(D) => Range(f) = D)
  BY <1>1, <1>3, <1>4, SimpleLength
<1>6. Range(f) # D => n = k /\ k < Cardinality(D)
  BY <1>1, <1>2, <1>3, <1>5
<1>7. Range(f) \subseteq D
  BY <1>2 DEF Range
<1> QED
  BY <1>3, <1>4, <1>6, <1>7

\* What a walk hands on: each id once, of Nodes it found.
LEMMA FoundOnce ==
  ASSUME GraphInv, DistinctIds, NEW c \in Call, pc[c] = "walk", NEW k \in Nat \ {0},
         NEW ids \in Found(c, k)
  PROVE  /\ ids \in Seq(DOMAIN nodes) /\ Len(ids) >= 1 /\ IsInjective(ids)
         /\ \A id \in Range(ids) : id \in DOMAIN nodes /\ nodes[id] \in found[c]
         /\ \A n \in found[c] : Id[n] \notin Range(ids) =>
              /\ Len(ids) = k /\ k < Cardinality(found[c])
              /\ \A id \in Range(ids) : ScoreTo(c)[nodes[id]] >= ScoreTo(c)[n]
<1>1. PICK best \in BestFirst(found[c], ScoreTo(c), k) :
         ids = [j \in 1..Len(best) |-> Id[best[j]]]
  BY DEF Found
<1>2. found[c] \in SUBSET Insertion /\ found[c] \subseteq Registered
  BY DEF GraphInv, TypeOK, CallsInMap
<1>3. /\ best \in Seq(found[c]) /\ IsInjective(best) /\ Range(best) \subseteq found[c]
      /\ Range(best) # found[c] => Len(best) = k /\ k < Cardinality(found[c])
      /\ \A j \in 1..Len(best) : \A d \in found[c] \ Range(best) :
           ScoreTo(c)[best[j]] >= ScoreTo(c)[d]
  BY <1>1, <1>2, BestFirstBest
<1>4. ids \in Seq(DOMAIN nodes) /\ Len(ids) >= 1
  BY FoundRule
<1>5. /\ Len(best) \in Nat /\ DOMAIN best = 1..Len(best) /\ DOMAIN ids = 1..Len(best)
      /\ Len(ids) = Len(best)
      /\ \A j \in 1..Len(best) : ids[j] = Id[best[j]] /\ best[j] \in found[c]
  <2>1. Len(best) \in Nat /\ DOMAIN best = 1..Len(best)
        /\ \A j \in 1..Len(best) : best[j] \in found[c]
    BY <1>3, LenProperties
  <2> HIDE DEF Found
  <2>2. DOMAIN ids = 1..Len(best) /\ \A j \in 1..Len(best) : ids[j] = Id[best[j]]
    BY <1>1
  <2>3. Len(ids) = Len(best)
    BY <1>4, <2>1, <2>2, LenProperties
  <2> QED
    BY <2>1, <2>2, <2>3
<1>6. \A n \in found[c] : nodes[Id[n]] = n /\ Id[n] \in DOMAIN nodes
  BY <1>2, OwnNode
<1>7. IsInjective(ids)
  <2>1. ASSUME NEW a \in 1..Len(best), NEW b \in 1..Len(best), ids[a] = ids[b]
        PROVE  a = b
    <3>1. best[a] = best[b]
      BY <1>5, <1>6, <2>1
    <3> QED
      BY <1>3, <1>5, <3>1 DEF IsInjective
  <2> QED
    BY <1>5, <2>1 DEF IsInjective
<1>8. ASSUME NEW id \in Range(ids)
      PROVE  \E j \in 1..Len(best) : id = Id[best[j]] /\ nodes[id] = best[j] /\ best[j] \in found[c]
                                     /\ id \in DOMAIN nodes
  <2>1. PICK j \in 1..Len(best) : id = ids[j]
    BY <1>5 DEF Range
  <2> QED
    BY <1>5, <1>6, <2>1
<1>9. ASSUME NEW n \in found[c], Id[n] \notin Range(ids)
      PROVE  n \notin Range(best)
  BY <1>5, <1>9 DEF Range
<1>10. ASSUME NEW n \in found[c], Id[n] \notin Range(ids)
       PROVE  /\ Len(ids) = k /\ k < Cardinality(found[c])
              /\ \A id \in Range(ids) : ScoreTo(c)[nodes[id]] >= ScoreTo(c)[n]
  <2>1. n \in found[c] \ Range(best)
    BY <1>9, <1>10
  <2> QED
    BY <1>3, <1>5, <1>8, <2>1
<1> QED
  BY <1>4, <1>7, <1>8, <1>10

-----------------------------------------------------------------------------
(* The invariant of a small graph.                                         *)

Done == {i \in Insertion : pc[i] = "done"}

\* Insertion i has not come to its own list on layer l.
NotYet(i, l) ==
  \/ pc[i] \in {"new", "registering"}
  \/ pc[i] \in {"layer", "walk"} /\ l <= layer[i]
  \/ pc[i] \in {"back", "wire"} /\ l < layer[i]

\* It has set its list on layer 0.
SetBottom(i) ==
  \/ pc[i] \in {"promote", "promoting", "done"}
  \/ pc[i] \in {"back", "wire"} /\ layer[i] = 0

\* Until then nothing links from or to its Node.
Unlinked(i) ==
  \A l \in Layer : NotYet(i, l) =>
    neighbors[i][l] = <<>> /\ \A j \in Insertion : Id[i] \notin Range(neighbors[j][l])

\* An insertion does not find its own Node.
FindsOthers(i) ==
  /\ pc[i] \in {"layer", "walk", "back", "wire"} => ep[i] # Id[i]
  /\ pc[i] = "walk" => i \notin found[i]

\* Lists on layer 0 repeat nothing and never name their owner.
SimpleLists ==
  \A j \in Insertion : IsInjective(neighbors[j][0]) /\ Id[j] \notin Range(neighbors[j][0])

\* A neighbour that is still to be wired back does not link to i yet.
WiresOnce(i) ==
  /\ pc[i] = "wire" => nbr[i] = nodes[Head(todo[i])]
  /\ pc[i] \in {"back", "wire"} /\ layer[i] = 0 =>
       /\ IsInjective(todo[i])
       /\ \A id \in Range(todo[i]) : id # Id[i] /\ Id[i] \notin Range(neighbors[nodes[id]][0])

\* On layer 0, i and every finished Node link to each other; or will, if it is
\* still to be wired back.
Meshed(i) ==
  SetBottom(i) => \A j \in Done : j # i =>
    /\ Id[j] \in Range(neighbors[i][0])
    /\ \/ Id[i] \in Range(neighbors[j][0])
       \/ pc[i] \in {"back", "wire"} /\ Id[j] \in Range(todo[i])

\* Call c has just begun a walk, at s.
Starts(c, s) == found[c] = {s} /\ frontier[c] = {s} /\ visited[c] = {s}

\* On layer 0 the walk of an insertion is about to find all that is finished.
WalkMeets(i) ==
  pc[i] = "walk" /\ layer[i] = 0 => Done \subseteq found[i] \/ \E s \in Done : Starts(i, s)

BuildOf(i) == Unlinked(i) /\ FindsOthers(i) /\ WiresOnce(i) /\ Meshed(i) /\ WalkMeets(i)

\* So is that of a search, of what was stored.
SearchMeets(q) ==
  pc[q] = "walk" /\ layer[q] = 0 /\ ~bare[q] =>
    \/ \A id \in stored[q] : nodes[id] \in found[q]
    \/ \E s \in Insertion : /\ Starts(q, s)
                            /\ \A id \in stored[q] : id = Id[s] \/ id \in Range(neighbors[s][0])

StoredDone(q) == \A id \in stored[q] : id \in DOMAIN nodes /\ nodes[id] \in Done
ResultInMap(q) == Range(result[q]) \subseteq DOMAIN nodes
AnswersExactly(q) == pc[q] = "done" /\ ~bare[q] => Exact(q)

\* While insertions follow one another.
Mesh ==
  /\ SimpleLists
  /\ \A i \in Insertion : BuildOf(i)
  /\ \A q \in Query : StoredDone(q) /\ ResultInMap(q) /\ SearchMeets(q) /\ AnswersExactly(q)

SmallInv == LevelInv /\ (~overlapped => Mesh)

-----------------------------------------------------------------------------
(* What a step leaves alone.                                               *)

LEMMA StepsOneMore ==
  ASSUME GraphInv, NEW c \in Call, Step(c)
  PROVE  /\ \A d \in Call \ {c} : visited'[d] = visited[d] /\ frontier'[d] = frontier[d]
         /\ \A d \in Insertion \ {c} : todo'[d] = todo[d] /\ nbr'[d] = nbr[d]
         /\ stored' = stored
         /\ \A d \in Query \ {c} : result'[d] = result[d] /\ bare'[d] = bare[d]
<1> USE DEF GraphInv, TypeOK
<1>1. CASE EnterLayer(c)
  BY <1>1 DEF EnterLayer, backVars
<1>2. CASE Expand(c)
  <2>1. /\ UNCHANGED <<backVars, result, history>>
        /\ \E F : visited' = [visited EXCEPT ![c] = F]
        /\ \E F : frontier' = [frontier EXCEPT ![c] = F]
    BY <1>2 DEF Expand
  <2> QED
    BY <2>1 DEF backVars, history
<1>3. CASE Descend(c)
  BY <1>3 DEF Descend, WalkOver, backVars, history
<1>4. CASE c \in Insertion /\ Register(c)
  BY <1>4 DEF Register, walkVars, backVars, history
<1>5. CASE c \in Insertion /\ Link(c)
  <2>1. /\ WalkOver(c) /\ UNCHANGED <<nbr, result, history>>
        /\ \E ids : todo' = [todo EXCEPT ![c] = ids]
    BY <1>5 DEF Link
  <2> QED
    BY <2>1 DEF WalkOver, history
<1>6. CASE c \in Insertion /\ PhaseA(c)
  <2>1. /\ UNCHANGED <<walkVars, result, history>>
        /\ nbr' = nbr \/ \E n : nbr' = [nbr EXCEPT ![c] = n]
        /\ todo' = todo \/ \E ids : todo' = [todo EXCEPT ![c] = ids]
    <3>1. UNCHANGED <<walkVars, result, history>> /\ (Advance(c) \/ todo' = todo)
      BY <1>6 DEF PhaseA
    <3>2. nbr' = nbr \/ \E n : nbr' = [nbr EXCEPT ![c] = n]
      BY <1>6 DEF PhaseA
    <3>3. Advance(c) => \E ids : todo' = [todo EXCEPT ![c] = ids]
      BY DEF Advance
    <3> QED
      BY <3>1, <3>2, <3>3
  <2>2. \A d \in Insertion \ {c} : nbr'[d] = nbr[d]
    BY <2>1
  <2>3. \A d \in Insertion \ {c} : todo'[d] = todo[d]
    BY <2>1
  <2>4. UNCHANGED <<visited, frontier, result, stored, bare>>
    BY <2>1 DEF walkVars, history
  <2> QED
    BY <2>2, <2>3, <2>4
<1>7. CASE c \in Insertion /\ PhaseB(c)
  BY <1>7 DEF PhaseB, walkVars, history, Advance
<1>8. CASE c \in Insertion /\ (AskPromotion(c) \/ Promote(c))
  BY <1>8 DEF AskPromotion, Promote, walkVars, backVars, history
<1>9. CASE c \in Query /\ Answer(c)
  BY <1>9 DEF Answer, WalkOver, backVars, history
<1> QED
  BY <1>1, <1>2, <1>3, <1>4, <1>5, <1>6, <1>7, <1>8, <1>9 DEF Step

\* Nodes stay in the map; insertions stay done; links on layer 0 stay.
Grows ==
  /\ \A id \in DOMAIN nodes : id \in DOMAIN nodes' /\ nodes'[id] = nodes[id]
  /\ Done \subseteq Done'
  /\ \A s \in Insertion : Range(neighbors[s][0]) \subseteq Range(neighbors'[s][0])

SameWalk(q) ==
  /\ pc'[q] = pc[q] /\ bare'[q] = bare[q] /\ layer'[q] = layer[q]
  /\ found'[q] = found[q] /\ visited'[q] = visited[q] /\ frontier'[q] = frontier[q]

\* What a search holds, or has returned, is as true of a graph that has grown.
LEMMA SearchKept ==
  ASSUME Mesh, NEW q \in Query, Grows, stored'[q] = stored[q], result'[q] = result[q]
  PROVE  /\ StoredDone(q)' /\ ResultInMap(q)'
         /\ pc'[q] = pc[q] /\ bare'[q] = bare[q] => AnswersExactly(q)'
         /\ SameWalk(q) => SearchMeets(q)'
<1>1. StoredDone(q) /\ ResultInMap(q) /\ SearchMeets(q) /\ AnswersExactly(q)
  BY DEF Mesh
<1>2. \A id \in DOMAIN nodes : id \in DOMAIN nodes' /\ nodes'[id] = nodes[id]
  BY DEF Grows
<1>3. StoredDone(q)'
  BY <1>1, <1>2 DEF StoredDone, Grows
<1>4. ResultInMap(q)'
  BY <1>1, <1>2 DEF ResultInMap, Range
<1>5. Exact(q) => Exact(q)'
  <2>1. \A id \in stored[q] : nodes'[id] = nodes[id]
    BY <1>1, <1>2 DEF StoredDone
  <2>2. \A r \in Range(result[q]) : nodes'[r] = nodes[r]
    BY <1>1, <1>2 DEF ResultInMap
  <2>3. Range(result[q])' = Range(result[q])
    BY DEF Range
  <2> QED
    BY <2>1, <2>2, <2>3 DEF Exact
<1>6. ASSUME SameWalk(q)
      PROVE  SearchMeets(q)'
  <2>1. \A id \in stored[q] : nodes'[id] = nodes[id]
    BY <1>1, <1>2 DEF StoredDone
  <2>2. \A s : Starts(q, s)' <=> Starts(q, s)
    BY <1>6 DEF Starts, SameWalk
  <2>3. \A s \in Insertion : Range(neighbors[s][0]) \subseteq Range(neighbors[s][0])'
    BY DEF Grows, Range
  <2> QED
    BY <1>1, <1>6, <2>1, <2>2, <2>3 DEF SearchMeets, SameWalk
<1> QED
  BY <1>1, <1>3, <1>4, <1>5, <1>6 DEF AnswersExactly

-----------------------------------------------------------------------------
(* Walks of layer 0.                                                       *)

\* A walk that has just begun is not over.
LEMMA StartsGoOn ==
  ASSUME GraphInv, NEW c \in Call, NEW s \in Insertion, Starts(c, s)
  PROVE  s \in Candidates(c)
<1>1. ScoreTo(c)[s] \in Int
  BY HNSWAssumption DEF ScoreTo, Call
<1>2. frontier[c] = {s} /\ found[c] = {s}
  BY DEF Starts
<1> QED
  BY <1>1, <1>2 DEF Candidates

\* A Node that is read on layer 0 adds all its neighbours to what was found.
LEMMA ExpandFinds ==
  ASSUME GraphInv, SmallGraph, NEW c \in Call, Expand(c), layer[c] = 0
  PROVE  \E n \in frontier[c] : found'[c] = found[c] \cup (Linked(n, 0) \ visited[c])
<1>1. PICK n \in Candidates(c) :
         \E F \in Heaps(found[c] \cup (Linked(n, 0) \ visited[c]), ScoreTo(c), Width(c)) :
           found' = [found EXCEPT ![c] = F]
  BY DEF Expand
<1>2. n \in frontier[c] /\ n \in Insertion /\ 0 \in Layer
  BY HNSWAssumption DEF Candidates, GraphInv, TypeOK, Layer
<1>3. Linked(n, 0) \subseteq Insertion /\ found[c] \subseteq Insertion
  BY <1>2, LinkedRegistered DEF Registered, GraphInv, TypeOK
<1>4. Cardinality(Insertion) <= Width(c) /\ Width(c) \in Nat
  <2>1. Floor(c) >= 0
    BY LayersAreIntegers DEF Floor, GraphInv, TypeOK, Layer
  <2>2. ~Greedy(c)
    BY <2>1, HNSWAssumption DEF Greedy, Floor, GraphInv, TypeOK, Layer
  <2> QED
    BY <2>2, WidthType DEF Width, SmallGraph
<1>5. PICK F \in Heaps(found[c] \cup (Linked(n, 0) \ visited[c]), ScoreTo(c), Width(c)) :
         found' = [found EXCEPT ![c] = F]
  BY <1>1
<1>6. F = found[c] \cup (Linked(n, 0) \ visited[c])
  BY <1>3, <1>4, <1>5, HeapKeepsAll
<1>7. found'[c] = F
  BY <1>5 DEF GraphInv, TypeOK
<1> QED
  BY <1>2, <1>6, <1>7

\* A call that begins to walk a layer begins at the Node of its entry point.
LEMMA EnterStarts ==
  ASSUME GraphInv, NEW c \in Call, EnterLayer(c)
  PROVE  Starts(c, nodes[ep[c]])' /\ nodes[ep[c]] \in Registered /\ Id[nodes[ep[c]]] = ep[c]
<1>1. visited'[c] = {nodes[ep[c]]} /\ frontier'[c] = {nodes[ep[c]]} /\ found'[c] = {nodes[ep[c]]}
  BY DEF EnterLayer, GraphInv, TypeOK
<1>2. ep[c] \in DOMAIN nodes /\ UNCHANGED <<nodes, ep>>
  BY DEF GraphInv, CallsInMap, EnterLayer, graphVars
<1>3. nodes[ep[c]] \in Registered /\ Id[nodes[ep[c]]] = ep[c]
  BY <1>2 DEF GraphInv, MapSound
<1>4. nodes'[ep'[c]] = nodes[ep[c]]
  BY <1>2
<1> QED
  BY <1>1, <1>3, <1>4 DEF Starts

\* From a list on layer 0 to the Nodes it leads to.
LEMMA LinkedAll ==
  ASSUME NEW s \in Insertion, NEW id \in Range(neighbors[s][0]), GraphInv
  PROVE  nodes[id] \in Linked(s, 0)
BY HNSWAssumption DEF Linked, GraphInv, TypeOK, Layer

-----------------------------------------------------------------------------
(* Searches.                                                               *)

\* A search leaves the graph and the insertions alone.
LEMMA SearchesChange ==
  ASSUME GraphInv, NEW q \in Query, CallSearch(q) \/ Step(q)
  PROVE  /\ UNCHANGED <<nodes, entryPoint, maxLayer, level, neighbors, top, todo, nbr, kept>>
         /\ overlapped' = overlapped
         /\ \A c \in Call \ {q} : /\ pc'[c] = pc[c] /\ ep'[c] = ep[c] /\ layer'[c] = layer[c]
                                  /\ found'[c] = found[c] /\ visited'[c] = visited[c]
                                  /\ frontier'[c] = frontier[c]
         /\ \A r \in Query \ {q} : /\ result'[r] = result[r] /\ bare'[r] = bare[r]
                                   /\ stored'[r] = stored[r]
<1>1. q \in Call /\ q \notin Insertion
  BY HNSWAssumption DEF Call
<1>2. CASE CallSearch(q)
  <2>1. CASE entryPoint = NoId
    BY <1>2, <2>1 DEF CallSearch, GraphInv, TypeOK, graphVars, walkVars, backVars
  <2>2. CASE entryPoint # NoId
    BY <1>2, <2>2 DEF CallSearch, GraphInv, TypeOK, graphVars, walkVars, backVars
  <2> QED
    BY <2>1, <2>2
<1>3. CASE Step(q)
  <2>1. UNCHANGED <<nodes, entryPoint, maxLayer, level, neighbors, top, todo, nbr, kept>>
    BY <1>1, <1>3 DEF Step, EnterLayer, Expand, Descend, Answer, graphVars, backVars
  <2>2. overlapped' = overlapped
    BY <1>1, <1>3, StepsOne
  <2>3. \A c \in Call \ {q} : /\ pc'[c] = pc[c] /\ ep'[c] = ep[c] /\ layer'[c] = layer[c]
                              /\ found'[c] = found[c]
    BY <1>1, <1>3, StepsOne
  <2>4. /\ \A c \in Call \ {q} : visited'[c] = visited[c] /\ frontier'[c] = frontier[c]
        /\ stored' = stored
        /\ \A r \in Query \ {q} : result'[r] = result[r] /\ bare'[r] = bare[r]
    BY <1>1, <1>3, StepsOneMore
  <2> QED
    BY <2>1, <2>2, <2>3, <2>4
<1> QED
  BY <1>2, <1>3

\* A step in which no insertion moves.
InsertionsRest ==
  /\ UNCHANGED <<nodes, neighbors, todo, nbr>>
  /\ \A j \in Insertion : /\ pc'[j] = pc[j] /\ ep'[j] = ep[j] /\ layer'[j] = layer[j]
                          /\ found'[j] = found[j] /\ visited'[j] = visited[j]
                          /\ frontier'[j] = frontier[j]

LEMMA BuildsStay ==
  ASSUME InsertionsRest, NEW i \in Insertion, BuildOf(i)
  PROVE  BuildOf(i)'
<1>1. /\ UNCHANGED <<nodes, neighbors, todo, nbr>>
      /\ \A j \in Insertion : /\ pc'[j] = pc[j] /\ ep'[j] = ep[j] /\ layer'[j] = layer[j]
                              /\ found'[j] = found[j] /\ visited'[j] = visited[j]
                              /\ frontier'[j] = frontier[j]
  BY DEF InsertionsRest
<1>2. Done' = Done /\ (SetBottom(i)' <=> SetBottom(i)) /\ (\A l : NotYet(i, l)' <=> NotYet(i, l))
  BY <1>1 DEF Done, SetBottom, NotYet
<1>3. Unlinked(i)'
  BY <1>1, <1>2 DEF BuildOf, Unlinked, Range
<1>4. FindsOthers(i)'
  BY <1>1 DEF BuildOf, FindsOthers
<1>5. WiresOnce(i)'
  <2>1. /\ \A j : Range(neighbors[j][0])' = Range(neighbors[j][0])
        /\ Range(todo[i])' = Range(todo[i]) /\ IsInjective(todo[i])' = IsInjective(todo[i])
    BY <1>1 DEF Range, IsInjective
  <2> QED
    BY <1>1, <2>1 DEF BuildOf, WiresOnce
<1>6. Meshed(i)'
  BY <1>1, <1>2 DEF BuildOf, Meshed, Range
<1>7. WalkMeets(i)'
  BY <1>1, <1>2 DEF BuildOf, WalkMeets, Starts
<1> QED
  BY <1>3, <1>4, <1>5, <1>6, <1>7 DEF BuildOf

\* What was stored when a search began is in the map, and done; if it found an
\* empty graph, nothing was.
LEMMA SearchCalled ==
  ASSUME GraphInv, DistinctIds, Mesh, NEW q \in Query, CallSearch(q)
  PROVE  StoredDone(q)' /\ ResultInMap(q)' /\ SearchMeets(q)' /\ AnswersExactly(q)'
<1>1. /\ UNCHANGED <<nodes, result>>
      /\ stored'[q] = {Id[i] : i \in Done}
      /\ pc'[q] # "walk"
      /\ pc'[q] = "done" => entryPoint = NoId
      /\ Done \subseteq Done'
  <2>1. q \in Call /\ q \notin Insertion /\ pc[q] = "new"
    BY HNSWAssumption DEF Call, CallSearch
  <2>2. UNCHANGED <<nodes, result>> /\ stored'[q] = {Id[i] : i \in Done}
    BY DEF CallSearch, GraphInv, TypeOK, graphVars, Done
  <2>3. \/ entryPoint = NoId /\ pc' = [pc EXCEPT ![q] = "done"]
        \/ pc' = [pc EXCEPT ![q] = "layer"]
    BY DEF CallSearch
  <2>4. pc'[q] # "walk" /\ (pc'[q] = "done" => entryPoint = NoId)
    BY <2>1, <2>3 DEF GraphInv, TypeOK
  <2>5. Done \subseteq Done'
    BY <2>1, <2>3 DEF GraphInv, TypeOK, Done, Call
  <2> QED
    BY <2>2, <2>4, <2>5
<1>2. \A i \in Done : i \in Registered /\ Id[i] \in DOMAIN nodes /\ nodes[Id[i]] = i
  BY OwnNode DEF Done, Registered
<1>3. StoredDone(q)'
  BY <1>1, <1>2 DEF StoredDone
<1>4. ResultInMap(q)'
  BY <1>1 DEF Mesh, ResultInMap, Range
<1>5. ASSUME entryPoint = NoId
      PROVE  stored'[q] = {}
  <2>1. DOMAIN nodes = {}
    BY <1>5, NoIdAssumption DEF GraphInv, MapSound, TypeOK
  <2> QED
    BY <1>1, <1>2, <2>1
<1>6. AnswersExactly(q)'
  BY <1>1, <1>5 DEF AnswersExactly, Exact
<1> QED
  BY <1>1, <1>3, <1>4, <1>6 DEF SearchMeets

\* A search that comes down to layer 0 at a Node with links there starts where
\* one step finds everything.
LEMMA SearchEnters ==
  ASSUME GraphInv, DistinctIds, Mesh, NEW q \in Query, EnterLayer(q)
  PROVE  SearchMeets(q)'
<1>1. q \in Call /\ q \notin Insertion
  BY HNSWAssumption DEF Call
<1>0. PICK s : s = nodes[ep[q]]
  OBVIOUS
<1>2. Starts(q, nodes[ep[q]])' /\ s \in Registered /\ Id[s] = ep[q]
  BY <1>0, <1>1, EnterStarts
<1>3. UNCHANGED <<nodes, neighbors, ep, layer, stored>>
  BY DEF EnterLayer, graphVars
<1>4. Starts(q, s)'
  BY <1>0, <1>2, <1>3 DEF Starts
<1> SUFFICES ASSUME layer[q] = 0, ~bare'[q], NEW id \in stored[q]
             PROVE  id = Id[s] \/ id \in Range(neighbors[s][0])
  <2>1. s \in Insertion
    BY <1>2 DEF Registered
  <2> QED
    BY <1>3, <1>4, <2>1 DEF SearchMeets, Range
<1>5. /\ s \in Insertion /\ pc[s] \notin {"new", "registering"}
      /\ 0 \in Layer /\ layer[s] \in 0..MaxLevel
  BY <1>2, HNSWAssumption DEF Registered, Layer, GraphInv, TypeOK, Call
<1>6. PICK j \in Done : id \in DOMAIN nodes /\ nodes[id] = j /\ Id[j] = id
  BY DEF Mesh, StoredDone, GraphInv, MapSound
<1>7. pc[s] = "done" \/ neighbors[s][0] # <<>>
  <2>1. bare' = [bare EXCEPT ![q] = pc[s] # "done" /\ neighbors[s][0] = <<>>]
    BY <1>0 DEF EnterLayer
  <2> QED
    BY <2>1 DEF GraphInv, TypeOK
<1>8. Unlinked(s) /\ Meshed(s)
  BY <1>5 DEF Mesh, BuildOf
<1>9. SetBottom(s)
  <2>1. pc[s] = "done" \/ ~NotYet(s, 0)
    BY <1>5, <1>7, <1>8 DEF Unlinked
  <2>2. pc[s] \in CallState
    BY <1>5 DEF GraphInv, TypeOK, Call
  <2>3. layer[s] \in Int /\ layer[s] >= 0
    BY <1>5, HNSWAssumption
  <2> QED
    BY <1>5, <2>1, <2>2, <2>3 DEF SetBottom, NotYet, CallState
<1> QED
  BY <1>6, <1>8, <1>9 DEF Meshed

\* The first step of a walk finds everything, and nothing is lost again.
LEMMA SearchExpands ==
  ASSUME GraphInv, DistinctIds, SmallGraph, Mesh, NEW q \in Query, Expand(q)
  PROVE  SearchMeets(q)'
<1>1. q \in Call /\ q \notin Insertion
  BY HNSWAssumption DEF Call
<1>2. UNCHANGED <<nodes, neighbors, layer, stored, bare, pc>> /\ pc[q] = "walk"
  BY DEF Expand, graphVars, history
<1> SUFFICES ASSUME layer[q] = 0, ~bare[q], NEW id \in stored[q]
             PROVE  nodes[id] \in found'[q]
  BY <1>2 DEF SearchMeets
<1>3. PICK n \in frontier[q] : found'[q] = found[q] \cup (Linked(n, 0) \ visited[q])
  BY <1>1, ExpandFinds
<1>4. CASE nodes[id] \in found[q]
  BY <1>3, <1>4
<1>5. CASE \E s \in Insertion : /\ Starts(q, s)
                                /\ \A x \in stored[q] : x = Id[s] \/ x \in Range(neighbors[s][0])
  <2>1. PICK s \in Insertion : Starts(q, s) /\ (id = Id[s] \/ id \in Range(neighbors[s][0]))
    BY <1>5
  <2>2. n = s /\ found'[q] = {s} \cup Linked(s, 0)
    BY <1>3, <2>1 DEF Starts
  <2>3. s \in Registered
    BY <1>1, <2>1 DEF Starts, GraphInv, CallsInMap
  <2>4. id = Id[s] => nodes[id] = s
    BY <2>3, OwnNode
  <2>5. id \in Range(neighbors[s][0]) => nodes[id] \in Linked(s, 0)
    BY LinkedAll
  <2> QED
    BY <2>1, <2>2, <2>4, <2>5
<1> QED
  BY <1>2, <1>4, <1>5 DEF Mesh, SearchMeets

\* What is returned is the best of what was found, and that is everything.
LEMMA SearchAnswers ==
  ASSUME GraphInv, DistinctIds, Mesh, NEW q \in Query, Answer(q)
  PROVE  ResultInMap(q)' /\ AnswersExactly(q)'
<1>1. q \in Call /\ q \notin Insertion
  BY HNSWAssumption DEF Call
<1>2. /\ UNCHANGED <<nodes, stored, bare>> /\ pc[q] = "walk" /\ Candidates(q) = {} /\ ~Greedy(q)
      /\ TopK \in Nat \ {0}
  BY HNSWAssumption DEF Answer, WalkOver, graphVars, history
<1>3. PICK ids \in Found(q, TopK) : result' = [result EXCEPT ![q] = ids]
  BY DEF Answer
<1>4. result'[q] = ids
  BY <1>3 DEF GraphInv, TypeOK
<1>5. /\ \A id \in Range(ids) : id \in DOMAIN nodes
      /\ \A n \in found[q] : Id[n] \notin Range(ids) =>
           /\ Len(ids) = TopK
           /\ \A id \in Range(ids) : ScoreTo(q)[nodes[id]] >= ScoreTo(q)[n]
  BY <1>1, <1>2, <1>3, FoundOnce
<1>6. ResultInMap(q)'
  BY <1>2, <1>4, <1>5 DEF ResultInMap, Range
<1>7. layer[q] = 0
  <2>1. layer[q] \in 0..MaxLevel
    BY <1>1 DEF GraphInv, TypeOK, Layer
  <2>2. ~(layer[q] > 0)
    BY <1>1, <1>2 DEF Greedy, Floor
  <2> QED
    BY <2>1, <2>2, HNSWAssumption
<1>8. \A s \in Insertion : ~Starts(q, s)
  BY <1>1, <1>2, StartsGoOn
<1>9. ASSUME ~bare[q], NEW id \in stored[q], id \notin Range(ids)
      PROVE  /\ Len(ids) = TopK
             /\ \A r \in Range(ids) : Similarity[<<q, nodes[r]>>] >= Similarity[<<q, nodes[id]>>]
  <2>1. nodes[id] \in found[q]
    BY <1>2, <1>7, <1>8, <1>9 DEF Mesh, SearchMeets
  <2>2. nodes[id] \in Insertion /\ Id[nodes[id]] = id
    BY <1>9 DEF Mesh, StoredDone, Done, GraphInv, MapSound
  <2>3. /\ Len(ids) = TopK
        /\ \A r \in Range(ids) : ScoreTo(q)[nodes[r]] >= ScoreTo(q)[nodes[id]]
    BY <1>5, <1>9, <2>1, <2>2
  <2>4. \A r \in Range(ids) : nodes[r] \in Insertion
    BY <1>5 DEF GraphInv, TypeOK
  <2> QED
    BY <2>2, <2>3, <2>4 DEF ScoreTo
<1>10. Range(result'[q]) = Range(ids)
  BY <1>4 DEF Range
<1>11. AnswersExactly(q)'
  <2> SUFFICES ASSUME ~bare[q]
               PROVE  Exact(q)'
    BY <1>2 DEF AnswersExactly
  <2> QED
    BY <1>2, <1>4, <1>9, <1>10 DEF Exact, Range
<1> QED
  BY <1>6, <1>11

\* A step of a search.
LEMMA SearchStep ==
  ASSUME GraphInv, DistinctIds, SmallGraph, Mesh, NEW q \in Query, CallSearch(q) \/ Step(q)
  PROVE  Mesh'
<1>1. /\ UNCHANGED <<nodes, neighbors>>
      /\ \A c \in Call \ {q} : /\ pc'[c] = pc[c] /\ layer'[c] = layer[c]
                               /\ found'[c] = found[c] /\ visited'[c] = visited[c]
                               /\ frontier'[c] = frontier[c]
      /\ \A r \in Query \ {q} : /\ result'[r] = result[r] /\ bare'[r] = bare[r]
                                /\ stored'[r] = stored[r]
  BY SearchesChange
<1>2. q \in Call /\ q \notin Insertion /\ \A j \in Insertion : j \in Call \ {q}
  BY HNSWAssumption DEF Call
<1>3. SimpleLists'
  BY <1>1 DEF Mesh, SimpleLists, IsInjective, Range
<1>4. \A i \in Insertion : BuildOf(i)'
  <2>1. InsertionsRest
    BY <1>1, <1>2, SearchesChange DEF InsertionsRest
  <2> QED
    BY <2>1, BuildsStay DEF Mesh
<1>5. Grows
  BY <1>1, <1>2 DEF Grows, Done, Range
<1>6. ASSUME NEW r \in Query \ {q}
      PROVE  StoredDone(r)' /\ ResultInMap(r)' /\ SearchMeets(r)' /\ AnswersExactly(r)'
  <2>1. r \in Call \ {q}
    BY DEF Call
  <2>2. SameWalk(r) /\ stored'[r] = stored[r] /\ result'[r] = result[r]
    BY <1>1, <2>1 DEF SameWalk
  <2> QED
    BY <1>5, <2>2, SearchKept DEF SameWalk
<1>7. StoredDone(q)' /\ ResultInMap(q)' /\ SearchMeets(q)' /\ AnswersExactly(q)'
  <2>1. CASE CallSearch(q)
    BY <2>1, SearchCalled
  <2>2. CASE Answer(q)
    <3>1. stored' = stored /\ pc'[q] = "done"
      BY <1>2, <2>2 DEF Answer, history, GraphInv, TypeOK
    <3>2. StoredDone(q)'
      BY <1>5, <3>1 DEF Mesh, StoredDone, Grows
    <3> QED
      BY <2>2, <3>1, <3>2, SearchAnswers DEF SearchMeets
  <2>3. CASE EnterLayer(q) \/ Expand(q) \/ Descend(q)
    <3>1. UNCHANGED <<stored, result>> /\ pc'[q] # "done"
      BY <1>2, <2>3 DEF EnterLayer, Expand, Descend, WalkOver, history, GraphInv, TypeOK
    <3>2. StoredDone(q)' /\ ResultInMap(q)' /\ AnswersExactly(q)'
      BY <1>5, <3>1 DEF Mesh, StoredDone, ResultInMap, Grows, AnswersExactly
    <3>3. SearchMeets(q)'
      <4>1. CASE Descend(q)
        BY <1>2, <4>1 DEF Descend, SearchMeets, GraphInv, TypeOK
      <4> QED
        BY <2>3, <4>1, SearchEnters, SearchExpands
    <3> QED
      BY <3>2, <3>3
  <2> QED
    BY <1>2, <2>1, <2>2, <2>3 DEF Step
<1> QED
  BY <1>3, <1>4, <1>6, <1>7 DEF Mesh

-----------------------------------------------------------------------------
(* Insertions.                                                             *)

LEMMA OthersIdle ==
  ASSUME LevelInv, ~overlapped, NEW i \in Insertion, pc[i] \notin {"new", "done"}
  PROVE  \A j \in Insertion \ {i} : pc[j] \in {"new", "done"}
BY DEF LevelInv, Alone, Running

\* Beside the insertion that moves, what is in the map is done.
LEMMA OthersDone ==
  ASSUME LevelInv, ~overlapped, NEW i \in Insertion, pc[i] \notin {"new", "done"}
  PROVE  \A j \in Registered : j # i => j \in Done
BY OthersIdle DEF Registered, Done

\* What a step of insertion i has to keep of the lists, and of its own work.
Built(i) ==
  /\ Grows /\ SimpleLists'
  /\ \A j \in Insertion \ Registered : neighbors'[j] = neighbors[j]
  /\ BuildOf(i)'

LEMMA MapGrows ==
  ASSUME GraphInv, DistinctIds, NEW i \in Insertion, Step(i)
  PROVE  /\ \A id \in DOMAIN nodes : id \in DOMAIN nodes' /\ nodes'[id] = nodes[id]
         /\ Done \subseteq Done'
<1>1. i \in Call
  BY DEF Call
<1>2. \A id \in DOMAIN nodes : nodes'[id] = nodes[id]
  BY <1>1, LevelsKept
<1>3. \A id \in DOMAIN nodes : id \in DOMAIN nodes'
  <2>1. CASE Register(i)
    BY <2>1 DEF Register
  <2>2. CASE ~Register(i)
    <3>1. i \notin Query
      BY HNSWAssumption
    <3>2. nodes' = nodes
      BY <2>2, <3>1 DEF Step, EnterLayer, Expand, Descend, Link, PhaseA, PhaseB, AskPromotion,
         Promote, graphVars
    <3> QED
      BY <3>2
  <2> QED
    BY <2>1, <2>2
<1>4. Done \subseteq Done'
  BY <1>1, StepsOne DEF Done, Call
<1> QED
  BY <1>2, <1>3, <1>4

LEMMA ListsStay ==
  ASSUME GraphInv, DistinctIds, SimpleLists, NEW i \in Insertion, Step(i), neighbors' = neighbors
  PROVE  /\ Grows /\ SimpleLists'
         /\ \A j \in Insertion \ Registered : neighbors'[j] = neighbors[j]
<1>1. Grows
  BY MapGrows DEF Grows, Range
<1>2. SimpleLists'
  BY DEF SimpleLists, IsInjective, Range
<1> QED
  BY <1>1, <1>2

\* The insertions that do not move: nothing links to those that have not begun,
\* and the finished ones stay linked, also to the one that finishes.
LEMMA OthersBuilt ==
  ASSUME LevelInv, GraphInv', DistinctIds, Mesh, ~overlapped, NEW i \in Insertion, Step(i),
         Built(i), NEW j \in Insertion \ {i}
  PROVE  BuildOf(j)'
<1>1. i \in Call /\ GraphInv
  BY DEF Call, LevelInv, EntryInv
<1>2. pc'[j] = pc[j] /\ pc[j] \in {"new", "done"}
  BY <1>1, StepsOne, OthersIdle DEF Call
<1>3. Unlinked(j)'
  <2>1. CASE pc[j] = "new"
    <3>1. j \notin Registered /\ j \notin Registered'
      BY <1>2, <2>1 DEF Registered
    <3>2. Id[j] \notin DOMAIN nodes'
      <4> SUFFICES ASSUME Id[j] \in DOMAIN nodes'
                   PROVE  FALSE
        OBVIOUS
      <4>1. nodes'[Id[j]] \in Registered' /\ Id[nodes'[Id[j]]] = Id[j]
        BY DEF GraphInv, MapSound
      <4>2. nodes'[Id[j]] \in Insertion
        BY <4>1 DEF Registered
      <4>3. nodes'[Id[j]] = j
        BY <4>1, <4>2, HNSWAssumption DEF DistinctIds, IsInjective
      <4> QED
        BY <3>1, <4>1, <4>3
    <3>3. \A k \in Insertion, l \in Layer : neighbors'[k][l] \in Seq(DOMAIN nodes')
      BY DEF GraphInv, ListsInMap
    <3>4. \A k \in Insertion, l \in Layer : Id[j] \notin Range(neighbors'[k][l])
      <4> SUFFICES ASSUME NEW k \in Insertion, NEW l \in Layer
                   PROVE  Id[j] \notin Range(neighbors'[k][l])
        OBVIOUS
      <4>1. neighbors'[k][l] \in Seq(DOMAIN nodes')
        BY <3>3
      <4>2. Range(neighbors'[k][l]) \subseteq DOMAIN nodes'
        BY <4>1, ElementOfSeq DEF Range
      <4> QED
        BY <3>2, <4>2
    <3>5. \A l \in Layer : neighbors'[j][l] = <<>>
      BY <2>1, <3>1 DEF Mesh, BuildOf, Unlinked, NotYet, Built
    <3> QED
      BY <3>4, <3>5 DEF Unlinked, Range
  <2>2. CASE pc[j] = "done"
    BY <1>2, <2>2 DEF Unlinked, NotYet
  <2> QED
    BY <1>2, <2>1, <2>2
<1>4. FindsOthers(j)' /\ WiresOnce(j)' /\ WalkMeets(j)'
  BY <1>2 DEF FindsOthers, WiresOnce, WalkMeets
<1>5. Meshed(j)'
  <2> SUFFICES ASSUME pc[j] = "done", NEW k \in Done', k # j
               PROVE  Id[k] \in Range(neighbors'[j][0]) /\ Id[j] \in Range(neighbors'[k][0])
    BY <1>2 DEF Meshed, SetBottom, Range
  <2>1. k \in Insertion /\ pc'[k] = "done"
    BY DEF Done
  <2>2. CASE k = i
    <3>1. j \in Done'
      BY <1>2 DEF Done
    <3>2. Meshed(i)' /\ pc'[i] = "done"
      BY <2>1, <2>2 DEF Built, BuildOf
    <3> QED
      BY <2>2, <3>1, <3>2 DEF Meshed, SetBottom, Range
  <2>3. CASE k # i
    <3>1. k \in Done
      BY <1>1, <2>1, <2>3, StepsOne DEF Call, Done
    <3>2. Id[k] \in Range(neighbors[j][0]) /\ Id[j] \in Range(neighbors[k][0])
      BY <3>1 DEF Mesh, BuildOf, Meshed, SetBottom
    <3> QED
      BY <2>1, <3>2 DEF Built, Grows
  <2> QED
    BY <2>2, <2>3
<1> QED
  BY <1>3, <1>4, <1>5 DEF BuildOf

\* So it is enough to look at the insertion that moves.
LEMMA InsertionKeeps ==
  ASSUME LevelInv, GraphInv', DistinctIds, Mesh, ~overlapped, NEW i \in Insertion, Step(i),
         Built(i)
  PROVE  Mesh'
<1>1. i \in Call /\ GraphInv
  BY DEF Call, LevelInv, EntryInv
<1>2. \A j \in Insertion : BuildOf(j)'
  BY OthersBuilt DEF Built
<1>3. ASSUME NEW q \in Query
      PROVE  StoredDone(q)' /\ ResultInMap(q)' /\ SearchMeets(q)' /\ AnswersExactly(q)'
  <2>1. q \in Call \ {i} /\ q \in Query \ {i}
    BY HNSWAssumption DEF Call
  <2>2. /\ pc'[q] = pc[q] /\ layer'[q] = layer[q] /\ found'[q] = found[q]
        /\ visited'[q] = visited[q] /\ frontier'[q] = frontier[q]
        /\ stored' = stored /\ result'[q] = result[q] /\ bare'[q] = bare[q]
    BY <1>1, <2>1, StepsOne, StepsOneMore
  <2> QED
    BY <2>2, SearchKept DEF SameWalk, Built
<1> QED
  BY <1>2, <1>3 DEF Mesh, Built

\* An insertion that begins finds nothing linked to its Node; if the graph was
\* empty, it is done and there is no other to be linked to.
LEMMA BuiltRegister ==
  ASSUME LevelInv, DistinctIds, Mesh, NEW i \in Insertion, Register(i)
  PROVE  Built(i)
<1>1. GraphInv /\ i \in Call /\ i \notin Registered /\ Step(i) /\ pc[i] = "registering"
  BY DEF LevelInv, EntryInv, Call, Step, Register, Registered
<1>2. neighbors' = neighbors /\ Unlinked(i) /\ SimpleLists
  BY DEF Register, Mesh, BuildOf
<1>3. Grows /\ SimpleLists' /\ \A j \in Insertion \ Registered : neighbors'[j] = neighbors[j]
  BY <1>1, <1>2, ListsStay
<1>4. Unlinked(i)'
  <2>1. \A l \in Layer : NotYet(i, l)
    BY <1>1 DEF NotYet
  <2> QED
    BY <1>2, <2>1 DEF Unlinked, Range
<1>5. \/ Empty /\ pc'[i] = "done"
      \/ pc'[i] = "layer" /\ ~Empty /\ ep'[i] = entryPoint
  <2>1. CASE Empty
    BY <1>1, <2>1 DEF Register, GraphInv, TypeOK
  <2>2. CASE ~Empty
    BY <1>1, <2>2 DEF Register, GraphInv, TypeOK
  <2> QED
    BY <2>1, <2>2
<1>6. ~Empty => entryPoint # Id[i]
  BY <1>1, NewId DEF Empty, GraphInv, MapSound
<1>7. FindsOthers(i)' /\ WiresOnce(i)' /\ WalkMeets(i)'
  BY <1>5, <1>6 DEF FindsOthers, WiresOnce, WalkMeets
<1>8. Meshed(i)'
  <2>1. CASE pc'[i] = "layer"
    BY <2>1 DEF Meshed, SetBottom
  <2>2. CASE Empty
    <3>1. Registered = {}
      BY <1>1, <2>2 DEF Empty, GraphInv, MapSound
    <3>2. \A j \in Insertion \ {i} : j \notin Done'
      BY <1>1, <3>1, StepsOne DEF Registered, Done, Call
    <3> QED
      BY <3>2 DEF Meshed, Done
  <2> QED
    BY <1>5, <2>1, <2>2
<1> QED
  BY <1>3, <1>4, <1>7, <1>8 DEF Built, BuildOf

\* The walk starts at a finished Node.
LEMMA BuiltEnter ==
  ASSUME LevelInv, DistinctIds, Mesh, ~overlapped, NEW i \in Insertion, EnterLayer(i)
  PROVE  Built(i)
<1>1. GraphInv /\ i \in Call /\ Step(i) /\ pc[i] = "layer"
  BY DEF LevelInv, EntryInv, Call, Step, EnterLayer
<1>2. /\ UNCHANGED <<nodes, neighbors, ep, layer, todo, nbr>> /\ pc'[i] = "walk"
      /\ Unlinked(i) /\ FindsOthers(i) /\ SimpleLists
  BY <1>1 DEF EnterLayer, Mesh, BuildOf, graphVars, backVars, GraphInv, TypeOK
<1>3. Grows /\ SimpleLists' /\ \A j \in Insertion \ Registered : neighbors'[j] = neighbors[j]
  BY <1>1, <1>2, ListsStay
<1>4. PICK s : s = nodes[ep[i]]
  OBVIOUS
<1>5. Starts(i, s)' /\ s \in Registered /\ Id[s] = ep[i]
  BY <1>1, <1>2, <1>4, EnterStarts DEF Starts
<1>6. s # i /\ s \in Done
  <2>1. s # i
    BY <1>1, <1>2, <1>5 DEF FindsOthers
  <2> QED
    BY <1>1, <1>5, <2>1, OthersDone
<1>7. Unlinked(i)'
  BY <1>1, <1>2 DEF Unlinked, NotYet, Range
<1>8. FindsOthers(i)'
  BY <1>1, <1>2, <1>5, <1>6 DEF FindsOthers, Starts
<1>9. WiresOnce(i)' /\ Meshed(i)'
  BY <1>2 DEF WiresOnce, Meshed, SetBottom
<1>10. WalkMeets(i)'
  BY <1>3, <1>5, <1>6 DEF WalkMeets, Grows
<1> QED
  BY <1>3, <1>7, <1>8, <1>9, <1>10 DEF Built, BuildOf

\* It does not come to the Node that is being inserted; and, on layer 0, its
\* first step finds all that is finished.
LEMMA BuiltExpand ==
  ASSUME LevelInv, DistinctIds, SmallGraph, Mesh, NEW i \in Insertion, Expand(i)
  PROVE  Built(i)
<1>1. GraphInv /\ i \in Call /\ Step(i) /\ pc[i] = "walk"
  BY DEF LevelInv, EntryInv, Call, Step, Expand
<1>2. /\ UNCHANGED <<nodes, neighbors, pc, ep, layer, todo, nbr>>
      /\ Unlinked(i) /\ FindsOthers(i) /\ WalkMeets(i) /\ SimpleLists
  BY DEF Expand, Mesh, BuildOf, graphVars, backVars
<1>3. Grows /\ SimpleLists' /\ \A j \in Insertion \ Registered : neighbors'[j] = neighbors[j]
  BY <1>1, <1>2, ListsStay
<1>4. Unlinked(i)'
  BY <1>2 DEF Unlinked, NotYet, Range
<1>5. FindsOthers(i)'
  <2>1. PICK n \in Candidates(i) :
           \E F \in Heaps(found[i] \cup (Linked(n, layer[i]) \ visited[i]), ScoreTo(i), Width(i)) :
             found' = [found EXCEPT ![i] = F]
    BY DEF Expand
  <2>2. n \in Insertion /\ layer[i] \in Layer /\ layer[i] \in Int
    BY <1>1, LayersAreIntegers DEF Candidates, GraphInv, TypeOK
  <2>3. i \notin Linked(n, layer[i])
    <3>1. Id[i] \notin Range(neighbors[n][layer[i]])
      <4>1. NotYet(i, layer[i])
        BY <1>1, <2>2 DEF NotYet
      <4> QED
        BY <1>2, <2>2, <4>1 DEF Unlinked
    <3>2. \A id \in Range(neighbors[n][layer[i]]) : Id[nodes[id]] = id
      <4>1. neighbors[n][layer[i]] \in Seq(DOMAIN nodes)
        BY <1>1, <2>2 DEF GraphInv, ListsInMap
      <4>2. Range(neighbors[n][layer[i]]) \subseteq DOMAIN nodes
        BY <4>1, ElementOfSeq DEF Range
      <4> QED
        BY <1>1, <4>2 DEF GraphInv, MapSound
    <3> QED
      BY <3>1, <3>2 DEF Linked
  <2>4. found'[i] \subseteq found[i] \cup Linked(n, layer[i])
    BY <1>1, <2>1 DEF GraphInv, TypeOK, Heaps
  <2> QED
    BY <1>1, <1>2, <2>3, <2>4 DEF FindsOthers
<1>6. WiresOnce(i)' /\ Meshed(i)'
  BY <1>1, <1>2 DEF WiresOnce, Meshed, SetBottom
<1>7. WalkMeets(i)'
  <2> SUFFICES ASSUME layer[i] = 0
               PROVE  Done \subseteq found'[i]
    BY <1>2 DEF WalkMeets, Done
  <2>1. PICK n \in frontier[i] : found'[i] = found[i] \cup (Linked(n, 0) \ visited[i])
    BY <1>1, ExpandFinds
  <2>2. CASE Done \subseteq found[i]
    BY <2>1, <2>2
  <2>3. CASE \E s \in Done : Starts(i, s)
    <3>1. PICK s \in Done : Starts(i, s)
      BY <2>3
    <3>2. s \in Insertion /\ pc[s] = "done" /\ found'[i] = {s} \cup Linked(s, 0)
      BY <2>1, <3>1 DEF Starts, Done
    <3>3. ASSUME NEW j \in Done, j # s
          PROVE  j \in Linked(s, 0)
      <4>1. Id[j] \in Range(neighbors[s][0])
        BY <3>2, <3>3 DEF Mesh, BuildOf, Meshed, SetBottom
      <4>2. nodes[Id[j]] = j
        BY <1>1, <3>3, OwnNode DEF Done, Registered
      <4> QED
        BY <1>1, <3>2, <4>1, <4>2, LinkedAll
    <3> QED
      BY <3>2, <3>3
  <2> QED
    BY <1>1, <1>2, <2>2, <2>3 DEF WalkMeets
<1> QED
  BY <1>3, <1>4, <1>5, <1>6, <1>7 DEF Built, BuildOf

\* What a walk hands on is never the Node that is being inserted.
LEMMA FoundOthers ==
  ASSUME GraphInv, DistinctIds, Mesh, NEW i \in Insertion, pc[i] = "walk", NEW k \in Nat \ {0},
         NEW ids \in Found(i, k)
  PROVE  Id[i] \notin Range(ids) /\ ids[1] \in Range(ids)
<1>1. /\ ids \in Seq(DOMAIN nodes) /\ Len(ids) >= 1
      /\ \A id \in Range(ids) : id \in DOMAIN nodes /\ nodes[id] \in found[i]
  BY FoundOnce DEF Call
<1>2. i \notin found[i] /\ i \in Registered
  BY DEF Mesh, BuildOf, FindsOthers, Registered
<1>3. ids[1] \in Range(ids)
  BY <1>1, LenProperties DEF Range
<1> QED
  BY <1>1, <1>2, <1>3, OwnNode

LEMMA BuiltDescend ==
  ASSUME LevelInv, DistinctIds, Mesh, NEW i \in Insertion, Descend(i)
  PROVE  Built(i)
<1>1. GraphInv /\ i \in Call /\ Step(i) /\ pc[i] = "walk"
  BY DEF LevelInv, EntryInv, Call, Step, Descend, WalkOver
<1>2. /\ UNCHANGED <<nodes, neighbors, todo, nbr>> /\ pc'[i] = "layer"
      /\ layer'[i] = layer[i] - 1 /\ Unlinked(i) /\ SimpleLists
  BY <1>1 DEF Descend, Mesh, BuildOf, graphVars, backVars, GraphInv, TypeOK
<1>3. Grows /\ SimpleLists' /\ \A j \in Insertion \ Registered : neighbors'[j] = neighbors[j]
  BY <1>1, <1>2, ListsStay
<1>4. layer[i] \in Int /\ \A l \in Layer : l \in Int
  BY <1>1, LayersAreIntegers DEF GraphInv, Layer
<1>5. Unlinked(i)'
  <2>1. \A l \in Layer : NotYet(i, l)' => NotYet(i, l)
    BY <1>1, <1>2, <1>4 DEF NotYet
  <2> QED
    BY <1>2, <2>1 DEF Unlinked, Range
<1>6. FindsOthers(i)'
  <2>1. PICK ids \in Found(i, 1) : ep' = [ep EXCEPT ![i] = ids[1]]
    BY DEF Descend
  <2>2. ids[1] # Id[i]
    BY <1>1, <2>1, FoundOthers
  <2>3. ep'[i] = ids[1]
    BY <1>1, <2>1 DEF GraphInv, TypeOK
  <2> QED
    BY <1>2, <2>2, <2>3 DEF FindsOthers
<1>7. WiresOnce(i)' /\ Meshed(i)' /\ WalkMeets(i)'
  BY <1>2 DEF WiresOnce, Meshed, SetBottom, WalkMeets
<1> QED
  BY <1>3, <1>5, <1>6, <1>7 DEF Built, BuildOf

LEMMA BuiltPromotion ==
  ASSUME LevelInv, DistinctIds, Mesh, NEW i \in Insertion, AskPromotion(i) \/ Promote(i)
  PROVE  Built(i)
<1>1. GraphInv /\ i \in Call /\ Step(i) /\ pc[i] \in {"promote", "promoting"}
  BY DEF LevelInv, EntryInv, Call, Step, AskPromotion, Promote
<1>2. /\ UNCHANGED <<nodes, neighbors, todo, nbr>> /\ pc'[i] \in {"promoting", "done"}
      /\ Meshed(i) /\ SimpleLists
  BY <1>1 DEF AskPromotion, Promote, Mesh, BuildOf, graphVars, backVars, GraphInv, TypeOK
<1>3. Grows /\ SimpleLists' /\ \A j \in Insertion \ Registered : neighbors'[j] = neighbors[j]
  BY <1>1, <1>2, ListsStay
<1>4. Unlinked(i)' /\ FindsOthers(i)' /\ WiresOnce(i)' /\ WalkMeets(i)'
  BY <1>2 DEF Unlinked, NotYet, FindsOthers, WiresOnce, WalkMeets
<1>5. \A j \in Done' : j # i => j \in Done
  BY <1>1, StepsOne DEF Done, Call
<1>6. Meshed(i)'
  BY <1>1, <1>2, <1>5 DEF Meshed, SetBottom, Range
<1> QED
  BY <1>3, <1>4, <1>6 DEF Built, BuildOf

\* The graph without some Nodes has as many Nodes less.
LEMMA WithoutOne ==
  ASSUME NEW i \in Insertion, NEW D \in SUBSET (Insertion \ {i})
  PROVE  IsFiniteSet(D) /\ Cardinality(D) \in Nat /\ Cardinality(D) <= Cardinality(Insertion) - 1
<1>1. IsFiniteSet(Insertion \ {i}) /\ Cardinality(Insertion \ {i}) = Cardinality(Insertion) - 1
  BY SizeType, FS_RemoveElement
<1>2. IsFiniteSet(D) /\ Cardinality(D) <= Cardinality(Insertion \ {i})
  BY <1>1, FS_Subset
<1> QED
  BY <1>1, <1>2, FS_CardinalityType

\* The new list on layer 0 names every finished Node, and all of them are to be
\* wired back.
LEMMA BuiltLink ==
  ASSUME LevelInv, DistinctIds, SmallGraph, Mesh, NEW i \in Insertion, Link(i)
  PROVE  Built(i)
<1>1. /\ GraphInv /\ i \in Call /\ Step(i) /\ pc[i] = "walk" /\ Candidates(i) = {}
      /\ layer[i] \in Layer /\ layer[i] \in Int /\ 0 \in Layer /\ layer[i] >= 0
      /\ \A l \in Layer : l \in Int
  <2>1. GraphInv /\ i \in Call /\ Step(i) /\ pc[i] = "walk" /\ Candidates(i) = {}
    BY DEF LevelInv, EntryInv, Call, Step, Link, WalkOver
  <2> QED
    BY <2>1, LayersAreIntegers, HNSWAssumption DEF GraphInv, Layer
<1>2. /\ UNCHANGED <<nodes, layer, nbr>> /\ pc'[i] = "back"
      /\ Unlinked(i) /\ FindsOthers(i) /\ WalkMeets(i) /\ SimpleLists
  BY <1>1 DEF Link, Mesh, BuildOf, GraphInv, TypeOK
<1>3. MaxLinks(layer[i]) \in Nat \ {0} /\ MaxLinks(0) \in Nat \ {0}
  BY <1>1, MaxLinksType
<1>4. PICK ids \in Found(i, MaxLinks(layer[i])) :
         /\ neighbors' = [neighbors EXCEPT ![i][layer[i]] = ids]
         /\ todo' = [todo EXCEPT ![i] = ids]
         /\ ep' = [ep EXCEPT ![i] = ids[1]]
  BY DEF Link
<1>5. /\ neighbors'[i][layer[i]] = ids /\ todo'[i] = ids /\ ep'[i] = ids[1]
      /\ \A l \in Layer : l # layer[i] => neighbors'[i][l] = neighbors[i][l]
      /\ \A j \in Insertion \ {i} : neighbors'[j] = neighbors[j]
  BY <1>1, <1>4 DEF GraphInv, TypeOK
<1>6. /\ IsInjective(ids)
      /\ \A id \in Range(ids) : id \in DOMAIN nodes /\ nodes[id] \in found[i]
      /\ \A n \in found[i] : Id[n] \notin Range(ids) =>
           MaxLinks(layer[i]) < Cardinality(found[i])
  BY <1>1, <1>3, <1>4, FoundOnce
<1>7. Id[i] \notin Range(ids) /\ ids[1] \in Range(ids)
  BY <1>1, <1>3, <1>4, FoundOthers
<1>8. layer[i] = 0 => neighbors[i][0] = <<>>
  BY <1>1, <1>2 DEF Unlinked, NotYet
<1>9. Grows
  <2>1. ASSUME NEW s \in Insertion
        PROVE  Range(neighbors[s][0]) \subseteq Range(neighbors'[s][0])
    <3>1. CASE s = i /\ layer[i] = 0
      BY <1>8, <3>1 DEF Range
    <3>2. CASE ~(s = i /\ layer[i] = 0)
      BY <1>1, <1>5, <3>2
    <3> QED
      BY <3>1, <3>2
  <2> QED
    BY <1>1, <2>1, MapGrows DEF Grows
<1>10. SimpleLists'
  <2>1. ASSUME NEW j \in Insertion
        PROVE  IsInjective(neighbors'[j][0]) /\ Id[j] \notin Range(neighbors'[j][0])
    <3>1. CASE j = i /\ layer[i] = 0
      BY <1>5, <1>6, <1>7, <3>1
    <3>2. CASE ~(j = i /\ layer[i] = 0)
      BY <1>1, <1>2, <1>5, <3>2 DEF SimpleLists
    <3> QED
      BY <3>1, <3>2
  <2> QED
    BY <2>1 DEF SimpleLists, IsInjective, Range
<1>11. \A j \in Insertion \ Registered : neighbors'[j] = neighbors[j]
  BY <1>1, <1>5 DEF Registered
<1>12. Unlinked(i)'
  <2> SUFFICES ASSUME NEW l \in Layer, NotYet(i, l)'
               PROVE  /\ neighbors'[i][l] = <<>>
                      /\ \A j \in Insertion : Id[i] \notin Range(neighbors'[j][l])
    BY DEF Unlinked, Range
  <2>1. l < layer[i] /\ l # layer[i] /\ NotYet(i, l)
    BY <1>1, <1>2 DEF NotYet
  <2>2. \A j \in Insertion : neighbors'[j][l] = neighbors[j][l]
    BY <1>5, <2>1
  <2> QED
    BY <1>2, <2>1, <2>2 DEF Unlinked
<1>13. FindsOthers(i)'
  BY <1>2, <1>5, <1>7 DEF FindsOthers
<1>14. WiresOnce(i)'
  <2> SUFFICES ASSUME layer[i] = 0
               PROVE  /\ IsInjective(todo'[i])
                      /\ \A id \in Range(todo'[i]) :
                           id # Id[i] /\ Id[i] \notin Range(neighbors'[nodes'[id]][0])
    BY <1>2 DEF WiresOnce, IsInjective, Range
  <2>1. ASSUME NEW id \in Range(ids)
        PROVE  id # Id[i] /\ Id[i] \notin Range(neighbors'[nodes[id]][0])
    <3>1. nodes[id] \in found[i] /\ nodes[id] # i /\ nodes[id] \in Insertion /\ id # Id[i]
      BY <1>1, <1>2, <1>6, <1>7, <2>1 DEF FindsOthers, GraphInv, TypeOK
    <3>2. neighbors'[nodes[id]] = neighbors[nodes[id]]
      BY <1>5, <3>1
    <3>3. NotYet(i, 0)
      BY <1>1 DEF NotYet
    <3>4. Id[i] \notin Range(neighbors[nodes[id]][0])
      BY <1>1, <1>2, <3>1, <3>3 DEF Unlinked
    <3> QED
      BY <3>1, <3>2, <3>4
  <2> QED
    BY <1>2, <1>5, <1>6, <2>1
<1>15. Meshed(i)'
  <2> SUFFICES ASSUME layer[i] = 0, NEW j \in Done, j # i
               PROVE  Id[j] \in Range(ids)
    <3>1. SetBottom(i)' => layer[i] = 0
      BY <1>2 DEF SetBottom
    <3>2. \A j \in Done' : j # i => j \in Done
      BY <1>1, StepsOne DEF Done, Call
    <3> QED
      BY <1>2, <1>5, <3>1, <3>2 DEF Meshed, Range
  <2>1. Done \subseteq found[i]
    <3>1. \A s \in Insertion : ~Starts(i, s)
      BY <1>1, StartsGoOn
    <3> QED
      BY <1>1, <1>2, <3>1 DEF WalkMeets, Done
  <2>2. Cardinality(found[i]) \in Nat /\ Cardinality(found[i]) <= Cardinality(Insertion) - 1
    <3>1. found[i] \subseteq Insertion \ {i}
      BY <1>1, <1>2 DEF FindsOthers, GraphInv, TypeOK
    <3> QED
      BY <3>1, WithoutOne
  <2>3. ~(MaxLinks(0) < Cardinality(found[i]))
    BY <1>3, <2>2, SizeType DEF SmallGraph
  <2> QED
    BY <1>6, <2>1, <2>3
<1>16. WalkMeets(i)'
  BY <1>2 DEF WalkMeets
<1> QED
  BY <1>9, <1>10, <1>11, <1>12, <1>13, <1>14, <1>15, <1>16 DEF Built, BuildOf

LEMMA AdvanceNotLast ==
  ASSUME TypeOK, NEW i \in Insertion, Advance(i), layer[i] > 0
  PROVE  \/ pc'[i] = "back" /\ layer'[i] = layer[i]
         \/ pc'[i] = "layer" /\ layer'[i] = layer[i] - 1
<1>1. i \in Call /\ LayersLeft(layer[i])
  BY DEF Call, LayersLeft
<1>2. \/ pc' = [pc EXCEPT ![i] = "back"] /\ layer' = layer
      \/ pc' = [pc EXCEPT ![i] = "layer"] /\ layer' = [layer EXCEPT ![i] = @ - 1]
  BY <1>1 DEF Advance
<1> QED
  BY <1>1, <1>2 DEF TypeOK

\* Above layer 0, wiring leads to the next neighbour or the next layer.
LEMMA AdvanceAbove ==
  ASSUME GraphInv, Mesh, NEW i \in Insertion, pc[i] \in {"back", "wire"}, layer[i] # 0, Advance(i),
         UNCHANGED <<nodes, ep>>,
         \A j \in Insertion, l \in Layer : l # layer[i] => neighbors'[j][l] = neighbors[j][l]
  PROVE  BuildOf(i)'
<1>1. i \in Call /\ layer[i] > 0 /\ layer[i] \in Int /\ \A l \in Layer : l \in Int
  BY LayersAreIntegers, HNSWAssumption DEF Call, GraphInv, Layer
<1>2. Unlinked(i) /\ FindsOthers(i)
  BY DEF Mesh, BuildOf
<1>3. \/ pc'[i] = "back" /\ layer'[i] = layer[i]
      \/ pc'[i] = "layer" /\ layer'[i] = layer[i] - 1
  BY <1>1, AdvanceNotLast DEF GraphInv
<1>4. Unlinked(i)'
  <2> SUFFICES ASSUME NEW l \in Layer, NotYet(i, l)'
               PROVE  /\ neighbors'[i][l] = <<>>
                      /\ \A j \in Insertion : Id[i] \notin Range(neighbors'[j][l])
    BY DEF Unlinked, Range
  <2>1. l # layer[i] /\ NotYet(i, l)
    BY <1>1, <1>3 DEF NotYet
  <2>2. \A j \in Insertion : neighbors'[j][l] = neighbors[j][l]
    BY <2>1
  <2> QED
    BY <1>2, <2>1, <2>2 DEF Unlinked
<1>5. FindsOthers(i)'
  BY <1>2, <1>3 DEF FindsOthers
<1>6. WiresOnce(i)' /\ Meshed(i)' /\ WalkMeets(i)'
  BY <1>1, <1>3 DEF WiresOnce, Meshed, SetBottom, WalkMeets
<1> QED
  BY <1>4, <1>5, <1>6 DEF BuildOf

\* Every neighbour is wired back on layer 0: no Node is missing from it.
LEMMA BuiltPhaseA ==
  ASSUME LevelInv, DistinctIds, Mesh, NEW i \in Insertion, PhaseA(i)
  PROVE  Built(i)
<1>1. /\ GraphInv /\ i \in Call /\ Step(i) /\ pc[i] = "back" /\ layer[i] \in Layer
      /\ SimpleLists /\ BuildOf(i)
  BY DEF LevelInv, EntryInv, Call, Step, PhaseA, GraphInv, TypeOK, Mesh
<1>2. UNCHANGED <<nodes, ep, level, neighbors>>
  BY DEF PhaseA, graphVars
<1>3. Grows /\ SimpleLists' /\ \A j \in Insertion \ Registered : neighbors'[j] = neighbors[j]
  BY <1>1, <1>2, ListsStay
<1>4. nodes[Head(todo[i])] \in Insertion
  <2>1. todo[i] \in Seq(DOMAIN nodes) /\ todo[i] # <<>>
    BY <1>1 DEF GraphInv, ListsInMap, Wired
  <2>2. Head(todo[i]) \in DOMAIN nodes
    BY <2>1, HeadTailProperties
  <2> QED
    BY <1>1, <2>2 DEF GraphInv, TypeOK
<1>5. CASE ~OnLayer(nodes[Head(todo[i])], layer[i])
  <2>1. layer[i] # 0
    <3>1. level[nodes[Head(todo[i])]] \in 0..MaxLevel
      BY <1>1, <1>4 DEF GraphInv, TypeOK, Layer
    <3> QED
      BY <1>5, <3>1, HNSWAssumption DEF OnLayer
  <2>2. Advance(i)
    BY <1>5 DEF PhaseA
  <2>3. BuildOf(i)'
    BY <1>1, <1>2, <2>1, <2>2, AdvanceAbove
  <2> QED
    BY <1>3, <2>3 DEF Built
<1>6. CASE OnLayer(nodes[Head(todo[i])], layer[i])
  <2>1. /\ nbr' = [nbr EXCEPT ![i] = nodes[Head(todo[i])]]
        /\ pc' = [pc EXCEPT ![i] = "wire"]
        /\ UNCHANGED <<todo, layer>>
    BY <1>6 DEF PhaseA
  <2>2. pc'[i] = "wire" /\ nbr'[i] = nodes[Head(todo[i])]
    BY <1>1, <2>1 DEF GraphInv, TypeOK
  <2>3. Done' = Done
    BY <1>1, <2>1, <2>2 DEF Done, GraphInv, TypeOK, Call
  <2>4. Unlinked(i)'
    BY <1>1, <1>2, <2>1, <2>2 DEF BuildOf, Unlinked, NotYet, Range
  <2>5. FindsOthers(i)' /\ WalkMeets(i)'
    BY <1>1, <1>2, <2>2 DEF BuildOf, FindsOthers, WalkMeets
  <2>6. WiresOnce(i)'
    <3>1. /\ \A j : Range(neighbors[j][0])' = Range(neighbors[j][0])
          /\ Range(todo[i])' = Range(todo[i]) /\ IsInjective(todo[i])' = IsInjective(todo[i])
      BY <1>2, <2>1 DEF Range, IsInjective
    <3> QED
      BY <1>1, <1>2, <2>1, <2>2, <3>1 DEF BuildOf, WiresOnce
  <2>7. Meshed(i)'
    BY <1>1, <1>2, <2>1, <2>2, <2>3 DEF BuildOf, Meshed, SetBottom, Range
  <2> QED
    BY <1>3, <2>4, <2>5, <2>6, <2>7 DEF Built, BuildOf
<1> QED
  BY <1>5, <1>6

\* A new element at the end of a list without repetitions.
LEMMA AppendFresh ==
  ASSUME NEW S, NEW f \in Seq(S), NEW e \in S
  PROVE  /\ Range(Append(f, e)) = Range(f) \cup {e}
         /\ IsInjective(f) /\ e \notin Range(f) => IsInjective(Append(f, e))
<1>1. /\ Len(f) \in Nat /\ DOMAIN f = 1..Len(f) /\ DOMAIN Append(f, e) = 1..Len(f) + 1
      /\ \A k \in 1..Len(f) : Append(f, e)[k] = f[k]
      /\ Append(f, e)[Len(f) + 1] = e
  <2>1. Len(f) \in Nat /\ DOMAIN f = 1..Len(f)
    BY LenProperties
  <2>2. Append(f, e) \in Seq(S) /\ Len(Append(f, e)) = Len(f) + 1
        /\ \A k \in 1..Len(f) : Append(f, e)[k] = f[k]
        /\ Append(f, e)[Len(f) + 1] = e
    BY AppendProperties
  <2>3. DOMAIN Append(f, e) = 1..Len(f) + 1
    BY <2>2, LenProperties
  <2> QED
    BY <2>1, <2>2, <2>3
<1>2. Range(Append(f, e)) = Range(f) \cup {e}
  <2>1. ASSUME NEW x \in Range(Append(f, e)) PROVE x \in Range(f) \cup {e}
    <3>1. PICK k \in 1..Len(f) + 1 : x = Append(f, e)[k]
      BY <1>1, <2>1 DEF Range
    <3>2. k \in 1..Len(f) \/ k = Len(f) + 1
      BY <1>1
    <3> QED
      BY <1>1, <3>1, <3>2 DEF Range
  <2>2. ASSUME NEW x \in Range(f) \cup {e} PROVE x \in Range(Append(f, e))
    <3>1. CASE x = e
      <4>1. Len(f) + 1 \in 1..Len(f) + 1
        BY <1>1
      <4> QED
        BY <1>1, <3>1, <4>1 DEF Range
    <3>2. CASE x \in Range(f)
      <4>1. PICK k \in 1..Len(f) : x = f[k]
        BY <1>1, <3>2 DEF Range
      <4>2. k \in 1..Len(f) + 1
        BY <1>1
      <4> QED
        BY <1>1, <4>1, <4>2 DEF Range
    <3> QED
      BY <2>2, <3>1, <3>2
  <2> QED
    BY <2>1, <2>2
<1>3. ASSUME IsInjective(f), e \notin Range(f)
      PROVE  IsInjective(Append(f, e))
  <2>1. ASSUME NEW a \in 1..Len(f) + 1, NEW b \in 1..Len(f) + 1, Append(f, e)[a] = Append(f, e)[b]
        PROVE  a = b
    <3>1. (a \in 1..Len(f) \/ a = Len(f) + 1) /\ (b \in 1..Len(f) \/ b = Len(f) + 1)
      BY <1>1
    <3>2. \A k \in 1..Len(f) : f[k] # e
      BY <1>1, <1>3 DEF Range
    <3>3. \A k, m \in 1..Len(f) : f[k] = f[m] => k = m
      BY <1>1, <1>3 DEF IsInjective
    <3> QED
      BY <1>1, <2>1, <3>1, <3>2, <3>3
  <2> QED
    BY <1>1, <2>1 DEF IsInjective
<1> QED
  BY <1>2, <1>3

\* A list without repetitions does not meet its first element again.
LEMMA TailRange ==
  ASSUME NEW S, NEW f \in Seq(S), f # <<>>, IsInjective(f)
  PROVE  /\ IsInjective(Tail(f)) /\ Range(f) = Range(Tail(f)) \cup {Head(f)}
         /\ Head(f) \notin Range(Tail(f))
<1>1. /\ Len(f) \in Nat /\ Len(f) >= 1 /\ DOMAIN f = 1..Len(f) /\ DOMAIN Tail(f) = 1..Len(f) - 1
      /\ \A k \in 1..Len(f) - 1 : Tail(f)[k] = f[k + 1]
      /\ Head(f) = f[1]
  <2>1. Len(f) \in Nat /\ DOMAIN f = 1..Len(f)
    BY LenProperties
  <2>2. Tail(f) \in Seq(S) /\ Len(Tail(f)) = Len(f) - 1
        /\ \A k \in 1..Len(Tail(f)) : Tail(f)[k] = f[k + 1]
    BY HeadTailProperties
  <2>3. DOMAIN Tail(f) = 1..Len(f) - 1
    BY <2>2, LenProperties
  <2>4. Len(f) >= 1
    BY <2>1, EmptySeq
  <2> QED
    BY <2>1, <2>2, <2>3, <2>4
<1>2. \A k \in 1..Len(f) - 1 : k + 1 \in 1..Len(f) /\ k + 1 # 1
  BY <1>1
<1>3. \A k, m \in 1..Len(f) : f[k] = f[m] => k = m
  BY <1>1 DEF IsInjective
<1>4. IsInjective(Tail(f))
  <2>1. ASSUME NEW a \in 1..Len(f) - 1, NEW b \in 1..Len(f) - 1, Tail(f)[a] = Tail(f)[b]
        PROVE  a = b
    <3>1. a + 1 = b + 1
      BY <1>1, <1>2, <1>3, <2>1
    <3> QED
      BY <1>1, <3>1
  <2> QED
    BY <1>1, <2>1 DEF IsInjective
<1>5. Head(f) \notin Range(Tail(f))
  <2> SUFFICES ASSUME NEW k \in 1..Len(f) - 1, Tail(f)[k] = f[1]
               PROVE  FALSE
    BY <1>1 DEF Range
  <2>1. k + 1 = 1
    <3>1. 1 \in 1..Len(f)
      BY <1>1
    <3> QED
      BY <1>1, <1>2, <1>3, <3>1
  <2> QED
    BY <1>2, <2>1
<1>6. Range(f) = Range(Tail(f)) \cup {Head(f)}
  <2>1. ASSUME NEW x \in Range(f) PROVE x \in Range(Tail(f)) \cup {Head(f)}
    <3>1. PICK k \in 1..Len(f) : x = f[k]
      BY <1>1, <2>1 DEF Range
    <3>2. CASE k = 1
      BY <1>1, <3>1, <3>2
    <3>3. CASE k # 1
      <4>1. k - 1 \in 1..Len(f) - 1 /\ (k - 1) + 1 = k
        BY <1>1, <3>3
      <4>2. Tail(f)[k - 1] = x
        BY <1>1, <3>1, <4>1
      <4> QED
        BY <1>1, <4>1, <4>2 DEF Range
    <3> QED
      BY <3>2, <3>3
  <2>2. Head(f) \in Range(f)
    <3>1. 1 \in 1..Len(f)
      BY <1>1
    <3> QED
      BY <1>1, <3>1 DEF Range
  <2>3. ASSUME NEW x \in Range(Tail(f)) PROVE x \in Range(f)
    <3>1. PICK k \in 1..Len(f) - 1 : x = Tail(f)[k]
      BY <1>1, <2>3 DEF Range
    <3> QED
      BY <1>1, <1>2, <3>1 DEF Range
  <2> QED
    BY <2>1, <2>2, <2>3
<1> QED
  BY <1>4, <1>5, <1>6

\* A list on layer 0 that misses a Node, beside its owner, has room for it.
LEMMA RoomForOneMore ==
  ASSUME GraphInv, SmallGraph, SimpleLists, NEW i \in Insertion, NEW n \in Insertion, n # i,
         Id[i] \notin Range(neighbors[n][0])
  PROVE  Fits(neighbors[n][0], 0)
<1> DEFINE L == neighbors[n][0]
           f == [k \in 1..Len(L) |-> nodes[L[k]]]
<1>1. L \in Seq(DOMAIN nodes) /\ 0 \in Layer
  BY HNSWAssumption DEF GraphInv, ListsInMap, Layer
<1>2. Len(L) \in Nat /\ DOMAIN L = 1..Len(L) /\ \A k \in 1..Len(L) : L[k] \in DOMAIN nodes
  BY <1>1, LenProperties, ElementOfSeq
<1>3. \A k \in 1..Len(L) : L[k] \in Range(L)
  BY <1>2 DEF Range
<1>4. IsInjective(L) /\ Id[n] \notin Range(L) /\ Id[i] \notin Range(L)
  BY DEF SimpleLists
<1>5. \A k \in 1..Len(L) : nodes[L[k]] \in Insertion /\ Id[nodes[L[k]]] = L[k]
  BY <1>2 DEF GraphInv, MapSound, TypeOK
<1>6. \A k \in 1..Len(L) : f[k] \in (Insertion \ {i}) \ {n} /\ Id[f[k]] = L[k]
  BY <1>3, <1>4, <1>5
<1> HIDE DEF L
<1>7. f \in Seq((Insertion \ {i}) \ {n}) /\ DOMAIN f = 1..Len(L) /\ Len(f) = Len(L)
  <2>1. f \in [1..Len(L) -> (Insertion \ {i}) \ {n}]
    BY <1>6
  <2>2. f \in Seq((Insertion \ {i}) \ {n})
    BY <1>2, <2>1, SeqDef
  <2> QED
    BY <1>2, <2>2, LenProperties
<1> HIDE DEF f
<1>8. IsInjective(f)
  BY <1>2, <1>4, <1>6, <1>7 DEF IsInjective
<1>9. /\ IsFiniteSet((Insertion \ {i}) \ {n})
      /\ Cardinality((Insertion \ {i}) \ {n}) = Cardinality(Insertion) - 2
  <2>1. IsFiniteSet(Insertion \ {i}) /\ Cardinality(Insertion \ {i}) = Cardinality(Insertion) - 1
    BY SizeType, FS_RemoveElement
  <2>2. n \in Insertion \ {i}
    OBVIOUS
  <2>3. /\ IsFiniteSet((Insertion \ {i}) \ {n})
        /\ Cardinality((Insertion \ {i}) \ {n}) = Cardinality(Insertion \ {i}) - 1
    BY <2>1, <2>2, FS_RemoveElement
  <2> QED
    BY <2>1, <2>3, SizeType
<1>10. Len(f) <= Cardinality((Insertion \ {i}) \ {n})
  BY <1>7, <1>8, <1>9, SimpleLength
<1>11. Len(L) + 1 <= MaxLinks(0)
  BY <1>1, <1>2, <1>7, <1>9, <1>10, SizeType, MaxLinksType DEF SmallGraph
<1> QED
  BY <1>11 DEF Fits, L

\* On layer 0 the neighbour's list has room and takes the new Node in; then it is
\* the next neighbour's turn, and after the last the new Node and every finished
\* one link to each other.
LEMMA BuiltPhaseB ==
  ASSUME LevelInv, DistinctIds, SmallGraph, Mesh, NEW i \in Insertion, PhaseB(i)
  PROVE  Built(i)
<1>1. /\ GraphInv /\ i \in Call /\ Step(i) /\ pc[i] = "wire" /\ Advance(i)
      /\ layer[i] \in Layer /\ 0 \in Layer /\ UNCHANGED <<nodes, level, ep>>
  <2>1. GraphInv /\ i \in Call /\ pc[i] = "wire" /\ Advance(i) /\ UNCHANGED <<nodes, level, ep>>
    BY DEF LevelInv, EntryInv, Call, PhaseB
  <2>2. Step(i)
    BY DEF Step
  <2>3. layer[i] \in Layer /\ 0 \in Layer
    BY <2>1, HNSWAssumption DEF GraphInv, TypeOK, Layer
  <2> QED
    BY <2>1, <2>2, <2>3
<1>2. /\ SimpleLists /\ Unlinked(i) /\ FindsOthers(i) /\ WiresOnce(i) /\ Meshed(i)
      /\ nbr[i] = nodes[Head(todo[i])]
  BY <1>1 DEF Mesh, BuildOf, WiresOnce
<1>3. PICK n \in Insertion : n = nbr[i]
  BY <1>1 DEF GraphInv, TypeOK
<1>4. PICK h : h = Head(todo[i])
  OBVIOUS
<1>5. todo[i] \in Seq(DOMAIN nodes) /\ todo[i] # <<>>
  BY <1>1 DEF GraphInv, ListsInMap, Wired
<1>6. h \in DOMAIN nodes /\ h \in Range(todo[i]) /\ nodes[h] = n /\ n \in Registered /\ Id[n] = h
  <2>1. h \in DOMAIN nodes /\ h \in Range(todo[i])
    BY <1>4, <1>5, HeadTailProperties, LenProperties, EmptySeq DEF Range
  <2>2. nodes[h] = n
    BY <1>2, <1>3, <1>4
  <2> QED
    BY <1>1, <2>1, <2>2 DEF GraphInv, MapSound
<1>7. /\ \A l \in Layer : l # layer[i] => neighbors'[n][l] = neighbors[n][l]
      /\ \A j \in Insertion \ {n} : neighbors'[j] = neighbors[j]
      /\ Fits(neighbors[n][layer[i]], layer[i]) =>
           neighbors'[n][layer[i]] = Append(neighbors[n][layer[i]], Id[i])
  <2>1. PICK F : neighbors' = [neighbors EXCEPT ![n][layer[i]] = F]
    BY <1>3 DEF PhaseB
  <2>2. /\ \A l \in Layer : l # layer[i] => neighbors'[n][l] = neighbors[n][l]
        /\ \A j \in Insertion \ {n} : neighbors'[j] = neighbors[j]
    BY <1>1, <2>1 DEF GraphInv, TypeOK
  <2>3. ASSUME Fits(neighbors[n][layer[i]], layer[i])
        PROVE  neighbors'[n][layer[i]] = Append(neighbors[n][layer[i]], Id[i])
    <3>1. neighbors' = [neighbors EXCEPT ![n][layer[i]] = Append(neighbors[n][layer[i]], Id[i])]
      BY <1>3, <2>3 DEF PhaseB
    <3> QED
      BY <1>1, <3>1 DEF GraphInv, TypeOK
  <2> QED
    BY <2>2, <2>3
<1>8. \A j \in Insertion \ Registered : neighbors'[j] = neighbors[j]
  BY <1>6, <1>7
<1>9. CASE layer[i] # 0
  <2>1. \A j \in Insertion : neighbors'[j][0] = neighbors[j][0]
    BY <1>1, <1>7, <1>9
  <2>2. Grows
    BY <1>1, <2>1, MapGrows DEF Grows
  <2>3. SimpleLists'
    BY <1>2, <2>1 DEF SimpleLists, IsInjective, Range
  <2>4. \A j \in Insertion, l \in Layer : l # layer[i] => neighbors'[j][l] = neighbors[j][l]
    BY <1>7
  <2>5. BuildOf(i)'
    BY <1>1, <1>9, <2>4, AdvanceAbove
  <2> QED
    BY <1>8, <2>2, <2>3, <2>5 DEF Built
<1>10. CASE layer[i] = 0
  <2>1. IsInjective(todo[i])
        /\ \A id \in Range(todo[i]) : id # Id[i] /\ Id[i] \notin Range(neighbors[nodes[id]][0])
    BY <1>1, <1>2, <1>10 DEF WiresOnce
  <2>2. n # i /\ Id[i] \notin Range(neighbors[n][0])
    BY <1>6, <2>1
  <2>3. neighbors'[n][0] = Append(neighbors[n][0], Id[i])
    BY <1>1, <1>2, <1>7, <1>10, <2>2, RoomForOneMore
  <2>4. neighbors[n][0] \in Seq(DOMAIN nodes) /\ neighbors[n][0] \in Seq(Ids) /\ Id[i] \in Ids
    BY <1>1, HNSWAssumption DEF GraphInv, ListsInMap, TypeOK
  <2>5. Range(neighbors'[n][0]) = Range(neighbors[n][0]) \cup {Id[i]}
    BY <2>3, <2>4, AppendFresh
  <2>6. IsInjective(neighbors'[n][0])
    BY <1>2, <2>2, <2>3, <2>4, AppendFresh DEF SimpleLists
  <2>7. Grows
    <3>1. \A s \in Insertion : Range(neighbors[s][0]) \subseteq Range(neighbors'[s][0])
      BY <1>7, <2>5
    <3> QED
      BY <1>1, <3>1, MapGrows DEF Grows
  <2>8. SimpleLists'
    <3>1. \A j \in Insertion : IsInjective(neighbors'[j][0]) /\ Id[j] \notin Range(neighbors'[j][0])
      <4>1. Id[n] # Id[i]
        BY <1>6, <2>1
      <4> QED
        BY <1>2, <1>7, <2>5, <2>6, <4>1 DEF SimpleLists
    <3> QED
      BY <3>1 DEF SimpleLists, IsInjective, Range
  <2>9. /\ todo'[i] = Tail(todo[i]) /\ layer'[i] = 0
        /\ Tail(todo[i]) # <<>> => pc'[i] = "back"
        /\ pc'[i] \in {"back", "promote", "done"}
    <3>1. todo'[i] = Tail(todo[i])
      BY <1>1 DEF Advance, GraphInv, TypeOK
    <3>2. ~LayersLeft(layer[i]) /\ (Len(todo[i]) = 1 => Tail(todo[i]) = <<>>)
      <4>1. /\ Tail(todo[i]) \in Seq(DOMAIN nodes)
            /\ Len(Tail(todo[i])) = Len(todo[i]) - 1
        BY <1>5, HeadTailProperties
      <4>2. Len(todo[i]) = 1 => Len(Tail(todo[i])) = 0
        BY <4>1
      <4>3. Len(Tail(todo[i])) = 0 => Tail(todo[i]) = <<>>
        BY <4>1, EmptySeq
      <4> QED
        BY <1>10, <4>2, <4>3 DEF LayersLeft
    <3>3. layer' = layer /\ \/ Len(todo[i]) > 1 /\ pc' = [pc EXCEPT ![i] = "back"]
                            \/ /\ Len(todo[i]) = 1
                               /\ pc' = [pc EXCEPT ![i] =
                                           IF level[i] > top[i] THEN "promote" ELSE "done"]
      BY <1>1, <3>2 DEF Advance
    <3>4. \/ pc'[i] = "back"
          \/ Len(todo[i]) = 1 /\ pc'[i] \in {"promote", "done"}
      BY <1>1, <3>3 DEF GraphInv, TypeOK
    <3> QED
      BY <1>10, <3>1, <3>2, <3>3, <3>4
  <2>10. Unlinked(i)'
    <3>1. \A l \in Layer : ~NotYet(i, l)'
      BY <2>9, HNSWAssumption DEF NotYet, Layer
    <3> QED
      BY <3>1 DEF Unlinked
  <2>11. FindsOthers(i)'
    BY <1>1, <1>2, <2>9 DEF FindsOthers
  <2>12. IsInjective(Tail(todo[i])) /\ Range(todo[i]) = Range(Tail(todo[i])) \cup {h}
         /\ h \notin Range(Tail(todo[i]))
    BY <1>4, <1>5, <2>1, TailRange
  <2>13. WiresOnce(i)'
    <3>1. ASSUME NEW id \in Range(Tail(todo[i]))
          PROVE  id # Id[i] /\ Id[i] \notin Range(neighbors'[nodes'[id]][0])
      <4>1. id # h /\ id \in Range(todo[i]) /\ id \in DOMAIN nodes
        <5>1. Range(todo[i]) \subseteq DOMAIN nodes
          BY <1>5, ElementOfSeq DEF Range
        <5> QED
          BY <2>12, <3>1, <5>1
      <4>2. nodes[id] # n /\ nodes[id] \in Insertion
        BY <1>1, <1>6, <4>1 DEF GraphInv, MapSound, TypeOK
      <4> QED
        BY <1>1, <1>7, <2>1, <4>1, <4>2
    <3>2. pc'[i] # "wire" /\ IsInjective(todo'[i])
          /\ \A id \in Range(todo'[i]) : id # Id[i] /\ Id[i] \notin Range(neighbors'[nodes'[id]][0])
      BY <2>9, <2>12, <3>1
    <3>3. /\ IsInjective(todo[i])' = IsInjective(todo'[i]) /\ Range(todo[i])' = Range(todo'[i])
          /\ \A n0 : Range(neighbors[n0][0])' = Range(neighbors'[n0][0])
      BY DEF IsInjective, Range
    <3> QED
      BY <3>2, <3>3 DEF WiresOnce
  <2>14. Meshed(i)'
    <3> SUFFICES ASSUME NEW j \in Done, j # i
                 PROVE  /\ Id[j] \in Range(neighbors'[i][0])
                        /\ \/ Id[i] \in Range(neighbors'[j][0])
                           \/ pc'[i] \in {"back", "wire"} /\ Id[j] \in Range(todo'[i])
      <4>1. \A j \in Done' : j # i => j \in Done
        BY <1>1, StepsOne DEF Done, Call
      <4> QED
        BY <4>1 DEF Meshed, Range
    <3>1. /\ Id[j] \in Range(neighbors[i][0])
          /\ Id[i] \in Range(neighbors[j][0]) \/ Id[j] \in Range(todo[i])
      BY <1>1, <1>2, <1>10 DEF Meshed, SetBottom
    <3>2. j \in Insertion
      BY DEF Done
    <3>3. Id[j] \in Range(neighbors'[i][0])
      BY <2>7, <3>1 DEF Grows
    <3>4. CASE Id[i] \in Range(neighbors[j][0])
      BY <2>7, <3>2, <3>3, <3>4 DEF Grows
    <3>5. CASE Id[j] = h
      <4>1. j = n
        BY <1>6, <3>2, <3>5, HNSWAssumption DEF DistinctIds, IsInjective
      <4> QED
        BY <2>5, <3>3, <4>1
    <3>6. CASE Id[j] \in Range(Tail(todo[i]))
      <4>1. Tail(todo[i]) # <<>>
        BY <3>6 DEF Range
      <4> QED
        BY <2>9, <3>3, <3>6, <4>1
    <3> QED
      BY <2>12, <3>1, <3>4, <3>5, <3>6
  <2>15. WalkMeets(i)'
    BY <2>9 DEF WalkMeets
  <2> QED
    BY <1>8, <2>7, <2>8, <2>10, <2>11, <2>13, <2>14, <2>15 DEF Built, BuildOf
<1> QED
  BY <1>9, <1>10

-----------------------------------------------------------------------------
(* The invariant.                                                          *)

\* An insertion that is called has nothing in the graph yet.
LEMMA CallKeeps ==
  ASSUME LevelInv, Mesh, NEW i \in Insertion, CallInsert(i)
  PROVE  Mesh'
<1>1. /\ UNCHANGED <<nodes, neighbors, ep, layer, visited, frontier, found, todo, nbr>>
      /\ UNCHANGED <<result, stored, bare>>
      /\ pc[i] = "new" /\ pc'[i] = "registering" /\ GraphInv
      /\ \A c \in Call \ {i} : pc'[c] = pc[c]
  BY DEF CallInsert, graphVars, walkVars, backVars, LevelInv, EntryInv, GraphInv, TypeOK, Call
<1>2. Done' = Done /\ \A q \in Query : pc'[q] = pc[q]
  BY <1>1, HNSWAssumption DEF Done, Call
<1>3. \A j \in Insertion : /\ SetBottom(j)' <=> SetBottom(j)
                           /\ \A l : NotYet(j, l)' <=> NotYet(j, l)
                           /\ \A st \in {"layer", "walk", "back", "wire"} :
                                pc'[j] = st <=> pc[j] = st
  BY <1>1 DEF SetBottom, NotYet, Call
<1>4. SimpleLists'
  BY <1>1 DEF Mesh, SimpleLists, IsInjective, Range
<1>5. ASSUME NEW j \in Insertion
      PROVE  BuildOf(j)'
  <2>1. BuildOf(j)
    BY DEF Mesh
  <2>2. /\ \A k : Range(neighbors[k][0])' = Range(neighbors[k][0])
        /\ Range(todo[j])' = Range(todo[j]) /\ IsInjective(todo[j])' = IsInjective(todo[j])
        /\ \A k, l : Range(neighbors[k][l])' = Range(neighbors[k][l])
    BY <1>1 DEF Range, IsInjective
  <2>3. Unlinked(j)'
    BY <1>1, <1>3, <2>1, <2>2 DEF BuildOf, Unlinked
  <2>4. FindsOthers(j)' /\ WiresOnce(j)'
    BY <1>1, <1>3, <2>1, <2>2 DEF BuildOf, FindsOthers, WiresOnce
  <2>5. Meshed(j)'
    BY <1>2, <1>3, <2>1, <2>2 DEF BuildOf, Meshed
  <2>6. WalkMeets(j)'
    BY <1>1, <1>2, <1>3, <2>1 DEF BuildOf, WalkMeets, Starts
  <2> QED
    BY <2>3, <2>4, <2>5, <2>6 DEF BuildOf
<1>6. Grows
  BY <1>1, <1>2 DEF Grows, Range
<1>7. \A q \in Query : StoredDone(q)' /\ ResultInMap(q)' /\ SearchMeets(q)' /\ AnswersExactly(q)'
  BY <1>1, <1>2, <1>6, SearchKept DEF SameWalk
<1> QED
  BY <1>4, <1>5, <1>7 DEF Mesh

LEMMA MeshStep ==
  ASSUME SmallInv, DistinctIds, SmallGraph, Next
  PROVE  SmallInv'
<1>1. LevelInv /\ GraphInv /\ LevelInv' /\ GraphInv'
  BY LevelStep, GraphStep DEF SmallInv, LevelInv, EntryInv
<1> SUFFICES ASSUME ~overlapped'
             PROVE  Mesh'
  BY <1>1 DEF SmallInv
<1>2. CASE \E i \in Insertion : CallInsert(i)
  <2>1. PICK i \in Insertion : CallInsert(i)
    BY <1>2
  <2>2. ~overlapped
    BY <2>1 DEF CallInsert
  <2> QED
    BY <1>1, <2>1, <2>2, CallKeeps DEF SmallInv
<1>3. CASE \E q \in Query : CallSearch(q) \/ Step(q)
  <2>1. PICK q \in Query : CallSearch(q) \/ Step(q)
    BY <1>3
  <2>2. ~overlapped
    BY <1>1, <2>1, SearchesChange
  <2> QED
    BY <1>1, <2>1, <2>2, SearchStep DEF SmallInv
<1>4. CASE \E i \in Insertion : Step(i)
  <2>1. PICK i \in Insertion : Step(i)
    BY <1>4
  <2>2. ~overlapped /\ i \notin Query
    BY <1>1, <2>1, StepsOne, HNSWAssumption DEF Call
  <2>3. Mesh
    BY <2>2 DEF SmallInv
  <2>4. Built(i)
    BY <1>1, <2>1, <2>2, <2>3, BuiltRegister, BuiltEnter, BuiltExpand, BuiltDescend, BuiltLink,
       BuiltPhaseA, BuiltPhaseB, BuiltPromotion DEF Step
  <2> QED
    BY <1>1, <2>1, <2>2, <2>3, <2>4, InsertionKeeps
<1> QED
  BY <1>2, <1>3, <1>4 DEF Next, Call

LEMMA MeshInit == ASSUME DistinctIds PROVE Init => SmallInv
<1> SUFFICES ASSUME Init
             PROVE  SmallInv
  OBVIOUS
<1>1. LevelInv
  BY LevelInit
<1>2. \A c \in Call : pc[c] = "new"
  BY DEF Init
<1>3. \A i \in Insertion : pc[i] = "new" /\ \A l \in Layer : neighbors[i][l] = <<>>
  BY DEF Init, Call
<1>4. 0 \in Layer
  BY HNSWAssumption DEF Layer
<1>5. \A i \in Insertion : BuildOf(i)
  <2> SUFFICES ASSUME NEW i \in Insertion
               PROVE  BuildOf(i)
    OBVIOUS
  <2>1. Unlinked(i)
    BY <1>3 DEF Unlinked, Range
  <2> QED
    BY <1>3, <2>1 DEF BuildOf, FindsOthers, WiresOnce, Meshed, SetBottom, WalkMeets
<1>6. SimpleLists
  BY <1>3, <1>4 DEF SimpleLists, IsInjective, Range
<1>7. \A q \in Query : StoredDone(q) /\ ResultInMap(q) /\ SearchMeets(q) /\ AnswersExactly(q)
  <2>1. \A q \in Query : pc[q] = "new" /\ stored[q] = {} /\ result[q] = <<>>
    BY <1>2 DEF Init, Call
  <2> QED
    BY <2>1 DEF StoredDone, ResultInMap, SearchMeets, AnswersExactly, Range
<1> QED
  BY <1>1, <1>5, <1>6, <1>7 DEF SmallInv, Mesh

LEMMA MeshStutter == SmallInv /\ LevelInv' /\ UNCHANGED vars => SmallInv'
<1> SUFFICES ASSUME SmallInv, LevelInv', UNCHANGED vars, ~overlapped'
             PROVE  Mesh'
  BY DEF SmallInv
<1>1. /\ UNCHANGED <<nodes, entryPoint, maxLayer, level, neighbors, pc, ep, layer, top>>
      /\ UNCHANGED <<visited, frontier, found, todo, nbr, kept, result, stored, bare, overlapped>>
  BY DEF vars, graphVars, walkVars, backVars, history
<1>2. Mesh
  BY <1>1 DEF SmallInv
<1>3. SimpleLists'
  BY <1>1, <1>2 DEF Mesh, SimpleLists, IsInjective, Range
<1>4. InsertionsRest /\ Grows /\ \A q \in Query : SameWalk(q)
  BY <1>1 DEF InsertionsRest, Grows, SameWalk, Done, Range
<1>5. \A i \in Insertion : BuildOf(i)'
  BY <1>2, <1>4, BuildsStay DEF Mesh
<1>6. \A q \in Query : StoredDone(q)' /\ ResultInMap(q)' /\ SearchMeets(q)' /\ AnswersExactly(q)'
  BY <1>1, <1>2, <1>4, SearchKept DEF SameWalk
<1> QED
  BY <1>3, <1>5, <1>6 DEF Mesh

LEMMA SmallAlways ==
  ASSUME DistinctIds, SmallGraph
  PROVE  Spec => []SmallInv
<1>1. Init => SmallInv
  BY MeshInit
<1>2. SmallInv /\ [Next]_vars => SmallInv'
  <2>1. SmallInv /\ Next => SmallInv'
    BY MeshStep
  <2>2. SmallInv /\ UNCHANGED vars => SmallInv'
    BY MeshStutter, LevelStep DEF SmallInv
  <2> QED
    BY <2>1, <2>2
<1> QED
  BY <1>1, <1>2, PTL DEF Spec

\* A search finds the best of all that was stored when it began, while another
\* call links a Node: a finished Node links to every other finished one, and the
\* walk that reads one list on layer 0 has found them all.  For any vectors and
\* levels and any number of searches at a time, as long as Ef, EfConstruction
\* and the limit of layer 0 cover all that is ever inserted; not for a search
\* that came down to layer 0 at a Node that had no links there yet.
THEOREM SmallGraphsExact ==
  ASSUME DistinctIds, SmallGraph
  PROVE  Spec => []SearchExact
<1>1. SmallInv => SearchExact
  BY DEF SmallInv, Mesh, AnswersExactly, SearchExact
<1> QED
  BY <1>1, SmallAlways, PTL

=============================================================================
