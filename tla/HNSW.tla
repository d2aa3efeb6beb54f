-------------------------------- MODULE HNSW --------------------------------
(***************************************************************************)
(* internal/vectorindex/hnsw.go: the proximity graph, with Insert and      *)
(* Search running concurrently.                                            *)
(*                                                                         *)
(* A section of the code under g.mu or a node's mu is one action, except   *)
(* that searchLayer, which holds g.mu.RLock for a whole walk, takes one    *)
(* step for each neighbour list it reads: node locks protect those, and    *)
(* they change under it.  Who holds or waits for g.mu follows from where   *)
(* the calls are (Reading, LockWanted).                                    *)
(*                                                                         *)
(* An insertion stands for the Node it creates.  Inserting an id again     *)
(* puts another Node in the map.  A call also stands for the vector it     *)
(* carries; how similar two vectors are is a constant.                     *)
(*                                                                         *)
(* As in RaftLog, the variant above an operator is named for what is wrong *)
(* with it and is used by nothing.                                         *)
(***************************************************************************)
EXTENDS Integers, Sequences, FiniteSets, Functions

CONSTANTS
  Insertion, Query,   \* the calls of Insert and of Search
  Id,                 \* the id each insertion carries
  Similarity,         \* CosineSimilarity of the vectors of two calls
  M,                  \* g.M
  EfConstruction,     \* g.efConstruction
  Ef, TopK,           \* a search: max(topK, g.efSearch) and topK
  Writers,            \* how many insertions run at a time: 1 under the Applier
  MaxLevel            \* bound: the level assignLevel draws

Call  == Insertion \cup Query
Layer == 0..MaxLevel
Ids   == Range(Id)

ASSUME HNSWAssumption ==
  /\ IsFiniteSet(Insertion) /\ Insertion \cap Query = {}
  /\ Id \in [Insertion -> Ids]
  /\ Similarity \in [Call \X Call -> Int]
  /\ {M, EfConstruction, Ef, TopK, Writers} \subseteq Nat \ {0}
  /\ TopK <= Ef
  /\ MaxLevel \in Nat

\* The empty string: an id the handler refuses (grpc_server.go:96).
CONSTANT NoId
ASSUME NoIdAssumption == NoId \notin Ids

VARIABLES
  nodes,            \* g.nodes: id -> Node, for the ids in the map
  entryPoint, maxLayer,
  level,            \* node.maxLayer of each Node
  neighbors,        \* node.neighbors of each Node, by layer
  pc,               \* where each call is
  ep, layer,        \* its current entry point and layer
  top,              \* an insertion's curMaxLayer
  visited, frontier, found,  \* searchLayer: visited, exp and res
  todo,             \* the neighbours to wire back
  nbr, kept,        \* addBackConnection: the Node and the list after a prune
  result            \* what Search returns

\* History, for the properties alone.
VARIABLES
  stored,      \* per search: the ids whose Insert had returned when it began
  bare,        \* per search: its walk of layer 0 began at a Node without links there yet
  overlapped   \* two insertions have run at the same time

graphVars  == <<nodes, entryPoint, maxLayer, level, neighbors>>
walkVars   == <<visited, frontier, found>>
backVars   == <<todo, nbr, kept>>
history    == <<stored, bare, overlapped>>
vars == <<graphVars, pc, ep, layer, top, walkVars, backVars, result, history>>

Init ==
  /\ nodes = <<>> /\ entryPoint = NoId /\ maxLayer = 0
  /\ level = [i \in Insertion |-> 0]
  /\ neighbors = [i \in Insertion |-> [l \in Layer |-> <<>>]]
  /\ pc    = [c \in Call |-> "new"]
  /\ ep    = [c \in Call |-> NoId]
  /\ layer = [c \in Call |-> 0]
  /\ top   = [i \in Insertion |-> 0]
  /\ visited = [c \in Call |-> {}] /\ frontier = [c \in Call |-> {}]
  /\ found = [c \in Call |-> {}]
  /\ todo = [i \in Insertion |-> <<>>] /\ kept = [i \in Insertion |-> <<>>]
  /\ nbr = [i \in Insertion |-> i]
  /\ result = [q \in Query |-> <<>>]
  /\ stored = [q \in Query |-> {}] /\ bare = [q \in Query |-> FALSE]
  /\ overlapped = FALSE

-----------------------------------------------------------------------------
(* g.mu, a sync.RWMutex: a writer waits for the readers that are there,    *)
(* and no reader enters any more once a writer has called Lock.  (Go lets  *)
(* the readers that waited in before the next writer; here that writer     *)
(* would call Lock a little later.)                                        *)

Reading(c)    == pc[c] = "walk"
LockWanted(c) == pc[c] \in {"registering", "promoting"}
MayRLock == \A c \in Call : ~LockWanted(c)
MayLock  == \A c \in Call : ~Reading(c)

\* searchLayer, inside its section, takes only node locks.
MayReadListWithRLock == MayRLock
MayReadList == TRUE

Running == {i \in Insertion : pc[i] \notin {"new", "done"}}
Wiring  == Running \ {i \in Insertion : pc[i] = "registering"}

-----------------------------------------------------------------------------
(* Calculations.                                                           *)

MaxLinks(l) == IF l = 0 THEN 2 * M ELSE M

\* The k best elements of D, or all if there are fewer, best first.
BestFirst(D, score, k) ==
  {f \in UNION {[1..n -> D] : n \in {m \in 0..k : m = k \/ m = Cardinality(D)}} :
     /\ IsInjective(f)
     /\ \A i \in 1..Len(f) :
          /\ \A j \in i..Len(f) : score[f[i]] >= score[f[j]]
          /\ \A d \in D \ Range(f) : score[f[i]] >= score[d]}

\* A min-heap of capacity k after all of D was pushed.
Heaps(D, score, k) ==
  {F \in SUBSET D :
     /\ Cardinality(F) <= k
     /\ F = D \/ Cardinality(F) = k
     /\ \A f \in F, d \in D \ F : score[f] >= score[d]}

\* How similar the Nodes are to the vector of call c.
ScoreTo(c) == [i \in Insertion |-> Similarity[<<c, i>>]]

\* The two loops of Insert, and that of Search, go down from curMaxLayer:
\* above this layer they look for one nearest Node only.
Floor(c)  == IF c \in Insertion THEN level[c] ELSE 0
Greedy(c) == layer[c] > Floor(c)
Width(c)  == IF Greedy(c) THEN 1 ELSE IF c \in Insertion THEN EfConstruction ELSE Ef

-----------------------------------------------------------------------------
(* Insert, phase 1.                                                        *)

\* Insert is called and calls g.mu.Lock.
CallInsert(i) ==
  /\ pc[i] = "new"
  /\ Cardinality(Running) < Writers
  /\ pc' = [pc EXCEPT ![i] = "registering"]
  /\ overlapped' = (overlapped \/ Running # {})
  /\ UNCHANGED <<graphVars, ep, layer, top, walkVars, backVars, result, stored, bare>>

Empty == DOMAIN nodes = {}

\* The loops of phases 2 and 3 begin at the layer that was the top.
StartLayerRaised(lvl) == IF lvl > maxLayer THEN lvl ELSE maxLayer
StartLayer(lvl) == maxLayer

\* The new Node enters the map, without links, and maxLayer is raised; the
\* first Node is also the entry point and is finished.
Register(i) ==
  /\ pc[i] = "registering"
  /\ MayLock
  /\ nodes' = [id \in DOMAIN nodes \cup {Id[i]} |-> IF id = Id[i] THEN i ELSE nodes[id]]
  /\ \E lvl \in Layer :
       /\ level' = [level EXCEPT ![i] = lvl]
       /\ maxLayer' = IF Empty \/ lvl > maxLayer THEN lvl ELSE maxLayer
       /\ IF Empty
          THEN /\ entryPoint' = Id[i]
               /\ pc' = [pc EXCEPT ![i] = "done"]
               /\ UNCHANGED <<ep, layer, top>>
          ELSE /\ pc' = [pc EXCEPT ![i] = "layer"]
               /\ ep' = [ep EXCEPT ![i] = entryPoint]
               /\ top' = [top EXCEPT ![i] = maxLayer]
               /\ layer' = [layer EXCEPT ![i] = StartLayer(lvl)]
               /\ UNCHANGED entryPoint
  /\ UNCHANGED <<neighbors, walkVars, backVars, result, history>>

-----------------------------------------------------------------------------
(* Search begins: entryPoint and maxLayer under g.mu.RLock.                *)

CallSearch(q) ==
  /\ pc[q] = "new"
  /\ MayRLock
  /\ IF entryPoint = NoId
     THEN /\ pc' = [pc EXCEPT ![q] = "done"]
          /\ UNCHANGED <<ep, layer>>
     ELSE /\ pc' = [pc EXCEPT ![q] = "layer"]
          /\ ep' = [ep EXCEPT ![q] = entryPoint]
          /\ layer' = [layer EXCEPT ![q] = maxLayer]
  /\ stored' = [stored EXCEPT ![q] = {Id[i] : i \in {j \in Insertion : pc[j] = "done"}}]
  /\ UNCHANGED <<graphVars, top, walkVars, backVars, result, bare, overlapped>>

-----------------------------------------------------------------------------
(* searchLayer.                                                            *)

\* RLock; the walk starts at the entry point.
EnterLayer(c) ==
  LET start == nodes[ep[c]]
  IN  /\ pc[c] = "layer"
      /\ MayRLock
      /\ pc' = [pc EXCEPT ![c] = "walk"]
      /\ visited'  = [visited EXCEPT ![c] = {start}]
      /\ frontier' = [frontier EXCEPT ![c] = {start}]
      /\ found'    = [found EXCEPT ![c] = {start}]
      /\ bare' = IF c \in Query /\ layer[c] = 0
                 THEN [bare EXCEPT ![c] = pc[start] # "done" /\ neighbors[start][0] = <<>>]
                 ELSE bare
      /\ UNCHANGED <<graphVars, ep, layer, top, backVars, result, stored, overlapped>>

\* The Nodes to expand next: the best one, if it may still improve the result.
Candidates(c) ==
  LET score == ScoreTo(c)
  IN  {n \in frontier[c] :
         /\ \A f \in frontier[c] : score[n] >= score[f]
         /\ \/ Cardinality(found[c]) < Width(c)
            \/ \E f \in found[c] : score[n] >= score[f]}

\* The Nodes that n links to on a layer; none above its own level.
Linked(n, l) ==
  IF l <= level[n] THEN {nodes[id] : id \in Range(neighbors[n][l])} ELSE {}

\* What a later neighbour of the same list pushed out of res again stays in exp.
\* It is expanded only if it is no worse than the worst kept.
StillTied(fresh, F, score) == {d \in fresh \ F : \E f \in F : score[d] >= score[f]}

\* Read one neighbour list, under the node's lock, and admit what is new.  (Of
\* equally similar Nodes any may be kept.)
Expand(c) ==
  /\ pc[c] = "walk"
  /\ MayReadList
  /\ \E n \in Candidates(c) :
       LET fresh == Linked(n, layer[c]) \ visited[c]
       IN  /\ visited' = [visited EXCEPT ![c] = @ \cup fresh]
           /\ \E F \in Heaps(found[c] \cup fresh, ScoreTo(c), Width(c)) :
                /\ found' = [found EXCEPT ![c] = F]
                /\ \E tied \in SUBSET StillTied(fresh, F, ScoreTo(c)) :
                     frontier' = [frontier EXCEPT ![c] = (@ \ {n}) \cup (fresh \cap F) \cup tied]
  /\ UNCHANGED <<graphVars, pc, ep, layer, top, backVars, result, history>>

\* Nothing is left that could improve the result: the walk is over and its
\* heaps are gone.
WalkOver(c) ==
  /\ pc[c] = "walk"
  /\ Candidates(c) = {}
  /\ visited'  = [visited EXCEPT ![c] = {}]
  /\ frontier' = [frontier EXCEPT ![c] = {}]
  /\ found'    = [found EXCEPT ![c] = {}]

\* The k best that were found, best first, as ids.
Found(c, k) == {[j \in 1..Len(best) |-> Id[best[j]]] : best \in BestFirst(found[c], ScoreTo(c), k)}

\* On a layer above the floor: the nearest Node is the way down.
Descend(c) ==
  /\ Greedy(c)
  /\ WalkOver(c)
  /\ \E ids \in Found(c, 1) : ep' = [ep EXCEPT ![c] = ids[1]]
  /\ layer' = [layer EXCEPT ![c] = @ - 1]
  /\ pc' = [pc EXCEPT ![c] = "layer"]
  /\ UNCHANGED <<graphVars, top, backVars, result, history>>

\* On layer 0: Search returns.
Answer(q) ==
  /\ ~Greedy(q)
  /\ WalkOver(q)
  /\ \E ids \in Found(q, TopK) : result' = [result EXCEPT ![q] = ids]
  /\ pc' = [pc EXCEPT ![q] = "done"]
  /\ UNCHANGED <<graphVars, ep, layer, top, backVars, history>>

-----------------------------------------------------------------------------
(* Insert, phase 3.                                                        *)

\* The walk ends; the new Node's list on this layer is set to the nearest
\* Nodes, whatever it held.  (The code lets go of g.mu before it takes the Node's
\* lock.  What others do in between they might as well do before this step: a
\* list read then is the old one, a link added then is overwritten.)
Link(i) ==
  LET l == layer[i]
  IN  /\ ~Greedy(i)
      /\ WalkOver(i)
      /\ \E ids \in Found(i, MaxLinks(l)) :
           /\ neighbors' = [neighbors EXCEPT ![i][l] = ids]
           /\ todo' = [todo EXCEPT ![i] = ids]
           /\ ep' = [ep EXCEPT ![i] = ids[1]]
      /\ pc' = [pc EXCEPT ![i] = "back"]
      /\ UNCHANGED <<nodes, entryPoint, maxLayer, level, layer, top, nbr, kept, result, history>>

\* Another turn of the loop lc >= 0, after layer l.
LayersLeftAtZero(l) == l >= 0
LayersLeft(l) == l > 0

\* One neighbour is dealt with: the next one, the next layer, or phase 4.
Advance(i) ==
  /\ todo' = [todo EXCEPT ![i] = Tail(@)]
  /\ \/ /\ Len(todo[i]) > 1
        /\ pc' = [pc EXCEPT ![i] = "back"]
        /\ UNCHANGED layer
     \/ /\ Len(todo[i]) = 1 /\ LayersLeft(layer[i])
        /\ pc' = [pc EXCEPT ![i] = "layer"]
        /\ layer' = [layer EXCEPT ![i] = @ - 1]
     \/ /\ Len(todo[i]) = 1 /\ ~LayersLeft(layer[i])
        /\ pc' = [pc EXCEPT ![i] = IF level[i] > top[i] THEN "promote" ELSE "done"]
        /\ UNCHANGED layer

\* addBackConnection, phase A: under g.mu.RLock, copy the neighbour's list and
\* score it and the new Node.  A neighbour that is not on this layer is skipped.
OnLayerStrict(n, l) == l < level[n]
OnLayer(n, l) == l <= level[n]
PhaseA(i) ==
  LET n == nodes[Head(todo[i])]
      l == layer[i]
      old == neighbors[n][l]
      candidates == <<i>> \o [k \in 1..Len(old) |-> nodes[old[k]]]
      score == [k \in 1..Len(candidates) |-> Similarity[<<n, candidates[k]>>]]
  IN  /\ pc[i] = "back"
      /\ MayRLock
      /\ \/ /\ ~OnLayer(n, l)
            /\ Advance(i)
            /\ UNCHANGED <<nbr, kept>>
         \/ /\ OnLayer(n, l)
            /\ \E best \in BestFirst(1..Len(candidates), score, MaxLinks(l)) :
                 kept' = [kept EXCEPT ![i] = [k \in 1..Len(best) |-> Id[candidates[best[k]]]]]
            /\ nbr' = [nbr EXCEPT ![i] = n]
            /\ pc' = [pc EXCEPT ![i] = "wire"]
            /\ UNCHANGED <<todo, layer>>
      /\ UNCHANGED <<graphVars, ep, top, walkVars, result, history>>

\* Phase B: under the neighbour's lock, append, or put the list pruned in
\* phase A in place of the one that is now too long.
Fits(list, l) == Len(list) + 1 <= MaxLinks(l)
PhaseB(i) ==
  LET n == nbr[i]
      l == layer[i]
  IN  /\ pc[i] = "wire"
      /\ neighbors' = [neighbors EXCEPT ![n][l] = IF Fits(@, l) THEN Append(@, Id[i]) ELSE kept[i]]
      /\ Advance(i)
      /\ nbr' = [nbr EXCEPT ![i] = i] /\ kept' = [kept EXCEPT ![i] = <<>>]
      /\ UNCHANGED <<nodes, entryPoint, maxLayer, level, ep, top, walkVars, result, history>>

-----------------------------------------------------------------------------
(* Insert, phase 4.                                                        *)

\* A Node above what was the top layer asks for g.mu.Lock again.
AskPromotion(i) ==
  /\ pc[i] = "promote"
  /\ pc' = [pc EXCEPT ![i] = "promoting"]
  /\ UNCHANGED <<graphVars, ep, layer, top, walkVars, backVars, result, history>>

\* It becomes the entry point unless maxLayer has meanwhile passed it.
StillHighestAsBefore(i) == level[i] > top[i]
StillHighest(i) == level[i] >= maxLayer
Promote(i) ==
  /\ pc[i] = "promoting"
  /\ MayLock
  /\ entryPoint' = IF StillHighest(i) THEN Id[i] ELSE entryPoint
  /\ pc' = [pc EXCEPT ![i] = "done"]
  /\ UNCHANGED <<nodes, maxLayer, level, neighbors, ep, layer, top, walkVars, backVars, result,
                 history>>

-----------------------------------------------------------------------------
\* What a call that has begun does next.
Step(c) ==
  \/ EnterLayer(c) \/ Expand(c) \/ Descend(c)
  \/ /\ c \in Insertion
     /\ \/ Register(c) \/ Link(c) \/ PhaseA(c) \/ PhaseB(c)
        \/ AskPromotion(c) \/ Promote(c)
  \/ c \in Query /\ Answer(c)

Next ==
  \/ \E i \in Insertion : CallInsert(i)
  \/ \E q \in Query : CallSearch(q)
  \/ \E c \in Call : Step(c)

Spec == Init /\ [][Next]_vars

\* As long as some call can go on, one does: the Go scheduler stops for nobody.
\* Which one is not assumed.
Fairness == WF_vars(\E c \in Call : Step(c))

FairSpec == Spec /\ Fairness

-----------------------------------------------------------------------------
CallState == {"new", "registering", "layer", "walk", "back", "wire", "promote", "promoting",
              "done"}

\* Every variable holds values of the kind the code's fields and locals hold.
TypeOK ==
  /\ DOMAIN nodes \subseteq Ids /\ (\A id \in DOMAIN nodes : nodes[id] \in Insertion)
  /\ entryPoint \in Ids \cup {NoId} /\ maxLayer \in Layer
  /\ level \in [Insertion -> Layer]
  /\ neighbors \in [Insertion -> [Layer -> Seq(Ids)]]
  /\ pc \in [Call -> CallState]
  /\ ep \in [Call -> Ids \cup {NoId}]
  /\ layer \in [Call -> Layer] /\ top \in [Insertion -> Layer]
  /\ visited \in [Call -> SUBSET Insertion] /\ frontier \in [Call -> SUBSET Insertion]
  /\ found \in [Call -> SUBSET Insertion]
  /\ todo \in [Insertion -> Seq(Ids)] /\ kept \in [Insertion -> Seq(Ids)]
  /\ nbr \in [Insertion -> Insertion]
  /\ result \in [Query -> Seq(Ids)]
  /\ stored \in [Query -> SUBSET Ids] /\ bare \in [Query -> BOOLEAN]
  /\ overlapped \in BOOLEAN

\* The entry point is the way in for everyone: its Node is finished ("any
\* search entering via the entry point immediately finds a well-connected
\* node", hnsw.go:343-344), and it lies on the top layer unless a Node that
\* raised maxLayer is still being wired and will take its place.  Insertions
\* may overlap; ids are not repeated.
EntryPointSound ==
  entryPoint # NoId =>
    /\ pc[nodes[entryPoint]] = "done"
    /\ \/ level[nodes[entryPoint]] = maxLayer
       \/ \E i \in Wiring : level[i] = maxLayer /\ level[i] > top[i]

\* No list outgrows its limit, though it is pruned with a copy taken earlier.
DegreeBounded ==
  \A i \in Insertion, l \in Layer : Len(neighbors[i][l]) <= MaxLinks(l)

\* As long as insertions follow one another, as they do under the Applier, a
\* link on a layer leads to a Node of that layer, whatever was inserted above
\* the top before.
LinksStayOnLayer ==
  ~overlapped =>
    \A i \in Insertion, l \in Layer : \A id \in Range(neighbors[i][l]) :
      level[nodes[id]] >= l

\* A search returns the best of all that was stored when it began: nothing
\* returned is worse than something stored and left out.
Exact(q) ==
  \A id \in stored[q] \ Range(result[q]) :
    /\ Len(result[q]) = TopK
    /\ \A r \in Range(result[q]) :
         Similarity[<<q, nodes[r]>>] >= Similarity[<<q, nodes[id]>>]

\* Searching while the graph grows: insertions follow one another, no list
\* is full and Ef covers the graph.  A search is exact, although links are made
\* one by one while it walks, unless it comes down to layer 0 at a Node that is
\* being inserted and has no links there yet.
SearchExact ==
  \A q \in Query : pc[q] = "done" /\ ~overlapped /\ ~bare[q] => Exact(q)

\* No call waits for ever: readers and writers of g.mu do not block each other
\* in a circle, and every walk ends.
CallsEnd ==
  []<>(\A c \in Call : pc[c] \in {"new", "done"})
=============================================================================
