# A TLA+ model of Vector_Store

Vector_Store is a replicated vector database: every node holds a complete HNSW
graph of the stored vectors, inserts go through a Raft log, searches are
answered locally. This directory holds a model of the part that keeps the nodes
in agreement, of the way an insert takes to the leader and through a node, of
the graph it ends up in and of the hash ring, the TLC runs that check the models
on small instances, and theorems about them checked by TLAPS.

## The system

| Part | State | Operations | Interacts with |
|---|---|---|---|
| Raft node, `internal/consensus/raft.go` | term, vote, log, commitIndex, lastApplied; role, leader; nextIndex, matchIndex; a snapshot file | election timeout, RequestVote, AppendEntries and the handling of their replies, Start, commitApplyLoop, Shutdown, Make | its peers by RPC; the applier by `applyCh` |
| Applier and CommitNotifier, `internal/consensus/applier.go` | map from log index to the channel of a waiting call | Run, Register, Notify | the HNSW graph (Insert); the handlers |
| gRPC server, `internal/network/grpc_server.go` | cached peer clients | Insert (route, propose, wait), Search | ring, Raft, notifier, graph, other nodes |
| HNSW graph, `internal/vectorindex/` | nodes, layers, neighbour lists, entry point; one RW lock for the graph, one per node | Insert, addBackConnection, Search | applier and Search handlers concurrently |
| Hash ring, `internal/sharding/hashring.go` | sorted points, point to node | AddNode, RemoveNode, GetResponsibleNode | Insert routing |
| Process, `cmd/server/main.go` | - | start-up, graceful shutdown | all of the above |
| Benchmarker, plots, generated gRPC code, deployment | none of the protocol | - | clients |

What is hard, and what makes each part correct:

* **Raft.** Elections overlap, RPCs are lost, delayed and reordered, several
  AppendEntries goroutines to one peer overtake each other, replies reach a
  node that has meanwhile changed role, term or process. State is written to
  disk only by a graceful shutdown. Correct means: one vote per node and one
  leader per term, leaders hold what is committed, logs agree where they
  overlap, acknowledgements are true, log repair ends, nothing committed is
  ever taken back.
* **Insert path.** Four kinds of goroutines share a log that may be truncated
  under them. Correct means: the graph is the committed log in order; no
  success before the commit; whatever is committed is applied; a waiting call
  is answered, and for its own entry.
* **HNSW.** Inserts and searches interleave between lock sections, and a new
  node is in the map long before it is wired. Correct means: degree limits,
  links that stay on their layer, an entry point that is wired and on top, a
  search that misses nothing stored before it began, no deadlock between graph
  and node locks.
* **Routing.** Every node has its own, perhaps old, idea of who leads, and a
  connection may break while the handlers behind it run on. Correct means: at
  most two forwards, proposed at most once, true answers, no circle of waiting
  handlers, and service while the leader is known.
* **Hash ring.** Points of different nodes may coincide. Correct means: every key
  has the owner that consistent hashing says, and a node that joins or leaves
  moves only its own keys.

`PROJECT.json` lists the hazards line by line.

## Modules

| Module | What it is |
|---|---|
| `RaftLog` | the calculations of raft.go on logs: up-to-date rule, batches, the append loop, conflict search, backtracking, commit rule |
| `Raft` | the cluster: one action per critical section of raft.go |
| `ReplicatedLog` | what Raft promises: one log that only grows, of which every node knows a growing prefix |
| `MCRaft` | symmetry, and three clusters with a past to start from |
| `InsertPath` | one node from the Insert handler over commitApplyLoop, `applyCh`, Applier and CommitNotifier back to the handler |
| `Routing` | a client's attempt to insert, as a chain of handlers on several nodes |
| `HNSW` | one graph: Insert and Search between their lock sections |
| `MCHNSW` | vectors as points on a line, and an order of the calls |
| `HashRing` | the ring, for any placement of its points |
| `MCHashRing` | symmetry of the nodes |
| `RaftProofs`, `LogOrderProofs`, `MatchingProofs`, `CommitProofs`, `InsertPathProofs`, `RoutingProofs`, `HNSWProofs`, `HashRingProofs` | lemmas and theorems; the four about `Raft` extend one another in this order |

The modules meet at narrow interfaces, and each takes from its neighbour only
what that one promises. `InsertPath` sees of the cluster what `Raft` allows it to
do to one log. `Routing` sees of Raft who won each term and whom each node has
heard of, of the ring one owner per id (`HashRing`), and of the wait for a
commit that it succeeds or times out (`InsertPath`). `HNSW` is called by one
Applier, one insertion at a time, and by any number of searches.

### From raft.go to Raft

A section of `rf.mu` is one action. A goroutine that releases the lock for an
RPC is the RPC in flight: the request in `voteReqs` or `appReqs` carries what
the goroutine captured, the reply in `voteReps` or `appReps` echoes what it
still uses when it takes the lock again (`election`, `round` is its captured
term, `prevIdx` and `sent` the entries it sent, `boot` the process it lives
in: a reply for a process that has ended is never handled). Calls in flight are
a set: of two calls to one peer with the same contents at the same time it keeps
one. The leader may send the same call again once the first was handled, so a peer
may still get it twice.

| raft.go | Raft |
|---|---|
| electionTicker, startElection | `ElectionTimeout` |
| RequestVote; sendRequestVote after the call | `RequestVote`; `ReceiveVote` |
| Start | `Start` |
| replicateToPeer before and after the call | `ReplicateToPeer`; `ReceiveAppend`, `CallFails` |
| AppendEntries | `AppendEntries` |
| becomeLeader, stepDown, advanceCommitIndex | `BecomeLeader`, `StepDown`, `AdvanceCommit`, inside the actions that call them |
| Shutdown with persistLocked; Make; loadState | `Shutdown`; `Make`; `Restored` |

Log positions count from 1 in the model and from 0 in the code, so the code's -1
is 0 here. Timeouts are real time in the code and may happen at any moment here;
`heartbeatTime` and the rate of heartbeats are therefore not state. RequestVote calls are lost by
staying in flight; AppendEntries calls fail explicitly because their number is
bounded. `ballots`, `leaders` and `heard` are history variables. The code's
int32 conversions of terms and indexes are not modelled: a log of two billion
entries does not fit the memory of a node.

`Faults` says what the environment may do beyond losing, delaying and
reordering RPCs. Without them the code keeps its promises; with them it does
not, and the runs below show it:

* `"crash"`: a process ends without Shutdown.
* `"writeError"`: the snapshot cannot be written, the old file stays. A node that
  is started without a file for it (`--data-dir` is empty by default) is one whose
  snapshots are never written: it always starts from `FreshState`.
* `"readError"`: the file cannot be read or decoded, and the node starts afresh as
  if there were none.
* `"lateVote"`: a RequestVote reaches a node after an AppendEntries of the same
  term. Nothing in the code prevents it. The guard is there so that everything
  else can be checked for what it is; it is an assumption, not a fact.

### From the handler to InsertPath

| Code | InsertPath |
|---|---|
| Insert up to Start; `Register`; the `select` | `Insert`; `Register`; `Answer`, `GiveUp` |
| commitApplyLoop: under the lock; sending; under the lock again | `Collect`; `Send`; `FinishBatch` |
| Applier.Run: receive and insert; Notify | `Apply`; `NotifyApplied` |
| the rest of the cluster | `BecomeLeader`, `StepDown`, `AppendEntries`, `AdvanceCommitIndex` |
| gracefulShutdown and the next start | `Restart` |

The cluster is represented by what module Raft allows it to do to one node's
log: append, replace uncommitted entries (unless `Churn` is FALSE), commit. The
graph is what was applied (`applied`), its no-ops left out. `Unencodable` are the calls
whose vector `json.Marshal` refuses; Start ignores that error and appends a nil
command.

### From the handlers to Routing

An attempt is a sequence of handlers: the client called the first, each but the
last waits in forwardInsert for the next. A retry by the client is another
attempt. Handlers of different attempts share nothing but what Raft and the
ring tell them, so one attempt, beginning at any moment, is all of them.

| Code | Routing |
|---|---|
| `GetResponsibleNode` and the first `forwardInsert` | `ForwardToOwner` |
| `Start`; `GetLeaderAddress` and the second `forwardInsert`, or Unavailable | `Propose`; `AskLeader` |
| the three cases of the `select` | `Committed`; `TimeOut` |
| `client.Insert` returning; failing | `ReturnForwarded`; `LoseForwarded` |
| incomingHops; `currentHops+1` | `Arrives`; `HopsOn` |
| leaderId of each node, under elections and late AppendEntries calls | `BecomeLeader`, `HearLeader`, `LoseLeader` |
| a client; a process that ends or a request that never arrives | `Call`, `Receive`, `GiveUp`; `Vanish` |

`Start` and `GetLeaderAddress` take `rf.mu` separately, so leadership may change
between them. getPeerClient only caches connections: a dial that fails is a
`LoseForwarded`. `calm` is a history variable: everyone has agreed on the leader
since the attempt began.

### From hnsw.go to HNSW

A section under `g.mu` or a node's `mu` is one action. searchLayer holds
`g.mu.RLock` throughout but reads the neighbour lists one by one under node
locks, while addBackConnection changes them under node locks alone; so a walk
takes one step per list. What a call holds or waits for is read off `pc`
(`Reading`, `LockWanted`), and as in Go a waiting writer keeps new readers out.

| hnsw.go | HNSW |
|---|---|
| Insert, phase 1: waiting for the lock; under it | `CallInsert`; `Register` |
| phase 2, and Search's loop over the upper layers | `EnterLayer`, `Expand`, `Descend` |
| phase 3: searchLayer; the new node's own list | `EnterLayer`, `Expand`; `Link` |
| addBackConnection: phase A; phase B | `PhaseA`; `PhaseB` |
| phase 4: waiting for the lock; under it | `AskPromotion`; `Promote` |
| Search: entry state; layer 0; the result | `CallSearch`; `EnterLayer`, `Expand`; `Answer` |

An insertion stands for the `Node` it creates and for its vector. `Similarity` is
a constant: the module says nothing about what CosineSimilarity returns except
that two results can be compared, which leaves out NaN. Among equally similar nodes the heaps keep
whichever they like; one that a later neighbour of the same list pushes out of
the result may stay among those to expand, where it matters only on a tie
(`StillTied`). The end of a walk and what follows it at once are one step:
Insert sets the new node's list under the node's own lock (hnsw.go:319) right after
the walk's RUnlock, and only searches and other insertions could come between. `nodes` maps ids to Nodes, so inserting an id again replaces
the Node while lists elsewhere still name the id. `stored`, `bare` and
`overlapped` are history variables.

### From hashring.go to HashRing

Every method holds the ring's lock, so AddNode and RemoveNode are one action
each and GetResponsibleNode and Nodes are operators on the state. `sort.Slice` is
what it leaves behind, the same points in ascending order (`Ascending`: the r-th is
the least that r of them do not exceed); RemoveNode's loop over the list is
`Filtered`. `sort.Search` is a bisection, written as a recursive function. CRC-32
is any function from the virtual points to the circle, chosen in `Init`. `removed` is
a history variable: a node was removed from a ring that had points.

## Runs

| Run | Checks | Bounds |
|---|---|---|
| `raft_trio` | `ElectionSafety`, `LeaderCompleteness`, `ReplicatedLogSpec` | 3 nodes, 2 elections, logs to 3 entries, one AppendEntries call per leader |
| `raft_pair` | `TypeOK`, `OneVotePerTerm`, `SentCoversCommit`, `ReplicatedLogSpec` | 2 nodes, 2 elections, logs to 4 entries, two calls in flight, one restart |
| `raft_repair` | `LogMatching`, `AckedTrue`, `AckedOwnTerm`, `RepairMakesProgress`, `TermsOrdered`, `PrevEntryKnown` | 3 nodes with logs of two terms, diverged or with an old reply in flight, a third election, two calls in flight |
| `raft_solo` | `SoloCommits`, `TermsOrdered` | 1 node, 4 elections, 4 restarts or kills, snapshots that cannot be written or read |
| `insert_path` | `TypeOK`, `AppliedIsCommitted`, `AcknowledgedIsCommitted`, `CommittedIsApplied`, `RegisteredIsAnswered` | 2 calls (one unencodable), capacity 1, 3 entries, 2 terms of leadership, 1 restart |
| `routing` | `TypeOK`, `TwoForwards`, `ProposedOnce`, `AnswersTrue`, `CalmIsServed`, `AttemptsEnd` | 3 nodes, 1 attempt, 2 elections, 4 further changes of a node's view |
| `hnsw` | `TypeOK`, `EntryPointSound`, `LinksStayOnLayer`, `SearchExact`, `CallsEnd` | 3 insertions, 2 at a time, layers 0 to 2, 1 search, M = 2 |
| `hash_ring` | `TypeOK`, `LookupIsNearest`, `NodesAreMembers`, `OnlyOwnKeysMove` | 3 nodes with 2 points each on a circle of 4, at most 6 points |
| `raft_late_vote` | violates `ElectionSafety` | 3 nodes after a rolling restart, 2 further elections |
| `raft_crash` | violates `LeaderCompleteness` | 3 nodes, one crash |
| `insert_missed` | violates `WaiterNotForgotten` | 1 call |
| `insert_stolen` | violates `AcknowledgedIsOwn` | 1 call |

Why the bounds suffice for what they are meant to show: two elections with three
nodes give two candidates of one term and a leader after a leader, with an entry
of the first term that the second does not know. One restart meets every other
action, since it may happen anywhere. A rejection for a conflicting entry needs
two leaders that both appended and a third election, which from `Init` is too
long a way for TLC: `raft_repair` starts from `DivergedInit`, a state the cluster
reaches by two elections and a rolling restart, and then meets shorter logs,
conflicting ones and calls that overtake each other; or from `ReturnInit`, where a
node may lead again before a reply of its first leadership arrives (raft.go:725).
`AckedOwnTerm` needs no more than that to fail when the reply is taken for a new one;
that what it says is false as well takes five nodes and another leader that has
replaced the entry in the meantime, and is left to the theorem. `raft_late_vote` starts from
`RestartedInit` for the same reason. No run shows an old entry that comes back
after three changes of leader; that it does no harm is `LeadersComplete`. A capacity
of one makes `applyCh` full as often as it can be.

In `routing` three nodes are the client's, the owner and the leader of a full
chain; two elections and four changes of view let the leader move while it is
chased. In `hnsw` three insertions give a first node, and two above the top
layer at once, which phases 1 and 4 are about; a list is pruned on an upper layer only
if it holds two links already, so what three insertions do not show (pruning)
rests on the theorems. The calls of Insert begin in a fixed order, which loses nothing
but their numbering, and their vectors lie at 0, 6 and 1 on a line with the
query at 4: the second is far from the first, the third near it. In `hash_ring`
a circle of four with up to six points makes points of different nodes, and of
one, coincide in most placements.

Faults beyond `raft_solo`'s are not combined with log repair in a run: the two
properties they could break there, `TermsOrdered` and `PrevEntryKnown`, are
theorems under all faults.

`CHECK_DEADLOCK FALSE` stands in every configuration because the bounds end every
behaviour.

### What the violations mean

* `raft_late_vote`: `stepDown` clears `votedFor` even within the same term, and
  AppendEntries calls it for every call. A node that voted for the winner, and
  has heard of it, votes again when the loser's RequestVote arrives late. If its
  log is behind that of both, as after a restart, both win the term.
* `raft_crash`: durability of acknowledged entries and votes rests on the
  snapshot of a graceful shutdown. The comment that cluster replication makes up
  for a hard crash holds only while a leader with all committed entries survives.
* `insert_missed`: Register comes after Start. A cluster of one node commits
  inside Start, so there the race is with the applier alone.
* `insert_stolen`: the notifier knows an index and nothing else; success is
  reported for an insert that was replaced. With `Unencodable` the same property
  fails without any change of leader.

### Seen while modelling

Behaviours of the code that the modules contain, that contradict a comment or an
expectation, and that no run is devoted to:

* A node inserted again under its id (a retry after a timeout, or an update)
  starts without links, and the Node it replaces is gone from the map. If it was
  the entry point, phase 3 finds nothing but the new Node itself, which links to
  itself, and everything stored before is out of reach for good. Drawn at a
  lower level, it leaves an entry point below `maxLayer`.
* A search that reaches layer 0 at a node that is just being wired may answer
  with little more than that node (`bare` in `SearchExact`). hnsw.go:224 says
  that searches cannot route through it yet.
* When insertions overlap, another one may link a new node before phase 3 sets
  its list; that link is overwritten. The comment at hnsw.go:309-313 excludes
  it. The Applier inserts one at a time; the repository's tests do not.
* Pruning may leave a node to which no list points any more.
* grpc_server.go:124-126 counts one forward along the ring and one to the leader.
  A client that calls the owner directly leaves both hops to leader forwards,
  which a moving leader can use up.
* Unavailable does not mean that nothing was proposed: a connection that breaks
  after the leader took the request ends in the same code as "no Raft leader
  available". `AnswersTrue` is about the latter.
* RemoveNode deletes a point that two nodes share from the map and from the list,
  although one of them stays; sharing all of them, that one is no longer found, and
  the ring is empty. CRC-32 of a few hundred labels seldom collides, and nothing in the
  server removes nodes. `LookupIsNearest` therefore claims nothing of points that are
  shared once a node was removed.
* The test for the current term in advanceCommitIndex (raft.go:776) turns nothing
  away. A call sends everything to the end of the leader's log, so an
  acknowledgement ends at or after the leader's own no-op (`AckedOwnTerm`). The test becomes
  necessary as soon as batches are limited; `ReplicatedLogSpec` is proved with it.
* A file that cannot be decoded is ignored and "the node starts fresh and re-syncs
  from the leader" (raft.go:334): like a crash, it forgets votes and acknowledged entries.

## Fairness

The safety runs assume none. `insert_path` assumes weak fairness of the
goroutines of one node: commitApplyLoop's three steps, the applier's two, a
handler's Register and its reading of a closed channel. Each is an unconditional
step of a goroutine the Go scheduler keeps running; `Send` stays enabled once
there is room, as commitApplyLoop is the only sender. Nothing is assumed of
clients, deadlines, elections or commits. Liveness of elections is not stated:
it depends on the durations of timeouts.

`routing` assumes that each attempt's handlers run on, that the handler's timer
fires, that an answer reaches a waiting client, and that a call to a process
that has ended fails, since its connection is closed with it. No commit, no
stable leader and no deadline of the client is assumed: `AttemptsEnd` follows
from commitTimeout and the hop count.

`hnsw` assumes only that the calls together do not stop while one of them can go
on. `CallsEnd` therefore fails as soon as some calls block each other in a circle, but
does not ask that a particular call is preferred.

## Proofs

All theorems hold for every cluster, every number of calls, every bound.

* `TypeCorrect` (`RaftProofs`): `Spec => []TypeOK`. The lemmas before it give the
  type and the bounds of each calculation, and that two majorities meet.
* `VoteOnce` and `OneLeaderPerTerm` (`RaftProofs`), from `Faults = {}`.
  `OneVotePerTerm` is not inductive. The invariant adds that `currentTerm` covers
  every vote given and `votedFor` records it *unless the node has heard of a
  leader of that term* (where the code forgets the vote), that replies and
  counted votes were really given, that behind every election won there is a
  majority of votes, and that a stopped node left exactly its state on disk.
* `SoloAlwaysCommits` (`RaftProofs`), under all faults. Nobody answers a cluster of
  one, so the invariant is that no message is ever in flight there, and that
  neither commitIndex nor the one on disk passes the end of its log; what is left
  to show is that becomeLeader and Start, which append, count the node itself.
* `TermsAreOrdered`, `PrevEntryAlwaysKnown` and `AcknowledgedInOwnTerm`
  (`LogOrderProofs`), under all faults. The first needs that terms are ordered in every batch in flight, in
  every snapshot on disk and from a batch's previous entry on, and that no entry
  is newer than its holder's term. The second needs that matchIndex and
  what an acknowledgement will make of it never pass the end of the log of a
  node that leads, although replies of an earlier leadership, or process, arrive late.
  The third adds where an acknowledgement ends: a leader's log ends with an entry of
  its own term, a call took everything to the end of it, and the position called for
  is in the log still, as a leader only appends while it leads.
* `LogsMatch` and `AcknowledgementsTrue` (`MatchingProofs`), from `Faults = {}`. A
  batch in flight and a whole log are both *pieces* of a log, and the invariant is
  about pieces: any two of them match; every term in one was won by a leader on
  record; and nothing of a leader's term lies past the end of the leader's log, so
  that what it appends is new. A splice of two matching pieces matches whatever
  both match, which is the consistency check and the append loop at once. For
  the acknowledgements: a call says what its leader's log says; who replied with
  success holds what it was sent until it leaves that term; and `matchIndex` is the
  larger of things that are true.
* `AnnouncedIsSent`, `LeadersComplete` and `ClusterIsReplicatedLog`
  (`CommitProofs`), from `Faults = {}`. This is the argument of consensus by
  ballots, with terms for ballots, over pieces. A piece is *beyond* an entry of term
  v at position k if it knows of a later one, and *fits* it if it can be of a log that has
  it; (k, v) is `Decided` if whatever is beyond it fits it and a
  majority keeps it: holds it, and has promised no vote to a candidate without
  it. Decided stays decided, since a winner needs a vote of that majority. The
  invariant that leads there is about the positions of a leader's own
  term (`LeadersSafe`): each is either given up, because a majority has left the
  term without acknowledging it, or whatever is beyond it fits it and all who
  acknowledged it keep it. So what advanceCommitIndex counts a majority for is
  decided. What a node has committed, and what a call announces, is decided;
  committed prefixes are therefore comparable and stay, and every step is
  `Learn` of the node whose commitIndex moves. On the way: a term begins at one
  position in all logs (`PiecesOneRun`), and what a candidate says of its log
  stays true while it stands.
* `RepairAlwaysProgresses` (`CommitProofs`), from `Faults = {}`. A rejection may
  be handled long after it was sent, when the leader has appended more. The
  invariant (`RejectsTrue`) says what it reports of the leader's log all the same:
  the conflicting term is not the leader's own, and has ended in the leader's log
  before the position asked about. So whatever the leader looks up then, it goes
  back to an earlier position than the one that was rejected.
* `GraphFollowsLog`, `NoEarlySuccess` and `InsertTypeCorrect`
  (`InsertPathProofs`). The invariant `Flow` says that what is applied, what is
  in `applyCh` and what is left of the batch are, one after the other, the log up
  to `batchEnd`, which is committed; `Waiters` that a call is registered at its
  own position and its channel is closed only after that position was applied.
* `AtMostTwoForwards`, `AlwaysProposedOnce`, `AnswersAlwaysTrue`,
  `CalmAlwaysServed`, `RoutingTypeCorrect` (`RoutingProofs`). The invariant says,
  of each attempt's chain, that the k-th handler has counted k - 1 hops, that all
  handlers but the last have forwarded, that an answer in it is
  backed by the handlers behind, that only the last can have proposed and did so at most once; and, for
  a calm attempt, that everyone still agrees on the leader and that a second
  forward went to it.
* `GraphTypeCorrect`, `DegreeAlwaysBounded`, `EntryPointAlwaysSound`,
  `LinksAlwaysOnLayer` (`HNSWProofs`), for any number of insertions and searches at once, any
  M and any similarity. The type needs that every list and local of a call names
  only ids in the map, that a walk has always found something, that the list of
  neighbours to wire is never used up too early, and that what a prune keeps
  fits. For the entry point: no level is above `maxLayer`. For the layers: while
  insertions follow one another, all links are on their layer, and so is
  everything the insertion that runs works with: its entry point, what its walk
  has found, what it is about to write. The last two assume
  distinct ids, without which they do not hold.
* `SmallGraphsExact` (`HNSWProofs`), for distinct ids and graphs small enough for
  their parameters (`SmallGraph`): at most one insertion more than a list of
  layer 0 holds, and no more than `EfConstruction` and `Ef`. In larger graphs HNSW is
  approximate, and the property is not claimed. Of layer 0, while insertions
  follow one another, the invariant (`Mesh`) says that all finished Nodes link to
  each other; that the one being inserted links to them, and they to it or it has
  yet to wire them back; that before it sets its own list nothing links from or to
  it; and that no list repeats an id, so that none is ever full. A walk of layer 0
  then either stands at its first Node, from where one list leads to everything, or
  has found everything. A search that comes down at a Node without links is the
  case that the property leaves out.
* `RingTypes`, `RingListsMembers`, `RingFindsNearest`, `RingMovesOwnKeys`
  (`HashRingProofs`), for any nodes, points and circle. The invariant (`RingInv`)
  says that the list is in ascending order, that the map has exactly the points in
  it, that each point's owner is a member with a virtual node there, and that all
  members' points are there unless nodes share points and one was removed. That the
  bisection finds the first point at or after a key is not an induction over the
  code's loop: a function with the recursion's equation exists, from a closed
  form, and any such function agrees with it, since a shortest interval on which it
  did not would be halved.

Only model-checked: liveness (`CommittedIsApplied`, `RegisteredIsAnswered`,
`AttemptsEnd`, `CallsEnd`), which is out of the prover's reach together with ENABLED,
induction over data and RECURSIVE operators (none is used). Every other property of
a passing run is also a theorem. That `Faults = {}` is needed above is what the runs
`raft_late_vote` and `raft_crash` show.

## Not modelled, and the plan

Every part of the server that keeps state is modelled. What could still be
added, in this order:

1. In `Raft`: the window between the snapshot and the end of the process; in
   `HNSW`: a property of graphs with repeated ids, once the code promises one.
2. Larger graphs, in which upper lists are pruned while others walk them.

Left out for good: similarity arithmetic, random levels (any level is possible),
dialling and caching connections, logging, configuration, profiling, the
benchmarker and the plots, generated code. They hold no state that another part
depends on.
