------------------------------ MODULE Routing -------------------------------
(***************************************************************************)
(* internal/network/grpc_server.go: how an Insert finds the Raft leader.   *)
(*                                                                         *)
(* An attempt of a client to insert a vector is a chain of handlers, of    *)
(* which every one but the last waits for the RPC it forwarded.  The       *)
(* connection below a handler may break, or a deadline pass, at any        *)
(* moment, while the handlers further down run on.  A retry is another     *)
(* attempt.                                                                *)
(*                                                                         *)
(* What surrounds the handlers is here only by what it promises: Raft by   *)
(* its elections and the leader each node has heard of (GetLeaderAddress), *)
(* the hash ring by naming a node (module HashRing), and the wait for the  *)
(* commit by how it may end (module InsertPath).                           *)
(*                                                                         *)
(* As in RaftLog, the variant above an operator is named for what is wrong *)
(* with it and is used by nothing.                                         *)
(***************************************************************************)
EXTENDS Integers, Sequences, FiniteSets

CONSTANTS
  Node,          \* the addresses of the cluster
  Nil,           \* "": no known leader
  Attempt,       \* the calls of Insert that clients make
  MaxElections,  \* bound: elections won
  MaxChanges     \* bound: how often nodes learn of or lose sight of a leader

ASSUME RoutingAssumption ==
  /\ IsFiniteSet(Node) /\ Node # {} /\ Nil \notin Node
  /\ {MaxElections, MaxChanges} \subseteq Nat

maxHops == 2

VARIABLES
  owner,        \* per attempt: whom the hash rings, built of equal lists, name
  elected,      \* who won each election, in the order of their terms
  term,         \* the last election each node knows of
  leader,       \* per node: the leader it knows of; itself if it leads
  changes,
  chain,        \* per attempt: its handlers, from the client's end
  answer        \* per attempt: what the client was told, or "none"

\* History.
VARIABLES
  proposed,     \* per attempt: how often Start took its command
  calm          \* per attempt: since it began everyone has known the leader

raftVars == <<elected, term, leader, changes>>
vars == <<owner, raftVars, chain, answer, proposed, calm>>

Handler == [node : Node, hops : 0..maxHops,
            state : {"routing", "asking", "forwarding", "waiting", "returned", "gone"},
            answer : {"none", "ok", "noLeader", "deadline", "lost"}]

Arrives(n, hops) == [node |-> n, hops |-> hops, state |-> "routing", answer |-> "none"]

Init ==
  /\ owner \in [Attempt -> Node]
  /\ elected = <<>>
  /\ term = [n \in Node |-> 0] /\ leader = [n \in Node |-> Nil]
  /\ changes = 0
  /\ chain = [a \in Attempt |-> <<>>]
  /\ answer = [a \in Attempt |-> "none"]
  /\ proposed = [a \in Attempt |-> 0]
  /\ calm = [a \in Attempt |-> FALSE]

-----------------------------------------------------------------------------
(* Raft, as far as Start and GetLeaderAddress see it: see module Raft.     *)

Settled == \E l \in Node : \A n \in Node : leader[n] = l

\* A node's view of who leads changes.
Learns(n, t, l) ==
  /\ term' = [term EXCEPT ![n] = t]
  /\ leader' = [leader EXCEPT ![n] = l]
  /\ calm' = [a \in Attempt |-> FALSE]
  /\ UNCHANGED <<owner, chain, answer, proposed>>

BecomeLeader(n) ==
  /\ Len(elected) < MaxElections
  /\ elected' = Append(elected, n)
  /\ Learns(n, Len(elected) + 1, n)
  /\ UNCHANGED changes

\* An AppendEntries, late perhaps, of a leader no older than what n knows.
HearLeader(n) ==
  /\ changes < MaxChanges
  /\ changes' = changes + 1
  /\ \E t \in 1..Len(elected) :
       /\ t >= term[n] /\ elected[t] \notin {n, leader[n]}
       /\ Learns(n, t, elected[t])
  /\ UNCHANGED elected

\* n times out, restarts, or hears of a new term without a leader.
LoseLeader(n) ==
  /\ changes < MaxChanges
  /\ changes' = changes + 1
  /\ leader[n] # Nil
  /\ Learns(n, term[n], Nil)
  /\ UNCHANGED elected

-----------------------------------------------------------------------------
(* The client.                                                             *)

\* It calls any node.
Call(a, n) ==
  /\ chain[a] = <<>>
  /\ chain' = [chain EXCEPT ![a] = <<Arrives(n, 0)>>]
  /\ calm' = [calm EXCEPT ![a] = Settled]
  /\ UNCHANGED <<owner, raftVars, answer, proposed>>

Calling(a) == chain[a] # <<>> /\ answer[a] = "none"

Receive(a) ==
  /\ Calling(a) /\ chain[a][1].state = "returned"
  /\ answer' = [answer EXCEPT ![a] = chain[a][1].answer]
  /\ UNCHANGED <<owner, raftVars, chain, proposed, calm>>

\* Its deadline passes or its connection breaks; the handlers may run on.
GiveUp(a) ==
  /\ Calling(a) /\ chain[a][1].state # "returned"
  /\ answer' = [answer EXCEPT ![a] = "lost"]
  /\ UNCHANGED <<owner, raftVars, chain, proposed, calm>>

-----------------------------------------------------------------------------
(* The handler Insert, the k-th of attempt a.                              *)

\* The handlers of attempt a change to c and nothing else does.
Becomes(a, c) ==
  /\ chain' = [chain EXCEPT ![a] = c]
  /\ UNCHANGED <<owner, raftVars, answer, calm>>

In(state, h) == [h EXCEPT !.state = state]
Returns(ans, h) == [h EXCEPT !.state = "returned", !.answer = ans]
With(a, k, h) == [chain[a] EXCEPT ![k] = h]

\* forwardInsert: the request goes on with one more hop in its metadata.
HopsOnUncounted(hops) == hops
HopsOn(hops) == hops + 1
Forward(a, k, n) ==
  Becomes(a, Append(With(a, k, In("forwarding", chain[a][k])),
                    Arrives(n, HopsOn(chain[a][k].hops))))

\* A request that was never forwarded goes to the node the ring names.
GoesToOwner(a, h) == h.hops = 0 /\ owner[a] # h.node

ForwardToOwner(a, k) ==
  LET h == chain[a][k]
  IN  /\ h.state = "routing" /\ GoesToOwner(a, h)
      /\ Forward(a, k, owner[a])
      /\ UNCHANGED proposed

\* Start: a leader appends the command, and the handler waits for the commit.
Propose(a, k) ==
  LET h == chain[a][k]
  IN  /\ h.state = "routing" /\ ~GoesToOwner(a, h)
      /\ IF leader[h.node] = h.node
         THEN /\ Becomes(a, With(a, k, In("waiting", h)))
              /\ proposed' = [proposed EXCEPT ![a] = @ + 1]
         ELSE /\ Becomes(a, With(a, k, In("asking", h)))
              /\ UNCHANGED proposed

\* Not the leader: on to the one it knows of now, if the hops allow.
HopsLeftTooMany(hops) == hops <= maxHops
HopsLeftFewer(hops) == hops < maxHops - 1
HopsLeft(hops) == hops < maxHops
AskLeader(a, k) ==
  LET h == chain[a][k]
  IN  /\ h.state = "asking"
      /\ IF HopsLeft(h.hops) /\ leader[h.node] \notin {Nil, h.node}
         THEN Forward(a, k, leader[h.node])
         ELSE Becomes(a, With(a, k, Returns("noLeader", h)))
      /\ UNCHANGED proposed

\* The notifier's channel is closed.
Committed(a, k) ==
  /\ chain[a][k].state = "waiting"
  /\ Becomes(a, With(a, k, Returns("ok", chain[a][k])))
  /\ UNCHANGED proposed

\* The timer fires, after commitTimeout or at the caller's deadline if that is
\* sooner; or the call is cancelled.
TimerSetNever(h) == FALSE
TimerSet(h) == h.state = "waiting"
TimeOut(a, k) ==
  /\ TimerSet(chain[a][k])
  /\ Becomes(a, With(a, k, Returns("deadline", chain[a][k])))
  /\ UNCHANGED proposed

\* The forwarded call returns.
ReturnForwarded(a, k) ==
  /\ chain[a][k].state = "forwarding"
  /\ chain[a][k + 1].state = "returned"
  /\ Becomes(a, With(a, k, Returns(chain[a][k + 1].answer, chain[a][k])))
  /\ UNCHANGED proposed

\* The forwarded call fails: no connection, a broken one, a deadline.
ForwardFailedGoesOn(h) == [h EXCEPT !.state = "routing", !.hops = 1]
ForwardFailed(h) == Returns("lost", h)
LoseForwarded(a, k) ==
  /\ chain[a][k].state = "forwarding"
  /\ chain[a][k + 1].state # "returned"
  /\ Becomes(a, With(a, k, ForwardFailed(chain[a][k])))
  /\ UNCHANGED proposed

\* The request never reaches the node, or the node stops.
Vanish(a, k) ==
  /\ chain[a][k].state \notin {"returned", "gone"}
  /\ Becomes(a, With(a, k, In("gone", chain[a][k])))
  /\ UNCHANGED proposed

-----------------------------------------------------------------------------
Handle(a, k) ==
  \/ ForwardToOwner(a, k) \/ Propose(a, k) \/ AskLeader(a, k)
  \/ TimeOut(a, k) \/ ReturnForwarded(a, k)

Next ==
  \/ \E n \in Node : BecomeLeader(n) \/ HearLeader(n) \/ LoseLeader(n)
  \/ \E a \in Attempt :
       \/ \E n \in Node : Call(a, n)
       \/ Receive(a) \/ GiveUp(a)
       \/ \E k \in 1..Len(chain[a]) :
            Handle(a, k) \/ Committed(a, k) \/ LoseForwarded(a, k) \/ Vanish(a, k)

Spec == Init /\ [][Next]_vars

\* A handler runs on, its timer fires and its answer arrives.  A call to a
\* process that has ended fails, for its connection is closed with it.  No
\* deadline is assumed of the client, and nothing of Raft.
Broken(a, k) ==
  k < Len(chain[a]) /\ chain[a][k + 1].state = "gone" /\ LoseForwarded(a, k)
Fairness ==
  \A a \in Attempt :
    /\ WF_vars(\E k \in 1..Len(chain[a]) : Handle(a, k) \/ Broken(a, k))
    /\ WF_vars(Receive(a))
    /\ WF_vars(Calling(a) /\ chain[a][1].state = "gone" /\ GiveUp(a))

FairSpec == Spec /\ Fairness

-----------------------------------------------------------------------------
TypeOK ==
  /\ owner \in [Attempt -> Node]
  /\ elected \in Seq(Node)
  /\ term \in [Node -> Nat] /\ leader \in [Node -> Node \cup {Nil}]
  /\ changes \in Nat
  /\ chain \in [Attempt -> Seq(Handler)]
  /\ answer \in [Attempt -> {"none", "ok", "noLeader", "deadline", "lost"}]
  /\ proposed \in [Attempt -> Nat]
  /\ calm \in [Attempt -> BOOLEAN]

\* "two network hops total" (grpc_server.go:126): no attempt reaches a fourth
\* handler, wherever the nodes, each in its own past, believe the leader to be.
\* Only the counter in the metadata ends the chase.
TwoForwards == \A a \in Attempt : Len(chain[a]) <= maxHops + 1

\* An attempt is proposed at most once, however its connections break: a handler
\* whose forwarded call fails never takes the request up itself.
ProposedOnce == \A a \in Attempt : proposed[a] <= 1

\* What the client hears is so: with success or a commit timeout its command was
\* given to Raft, with "no Raft leader available" it was not and will not be, so
\* that a retry is no second insert.  A lost answer says nothing.
AnswersTrue ==
  \A a \in Attempt :
    /\ answer[a] \in {"ok", "deadline"} => proposed[a] > 0
    /\ answer[a] = "noLeader" =>
         /\ proposed[a] = 0
         /\ \A k \in 1..Len(chain[a]) : chain[a][k].state = "returned"

\* "hash -> leader" (grpc_server.go:48): while everyone knows the leader, two
\* forwards reach it from any node, and no client is turned away.
CalmIsServed == \A a \in Attempt : calm[a] => answer[a] # "noLeader"

\* Every attempt is answered without any deadline of the client's: handlers do
\* not wait on each other in a circle and the wait for the commit is bounded.
AttemptsEnd == \A a \in Attempt : chain[a] # <<>> ~> answer[a] # "none"
=============================================================================
