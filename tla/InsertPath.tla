----------------------------- MODULE InsertPath -----------------------------
(***************************************************************************)
(* The way of a client's Insert through one node: the handler of           *)
(* internal/network/grpc_server.go proposes a command and waits, Raft's    *)
(* commitApplyLoop sends what is committed to applyCh, and the Applier of  *)
(* internal/consensus/applier.go inserts it into the HNSW graph and wakes  *)
(* the waiter through the CommitNotifier.                                  *)
(*                                                                         *)
(* What the rest of the cluster does to this node's log is here only as    *)
(* module Raft lets it be: entries are appended, uncommitted ones may be   *)
(* replaced, and the commit position grows.  Positions are counted from 1. *)
(*                                                                         *)
(* As in RaftLog, the variant above an operator is named for what is wrong *)
(* with it and is used by nothing.                                         *)
(***************************************************************************)
EXTENDS Integers, Sequences, FiniteSets, SequencesExt

CONSTANTS
  Call,         \* the Insert RPCs that reach this node
  Unencodable,  \* the calls whose vector json.Marshal rejects (NaN, infinity)
  NoOp,         \* the nil command
  Foreign,      \* a command some other node proposed
  Slots,        \* the capacity of applyCh
  Churn,        \* whether uncommitted entries may be replaced
  MaxLog,       \* bound: the length of the log
  MaxTerms,     \* bound: how often this node is elected
  MaxBoots      \* bound: how often it restarts

ASSUME InsertPathAssumption ==
  /\ Unencodable \subseteq Call
  /\ NoOp \notin Call /\ Foreign \notin Call /\ NoOp # Foreign
  /\ Slots \in Nat \ {0}
  /\ Churn \in BOOLEAN
  /\ {MaxLog, MaxTerms, MaxBoots} \subseteq Nat

VARIABLES
  leading, terms,       \* whether this node leads; how often it was elected
  log, commitIndex,     \* rf.log (the commands), rf.commitIndex
  lastApplied,          \* rf.lastApplied
  batch, batchEnd,      \* commitApplyLoop: what it has still to send; its end
  applyCh,              \* the channel from commitApplyLoop to the Applier
  applied,              \* what the Applier has handled, in order: the graph
                        \*   is what was inserted for those with a command
  pending,              \* the position it is about to Notify, or 0
  chs,                  \* notifier.chs: position -> the call that registered
  closed,               \* the calls whose channel is closed
  handler, logIdx,      \* how far each call's handler is; its position
  boots

raftVars    == <<leading, terms, log, commitIndex>>
loopVars    == <<lastApplied, batch, batchEnd>>
applierVars == <<applied, pending>>
waitVars    == <<chs, closed>>
callVars    == <<handler, logIdx>>
vars == <<raftVars, loopVars, applyCh, applierVars, waitVars, callVars, boots>>

Cmd   == Call \cup {NoOp, Foreign}
Msg   == [index : Nat, cmd : Cmd]

Init ==
  /\ leading = FALSE /\ terms = 0
  /\ log = <<>> /\ commitIndex = 0
  /\ lastApplied = 0 /\ batch = <<>> /\ batchEnd = 0
  /\ applyCh = <<>>
  /\ applied = <<>> /\ pending = 0
  /\ chs = <<>> /\ closed = {}
  /\ handler = [c \in Call |-> "new"] /\ logIdx = [c \in Call |-> 0]
  /\ boots = 0

-----------------------------------------------------------------------------
(* The Insert handler.                                                     *)

\* What Start appends for call c: an encoding error leaves the command nil.
Encode(c) == IF c \in Unencodable THEN NoOp ELSE c

\* Start: propose, or send the client away (to the leader, or Unavailable).
Insert(c) ==
  /\ handler[c] = "new"
  /\ \/ /\ leading /\ Len(log) < MaxLog
        /\ log' = Append(log, Encode(c))
        /\ logIdx' = [logIdx EXCEPT ![c] = Len(log) + 1]
        /\ handler' = [handler EXCEPT ![c] = "proposed"]
     \/ /\ ~leading
        /\ handler' = [handler EXCEPT ![c] = "refused"]
        /\ UNCHANGED <<log, logIdx>>
  /\ UNCHANGED <<leading, terms, commitIndex, loopVars, applyCh, applierVars, waitVars, boots>>

\* Register: a fresh channel, in place of any other at this position.
Register(c) ==
  /\ handler[c] = "proposed"
  /\ handler' = [handler EXCEPT ![c] = "waiting"]
  /\ chs' = [k \in DOMAIN chs \cup {logIdx[c]} |-> IF k = logIdx[c] THEN c ELSE chs[k]]
  /\ UNCHANGED <<raftVars, loopVars, applyCh, applierVars, closed, logIdx, boots>>

\* The select of the handler: the channel, or the deadline or cancellation.
Answer(c) ==
  /\ handler[c] = "waiting" /\ c \in closed
  /\ handler' = [handler EXCEPT ![c] = "acknowledged"]
  /\ UNCHANGED <<raftVars, loopVars, applyCh, applierVars, waitVars, logIdx, boots>>

GiveUp(c) ==
  /\ handler[c] = "waiting"
  /\ handler' = [handler EXCEPT ![c] = "failed"]
  /\ UNCHANGED <<raftVars, loopVars, applyCh, applierVars, waitVars, logIdx, boots>>

-----------------------------------------------------------------------------
(* commitApplyLoop.                                                        *)

\* The messages of the log from position first to last.
MessagesOneShort(first, last) ==
  [i \in 1..(last - first) |-> [index |-> first + i - 1, cmd |-> log[first + i - 1]]]
Messages(first, last) ==
  [i \in 1..(last - first + 1) |-> [index |-> first + i - 1, cmd |-> log[first + i - 1]]]

\* Something is committed that was not sent: copy it, holding rf.mu.
MoreCommittedLate(c, a) == c > a + 1
MoreCommitted(c, a) == c > a
Collect ==
  /\ batchEnd = lastApplied
  /\ MoreCommitted(commitIndex, lastApplied)
  /\ batchEnd' = commitIndex
  /\ batch' = Messages(lastApplied + 1, commitIndex)
  /\ UNCHANGED <<raftVars, lastApplied, applyCh, applierVars, waitVars, callVars, boots>>

\* Send one message without rf.mu, when the channel has room.
Send ==
  /\ batch # <<>>
  /\ Len(applyCh) < Slots
  /\ applyCh' = Append(applyCh, Head(batch))
  /\ batch' = Tail(batch)
  /\ UNCHANGED <<raftVars, lastApplied, batchEnd, applierVars, waitVars, callVars, boots>>

\* The whole batch is sent.
FinishBatch ==
  /\ batch = <<>> /\ batchEnd > lastApplied
  /\ lastApplied' = batchEnd
  /\ UNCHANGED <<raftVars, batch, batchEnd, applyCh, applierVars, waitVars, callVars, boots>>

-----------------------------------------------------------------------------
(* Applier.Run.                                                            *)

\* Notify(k): the channel registered at k, if any, is taken out and closed.
WaiterOrNil(k) == {IF k \in DOMAIN chs THEN chs[k] ELSE 0}
Waiter(k) == {chs[j] : j \in DOMAIN chs \cap {k}}
NotifyNext(k) ==
  /\ closed' = closed \cup Waiter(k + 1)
  /\ chs' = [j \in DOMAIN chs \ {k + 1} |-> chs[j]]
NotifyWithoutClose(k) ==
  /\ chs' = [j \in DOMAIN chs \ {k} |-> chs[j]]
  /\ UNCHANGED closed
Notify(k) ==
  /\ closed' = closed \cup Waiter(k)
  /\ chs' = [j \in DOMAIN chs \ {k} |-> chs[j]]

\* Take a message; insert its command, if it has one, into the graph.
Apply ==
  /\ pending = 0 /\ applyCh # <<>>
  /\ applied' = Append(applied, Head(applyCh))
  /\ pending' = Head(applyCh).index
  /\ applyCh' = Tail(applyCh)
  /\ UNCHANGED <<raftVars, loopVars, waitVars, callVars, boots>>

NotifyApplied ==
  /\ pending # 0
  /\ Notify(pending)
  /\ pending' = 0
  /\ UNCHANGED <<raftVars, loopVars, applyCh, applied, callVars, boots>>

-----------------------------------------------------------------------------
(* The rest of the cluster, see module Raft.                               *)

\* This node wins an election and appends a no-op.
BecomeLeader ==
  /\ ~leading
  /\ terms < MaxTerms /\ Len(log) < MaxLog
  /\ leading' = TRUE /\ terms' = terms + 1
  /\ log' = Append(log, NoOp)
  /\ UNCHANGED <<commitIndex, loopVars, applyCh, applierVars, waitVars, callVars, boots>>

StepDown ==
  /\ leading
  /\ leading' = FALSE
  /\ UNCHANGED <<terms, log, commitIndex, loopVars, applyCh, applierVars, waitVars, callVars,
                 boots>>

\* Another leader's AppendEntries: an entry at the end of the log, or in
\* place of an uncommitted one and all that follow it: another node's command,
\* its no-op, or an entry that this node proposed and lost before.
AppendEntries ==
  /\ ~leading
  /\ \E k \in (IF Churn THEN commitIndex ELSE Len(log))..Len(log) :
       /\ k < MaxLog
       /\ \E e \in {Foreign, NoOp} \cup {c \in Call \ Unencodable : logIdx[c] = k + 1} :
            log' = Append(SubSeq(log, 1, k), e)
  /\ UNCHANGED <<leading, terms, commitIndex, loopVars, applyCh, applierVars, waitVars,
                 callVars, boots>>

AdvanceCommitIndex ==
  /\ \E k \in (commitIndex + 1)..Len(log) : commitIndex' = k
  /\ UNCHANGED <<leading, terms, log, loopVars, applyCh, applierVars, waitVars, callVars, boots>>

\* A graceful restart: the log and commitIndex come back from the snapshot,
\* the graph is empty again, lastApplied starts from nothing.  Calls still
\* being handled when shutdownGrace is over fail.
Restart ==
  /\ boots < MaxBoots
  /\ boots' = boots + 1
  /\ leading' = FALSE
  /\ lastApplied' = 0 /\ batch' = <<>> /\ batchEnd' = 0
  /\ applyCh' = <<>> /\ applied' = <<>> /\ pending' = 0
  /\ chs' = <<>> /\ closed' = {}
  /\ handler' = [c \in Call |->
       IF handler[c] \in {"proposed", "waiting"} THEN "failed" ELSE handler[c]]
  /\ UNCHANGED <<terms, log, commitIndex, logIdx>>

-----------------------------------------------------------------------------
Next ==
  \/ \E c \in Call : Insert(c) \/ Register(c) \/ Answer(c) \/ GiveUp(c)
  \/ Collect \/ Send \/ FinishBatch
  \/ Apply \/ NotifyApplied
  \/ BecomeLeader \/ StepDown \/ AppendEntries \/ AdvanceCommitIndex
  \/ Restart

Spec == Init /\ [][Next]_vars

\* The goroutines of this node run on: commitApplyLoop, the Applier and the
\* handlers.  Nothing is assumed of clients, deadlines or the cluster.
Fairness ==
  /\ WF_vars(Collect) /\ WF_vars(Send) /\ WF_vars(FinishBatch)
  /\ WF_vars(Apply) /\ WF_vars(NotifyApplied)
  /\ \A c \in Call : WF_vars(Register(c)) /\ WF_vars(Answer(c))

FairSpec == Spec /\ Fairness

-----------------------------------------------------------------------------
HandlerState == {"new", "refused", "proposed", "waiting", "acknowledged", "failed"}

\* Every variable holds values of the kind the code's fields hold.  In
\* particular only a channel that a handler registered is ever closed: Notify
\* is "safe to call even if no waiter is registered" (applier.go:48), which is
\* the rule, and close(nil) would end the process.
TypeOK ==
  /\ leading \in BOOLEAN /\ terms \in Nat
  /\ log \in Seq(Cmd) /\ commitIndex \in Nat
  /\ lastApplied \in Nat /\ batch \in Seq(Msg) /\ batchEnd \in Nat
  /\ applyCh \in Seq(Msg)
  /\ applied \in Seq(Msg) /\ pending \in Nat
  /\ DOMAIN chs \subseteq Nat /\ (\A k \in DOMAIN chs : chs[k] \in Call)
  /\ closed \subseteq Call
  /\ handler \in [Call -> HandlerState] /\ logIdx \in [Call -> Nat]
  /\ boots \in Nat

\* The graph is built from the committed log, each entry once and in order,
\* at every moment and again from the start after a restart: what makes the
\* graphs of all nodes converge (applier.go:66-69).  The log is read once,
\* under rf.mu, and may be truncated before the messages arrive.
AppliedIsCommitted ==
  /\ Len(applied) <= commitIndex
  /\ \A k \in 1..Len(applied) : applied[k] = [index |-> k, cmd |-> log[k]]

\* A client is told "success" only once its position is committed, and its
\* handler is woken only once what stands there is in the graph: the Applier
\* inserts before it notifies.
AcknowledgedIsCommitted ==
  \A c \in Call :
    /\ c \in closed => logIdx[c] \in 1..Len(applied)
    /\ handler[c] = "acknowledged" => logIdx[c] \in 1..commitIndex

\* Whatever is committed gets into the graph: commitApplyLoop, a full applyCh
\* and the Applier do not wait on each other in a circle.
CommittedIsApplied ==
  \A k \in 1..MaxLog : commitIndex >= k ~> Len(applied) >= k

\* A call that has registered before its position is notified is answered
\* once that position is committed, unless it gives up, a later call takes
\* over its position, or the node restarts.
Registered(c) ==
  /\ handler[c] = "waiting" /\ logIdx[c] \in DOMAIN chs
  /\ chs[logIdx[c]] = c /\ logIdx[c] > Len(applied)
RegisteredIsAnswered ==
  \A c \in Call :
    Registered(c) /\ commitIndex >= logIdx[c]
      ~> \/ handler[c] \in {"acknowledged", "failed"}
         \/ logIdx[c] \in DOMAIN chs /\ chs[logIdx[c]] # c

\* Register returns "a channel that will be closed when the entry at logIndex
\* is applied" (applier.go:37-38): no handler waits for a notification that
\* is already over.
WaiterNotForgotten ==
  \A c \in Call :
    handler[c] = "waiting" /\ logIdx[c] \in 1..Len(applied) /\ logIdx[c] # pending
      => c \in closed

\* "entry committed and applied" (applier.go:24), "The leader waits for the
\* entry to be committed before responding" (grpc_server.go:14): the entry
\* of an acknowledged call is the one that was committed.
AcknowledgedIsOwn ==
  \A c \in Call : handler[c] = "acknowledged" => log[logIdx[c]] = c
=============================================================================
