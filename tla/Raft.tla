-------------------------------- MODULE Raft --------------------------------
(***************************************************************************)
(* internal/consensus/raft.go: leader election, log replication, commit    *)
(* and the snapshot taken on graceful shutdown, for a whole cluster.       *)
(*                                                                         *)
(* Every critical section of the code (a section of rf.mu) is one action.  *)
(* The goroutines between two critical sections are the RPCs in flight: a  *)
(* request carries what the goroutine captured before it called the peer,  *)
(* and a reply echoes what the same goroutine still needs when it returns. *)
(*                                                                         *)
(* Log positions are counted from 1, see RaftLog.                          *)
(***************************************************************************)
EXTENDS RaftLog, SequencesExt

CONSTANTS
  Faults,        \* what the environment may do besides losing and delaying RPCs
  MaxElections,  \* bound: elections that are started
  MaxLog,        \* bound: Start is called only on shorter logs
  MaxCalls,      \* bound: AppendEntries calls one node has in flight
  MaxBoots       \* bound: restarts, over all nodes

\* "crash": a node is killed without Shutdown (SIGKILL, node failure).
\* "writeError": persistLocked fails to write the snapshot, or has no persistPath.
\* "readError": loadState cannot read or decode the snapshot.
\* "lateVote": a RequestVote reaches a node after an AppendEntries of the
\*   leader of that same term.
ASSUME RaftAssumption ==
  /\ Faults \subseteq {"crash", "writeError", "readError", "lateVote"}
  /\ {MaxElections, MaxLog, MaxCalls, MaxBoots} \subseteq Nat

VARIABLES
  currentTerm, votedFor, log,         \* rf.currentTerm, rf.votedFor, rf.log
  commitIndex,                        \* rf.commitIndex
  role, leaderId,                     \* rf.role, rf.leaderId
  votes,                              \* who voted in the running election (*votes)
  nextIndex, matchIndex,              \* rf.nextIndex, rf.matchIndex
  voteReqs, voteReps,                 \* RequestVote RPCs in flight
  appReqs, appReps,                   \* AppendEntries RPCs in flight
  disk,                               \* the file at persistPath
  up, boots                           \* the process runs; how often it restarted

\* History: what the code forgets and the properties speak about.  The code
\* never reads it; "heard" also delimits the fault "lateVote".
VARIABLES
  ballots,  \* every vote ever granted: <<voter, term, candidate>>
  leaders,  \* every election ever won: <<term, node>>
  heard     \* the last term whose leader a node has recognised

electionVars == <<currentTerm, votedFor, role, leaderId, votes>>
logVars      == <<log, commitIndex>>
leaderVars   == <<nextIndex, matchIndex>>
voteRPCs     == <<voteReqs, voteReps>>
appRPCs      == <<appReqs, appReps>>
processVars  == <<disk, up, boots>>
history      == <<ballots, leaders, heard>>
vars == <<electionVars, logVars, leaderVars, voteRPCs, appRPCs, processVars, history>>

-----------------------------------------------------------------------------
(* What the file at persistPath holds.                                     *)

Role == {"follower", "candidate", "leader"}

FreshState == [term |-> 0, votedFor |-> Nil, log |-> <<>>, commit |-> 0]

\* The persistentState of node n.
SnapshotWithoutVote(n) == [term |-> currentTerm[n], votedFor |-> Nil,
                           log |-> log[n], commit |-> commitIndex[n]]
SnapshotWithoutTerm(n) == [term |-> 0, votedFor |-> votedFor[n],
                           log |-> log[n], commit |-> commitIndex[n]]
SnapshotWithoutLog(n)  == [term |-> currentTerm[n], votedFor |-> votedFor[n],
                           log |-> <<>>, commit |-> 0]
Snapshot(n) == [term |-> currentTerm[n], votedFor |-> votedFor[n],
                log |-> log[n], commit |-> commitIndex[n]]

-----------------------------------------------------------------------------
Init ==
  /\ currentTerm = [n \in Server |-> 0]
  /\ votedFor    = [n \in Server |-> Nil]
  /\ log         = [n \in Server |-> <<>>]
  /\ commitIndex = [n \in Server |-> 0]
  /\ role        = [n \in Server |-> "follower"]
  /\ leaderId    = [n \in Server |-> Nil]
  /\ votes       = [n \in Server |-> {}]
  /\ nextIndex   = [n \in Server |-> [p \in Server |-> 1]]
  /\ matchIndex  = [n \in Server |-> [p \in Server |-> 0]]
  /\ voteReqs = {} /\ voteReps = {} /\ appReqs = {} /\ appReps = {}
  /\ disk  = [n \in Server |-> FreshState]
  /\ up    = [n \in Server |-> TRUE]
  /\ boots = [n \in Server |-> 0]
  /\ ballots = {} /\ leaders = {}
  /\ heard = [n \in Server |-> 0]

-----------------------------------------------------------------------------
(* Transitions shared by several critical sections, as the code shares     *)
(* stepDown and becomeLeader.                                              *)

\* stepDown(t): the vote is cleared whatever the node's term was.
StepDown(n, t, knownLeader) ==
  /\ currentTerm' = [currentTerm EXCEPT ![n] = t]
  /\ role'        = [role EXCEPT ![n] = "follower"]
  /\ votedFor'    = [votedFor EXCEPT ![n] = Nil]
  /\ leaderId'    = [leaderId EXCEPT ![n] = knownLeader]

\* becomeLeader in term t: reset the per-peer state, append a no-op and try
\* to commit it (a single-node cluster does).
BecomeLeader(n, t) ==
  LET l == Append(log[n], [term |-> t, cmd |-> NoOp])
      m == [p \in Server |-> IF p = n THEN Len(l) ELSE 0]
  IN  /\ role'        = [role EXCEPT ![n] = "leader"]
      /\ leaderId'    = [leaderId EXCEPT ![n] = n]
      /\ nextIndex'   = [nextIndex EXCEPT ![n] = [p \in Server |-> Len(log[n]) + 1]]
      /\ matchIndex'  = [matchIndex EXCEPT ![n] = m]
      /\ log'         = [log EXCEPT ![n] = l]
      /\ commitIndex' = [commitIndex EXCEPT ![n] = AdvanceCommit(l, t, m, @)]
      /\ leaders'     = leaders \cup {<<t, n>>}

-----------------------------------------------------------------------------
(* Elections.                                                              *)

\* The election timeout fires on a node that is not the leader: the
\* condition on heartbeatTime is real time, so it may hold whenever.
ElectionTimeout(n) ==
  LET t == currentTerm[n] + 1
  IN  /\ up[n] /\ role[n] # "leader"
      /\ Cardinality({b \in ballots : b[1] = b[3]}) < MaxElections
      /\ currentTerm' = [currentTerm EXCEPT ![n] = t]
      /\ votedFor'    = [votedFor EXCEPT ![n] = n]
      /\ votes'       = [votes EXCEPT ![n] = {n}]
      /\ ballots'     = ballots \cup {<<n, t, n>>}
      /\ voteReqs'    = voteReqs \cup
           {[src |-> n, dst |-> p, term |-> t, lastIdx |-> Len(log[n]),
             lastTerm |-> LastTerm(log[n]), boot |-> boots[n]] : p \in Server \ {n}}
      /\ \/ /\ Majority = 1
            /\ BecomeLeader(n, t)
         \/ /\ Majority > 1
            /\ role'     = [role EXCEPT ![n] = "candidate"]
            /\ leaderId' = [leaderId EXCEPT ![n] = Nil]
            /\ UNCHANGED <<logVars, leaderVars, leaders>>
      /\ UNCHANGED <<voteReps, appRPCs, processVars, heard>>

\* The RequestVote handler.  A reply echoes the election it answers.
RequestVote(m) ==
  LET n     == m.dst
      newer == m.term > currentTerm[n]
      vote  == IF newer THEN Nil ELSE votedFor[n]
      grant == /\ m.term >= currentTerm[n]
               /\ MayVote(vote, m.src)
               /\ UpToDate(m.lastIdx, m.lastTerm, log[n])
  IN  /\ up[n]
      /\ "lateVote" \in Faults \/ heard[n] # m.term
      /\ voteReqs' = voteReqs \ {m}
      /\ voteReps' = voteReps \cup
           {[src |-> n, dst |-> m.src, election |-> m.term, granted |-> grant,
             term |-> IF grant THEN m.term ELSE currentTerm[n], boot |-> m.boot]}
      /\ currentTerm' = [currentTerm EXCEPT ![n] = IF newer THEN m.term ELSE @]
      /\ role'        = [role EXCEPT ![n] = IF newer THEN "follower" ELSE @]
      /\ leaderId'    = [leaderId EXCEPT ![n] = IF newer THEN Nil ELSE @]
      /\ votedFor'    = [votedFor EXCEPT ![n] = IF grant THEN m.src ELSE vote]
      /\ ballots' = IF grant THEN ballots \cup {<<n, m.term, m.src>>} ELSE ballots
      /\ UNCHANGED <<votes, logVars, leaderVars, appRPCs, processVars, leaders, heard>>

\* The reply handled by sendRequestVote, in the goroutine of process m.boot.
ReceiveVote(m) ==
  LET n       == m.dst
      newer   == m.term > currentTerm[n]
      counted == /\ ~newer /\ m.granted
                 /\ role[n] = "candidate" /\ currentTerm[n] = m.election
      wins    == Cardinality(votes[n] \cup {m.src}) >= Majority
  IN  /\ up[n] /\ boots[n] = m.boot
      /\ voteReps' = voteReps \ {m}
      /\ \/ /\ newer
            /\ StepDown(n, m.term, Nil)
            /\ UNCHANGED <<votes, logVars, leaderVars, leaders>>
         \/ /\ ~newer /\ ~counted
            /\ UNCHANGED <<electionVars, logVars, leaderVars, leaders>>
         \/ /\ counted
            /\ votes' = [votes EXCEPT ![n] = @ \cup {m.src}]
            /\ IF wins THEN BecomeLeader(n, currentTerm[n])
                       ELSE UNCHANGED <<role, leaderId, logVars, leaderVars, leaders>>
            /\ UNCHANGED <<currentTerm, votedFor>>
      /\ UNCHANGED <<voteReqs, appRPCs, processVars, ballots, heard>>

-----------------------------------------------------------------------------
(* Log replication.                                                        *)

\* Start(cmd): the leader appends, acknowledges to itself, tries to commit.
Start(n, cmd) ==
  LET l == Append(log[n], [term |-> currentTerm[n], cmd |-> cmd])
      m == [matchIndex[n] EXCEPT ![n] = Len(l)]
  IN  /\ up[n] /\ role[n] = "leader"
      /\ Len(log[n]) < MaxLog
      /\ log'         = [log EXCEPT ![n] = l]
      /\ matchIndex'  = [matchIndex EXCEPT ![n] = m]
      /\ commitIndex' = [commitIndex EXCEPT ![n] = AdvanceCommit(l, currentTerm[n], m, @)]
      /\ UNCHANGED <<electionVars, nextIndex, voteRPCs, appRPCs, processVars, history>>

\* The AppendEntries calls of node n that have not returned.
Calls(n) == {m \in appReqs : m.src = n} \cup {m \in appReps : m.dst = n}

\* replicateToPeer up to the call.  heartbeatLoop and Start spawn it at any
\* time, so several calls to one peer may be on their way and overtake each
\* other.  (Of identical calls appReqs keeps one.)
ReplicateToPeer(n, p) ==
  LET prev == nextIndex[n][p] - 1
  IN  /\ up[n] /\ role[n] = "leader" /\ p # n
      /\ Cardinality(Calls(n)) < MaxCalls
      /\ appReqs' = appReqs \cup
           {[src |-> n, dst |-> p, term |-> currentTerm[n], prevIdx |-> prev,
             prevTerm |-> IF prev \in 1..Len(log[n]) THEN log[n][prev].term ELSE 0,
             entries |-> Batch(log[n], prev + 1),
             leaderCommit |-> commitIndex[n], boot |-> boots[n]]}
      /\ UNCHANGED <<electionVars, logVars, leaderVars, voteRPCs, appReps, processVars, history>>

\* The reply of node n to request m.
AppendReply(m, term, success, conflictIdx, conflictTerm) ==
  /\ appReqs' = appReqs \ {m}
  /\ appReps' = appReps \cup
       {[src |-> m.dst, dst |-> m.src, term |-> term, round |-> m.term,
         prevIdx |-> m.prevIdx, sent |-> Len(m.entries), boot |-> m.boot,
         success |-> success, conflictIdx |-> conflictIdx, conflictTerm |-> conflictTerm]}

\* The AppendEntries handler.
AppendEntries(m) ==
  LET n     == m.dst
      prev  == m.prevIdx
      short == prev > Len(log[n])
      clash == Clashes(log[n], prev, m.prevTerm)
      l     == Splice(log[n], prev, m.entries)
  IN  /\ up[n]
      /\ \/ /\ m.term < currentTerm[n]
            /\ AppendReply(m, currentTerm[n], FALSE, 1, NoTerm)
            /\ UNCHANGED <<electionVars, logVars, heard>>
         \/ /\ m.term >= currentTerm[n]
            /\ StepDown(n, m.term, m.src)
            /\ heard' = [heard EXCEPT ![n] = m.term]
            /\ UNCHANGED votes
            /\ \/ /\ short
                  /\ AppendReply(m, m.term, FALSE, Len(log[n]) + 1, NoTerm)
                  /\ UNCHANGED logVars
               \/ /\ clash
                  /\ AppendReply(m, m.term, FALSE, FirstOfTerm(log[n], prev), log[n][prev].term)
                  /\ UNCHANGED logVars
               \/ /\ ~short /\ ~clash
                  /\ AppendReply(m, m.term, TRUE, 1, NoTerm)
                  /\ log' = [log EXCEPT ![n] = l]
                  /\ commitIndex' = [commitIndex EXCEPT ![n] =
                       IF m.leaderCommit > @ THEN Min({m.leaderCommit, Len(l)}) ELSE @]
      /\ UNCHANGED <<leaderVars, voteRPCs, processVars, ballots, leaders>>

\* Whether n still leads the term t in which it made a call.
HeedsAnyTerm(n, t) == role[n] = "leader"
Heeds(n, t) == role[n] = "leader" /\ currentTerm[n] = t

\* replicateToPeer after the call: the reply, in the goroutine of m.boot.
ReceiveAppend(m) ==
  LET n       == m.dst
      p       == m.src
      newer   == m.term > currentTerm[n]
      current == ~newer /\ Heeds(n, m.round)
      acked   == Acked(matchIndex[n][p], m.prevIdx, m.sent)
      match   == [matchIndex[n] EXCEPT ![p] = acked]
  IN  /\ up[n] /\ boots[n] = m.boot
      /\ appReps' = appReps \ {m}
      /\ \/ /\ newer
            /\ StepDown(n, m.term, Nil)
            /\ UNCHANGED <<logVars, leaderVars>>
         \/ /\ ~newer /\ ~current
            /\ UNCHANGED <<currentTerm, votedFor, role, leaderId, logVars, leaderVars>>
         \/ /\ current /\ m.success
            /\ matchIndex'  = [matchIndex EXCEPT ![n] = match]
            /\ nextIndex'   = [nextIndex EXCEPT ![n][p] = acked + 1]
            /\ commitIndex' = [commitIndex EXCEPT ![n] =
                 AdvanceCommit(log[n], currentTerm[n], match, @)]
            /\ UNCHANGED <<currentTerm, votedFor, role, leaderId, log>>
         \/ /\ current /\ ~m.success
            /\ nextIndex' = [nextIndex EXCEPT ![n][p] =
                 Backtrack(log[n], m.conflictIdx, m.conflictTerm)]
            /\ UNCHANGED <<currentTerm, votedFor, role, leaderId, logVars, matchIndex>>
      /\ UNCHANGED <<votes, voteRPCs, appReqs, processVars, history>>

\* The call fails: rpcTimeout, or no connection to the peer.  The request is
\* lost, or its reply is.  (RequestVote calls are lost by staying in flight.)
CallFails(m) ==
  /\ appReqs' = appReqs \ {m}
  /\ appReps' = appReps \ {m}
  /\ UNCHANGED <<electionVars, logVars, leaderVars, voteRPCs, processVars, history>>

-----------------------------------------------------------------------------
(* The life of a process.                                                  *)

\* How often a process has ended.
Stops == MapThenSumSet(LAMBDA n : boots[n] + IF up[n] THEN 0 ELSE 1, Server)

\* Shutdown: a leader steps down, the state is snapshotted (a failed write
\* is logged and leaves the old file), the process exits.
Shutdown(n) ==
  /\ up[n]
  /\ Stops < MaxBoots
  /\ up'       = [up EXCEPT ![n] = FALSE]
  /\ role'     = [role EXCEPT ![n] = IF @ = "leader" THEN "follower" ELSE @]
  /\ leaderId' = [leaderId EXCEPT ![n] = IF role[n] = "leader" THEN Nil ELSE @]
  /\ \/ disk' = [disk EXCEPT ![n] = Snapshot(n)]
     \/ "writeError" \in Faults /\ UNCHANGED disk
  /\ UNCHANGED <<currentTerm, votedFor, votes, logVars, leaderVars, voteRPCs, appRPCs,
                 boots, history>>

\* The process dies without Shutdown: nothing is written.
Crash(n) ==
  /\ "crash" \in Faults
  /\ up[n]
  /\ Stops < MaxBoots
  /\ up' = [up EXCEPT ![n] = FALSE]
  /\ UNCHANGED <<electionVars, logVars, leaderVars, voteRPCs, appRPCs, disk, boots, history>>

\* What loadState finds: the snapshot, or nothing if it cannot be read.
Restored(n) ==
  {disk[n]} \cup (IF "readError" \in Faults THEN {FreshState} ELSE {})

\* Make: a new process starts from the file, or fresh when there is none.
Make(n) ==
  /\ ~up[n]
  /\ up'          = [up EXCEPT ![n] = TRUE]
  /\ boots'       = [boots EXCEPT ![n] = @ + 1]
  /\ \E s \in Restored(n) :
       /\ currentTerm' = [currentTerm EXCEPT ![n] = s.term]
       /\ votedFor'    = [votedFor EXCEPT ![n] = s.votedFor]
       /\ log'         = [log EXCEPT ![n] = s.log]
       /\ commitIndex' = [commitIndex EXCEPT ![n] = s.commit]
  /\ role'        = [role EXCEPT ![n] = "follower"]
  /\ leaderId'    = [leaderId EXCEPT ![n] = Nil]
  /\ votes'       = [votes EXCEPT ![n] = {}]
  /\ nextIndex'   = [nextIndex EXCEPT ![n] = [p \in Server |-> 1]]
  /\ matchIndex'  = [matchIndex EXCEPT ![n] = [p \in Server |-> 0]]
  /\ UNCHANGED <<voteRPCs, appRPCs, disk, history>>

-----------------------------------------------------------------------------
Next ==
  \/ \E n \in Server : ElectionTimeout(n)
  \/ \E m \in voteReqs : RequestVote(m)
  \/ \E m \in voteReps : ReceiveVote(m)
  \/ \E n \in Server, cmd \in Cmd : Start(n, cmd)
  \/ \E n, p \in Server : ReplicateToPeer(n, p)
  \/ \E m \in appReqs : AppendEntries(m)
  \/ \E m \in appReps : ReceiveAppend(m)
  \/ \E m \in appReqs \cup appReps : CallFails(m)
  \/ \E n \in Server : Shutdown(n)
  \/ \E n \in Server : Crash(n)
  \/ \E n \in Server : Make(n)

Spec == Init /\ [][Next]_vars

-----------------------------------------------------------------------------
(* Types.                                                                  *)

VoteReq  == [src : Server, dst : Server, term : Nat, lastIdx : Nat, lastTerm : Nat,
             boot : Nat]
VoteRep  == [src : Server, dst : Server, election : Nat, granted : BOOLEAN, term : Nat,
             boot : Nat]
AppReq   == [src : Server, dst : Server, term : Nat, prevIdx : Nat, prevTerm : Nat,
             entries : Seq(Entry), leaderCommit : Nat, boot : Nat]
AppRep   == [src : Server, dst : Server, term : Nat, round : Nat, prevIdx : Nat, sent : Nat,
             boot : Nat, success : BOOLEAN, conflictIdx : Nat, conflictTerm : Int]
Snapshots == [term : Nat, votedFor : Server \cup {Nil}, log : Seq(Entry), commit : Nat]

\* Every variable holds values of the kind the code's fields hold.
TypeOK ==
  /\ currentTerm \in [Server -> Nat]
  /\ votedFor \in [Server -> Server \cup {Nil}]
  /\ log \in [Server -> Seq(Entry)]
  /\ commitIndex \in [Server -> Nat]
  /\ role \in [Server -> Role]
  /\ leaderId \in [Server -> Server \cup {Nil}]
  /\ votes \in [Server -> SUBSET Server]
  /\ nextIndex \in [Server -> [Server -> Nat \ {0}]]
  /\ matchIndex \in [Server -> [Server -> Nat]]
  /\ voteReqs \subseteq VoteReq /\ voteReps \subseteq VoteRep
  /\ appReqs \subseteq AppReq /\ appReps \subseteq AppRep
  /\ disk \in [Server -> Snapshots]
  /\ up \in [Server -> BOOLEAN] /\ boots \in [Server -> Nat]
  /\ ballots \subseteq Server \X Nat \X Server
  /\ leaders \subseteq Nat \X Server
  /\ heard \in [Server -> Nat]

-----------------------------------------------------------------------------
(* Elections: votedFor is "-1 = not voted this term" (raft.go:107) and is  *)
(* kept in the snapshot "to avoid double-voting within a term across a     *)
(* restart" (raft.go:260).                                                 *)

\* No node grants two votes in one term, whatever stepDown and restarts do
\* to votedFor.
OneVotePerTerm ==
  \A a, b \in ballots : a[1] = b[1] /\ a[2] = b[2] => a[3] = b[3]

\* No term ever has two leaders, at the same time or one after the other.
ElectionSafety ==
  \A e, f \in leaders : e[1] = f[1] => e[2] = f[2]

\* A leader holds every entry that a node of no later term knows to be
\* committed: what RequestVote's up-to-date rule is for.
LeaderCompleteness ==
  \A n, p \in Server :
    role[n] = "leader" /\ currentTerm[n] >= currentTerm[p]
      => IsPrefix(SubSeq(log[p], 1, commitIndex[p]), log[n])

-----------------------------------------------------------------------------
(* Replication.                                                            *)

\* Two logs that agree on the term at a position agree up to it: what the
\* consistency check of AppendEntries and its append loop maintain together.
LogMatching ==
  \A n, p \in Server : \A k \in 1..Len(log[n]) :
    k <= Len(log[p]) /\ log[n][k].term = log[p][k].term
      => SubSeq(log[n], 1, k) = SubSeq(log[p], 1, k)

\* The terms in a log never decrease and never pass the node's own term: what
\* the fast backtrack (FirstOfTerm, Backtrack) takes for granted.
TermsOrdered ==
  \A n \in Server : \A k \in 1..Len(log[n]) :
    log[n][k].term <= IF k < Len(log[n]) THEN log[n][k + 1].term ELSE currentTerm[n]

\* matchIndex tells the truth: while n leads the term that p is in, p holds
\* what n believes p acknowledged.  Calls overtaking each other and failing
\* calls must not break this, for advanceCommitIndex counts on it.
AckedTrue ==
  \A n, p \in Server :
    role[n] = "leader" /\ currentTerm[n] = currentTerm[p]
      => /\ matchIndex[n][p] <= Len(log[n])
         /\ IsPrefix(SubSeq(log[n], 1, matchIndex[n][p]), log[p])

\* Every entry that a leader counts as acknowledged is of its own term.  A
\* majority that holds an entry of an earlier term may still lose it, and
\* advanceCommitIndex refuses to count one (raft.go:776); but a call reaches to
\* the end of the log, where the leader's own entries are, so none comes up as
\* long as replies to an earlier leadership are turned away (raft.go:725).
AckedOwnTerm ==
  \A n, p \in Server :
    role[n] = "leader" /\ matchIndex[n][p] > 0
      => log[n][matchIndex[n][p]].term = currentTerm[n]

\* A leader never announces a commit position past the entries of that same
\* call.  The follower caps leaderCommit at the end of its log, which may lie
\* past them, so this is why it commits nothing it has not just compared.
SentCoversCommit ==
  \A m \in appReqs : m.leaderCommit <= m.prevIdx + Len(m.entries)

\* A leader always knows the term of the entry before the ones it sends: the
\* prevLogTerm 0 that replicateToPeer falls back on outside its log, which
\* would match nothing, is never sent.  nextIndex is set by acknowledgements
\* and rejections that arrive late, so this is not for its line to promise.
PrevEntryKnown ==
  \A m \in appReqs : m.prevIdx > 0 => m.prevTerm > 0

\* A rejection that the leader still heeds makes it try an earlier position:
\* repairing a follower's log ends.
RepairMakesProgress ==
  \A m \in appReps :
    LET n == m.dst
    IN  /\ boots[n] = m.boot /\ role[n] = "leader" /\ currentTerm[n] = m.round
        /\ m.term <= currentTerm[n] /\ ~m.success
        => Backtrack(log[n], m.conflictIdx, m.conflictTerm) <= m.prevIdx

\* A leader without peers commits what it appends at once (raft.go:213, 583,
\* 653): nobody's reply would make it try again.
SoloCommits ==
  Cardinality(Server) = 1 =>
    \A n \in Server : role[n] = "leader" => commitIndex[n] = Len(log[n])

-----------------------------------------------------------------------------
(* What the cluster promises: the entries that some node knows to be       *)
(* committed are one log that only grows.                                  *)

Committed(n) == SubSeq(log[n], 1, commitIndex[n])

Chosen == Committed(CHOOSE n \in Server :
                      \A p \in Server : commitIndex[p] <= commitIndex[n])

RL == INSTANCE ReplicatedLog WITH
        Node <- Server, chosen <- Chosen, learned <- [n \in Server |-> Committed(n)]

\* Every step of the cluster is a step, or none, of the replicated log: no two
\* nodes commit different entries at one position, and no node, elected,
\* repaired or restarted, ever takes back an entry it reported committed.
ReplicatedLogSpec == RL!Spec
=============================================================================
