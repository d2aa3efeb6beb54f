------------------------------- MODULE RaftLog -------------------------------
(***************************************************************************)
(* internal/consensus/raft.go: the calculations the Raft node makes on its *)
(* log, with no state of their own.                                        *)
(*                                                                         *)
(* Log positions are counted from 1 here and from 0 in the code: a log     *)
(* position, commitIndex, matchIndex and prevIdx are the code's value plus *)
(* one (0 is "none", the code's -1), and so are nextIndex and conflictIdx. *)
(*                                                                         *)
(* Above some operators stands a variant named for what is wrong with it:  *)
(* a slip the code could have made.  Nothing uses the variants; they are   *)
(* put in the operator's place to see that a property notices.             *)
(***************************************************************************)
EXTENDS Integers, Sequences, FiniteSets, FiniteSetsExt

CONSTANTS
  Server,     \* rf.addrs: the nodes of the cluster
  Cmd,        \* the InsertCommands that clients propose
  NoOp,       \* the nil command a new leader appends
  Nil         \* -1: no vote, no known leader

ASSUME RaftLogAssumption ==
  /\ IsFiniteSet(Server) /\ Server # {}
  /\ NoOp \notin Cmd /\ Nil \notin Server

Entry == [term : Nat, cmd : Cmd \cup {NoOp}]

\* What may stand in ConflictTerm when there is no conflicting entry: -1.
NoTerm == -1

-----------------------------------------------------------------------------
(* Votes.                                                                  *)

\* A majority of the cluster: len(rf.addrs)/2 + 1.
Majority == Cardinality(Server) \div 2 + 1

\* lastLogIndexTerm: an empty log has last term 0.
LastTerm(l) == IF l = <<>> THEN 0 ELSE l[Len(l)].term

\* RequestVote: the vote of this term is still free, or is the candidate's.
MayVoteAgain(vote, candidate) == TRUE
MayVote(vote, candidate) == vote \in {Nil, candidate}

\* RequestVote: the candidate's last position and term against the log l of
\* the voter.
UpToDateByTerm(idx, term, l) == term >= LastTerm(l)
UpToDate(idx, term, l) ==
  \/ term > LastTerm(l)
  \/ term = LastTerm(l) /\ idx >= Len(l)

-----------------------------------------------------------------------------
(* Replication.                                                            *)

\* replicateToPeer sends everything from nextIndex on.
BatchOfOne(l, next) == SubSeq(l, next, IF next < Len(l) THEN next ELSE Len(l))
Batch(l, next) == SubSeq(l, next, Len(l))

\* The consistency check of AppendEntries, where the log is long enough: the
\* entry before the new ones has another term.
ClashesNever(l, prev, prevTerm) == FALSE
Clashes(l, prev, prevTerm) == prev \in 1..Len(l) /\ l[prev].term # prevTerm

\* The append loop of AppendEntries, for entries es after position prev of
\* l.  Entries already there with the same term stay, and so does what
\* follows them; the first one of another term truncates the log.
SpliceInPlace(l, prev, es) ==
  [k \in 1..Max({Len(l), prev + Len(es)}) |->
     IF k \in (prev + 1)..(prev + Len(es)) THEN es[k - prev] ELSE l[k]]
SpliceTruncating(l, prev, es) == SubSeq(l, 1, prev) \o es
Splice(l, prev, es) ==
  LET clash == {i \in 1..Len(es) :
                  prev + i <= Len(l) /\ l[prev + i].term # es[i].term}
      kept  == IF clash = {} THEN Len(l) ELSE prev + Min(clash) - 1
  IN  [k \in 1..Max({kept, prev + Len(es)}) |->
         IF k <= kept THEN l[k] ELSE es[k - prev]]

\* The first position of the run of equal terms that position p of l is in:
\* what a follower reports as ConflictIndex.
FirstOfTerm(l, p) ==
  Min({k \in 1..p : \A j \in k..p : l[j].term = l[p].term})

\* The position a leader tries next after a rejection: after its own last
\* entry of the conflicting term, else where the follower says.
BacktrackOneShort(l, conflictIdx, conflictTerm) == conflictIdx + 1
BacktrackUnclamped(l, conflictIdx, conflictTerm) == conflictIdx - 1
Backtrack(l, conflictIdx, conflictTerm) ==
  LET own == {k \in 1..Len(l) : l[k].term = conflictTerm}
  IN  IF conflictTerm # NoTerm /\ own # {} THEN Max(own) + 1 ELSE Max({1, conflictIdx})

\* A success acknowledges what that call sent, not what the log holds now.
AckedPastSent(match, prev, sent) == Max({match, prev + sent + 1})
Acked(match, prev, sent) == Max({match, prev + sent})

\* advanceCommitIndex of a leader of term t with log l and acknowledgements
\* match: the highest position above c of its own term that a majority holds.
CommitOf(l, t, match, c, quorum) ==
  LET held == {k \in (c + 1)..Len(l) :
                 /\ l[k].term = t
                 /\ Cardinality({p \in Server : match[p] >= k}) >= quorum}
  IN  IF held = {} THEN c ELSE Max(held)
AdvanceCommitEarly(l, t, match, c)  == CommitOf(l, t, match, c, Majority - 1)
AdvanceCommitStrict(l, t, match, c) == CommitOf(l, t, match, c, Majority + 1)
AdvanceCommit(l, t, match, c)       == CommitOf(l, t, match, c, Majority)
=============================================================================
