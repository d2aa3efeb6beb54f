----------------------------- MODULE RaftProofs -----------------------------
(***************************************************************************)
(* What holds of Raft for every cluster, every set of commands and every   *)
(* bound: types, the cluster of one node, and one leader per term.         *)
(***************************************************************************)
EXTENDS Raft, FiniteSetTheorems, SequenceTheorems, WellFoundedInduction, TLAPS

Log == Seq(Entry)

-----------------------------------------------------------------------------
(* Least and greatest elements.                                            *)

\* A set of naturals has a least element.
LEMMA LeastNat ==
  ASSUME NEW S \in SUBSET Nat, S # {}
  PROVE  Min(S) \in S /\ \A y \in S : Min(S) <= y
<1>1. \E x \in S : \A y \in S : <<y, x>> \notin OpToRel(<, Nat)
  BY NatLessThanWellFounded, WFMin
<1>2. PICK x \in S : \A y \in S : <<y, x>> \notin OpToRel(<, Nat)
  BY <1>1
<1>3. \A y \in S : ~ (y < x)
  BY <1>2 DEF OpToRel
<1>4. \A y \in S : x <= y
  BY <1>3
<1> QED
  BY <1>4 DEF Min

\* A bounded set of naturals has a greatest element.
LEMMA GreatestNat ==
  ASSUME NEW S \in SUBSET Nat, S # {}, NEW b \in Nat, \A x \in S : x <= b
  PROVE  Max(S) \in S /\ \A x \in S : x <= Max(S)
<1> DEFINE T == {b - x : x \in S}
<1>1. T \in SUBSET Nat
  <2>1. \A x \in S : b - x \in Nat
    OBVIOUS
  <2> QED
    BY <2>1
<1>2. T # {}
  OBVIOUS
<1>3. PICK t \in T : \A u \in T : t <= u
  BY <1>1, <1>2, LeastNat
<1>4. PICK x \in S : t = b - x
  BY <1>3
<1>5. \A y \in S : x >= y
  BY <1>3, <1>4
<1> QED
  BY <1>5 DEF Max

\* The greater of two naturals.
LEMMA GreaterOfTwo ==
  ASSUME NEW i \in Nat, NEW j \in Nat
  PROVE  Max({i, j}) = IF i >= j THEN i ELSE j
<1>1. Max({i, j}) \in {i, j} /\ \A x \in {i, j} : x <= Max({i, j})
  <2>1. {i, j} \in SUBSET Nat /\ {i, j} # {} /\ \A x \in {i, j} : x <= i + j
    OBVIOUS
  <2> QED
    BY <2>1, GreatestNat, i + j \in Nat
<1> QED
  BY <1>1

-----------------------------------------------------------------------------
(* Majorities.                                                             *)

LEMMA MajorityType == Majority \in Nat \ {0}
BY RaftLogAssumption, FS_CardinalityType DEF Majority

\* Two majorities have a voter in common.
LEMMA MajoritiesMeet ==
  ASSUME NEW S \in SUBSET Server, NEW T \in SUBSET Server,
         Cardinality(S) >= Majority, Cardinality(T) >= Majority
  PROVE  S \cap T # {}
<1>1. /\ Cardinality(Server) \in Nat
      /\ Cardinality(S) \in Nat
      /\ Cardinality(T) \in Nat
  BY RaftLogAssumption, FS_CardinalityType, FS_Subset
<1>2. Cardinality(S) + Cardinality(T) > Cardinality(Server)
  BY <1>1 DEF Majority
<1> QED
  BY <1>2, RaftLogAssumption, FS_MajoritiesIntersect

-----------------------------------------------------------------------------
(* Logs.                                                                   *)

LEMMA LastTermType ==
  ASSUME NEW l \in Log
  PROVE  LastTerm(l) \in Nat
<1>1. CASE l = <<>>
  BY <1>1 DEF LastTerm
<1>2. CASE l # <<>>
  <2>1. Len(l) \in 1..Len(l)
    BY <1>2, EmptySeq DEF Log
  <2>2. l[Len(l)] \in Entry
    BY <2>1, ElementOfSeq DEF Log
  <2> QED
    BY <1>2, <2>2 DEF LastTerm, Entry
<1> QED
  BY <1>1, <1>2

LEMMA BatchType ==
  ASSUME NEW l \in Log, NEW next \in Nat \ {0}
  PROVE  Batch(l, next) \in Log
<1>1. \A k \in next..Len(l) : l[k] \in Entry
  BY DEF Log
<1> QED
  BY <1>1, SubSeqProperties DEF Batch, Log

\* The append loop yields a log, keeps what it was told to follow, and ends
\* no earlier than the entries it was given.
LEMMA SpliceLog ==
  ASSUME NEW l \in Log, NEW prev \in 0..Len(l), NEW es \in Log
  PROVE  /\ Splice(l, prev, es) \in Log
         /\ Len(Splice(l, prev, es)) >= prev + Len(es)
         /\ \A k \in 1..prev : Splice(l, prev, es)[k] = l[k]
<1> DEFINE clash == {i \in 1..Len(es) :
                       prev + i <= Len(l) /\ l[prev + i].term # es[i].term}
           kept  == IF clash = {} THEN Len(l) ELSE prev + Min(clash) - 1
           m     == Max({kept, prev + Len(es)})
<1>1. kept \in prev..Len(l)
  <2>1. CASE clash = {}
    BY <2>1 DEF Log
  <2>2. CASE clash # {}
    <3>1. clash \in SUBSET Nat
      OBVIOUS
    <3>2. Min(clash) \in clash
      BY <2>2, <3>1, LeastNat
    <3> QED
      BY <2>2, <3>2, SMTT(30) DEF Log
  <2> QED
    BY <2>1, <2>2
<1>2. m \in Nat /\ m >= prev + Len(es) /\ m >= kept /\ m \in {kept, prev + Len(es)}
  <2>1. kept \in Nat /\ prev + Len(es) \in Nat
    BY <1>1 DEF Log
  <2> HIDE DEF kept
  <2> QED
    BY <2>1, GreaterOfTwo
<1> DEFINE f == [k \in 1..m |-> IF k <= kept THEN l[k] ELSE es[k - prev]]
<1>3. Splice(l, prev, es) = f
  BY DEF Splice
<1> HIDE DEF kept, m
<1>4. \A k \in 1..m : (IF k <= kept THEN l[k] ELSE es[k - prev]) \in Entry
  BY <1>1, <1>2 DEF Log
<1>5. f \in [1..m -> Entry]
  BY <1>4
<1>6. f \in Log /\ Len(f) = m
  BY <1>2, <1>5, SeqDef DEF Log
<1> QED
  BY <1>1, <1>2, <1>3, <1>6

\* What a follower reports as the start of the conflicting term.
LEMMA FirstOfTermBounds ==
  ASSUME NEW l \in Log, NEW p \in 1..Len(l)
  PROVE  FirstOfTerm(l, p) \in 1..p
<1> DEFINE S == {k \in 1..p : \A j \in k..p : l[j].term = l[p].term}
<1>1. S \in SUBSET Nat
  OBVIOUS
<1>2. p \in S
  BY DEF Log
<1>3. Min(S) \in S
  BY <1>1, <1>2, LeastNat
<1> QED
  BY <1>3 DEF FirstOfTerm

\* The leader backs off to a position of its log, or right after it, or to
\* where the follower says.
LEMMA BacktrackType ==
  ASSUME NEW l \in Log, NEW idx \in Nat, NEW term \in Int
  PROVE  Backtrack(l, idx, term) \in Nat \ {0}
<1> DEFINE own == {k \in 1..Len(l) : l[k].term = term}
<1>1. CASE own # {}
  <2>1. own \in SUBSET Nat /\ Len(l) \in Nat /\ \A k \in own : k <= Len(l)
    BY DEF Log
  <2>2. Max(own) \in own
    BY <1>1, <2>1, GreatestNat
  <2>3. Max({1, idx}) \in Nat \ {0}
    BY GreaterOfTwo
  <2> QED
    BY <2>2, <2>3 DEF Backtrack
<1>2. CASE own = {}
  <2>1. Max({1, idx}) \in Nat \ {0}
    BY GreaterOfTwo
  <2> QED
    BY <1>2, <2>1 DEF Backtrack
<1> QED
  BY <1>1, <1>2

LEMMA AckedType ==
  ASSUME NEW match \in Nat, NEW prev \in Nat, NEW sent \in Nat
  PROVE  Acked(match, prev, sent) \in Nat
BY GreaterOfTwo, prev + sent \in Nat DEF Acked

\* The commit position never moves back, moves only to an entry of the
\* leader's own term that a majority acknowledged, and stays in the log.
LEMMA AdvanceCommitRule ==
  ASSUME NEW l \in Log, NEW t \in Nat, NEW match \in [Server -> Nat], NEW c \in Nat
  PROVE  LET new == AdvanceCommit(l, t, match, c)
         IN  \/ new = c
             \/ /\ new \in (c + 1)..Len(l)
                /\ l[new].term = t
                /\ Cardinality({p \in Server : match[p] >= new}) >= Majority
<1> DEFINE held == {k \in (c + 1)..Len(l) :
                      /\ l[k].term = t
                      /\ Cardinality({p \in Server : match[p] >= k}) >= Majority}
<1>1. CASE held = {}
  BY <1>1 DEF AdvanceCommit, CommitOf
<1>2. CASE held # {}
  <2>1. held \in SUBSET Nat /\ Len(l) \in Nat /\ \A k \in held : k <= Len(l)
    BY DEF Log
  <2>2. Max(held) \in held
    BY <1>2, <2>1, GreatestNat
  <2> QED
    BY <1>2, <2>2 DEF AdvanceCommit, CommitOf
<1> QED
  BY <1>1, <1>2

LEMMA AdvanceCommitType ==
  ASSUME NEW l \in Log, NEW t \in Nat, NEW match \in [Server -> Nat], NEW c \in Nat
  PROVE  AdvanceCommit(l, t, match, c) \in Nat
<1> DEFINE new == AdvanceCommit(l, t, match, c)
<1>1. new = c \/ new \in (c + 1)..Len(l)
  BY AdvanceCommitRule
<1>2. Len(l) \in Nat
  BY DEF Log
<1>3. new \in Nat
  <2> HIDE DEF new
  <2> QED
    BY <1>1, <1>2
<1> QED
  BY <1>3

-----------------------------------------------------------------------------
(* Types.                                                                  *)

LEMMA EntryOfLog ==
  ASSUME NEW l \in Seq(Entry), NEW k \in 1..Len(l)
  PROVE  l[k].term \in Nat
<1>1. l[k] \in Entry
  BY ElementOfSeq
<1> QED
  BY <1>1 DEF Entry

\* A leader's log after it appended an entry.
LEMMA AppendLog ==
  ASSUME NEW l \in Seq(Entry), NEW t \in Nat, NEW x \in Cmd \cup {NoOp}
  PROVE  Append(l, [term |-> t, cmd |-> x]) \in Seq(Entry)
BY DEF Entry

LEMMA TypeInit == Init => TypeOK
BY EmptySeq DEF Init, TypeOK, FreshState, Snapshots, Role

LEMMA TypeBecomeLeader ==
  ASSUME TypeOK, NEW n \in Server, NEW t \in Nat, BecomeLeader(n, t)
  PROVE  /\ role' \in [Server -> Role]
         /\ leaderId' \in [Server -> Server \cup {Nil}]
         /\ nextIndex' \in [Server -> [Server -> Nat \ {0}]]
         /\ matchIndex' \in [Server -> [Server -> Nat]]
         /\ log' \in [Server -> Seq(Entry)]
         /\ commitIndex' \in [Server -> Nat]
         /\ leaders' \subseteq Nat \X Server
<1> DEFINE l == Append(log[n], [term |-> t, cmd |-> NoOp])
           m == [p \in Server |-> IF p = n THEN Len(l) ELSE 0]
<1>1. l \in Seq(Entry)
  BY AppendLog DEF TypeOK
<1>2. m \in [Server -> Nat]
  BY <1>1
<1>3. AdvanceCommit(l, t, m, commitIndex[n]) \in Nat
  <2>1. commitIndex[n] \in Nat
    BY DEF TypeOK
  <2> HIDE DEF l, m
  <2> QED
    BY <1>1, <1>2, <2>1, AdvanceCommitType DEF Log
<1>4. Len(log[n]) + 1 \in Nat \ {0}
  BY DEF TypeOK
<1> HIDE DEF l, m
<1> QED
  BY <1>1, <1>2, <1>3, <1>4 DEF TypeOK, BecomeLeader, Role, l, m

LEMMA TypeElectionTimeout ==
  ASSUME TypeOK, NEW n \in Server, ElectionTimeout(n)
  PROVE  TypeOK'
<1> DEFINE t == currentTerm[n] + 1
<1>1. t \in Nat
  BY DEF TypeOK
<1>2. /\ currentTerm' \in [Server -> Nat]
      /\ votedFor' \in [Server -> Server \cup {Nil}]
      /\ votes' \in [Server -> SUBSET Server]
      /\ ballots' \subseteq Server \X Nat \X Server
  <2>1. /\ currentTerm' = [currentTerm EXCEPT ![n] = t]
        /\ votedFor'    = [votedFor EXCEPT ![n] = n]
        /\ votes'       = [votes EXCEPT ![n] = {n}]
        /\ ballots'     = ballots \cup {<<n, t, n>>}
    BY DEF ElectionTimeout
  <2> HIDE DEF t
  <2> QED
    BY <1>1, <2>1 DEF TypeOK
<1>3. voteReqs' \subseteq VoteReq
  <2>1. Len(log[n]) \in Nat /\ LastTerm(log[n]) \in Nat
    BY LastTermType DEF TypeOK, Log
  <2> QED
    BY <1>1, <2>1 DEF TypeOK, ElectionTimeout, VoteReq
<1>4. /\ role' \in [Server -> Role]
      /\ leaderId' \in [Server -> Server \cup {Nil}]
      /\ nextIndex' \in [Server -> [Server -> Nat \ {0}]]
      /\ matchIndex' \in [Server -> [Server -> Nat]]
      /\ log' \in [Server -> Seq(Entry)]
      /\ commitIndex' \in [Server -> Nat]
      /\ leaders' \subseteq Nat \X Server
  <2>1. CASE BecomeLeader(n, t)
    BY <1>1, <2>1, TypeBecomeLeader
  <2>2. CASE ~ BecomeLeader(n, t)
    BY <2>2 DEF TypeOK, ElectionTimeout, Role, logVars, leaderVars
  <2> QED
    BY <2>1, <2>2
<1> QED
  BY <1>2, <1>3, <1>4 DEF TypeOK, ElectionTimeout, appRPCs, processVars

LEMMA TypeRequestVote ==
  ASSUME TypeOK, NEW m \in voteReqs, RequestVote(m)
  PROVE  TypeOK'
<1>1. m \in VoteReq
  BY DEF TypeOK
<1>2. m.src \in Server /\ m.dst \in Server /\ m.term \in Nat /\ m.boot \in Nat
  BY <1>1 DEF VoteReq
<1>3. voteReps' \subseteq VoteRep
  <2> DEFINE n == m.dst
             g == /\ m.term >= currentTerm[n]
                  /\ MayVote(IF m.term > currentTerm[n] THEN Nil ELSE votedFor[n], m.src)
                  /\ UpToDate(m.lastIdx, m.lastTerm, log[n])
             r == [src |-> n, dst |-> m.src, election |-> m.term, granted |-> g,
                   term |-> IF g THEN m.term ELSE currentTerm[n], boot |-> m.boot]
  <2>1. voteReps' = voteReps \cup {r}
    BY DEF RequestVote
  <2>2. g \in BOOLEAN
    BY DEF MayVote, UpToDate
  <2>3. r \in VoteRep
    <3>1. currentTerm[n] \in Nat
      BY <1>2 DEF TypeOK
    <3> HIDE DEF g
    <3> QED
      BY <1>2, <2>2, <3>1 DEF VoteRep
  <2> HIDE DEF r
  <2> QED
    BY <2>1, <2>3 DEF TypeOK
<1>4. /\ currentTerm' \in [Server -> Nat]
      /\ role' \in [Server -> Role]
      /\ leaderId' \in [Server -> Server \cup {Nil}]
      /\ votedFor' \in [Server -> Server \cup {Nil}]
      /\ ballots' \subseteq Server \X Nat \X Server
  <2> DEFINE n == m.dst
             newer == m.term > currentTerm[n]
             vote == IF newer THEN Nil ELSE votedFor[n]
  <2>1. PICK grant \in BOOLEAN :
          /\ currentTerm' = [currentTerm EXCEPT ![n] = IF newer THEN m.term ELSE @]
          /\ role'        = [role EXCEPT ![n] = IF newer THEN "follower" ELSE @]
          /\ leaderId'    = [leaderId EXCEPT ![n] = IF newer THEN Nil ELSE @]
          /\ votedFor'    = [votedFor EXCEPT ![n] = IF grant THEN m.src ELSE vote]
          /\ ballots' = IF grant THEN ballots \cup {<<n, m.term, m.src>>} ELSE ballots
    BY DEF RequestVote, MayVote, UpToDate
  <2>2. votedFor' \in [Server -> Server \cup {Nil}]
    BY <1>2, <2>1 DEF TypeOK
  <2>3. ballots' \subseteq Server \X Nat \X Server
    <3>1. <<n, m.term, m.src>> \in Server \X Nat \X Server
      BY <1>2
    <3>2. ballots' \subseteq ballots \cup {<<n, m.term, m.src>>}
      BY <2>1
    <3> QED
      BY <3>1, <3>2 DEF TypeOK
  <2> QED
    BY <1>2, <2>1, <2>2, <2>3 DEF TypeOK, Role
<1> QED
  BY <1>3, <1>4 DEF TypeOK, RequestVote, logVars, leaderVars, appRPCs, processVars

LEMMA TypeStepDown ==
  ASSUME TypeOK, NEW n \in Server, NEW t \in Nat, NEW p \in Server \cup {Nil},
         StepDown(n, t, p)
  PROVE  /\ currentTerm' \in [Server -> Nat]
         /\ role' \in [Server -> Role]
         /\ leaderId' \in [Server -> Server \cup {Nil}]
         /\ votedFor' \in [Server -> Server \cup {Nil}]
BY DEF TypeOK, StepDown, Role

LEMMA TypeReceiveVote ==
  ASSUME TypeOK, NEW m \in voteReps, ReceiveVote(m)
  PROVE  TypeOK'
<1>1. m.src \in Server /\ m.dst \in Server /\ m.term \in Nat
  BY DEF TypeOK, VoteRep
<1> DEFINE n == m.dst
<1>2. CASE StepDown(n, m.term, Nil) /\ UNCHANGED <<votes, logVars, leaderVars, leaders>>
  BY <1>1, <1>2, TypeStepDown
  DEF TypeOK, ReceiveVote, logVars, leaderVars, appRPCs, processVars
<1>3. CASE UNCHANGED <<electionVars, logVars, leaderVars, leaders>>
  BY <1>1, <1>3
  DEF TypeOK, ReceiveVote, electionVars, logVars, leaderVars, appRPCs, processVars
<1>4. CASE /\ votes' = [votes EXCEPT ![n] = @ \cup {m.src}]
           /\ UNCHANGED <<currentTerm, votedFor>>
           /\ BecomeLeader(n, currentTerm[n])
  <2>1. currentTerm[n] \in Nat
    BY <1>1 DEF TypeOK
  <2>2. votes' \in [Server -> SUBSET Server]
    BY <1>1, <1>4 DEF TypeOK
  <2> QED
    BY <1>1, <1>4, <2>1, <2>2, TypeBecomeLeader
    DEF TypeOK, ReceiveVote, appRPCs, processVars
<1>5. CASE /\ votes' = [votes EXCEPT ![n] = @ \cup {m.src}]
           /\ UNCHANGED <<currentTerm, votedFor>>
           /\ UNCHANGED <<role, leaderId, logVars, leaderVars, leaders>>
  <2>1. votes' \in [Server -> SUBSET Server]
    BY <1>1, <1>5 DEF TypeOK
  <2> QED
    BY <1>1, <1>5, <2>1 DEF TypeOK, ReceiveVote, logVars, leaderVars, appRPCs, processVars
<1> QED
  BY <1>2, <1>3, <1>4, <1>5 DEF ReceiveVote

LEMMA TypeStart ==
  ASSUME TypeOK, NEW n \in Server, NEW cmd \in Cmd, Start(n, cmd)
  PROVE  TypeOK'
<1> DEFINE l == Append(log[n], [term |-> currentTerm[n], cmd |-> cmd])
           m == [matchIndex[n] EXCEPT ![n] = Len(l)]
<1>1. currentTerm[n] \in Nat /\ commitIndex[n] \in Nat /\ log[n] \in Seq(Entry)
  BY DEF TypeOK
<1>2. l \in Seq(Entry)
  BY <1>1, AppendLog
<1>3. m \in [Server -> Nat]
  BY <1>2 DEF TypeOK
<1>4. AdvanceCommit(l, currentTerm[n], m, commitIndex[n]) \in Nat
  <2> HIDE DEF l, m
  <2> QED
    BY <1>1, <1>2, <1>3, AdvanceCommitType DEF Log
<1> HIDE DEF l, m
<1> QED
  BY <1>2, <1>3, <1>4
  DEF TypeOK, Start, electionVars, voteRPCs, appRPCs, processVars, history, l, m

LEMMA TypeReplicateToPeer ==
  ASSUME TypeOK, NEW n \in Server, NEW p \in Server, ReplicateToPeer(n, p)
  PROVE  TypeOK'
<1> DEFINE prev == nextIndex[n][p] - 1
<1>1. prev \in Nat /\ prev + 1 \in Nat \ {0}
  <2>1. nextIndex[n][p] \in Nat \ {0}
    BY DEF TypeOK
  <2> QED
    BY <2>1
<1>2. (IF prev \in 1..Len(log[n]) THEN log[n][prev].term ELSE 0) \in Nat
  BY EntryOfLog DEF TypeOK
<1>3. Batch(log[n], prev + 1) \in Seq(Entry)
  BY <1>1, BatchType DEF TypeOK, Log
<1> DEFINE prevTerm == IF prev \in 1..Len(log[n]) THEN log[n][prev].term ELSE 0
           req == [src |-> n, dst |-> p, term |-> currentTerm[n], prevIdx |-> prev,
                   prevTerm |-> prevTerm, entries |-> Batch(log[n], prev + 1),
                   leaderCommit |-> commitIndex[n], boot |-> boots[n]]
<1>4. appReqs' \subseteq AppReq
  <2>1. appReqs' = appReqs \cup {req}
    BY DEF ReplicateToPeer
  <2>2. currentTerm[n] \in Nat /\ commitIndex[n] \in Nat /\ boots[n] \in Nat
    BY DEF TypeOK
  <2>3. req \in AppReq
    <3> HIDE DEF prev, prevTerm
    <3> QED
      BY <1>1, <1>2, <1>3, <2>2 DEF AppReq, prevTerm
  <2> HIDE DEF req
  <2> QED
    BY <2>1, <2>3 DEF TypeOK
<1> QED
  BY <1>4 DEF TypeOK, ReplicateToPeer, electionVars, logVars, leaderVars, voteRPCs,
              processVars, history

LEMMA TypeAppendReply ==
  ASSUME TypeOK, NEW m \in appReqs, NEW t \in Nat, NEW i \in Nat, NEW ct \in Int,
         AppendReply(m, t, TRUE, i, ct) \/ AppendReply(m, t, FALSE, i, ct)
  PROVE  appReqs' \subseteq AppReq /\ appReps' \subseteq AppRep
<1>1. /\ m.src \in Server /\ m.dst \in Server /\ m.term \in Nat /\ m.boot \in Nat
      /\ m.prevIdx \in Nat /\ Len(m.entries) \in Nat
  <2>1. m \in AppReq
    BY DEF TypeOK
  <2> QED
    BY <2>1 DEF AppReq
<1> DEFINE r(s) == [src |-> m.dst, dst |-> m.src, term |-> t, round |-> m.term,
                    prevIdx |-> m.prevIdx, sent |-> Len(m.entries), boot |-> m.boot,
                    success |-> s, conflictIdx |-> i, conflictTerm |-> ct]
<1>2. r(TRUE) \in AppRep /\ r(FALSE) \in AppRep
  BY <1>1 DEF AppRep
<1>3. /\ appReqs' = appReqs \ {m}
      /\ appReps' = appReps \cup {r(TRUE)} \/ appReps' = appReps \cup {r(FALSE)}
  BY DEF AppendReply
<1> HIDE DEF r
<1> QED
  BY <1>2, <1>3 DEF TypeOK

LEMMA TypeAppendEntries ==
  ASSUME TypeOK, NEW m \in appReqs, AppendEntries(m)
  PROVE  TypeOK'
<1> DEFINE n    == m.dst
           prev == m.prevIdx
           l    == Splice(log[n], prev, m.entries)
<1>1. /\ m.src \in Server /\ n \in Server /\ m.term \in Nat /\ m.boot \in Nat
      /\ prev \in Nat /\ m.entries \in Seq(Entry) /\ m.leaderCommit \in Nat
  <2>1. m \in AppReq
    BY DEF TypeOK
  <2> QED
    BY <2>1 DEF AppReq
<1>2. /\ log[n] \in Seq(Entry) /\ Len(log[n]) \in Nat /\ commitIndex[n] \in Nat
      /\ currentTerm[n] \in Nat
  BY <1>1 DEF TypeOK
<1> NoTerm \in Int
  BY DEF NoTerm
<1>3. CASE /\ AppendReply(m, currentTerm[n], FALSE, 1, NoTerm)
           /\ UNCHANGED <<electionVars, logVars, heard>>
  <2>1. appReqs' \subseteq AppReq /\ appReps' \subseteq AppRep
    BY <1>2, <1>3, TypeAppendReply
  <2> QED
    BY <1>3, <2>1
    DEF TypeOK, AppendEntries, electionVars, logVars, leaderVars, voteRPCs, processVars
<1>4. CASE /\ m.term >= currentTerm[n]
           /\ StepDown(n, m.term, m.src)
           /\ heard' = [heard EXCEPT ![n] = m.term]
           /\ UNCHANGED votes
  <2>1. /\ currentTerm' \in [Server -> Nat]
        /\ role' \in [Server -> Role]
        /\ leaderId' \in [Server -> Server \cup {Nil}]
        /\ votedFor' \in [Server -> Server \cup {Nil}]
        /\ heard' \in [Server -> Nat]
        /\ votes' \in [Server -> SUBSET Server]
    <3>1. heard' \in [Server -> Nat] /\ votes' \in [Server -> SUBSET Server]
      BY <1>1, <1>4 DEF TypeOK
    <3> QED
      BY <1>1, <1>4, <3>1, TypeStepDown
  <2>2. CASE /\ prev > Len(log[n])
             /\ AppendReply(m, m.term, FALSE, Len(log[n]) + 1, NoTerm)
             /\ UNCHANGED logVars
    <3>1. appReqs' \subseteq AppReq /\ appReps' \subseteq AppRep
      <4>1. Len(log[n]) + 1 \in Nat
        BY <1>2
      <4> QED
        BY <1>1, <4>1, <2>2, TypeAppendReply
    <3> QED
      BY <2>1, <2>2, <3>1
      DEF TypeOK, AppendEntries, logVars, leaderVars, voteRPCs, processVars
  <2>3. CASE /\ prev \in 1..Len(log[n])
             /\ AppendReply(m, m.term, FALSE, FirstOfTerm(log[n], prev), log[n][prev].term)
             /\ UNCHANGED logVars
    <3>1. FirstOfTerm(log[n], prev) \in Nat /\ log[n][prev].term \in Int
      BY <1>2, <2>3, FirstOfTermBounds, EntryOfLog DEF Log
    <3>2. appReqs' \subseteq AppReq /\ appReps' \subseteq AppRep
      BY <1>1, <2>3, <3>1, TypeAppendReply
    <3> QED
      BY <2>1, <2>3, <3>2
      DEF TypeOK, AppendEntries, logVars, leaderVars, voteRPCs, processVars
  <2>4. CASE /\ ~(prev > Len(log[n]))
             /\ AppendReply(m, m.term, TRUE, 1, NoTerm)
             /\ log' = [log EXCEPT ![n] = l]
             /\ commitIndex' = [commitIndex EXCEPT ![n] =
                  IF m.leaderCommit > @ THEN Min({m.leaderCommit, Len(l)}) ELSE @]
    <3>1. appReqs' \subseteq AppReq /\ appReps' \subseteq AppRep
      BY <1>1, <2>4, TypeAppendReply
    <3>2. l \in Seq(Entry)
      <4>1. prev \in 0..Len(log[n])
        BY <1>1, <1>2, <2>4
      <4> QED
        BY <1>1, <1>2, <4>1, SpliceLog DEF Log
    <3>3. Min({m.leaderCommit, Len(l)}) \in Nat
      <4>1. {m.leaderCommit, Len(l)} \in SUBSET Nat
        BY <1>1, <3>2
      <4> QED
        BY <4>1, LeastNat
    <3>4. log' \in [Server -> Seq(Entry)] /\ commitIndex' \in [Server -> Nat]
      <4> HIDE DEF l
      <4> QED
        BY <1>1, <2>4, <3>2, <3>3 DEF TypeOK
    <3> QED
      BY <2>1, <3>1, <3>4 DEF TypeOK, AppendEntries, leaderVars, voteRPCs, processVars
  <2>5. ~ (m.term < currentTerm[n])
    BY <1>1, <1>2, <1>4
  <2> QED
    BY <2>2, <2>3, <2>4, <2>5 DEF AppendEntries, Clashes
<1> QED
  BY <1>3, <1>4 DEF AppendEntries

LEMMA TypeReceiveAppend ==
  ASSUME TypeOK, NEW m \in appReps, ReceiveAppend(m)
  PROVE  TypeOK'
<1> DEFINE n     == m.dst
           p     == m.src
           acked == Acked(matchIndex[n][p], m.prevIdx, m.sent)
           match == [matchIndex[n] EXCEPT ![p] = acked]
<1>1. /\ p \in Server /\ n \in Server /\ m.term \in Nat /\ m.prevIdx \in Nat
      /\ m.sent \in Nat /\ m.conflictIdx \in Nat /\ m.conflictTerm \in Int
  BY DEF TypeOK, AppRep
<1>2. /\ log[n] \in Seq(Entry) /\ commitIndex[n] \in Nat /\ currentTerm[n] \in Nat
      /\ matchIndex[n] \in [Server -> Nat]
  BY <1>1 DEF TypeOK
<1>3. acked \in Nat
  BY <1>1, <1>2, AckedType
<1>4. CASE StepDown(n, m.term, Nil) /\ UNCHANGED <<logVars, leaderVars>>
  BY <1>1, <1>4, TypeStepDown
  DEF TypeOK, ReceiveAppend, logVars, leaderVars, voteRPCs, processVars, history
<1>5. CASE UNCHANGED <<currentTerm, votedFor, role, leaderId, logVars, leaderVars>>
  BY <1>5
  DEF TypeOK, ReceiveAppend, logVars, leaderVars, voteRPCs, processVars, history
<1>6. CASE /\ matchIndex'  = [matchIndex EXCEPT ![n] = match]
           /\ nextIndex'   = [nextIndex EXCEPT ![n][p] = acked + 1]
           /\ commitIndex' = [commitIndex EXCEPT ![n] =
                AdvanceCommit(log[n], currentTerm[n], match, @)]
           /\ UNCHANGED <<currentTerm, votedFor, role, leaderId, log>>
  <2> HIDE DEF acked
  <2>1. match \in [Server -> Nat]
    BY <1>1, <1>2, <1>3
  <2>2. AdvanceCommit(log[n], currentTerm[n], match, commitIndex[n]) \in Nat
    <3> HIDE DEF match
    <3> QED
      BY <1>2, <2>1, AdvanceCommitType DEF Log
  <2>3. /\ matchIndex' \in [Server -> [Server -> Nat]]
        /\ nextIndex' \in [Server -> [Server -> Nat \ {0}]]
        /\ commitIndex' \in [Server -> Nat]
    <3> HIDE DEF match
    <3>1. matchIndex' \in [Server -> [Server -> Nat]]
      BY <1>1, <1>6, <2>1 DEF TypeOK
    <3>2. nextIndex' \in [Server -> [Server -> Nat \ {0}]]
      <4>1. acked + 1 \in Nat \ {0}
        BY <1>3
      <4> QED
        BY <1>1, <1>6, <4>1 DEF TypeOK
    <3>3. commitIndex' \in [Server -> Nat]
      BY <1>1, <1>6, <2>2 DEF TypeOK
    <3> QED
      BY <3>1, <3>2, <3>3
  <2> QED
    BY <1>6, <2>3 DEF TypeOK, ReceiveAppend, voteRPCs, processVars, history
<1>7. CASE /\ nextIndex' = [nextIndex EXCEPT ![n][p] =
                Backtrack(log[n], m.conflictIdx, m.conflictTerm)]
           /\ UNCHANGED <<currentTerm, votedFor, role, leaderId, logVars, matchIndex>>
  <2>1. Backtrack(log[n], m.conflictIdx, m.conflictTerm) \in Nat \ {0}
    BY <1>1, <1>2, BacktrackType DEF Log
  <2>2. nextIndex' \in [Server -> [Server -> Nat \ {0}]]
    BY <1>1, <1>7, <2>1 DEF TypeOK
  <2> QED
    BY <1>7, <2>2
    DEF TypeOK, ReceiveAppend, logVars, voteRPCs, processVars, history
<1> QED
  BY <1>4, <1>5, <1>6, <1>7 DEF ReceiveAppend

\* A process starts from its snapshot or afresh, and without faults from its
\* snapshot.
LEMMA RestoredTypes ==
  ASSUME TypeOK, NEW n \in Server
  PROVE  /\ Restored(n) \subseteq Snapshots
         /\ \A s \in Restored(n) : s = disk[n] \/ s = FreshState
<1>1. disk[n] \in Snapshots
  BY DEF TypeOK
<1>2. FreshState \in Snapshots
  BY EmptySeq DEF FreshState, Snapshots
<1>3. \A s \in Restored(n) : s = disk[n] \/ s = FreshState
  BY DEF Restored
<1> QED
  BY <1>1, <1>2, <1>3

LEMMA TypeProcess ==
  ASSUME TypeOK, NEW n \in Server, Shutdown(n) \/ Crash(n) \/ Make(n)
  PROVE  TypeOK'
<1>1. CASE Shutdown(n)
  <2>1. Snapshot(n) \in Snapshots
    BY DEF TypeOK, Snapshot, Snapshots
  <2>2. disk' \in [Server -> Snapshots] /\ role' \in [Server -> Role]
    BY <1>1, <2>1 DEF TypeOK, Shutdown, Role
  <2> QED
    BY <1>1, <2>2
    DEF TypeOK, Shutdown, logVars, leaderVars, voteRPCs, appRPCs, history
<1>2. CASE Crash(n)
  BY <1>2
  DEF TypeOK, Crash, electionVars, logVars, leaderVars, voteRPCs, appRPCs, history
<1>3. CASE Make(n)
  <2>1. PICK s \in Restored(n) :
          /\ currentTerm' = [currentTerm EXCEPT ![n] = s.term]
          /\ votedFor' = [votedFor EXCEPT ![n] = s.votedFor]
          /\ log' = [log EXCEPT ![n] = s.log]
          /\ commitIndex' = [commitIndex EXCEPT ![n] = s.commit]
    BY <1>3 DEF Make
  <2>2. /\ s.term \in Nat /\ s.votedFor \in Server \cup {Nil}
        /\ s.log \in Seq(Entry) /\ s.commit \in Nat
    BY <2>1, RestoredTypes DEF Snapshots
  <2>3. /\ currentTerm' \in [Server -> Nat]
        /\ votedFor' \in [Server -> Server \cup {Nil}]
        /\ log' \in [Server -> Seq(Entry)]
        /\ commitIndex' \in [Server -> Nat]
    BY <2>1, <2>2 DEF TypeOK
  <2>4. /\ [p \in Server |-> 1] \in [Server -> Nat \ {0}]
        /\ [p \in Server |-> 0] \in [Server -> Nat]
    OBVIOUS
  <2>5. /\ nextIndex' \in [Server -> [Server -> Nat \ {0}]]
        /\ matchIndex' \in [Server -> [Server -> Nat]]
    BY <1>3, <2>4 DEF TypeOK, Make
  <2>6. /\ role' \in [Server -> Role]
        /\ leaderId' \in [Server -> Server \cup {Nil}]
        /\ votes' \in [Server -> SUBSET Server]
        /\ up' \in [Server -> BOOLEAN]
        /\ boots' \in [Server -> Nat]
    BY <1>3 DEF TypeOK, Make, Role
  <2> QED
    BY <1>3, <2>3, <2>5, <2>6 DEF TypeOK, Make, voteRPCs, appRPCs, history
<1> QED
  BY <1>1, <1>2, <1>3

LEMMA TypeStep ==
  ASSUME TypeOK, [Next]_vars
  PROVE  TypeOK'
<1>1. CASE UNCHANGED vars
  BY <1>1 DEF TypeOK, vars, electionVars, logVars, leaderVars, voteRPCs, appRPCs,
              processVars, history
<1>2. ASSUME NEW m \in appReqs \cup appReps, CallFails(m) PROVE TypeOK'
  BY <1>2 DEF TypeOK, CallFails, electionVars, logVars, leaderVars, voteRPCs,
              processVars, history
<1> QED
  BY <1>1, <1>2, TypeElectionTimeout, TypeRequestVote, TypeReceiveVote, TypeStart,
     TypeReplicateToPeer, TypeAppendEntries, TypeReceiveAppend, TypeProcess
  DEF Next

\* Every reachable state of every cluster is well typed: in particular every
\* position computed by the fast backtrack, the append loop and the commit
\* rule is a position, so no index of the code runs out of its log on the
\* low side.
THEOREM TypeCorrect == Spec => []TypeOK
<1>1. Init => TypeOK
  BY TypeInit
<1>2. TypeOK /\ [Next]_vars => TypeOK'
  BY TypeStep
<1> QED
  BY <1>1, <1>2, PTL DEF Spec

-----------------------------------------------------------------------------
(* A cluster of one node.                                                  *)

\* It calls nobody, and whatever it starts again from, it knows to be
\* committed no more than it has: what its next entry commits is everything.
SoloInv ==
  Cardinality(Server) = 1 =>
    /\ voteReqs = {} /\ voteReps = {} /\ appReqs = {} /\ appReps = {}
    /\ \A n \in Server : /\ commitIndex[n] <= Len(log[n])
                         /\ disk[n].commit <= Len(disk[n].log)
                         /\ role[n] = "leader" => commitIndex[n] = Len(log[n])

\* The node's own acknowledgement of an entry of its term is a majority.
LEMMA SoloAdvance ==
  ASSUME NEW n \in Server, Cardinality(Server) = 1, NEW l \in Log, NEW x \in Entry,
         NEW match \in [Server -> Nat], match[n] = Len(l) + 1,
         NEW c \in Nat, c <= Len(l)
  PROVE  AdvanceCommit(Append(l, x), x.term, match, c) = Len(Append(l, x))
<1> DEFINE f         == Append(l, x)
           e         == Len(l) + 1
           Ackers(k) == {p \in Server : match[p] >= k}
           held      == {k \in (c + 1)..Len(f) :
                           f[k].term = x.term /\ Cardinality(Ackers(k)) >= Majority}
<1>1. Len(l) \in Nat /\ Len(f) = e /\ f[e] = x
  BY AppendProperties DEF Log
<1>2. Majority = 1
  BY DEF Majority
<1>3. Ackers(e) = Server
  <2>1. Server = {n}
    <3>1. PICK q : Server = {q}
      BY RaftLogAssumption, FS_Singleton
    <3> QED
      BY <3>1
  <2> QED
    BY <1>1, <2>1
<1>4. AdvanceCommit(f, x.term, match, c) = IF held = {} THEN c ELSE Max(held)
  BY DEF AdvanceCommit, CommitOf
<1> HIDE DEF f, Ackers
<1>5. e \in held
  <2>1. Cardinality(Ackers(e)) >= Majority
    BY <1>2, <1>3
  <2>2. e \in (c + 1)..Len(f) /\ f[e].term = x.term
    BY <1>1
  <2> HIDE DEF e
  <2> QED
    BY <2>1, <2>2
<1>6. held \in SUBSET Nat /\ \A k \in held : k <= e
  BY <1>1
<1> HIDE DEF held
<1>7. e \in Nat
  BY <1>1
<1> HIDE DEF e
<1>8. Max(held) \in held /\ \A k \in held : k <= Max(held)
  BY <1>5, <1>6, <1>7, GreatestNat
<1>9. Max(held) <= e /\ e <= Max(held) /\ Max(held) \in Nat
  BY <1>5, <1>6, <1>8
<1>10. AdvanceCommit(f, x.term, match, c) = e
  BY <1>4, <1>5, <1>7, <1>9
<1> QED
  BY <1>1, <1>10 DEF f

\* The one node becomes the leader.
LEMMA SoloBecomeLeader ==
  ASSUME TypeOK, NEW n \in Server, Cardinality(Server) = 1, NEW t \in Nat, BecomeLeader(n, t),
         commitIndex[n] <= Len(log[n])
  PROVE  commitIndex'[n] = Len(log'[n])
<1> DEFINE x == [term |-> t, cmd |-> NoOp]
           l == Append(log[n], x)
           m == [p \in Server |-> IF p = n THEN Len(l) ELSE 0]
<1>1. /\ log' = [log EXCEPT ![n] = l]
      /\ commitIndex' = [commitIndex EXCEPT ![n] = AdvanceCommit(l, t, m, @)]
  BY DEF BecomeLeader
<1>2. log'[n] = l /\ commitIndex'[n] = AdvanceCommit(l, t, m, commitIndex[n])
  <2>1. log \in [Server -> Log] /\ commitIndex \in [Server -> Nat]
    BY DEF TypeOK, Log
  <2> HIDE DEF l, m
  <2> QED
    BY <1>1, <2>1
<1>3. log[n] \in Log /\ commitIndex[n] \in Nat /\ x \in Entry /\ x.term = t
  BY DEF TypeOK, Log, Entry
<1>4. Len(l) = Len(log[n]) + 1 /\ Len(log[n]) \in Nat
  BY <1>3, AppendProperties DEF Log
<1>5. m \in [Server -> Nat] /\ m[n] = Len(log[n]) + 1
  <2> HIDE DEF l
  <2> QED
    BY <1>4
<1> HIDE DEF m, x
<1>6. AdvanceCommit(l, t, m, commitIndex[n]) = Len(l)
  BY <1>3, <1>5, SoloAdvance
<1> QED
  BY <1>2, <1>6

LEMMA SoloInit == Init => SoloInv
<1> SUFFICES ASSUME Init PROVE SoloInv
  OBVIOUS
<1>1. /\ voteReqs = {} /\ voteReps = {} /\ appReqs = {} /\ appReps = {}
      /\ \A n \in Server : /\ commitIndex[n] = 0 /\ log[n] = <<>> /\ role[n] = "follower"
                           /\ disk[n].commit = 0 /\ disk[n].log = <<>>
  BY DEF Init, FreshState
<1> QED
  BY <1>1 DEF SoloInv

LEMMA SoloStep ==
  ASSUME TypeOK, TypeOK', SoloInv, [Next]_vars
  PROVE  SoloInv'
<1> SUFFICES ASSUME Cardinality(Server) = 1
             PROVE  /\ (voteReqs = {} /\ voteReps = {} /\ appReqs = {} /\ appReps = {})'
                    /\ \A n \in Server : /\ commitIndex'[n] <= Len(log'[n])
                                         /\ disk'[n].commit <= Len(disk'[n].log)
                                         /\ role'[n] = "leader" => commitIndex'[n] = Len(log'[n])
  BY DEF SoloInv
<1>1. /\ voteReqs = {} /\ voteReps = {} /\ appReqs = {} /\ appReps = {}
      /\ \A n \in Server : /\ commitIndex[n] <= Len(log[n])
                           /\ disk[n].commit <= Len(disk[n].log)
                           /\ role[n] = "leader" => commitIndex[n] = Len(log[n])
  BY DEF SoloInv
<1>2. PICK n : Server = {n}
  BY RaftLogAssumption, FS_Singleton
<1>3. n \in Server /\ \A p \in Server : p = n
  BY <1>2
<1>4. /\ log[n] \in Log /\ Len(log[n]) \in Nat /\ commitIndex[n] \in Nat
      /\ currentTerm[n] \in Nat /\ Majority = 1
      /\ log \in [Server -> Log] /\ commitIndex \in [Server -> Nat]
      /\ role \in [Server -> Role] /\ disk \in [Server -> Snapshots]
      /\ matchIndex[n] \in [Server -> Nat]
  <2>1. /\ log \in [Server -> Log] /\ commitIndex \in [Server -> Nat]
        /\ role \in [Server -> Role] /\ disk \in [Server -> Snapshots]
    BY DEF TypeOK, Log
  <2>4. currentTerm[n] \in Nat /\ matchIndex[n] \in [Server -> Nat]
    BY <1>3 DEF TypeOK
  <2>2. log[n] \in Log /\ Len(log[n]) \in Nat /\ commitIndex[n] \in Nat
    BY <1>3, <2>1 DEF Log
  <2>3. Majority = 1
    BY DEF Majority
  <2> QED
    BY <2>1, <2>2, <2>3, <2>4
<1>5. SUFFICES /\ (voteReqs = {} /\ voteReps = {} /\ appReqs = {} /\ appReps = {})'
               /\ commitIndex'[n] <= Len(log'[n])
               /\ disk'[n].commit <= Len(disk'[n].log)
               /\ role'[n] = "leader" => commitIndex'[n] = Len(log'[n])
  BY <1>3
<1>6. CASE UNCHANGED <<log, commitIndex, role, disk, voteRPCs, appRPCs>>
  BY <1>1, <1>3, <1>6 DEF voteRPCs, appRPCs
<1>7. CASE ElectionTimeout(n)
  <2>1. /\ BecomeLeader(n, currentTerm[n] + 1)
        /\ voteReqs' = {} /\ UNCHANGED <<voteReps, appReqs, appReps, disk>>
    BY <1>1, <1>2, <1>4, <1>7 DEF ElectionTimeout, appRPCs, processVars
  <2>2. commitIndex'[n] = Len(log'[n])
    BY <1>1, <1>3, <1>4, <2>1, SoloBecomeLeader, currentTerm[n] + 1 \in Nat
  <2>3. commitIndex'[n] \in Nat
    BY <1>3 DEF TypeOK
  <2> QED
    BY <1>1, <1>3, <2>1, <2>2, <2>3
<1>8. ASSUME NEW cmd \in Cmd, Start(n, cmd)
      PROVE  /\ commitIndex'[n] = Len(log'[n])
             /\ UNCHANGED <<voteReqs, voteReps, appReqs, appReps, disk>>
  <2> DEFINE x == [term |-> currentTerm[n], cmd |-> cmd]
             l == Append(log[n], x)
             m == [matchIndex[n] EXCEPT ![n] = Len(l)]
  <2>1. /\ role[n] = "leader" /\ log' = [log EXCEPT ![n] = l]
        /\ commitIndex' = [commitIndex EXCEPT ![n] = AdvanceCommit(l, currentTerm[n], m, @)]
        /\ UNCHANGED <<voteReqs, voteReps, appReqs, appReps, disk>>
    BY <1>8 DEF Start, voteRPCs, appRPCs, processVars
  <2>2. x \in Entry /\ x.term = currentTerm[n]
    BY <1>4 DEF Entry
  <2>3. Len(l) = Len(log[n]) + 1
    BY <1>4, <2>2, AppendProperties DEF Log
  <2>4. m \in [Server -> Nat] /\ m[n] = Len(log[n]) + 1
    <3> HIDE DEF l
    <3> QED
      BY <1>3, <1>4, <2>3
  <2> HIDE DEF x, m
  <2>5. AdvanceCommit(l, currentTerm[n], m, commitIndex[n]) = Len(l)
    BY <1>1, <1>3, <1>4, <2>2, <2>4, SoloAdvance
  <2> HIDE DEF l
  <2>6. log'[n] = l /\ commitIndex'[n] = AdvanceCommit(l, currentTerm[n], m, commitIndex[n])
    BY <1>3, <1>4, <2>1
  <2> QED
    BY <2>1, <2>5, <2>6
<1>9. CASE Shutdown(n)
  <2>1. /\ UNCHANGED <<log, commitIndex, voteReqs, voteReps, appReqs, appReps>>
        /\ role' = [role EXCEPT ![n] = IF @ = "leader" THEN "follower" ELSE @]
        /\ disk' = [disk EXCEPT ![n] = Snapshot(n)] \/ UNCHANGED disk
    BY <1>9 DEF Shutdown, logVars, voteRPCs, appRPCs
  <2>2. role'[n] # "leader" /\ (disk'[n] = Snapshot(n) \/ disk'[n] = disk[n])
    BY <1>3, <1>4, <2>1
  <2>3. Snapshot(n).commit = commitIndex[n] /\ Snapshot(n).log = log[n]
    BY DEF Snapshot
  <2> QED
    BY <1>1, <1>3, <2>1, <2>2, <2>3
<1>10. CASE Make(n)
  <2>1. /\ role' = [role EXCEPT ![n] = "follower"]
        /\ UNCHANGED <<disk, voteReqs, voteReps, appReqs, appReps>>
    BY <1>10 DEF Make, voteRPCs, appRPCs
  <2>2. PICK s \in Restored(n) : /\ log' = [log EXCEPT ![n] = s.log]
                                 /\ commitIndex' = [commitIndex EXCEPT ![n] = s.commit]
    BY <1>10 DEF Make
  <2>3. s = disk[n] \/ (s.log = <<>> /\ s.commit = 0)
    BY <1>3, <2>2, RestoredTypes DEF FreshState
  <2>4. s.commit <= Len(s.log)
    BY <1>1, <1>3, <2>3
  <2> QED
    BY <1>1, <1>3, <1>4, <2>1, <2>2, <2>4
<1>11. CASE Crash(n)
  BY <1>6, <1>11 DEF Crash, logVars, electionVars
<1>12. ASSUME NEW p \in Server PROVE ~ ReplicateToPeer(n, p)
  BY <1>3 DEF ReplicateToPeer
<1>13. CASE UNCHANGED vars
  BY <1>6, <1>13 DEF vars, logVars, electionVars, processVars
<1>14. CASE \E cmd \in Cmd : Start(n, cmd)
  <2>1. commitIndex'[n] \in Nat
    BY <1>3 DEF TypeOK
  <2> QED
    BY <1>1, <1>3, <1>8, <1>14, <2>1
<1> QED
  BY <1>1, <1>3, <1>7, <1>9, <1>10, <1>11, <1>12, <1>13, <1>14 DEF Next

\* In a cluster of one node everything the leader has is committed: the no-op
\* of its election and every command at once, through kills, failed snapshots
\* and restarts from old ones.  The node counts itself, so no reply is needed
\* to try again (Majority is 1).
THEOREM SoloAlwaysCommits == Spec => []SoloCommits
<1>1. Init => TypeOK /\ SoloInv
  BY TypeInit, SoloInit
<1>2. TypeOK /\ SoloInv /\ [Next]_vars => (TypeOK /\ SoloInv)'
  BY TypeStep, SoloStep
<1>3. SoloInv => SoloCommits
  BY DEF SoloInv, SoloCommits
<1> QED
  BY <1>1, <1>2, <1>3, PTL DEF Spec

-----------------------------------------------------------------------------
(* One leader per term, for every cluster: the argument of the code's      *)
(* comments (one vote per term, kept over restarts; two majorities meet),  *)
(* from the assumption it silently makes.  Under the faults the code does  *)
(* not survive the property fails (runs raft_late_vote and raft_crash), so *)
(* they are assumed away here.                                             *)

NoFaults == Faults = {}

\* currentTerm covers every vote a node gave, and within the current term
\* votedFor still records it, unless a leader of that term was heard of:
\* that is where AppendEntries forgets the vote.
VotesRecorded ==
  \A b \in ballots :
    /\ b[2] <= currentTerm[b[1]]
    /\ b[2] = currentTerm[b[1]] => votedFor[b[1]] = b[3] \/ heard[b[1]] = b[2]

\* Only votes that were given are on their way to a candidate.
RepliesGranted ==
  \A r \in voteReps : r.granted => <<r.src, r.election, r.dst>> \in ballots

\* A candidate counts only votes given to it in its current term.
CountedGranted ==
  \A n \in Server : role[n] = "candidate" =>
    \A p \in votes[n] : <<p, currentTerm[n], n>> \in ballots

\* Behind every election won stand the votes of a majority.
ElectedByMajority ==
  \A e \in leaders : \E Q \in SUBSET Server :
    /\ Cardinality(Q) >= Majority
    /\ \A p \in Q : <<p, e[1], e[2]>> \in ballots

\* A node that is down left exactly what it knew behind.
DiskCurrent == \A n \in Server : ~up[n] => disk[n] = Snapshot(n)

ElectionInv ==
  /\ TypeOK
  /\ OneVotePerTerm
  /\ VotesRecorded
  /\ RepliesGranted
  /\ CountedGranted
  /\ ElectedByMajority
  /\ DiskCurrent

-----------------------------------------------------------------------------
LEMMA ElectionInit == Init => ElectionInv
<1> SUFFICES ASSUME Init PROVE ElectionInv
  OBVIOUS
<1>1. TypeOK
  BY TypeInit
<1> QED
  BY <1>1 DEF Init, ElectionInv, OneVotePerTerm, VotesRecorded, RepliesGranted,
              CountedGranted, ElectedByMajority, DiskCurrent

\* Steps that neither vote nor change what a node knows about votes.
LEMMA ElectionUnchanged ==
  ASSUME ElectionInv, TypeOK',
         UNCHANGED <<currentTerm, votedFor, votes, ballots, leaders, heard, voteReps>>,
         \A n \in Server : role'[n] = "candidate" => role[n] = "candidate"
  PROVE  /\ OneVotePerTerm' /\ VotesRecorded' /\ RepliesGranted'
         /\ CountedGranted' /\ ElectedByMajority'
<1>1. OneVotePerTerm' /\ VotesRecorded' /\ RepliesGranted' /\ ElectedByMajority'
  BY DEF ElectionInv, OneVotePerTerm, VotesRecorded, RepliesGranted, ElectedByMajority
<1>2. CountedGranted'
  BY DEF ElectionInv, CountedGranted
<1> QED
  BY <1>1, <1>2

\* Steps of a node that runs leave what is on the disks of those that do not.
LEMMA DiskUnchanged ==
  ASSUME ElectionInv, NEW n \in Server, up[n], UNCHANGED <<up, disk>>,
         \A p \in Server \ {n} :
           /\ currentTerm'[p] = currentTerm[p] /\ votedFor'[p] = votedFor[p]
           /\ log'[p] = log[p] /\ commitIndex'[p] = commitIndex[p]
  PROVE  DiskCurrent'
BY DEF ElectionInv, DiskCurrent, Snapshot

\* Stepping down to a term in which the node has not voted, or has heard of a
\* leader.
LEMMA ElectionStepDown ==
  ASSUME ElectionInv, TypeOK', NEW n \in Server, NEW t \in Nat, NEW p \in Server \cup {Nil},
         StepDown(n, t, p), UNCHANGED <<votes, ballots, leaders>>,
         \/ t > currentTerm[n] /\ UNCHANGED heard
         \/ t >= currentTerm[n] /\ heard' = [heard EXCEPT ![n] = t],
         voteReps' \subseteq voteReps
  PROVE  /\ OneVotePerTerm' /\ VotesRecorded' /\ RepliesGranted'
         /\ CountedGranted' /\ ElectedByMajority'
<1>1. OneVotePerTerm' /\ RepliesGranted' /\ ElectedByMajority'
  BY DEF ElectionInv, OneVotePerTerm, RepliesGranted, ElectedByMajority
<1>2. VotesRecorded'
  <2> SUFFICES ASSUME NEW b \in ballots
               PROVE  /\ b[2] <= currentTerm'[b[1]]
                      /\ b[2] = currentTerm'[b[1]] =>
                           votedFor'[b[1]] = b[3] \/ heard'[b[1]] = b[2]
    BY DEF VotesRecorded
  <2>1. b[1] \in Server /\ b[2] \in Nat /\ b[3] \in Server
    BY DEF ElectionInv, TypeOK
  <2>2. /\ b[2] <= currentTerm[b[1]]
        /\ b[2] = currentTerm[b[1]] => votedFor[b[1]] = b[3] \/ heard[b[1]] = b[2]
    BY DEF ElectionInv, VotesRecorded
  <2>3. currentTerm[n] \in Nat /\ currentTerm[b[1]] \in Nat
    BY <2>1 DEF ElectionInv, TypeOK
  <2>4. CASE b[1] = n
    <3>1. currentTerm'[n] = t
      BY DEF StepDown, ElectionInv, TypeOK
    <3>2. \/ t > currentTerm[n]
          \/ heard'[n] = t /\ t >= currentTerm[n]
      BY DEF ElectionInv, TypeOK
    <3> QED
      BY <2>1, <2>2, <2>3, <2>4, <3>1, <3>2
  <2>5. CASE b[1] # n
    <3>1. currentTerm'[b[1]] = currentTerm[b[1]] /\ votedFor'[b[1]] = votedFor[b[1]]
      BY <2>1, <2>5 DEF StepDown, ElectionInv, TypeOK
    <3>2. heard'[b[1]] = heard[b[1]]
      BY <2>1, <2>5 DEF ElectionInv, TypeOK
    <3> QED
      BY <2>2, <3>1, <3>2
  <2> QED
    BY <2>4, <2>5
<1>3. CountedGranted'
  BY DEF ElectionInv, CountedGranted, StepDown, TypeOK
<1> QED
  BY <1>1, <1>2, <1>3

\* A new leader touches no other node's log.
LEMMA LeaderLog ==
  ASSUME ElectionInv, NEW n \in Server, NEW t \in Nat, BecomeLeader(n, t)
  PROVE  \A p \in Server \ {n} : log'[p] = log[p] /\ commitIndex'[p] = commitIndex[p]
<1>1. PICK l, c : /\ log' = [log EXCEPT ![n] = l]
                  /\ commitIndex' = [commitIndex EXCEPT ![n] = c]
  BY DEF BecomeLeader
<1> QED
  BY <1>1 DEF ElectionInv, TypeOK

\* Winning with the votes of a majority.
LEMMA ElectionWon ==
  ASSUME ElectionInv, NEW n \in Server, NEW t \in Nat, NEW Q \in SUBSET Server,
         Cardinality(Q) >= Majority, \A p \in Q : <<p, t, n>> \in ballots',
         ballots \subseteq ballots', leaders' = leaders \cup {<<t, n>>}
  PROVE  ElectedByMajority'
<1> SUFFICES ASSUME NEW e \in leaders'
             PROVE  \E S \in SUBSET Server :
                      /\ Cardinality(S) >= Majority
                      /\ \A p \in S : <<p, e[1], e[2]>> \in ballots'
  BY DEF ElectedByMajority, Majority
<1>1. CASE e \in leaders
  BY <1>1 DEF ElectionInv, ElectedByMajority
<1>2. CASE e = <<t, n>>
  BY <1>2
<1> QED
  BY <1>1, <1>2

-----------------------------------------------------------------------------
(* The steps.                                                              *)

LEMMA ElectionTimeoutStep ==
  ASSUME ElectionInv, TypeOK', NEW n \in Server, ElectionTimeout(n)
  PROVE  ElectionInv'
<1> DEFINE t == currentTerm[n] + 1
<1>1. currentTerm[n] \in Nat /\ t \in Nat
  BY DEF ElectionInv, TypeOK
<1>2. /\ currentTerm' = [currentTerm EXCEPT ![n] = t]
      /\ votedFor'    = [votedFor EXCEPT ![n] = n]
      /\ votes'       = [votes EXCEPT ![n] = {n}]
      /\ ballots'     = ballots \cup {<<n, t, n>>}
      /\ UNCHANGED <<voteReps, heard, disk, up>> /\ up[n]
  BY DEF ElectionTimeout, processVars
<1>3. \A b \in ballots :
        /\ b[1] \in Server /\ b[2] \in Nat /\ b[3] \in Server
        /\ b[2] <= currentTerm[b[1]]
        /\ b[2] = currentTerm[b[1]] => votedFor[b[1]] = b[3] \/ heard[b[1]] = b[2]
  BY DEF ElectionInv, TypeOK, VotesRecorded
<1>4. OneVotePerTerm'
  <2>1. \A b \in ballots : b[1] = n => b[2] # t
    BY <1>1, <1>3
  <2> HIDE DEF t
  <2> QED
    BY <1>2, <2>1 DEF ElectionInv, OneVotePerTerm
<1>5. VotesRecorded'
  <2> SUFFICES ASSUME NEW b \in ballots'
               PROVE  /\ b[2] <= currentTerm'[b[1]]
                      /\ b[2] = currentTerm'[b[1]] =>
                           votedFor'[b[1]] = b[3] \/ heard'[b[1]] = b[2]
    BY DEF VotesRecorded
  <2>1. CASE b = <<n, t, n>>
    <3>1. currentTerm'[n] = t /\ votedFor'[n] = n
      BY <1>2 DEF ElectionInv, TypeOK
    <3>2. b[1] = n /\ b[2] = t /\ b[3] = n
      BY <2>1
    <3> HIDE DEF t
    <3> QED
      BY <1>1, <3>1, <3>2
  <2>2. CASE b \in ballots /\ b[1] = n
    <3>1. currentTerm'[n] = t
      BY <1>2 DEF ElectionInv, TypeOK
    <3>2. b[2] \in Nat /\ b[2] <= currentTerm[n]
      BY <1>3, <2>2
    <3>3. b[2] < t
      BY <1>1, <3>2
    <3> HIDE DEF t
    <3> QED
      BY <1>1, <2>2, <3>1, <3>2, <3>3
  <2>3. CASE b \in ballots /\ b[1] # n
    BY <1>2, <1>3, <2>3 DEF ElectionInv, TypeOK
  <2> QED
    BY <1>2, <2>1, <2>2, <2>3
<1>6. RepliesGranted'
  BY <1>2 DEF ElectionInv, RepliesGranted
<1>7. CountedGranted'
  <2> SUFFICES ASSUME NEW q \in Server, role'[q] = "candidate", NEW p \in votes'[q]
               PROVE  <<p, currentTerm'[q], q>> \in ballots'
    BY DEF CountedGranted
  <2>1. CASE q = n
    BY <1>2, <2>1 DEF ElectionInv, TypeOK
  <2>2. CASE q # n
    <3>1. role'[q] = role[q]
      <4>1. \/ role' = [role EXCEPT ![n] = "leader"]
            \/ role' = [role EXCEPT ![n] = "candidate"]
        BY DEF ElectionTimeout, BecomeLeader
      <4> QED
        BY <2>2, <4>1 DEF ElectionInv, TypeOK
    <3> QED
      BY <1>2, <2>2, <3>1 DEF ElectionInv, TypeOK, CountedGranted
  <2> QED
    BY <2>1, <2>2
<1>8. ElectedByMajority'
  <2>1. CASE Majority = 1 /\ BecomeLeader(n, t)
    <3>1. Cardinality({n}) >= Majority
      BY <2>1, FS_Singleton
    <3>2. leaders' = leaders \cup {<<t, n>>}
      BY <2>1 DEF BecomeLeader
    <3> QED
      BY <1>1, <1>2, <3>1, <3>2, ElectionWon
  <2>2. CASE UNCHANGED leaders
    BY <1>2, <2>2 DEF ElectionInv, ElectedByMajority
  <2> QED
    BY <2>1, <2>2 DEF ElectionTimeout
<1>9. DiskCurrent'
  <2>1. \A p \in Server \ {n} : log'[p] = log[p] /\ commitIndex'[p] = commitIndex[p]
    <3>1. UNCHANGED <<log, commitIndex>> \/ BecomeLeader(n, t)
      BY DEF ElectionTimeout, logVars
    <3> QED
      BY <1>1, <3>1, LeaderLog
  <2> QED
    BY <1>2, <2>1, DiskUnchanged DEF ElectionInv, TypeOK
<1> QED
  BY <1>4, <1>5, <1>6, <1>7, <1>8, <1>9 DEF ElectionInv

LEMMA RequestVoteStep ==
  ASSUME NoFaults, ElectionInv, TypeOK', NEW m \in voteReqs, RequestVote(m)
  PROVE  ElectionInv'
<1> DEFINE n     == m.dst
           t     == m.term
           newer == t > currentTerm[n]
           vote  == IF newer THEN Nil ELSE votedFor[n]
           grant == /\ t >= currentTerm[n]
                    /\ MayVote(vote, m.src)
                    /\ UpToDate(m.lastIdx, m.lastTerm, log[n])
           ballot == <<n, t, m.src>>
<1>1. m.src \in Server /\ n \in Server /\ t \in Nat
  <2>1. m \in VoteReq
    BY DEF ElectionInv, TypeOK
  <2> QED
    BY <2>1 DEF VoteReq
<1>2. currentTerm[n] \in Nat /\ votedFor[n] \in Server \cup {Nil}
  BY <1>1 DEF ElectionInv, TypeOK
<1>3. /\ currentTerm' = [currentTerm EXCEPT ![n] = IF newer THEN t ELSE @]
      /\ role'        = [role EXCEPT ![n] = IF newer THEN "follower" ELSE @]
      /\ votedFor'    = [votedFor EXCEPT ![n] = IF grant THEN m.src ELSE vote]
      /\ ballots'     = IF grant THEN ballots \cup {ballot} ELSE ballots
      /\ \E r \in {[src |-> n, dst |-> m.src, election |-> t, granted |-> grant,
                   term |-> IF grant THEN t ELSE currentTerm[n], boot |-> m.boot]} :
            voteReps' = voteReps \cup {r}
      /\ up[n] /\ heard[n] # t
  BY DEF RequestVote, NoFaults
<1>4. UNCHANGED <<votes, log, commitIndex, leaders, heard, up, disk>>
  BY DEF RequestVote, logVars, processVars
<1>5. \A b \in ballots :
        /\ b[1] \in Server /\ b[2] \in Nat /\ b[3] \in Server
        /\ b[2] <= currentTerm[b[1]]
        /\ b[2] = currentTerm[b[1]] => votedFor[b[1]] = b[3] \/ heard[b[1]] = b[2]
  BY DEF ElectionInv, TypeOK, VotesRecorded
<1>6. grant => t >= currentTerm[n] /\ vote \in {Nil, m.src}
  BY DEF MayVote
<1>7. Nil \notin Server
  BY RaftLogAssumption
<1> HIDE DEF grant, ballot
<1>8. OneVotePerTerm'
  <2>1. \A b \in ballots : grant /\ b[1] = n /\ b[2] = t => b[3] = m.src
    BY <1>1, <1>2, <1>3, <1>5, <1>6, <1>7
  <2> QED
    BY <1>3, <2>1 DEF ElectionInv, OneVotePerTerm, ballot
<1>9. VotesRecorded'
  <2> SUFFICES ASSUME NEW b \in ballots'
               PROVE  /\ b[2] <= currentTerm'[b[1]]
                      /\ b[2] = currentTerm'[b[1]] =>
                           votedFor'[b[1]] = b[3] \/ heard'[b[1]] = b[2]
    BY DEF VotesRecorded
  <2>1. CASE grant /\ b = ballot
    <3>1. b[1] = n /\ b[2] = t /\ b[3] = m.src
      BY <2>1 DEF ballot
    <3>2. currentTerm'[n] = t /\ votedFor'[n] = m.src
      <4>1. (IF newer THEN t ELSE currentTerm[n]) = t
        BY <1>1, <1>2, <1>6, <2>1
      <4> QED
        BY <1>1, <1>3, <2>1, <4>1 DEF ElectionInv, TypeOK
    <3> QED
      BY <1>1, <3>1, <3>2
  <2>2. CASE b \in ballots /\ b[1] = n
    <3>1. CASE newer
      <4>1. currentTerm'[n] = t
        BY <1>1, <1>3, <3>1 DEF ElectionInv, TypeOK
      <4>2. b[2] \in Nat /\ b[2] < t
        BY <1>1, <1>2, <1>5, <2>2, <3>1
      <4> QED
        BY <1>1, <2>2, <4>1, <4>2
    <3>2. CASE ~newer
      <4>1. currentTerm'[n] = currentTerm[n] /\ heard' = heard
        BY <1>1, <1>3, <1>4, <3>2 DEF ElectionInv, TypeOK
      <4>2. grant /\ votedFor[n] = b[3] => b[3] = m.src
        BY <1>5, <1>6, <1>7, <2>2, <3>2
      <4>3. votedFor[n] = b[3] => votedFor'[n] = b[3]
        BY <1>1, <1>3, <3>2, <4>2 DEF ElectionInv, TypeOK
      <4> QED
        BY <1>5, <2>2, <4>1, <4>3
    <3> QED
      BY <3>1, <3>2
  <2>3. CASE b \in ballots /\ b[1] # n
    BY <1>3, <1>4, <1>5, <2>3 DEF ElectionInv, TypeOK
  <2> QED
    BY <1>3, <2>1, <2>2, <2>3
<1>10. RepliesGranted'
  <2> SUFFICES ASSUME NEW r \in voteReps', r.granted
               PROVE  <<r.src, r.election, r.dst>> \in ballots'
    BY DEF RepliesGranted
  <2>1. CASE r \in voteReps
    BY <1>3, <2>1 DEF ElectionInv, RepliesGranted
  <2>2. CASE r \notin voteReps
    <3>1. r = [src |-> n, dst |-> m.src, election |-> t, granted |-> grant,
               term |-> IF grant THEN t ELSE currentTerm[n], boot |-> m.boot]
      BY <1>3, <2>2
    <3>2. r.src = n /\ r.election = t /\ r.dst = m.src
      BY <3>1
    <3>3. grant
      BY <3>1, Zenon
    <3> QED
      BY <1>3, <3>2, <3>3 DEF ballot
  <2> QED
    BY <2>1, <2>2
<1>11. CountedGranted'
  <2> SUFFICES ASSUME NEW q \in Server, role'[q] = "candidate", NEW p \in votes'[q]
               PROVE  <<p, currentTerm'[q], q>> \in ballots'
    BY DEF CountedGranted
  <2>1. role[q] = "candidate" /\ currentTerm'[q] = currentTerm[q]
    BY <1>1, <1>3 DEF ElectionInv, TypeOK
  <2> QED
    BY <1>3, <1>4, <2>1 DEF ElectionInv, CountedGranted
<1>12. ElectedByMajority'
  BY <1>3, <1>4 DEF ElectionInv, ElectedByMajority
<1>13. DiskCurrent'
  BY <1>1, <1>3, <1>4, DiskUnchanged DEF ElectionInv, TypeOK
<1> QED
  BY <1>8, <1>9, <1>10, <1>11, <1>12, <1>13 DEF ElectionInv

LEMMA ReceiveVoteStep ==
  ASSUME ElectionInv, TypeOK', NEW m \in voteReps, ReceiveVote(m)
  PROVE  ElectionInv'
<1> DEFINE n == m.dst
           Q == votes[n] \cup {m.src}
<1>1. m.src \in Server /\ n \in Server /\ m.term \in Nat
  <2>1. m \in VoteRep
    BY DEF ElectionInv, TypeOK
  <2> QED
    BY <2>1 DEF VoteRep
<1>2. up[n] /\ voteReps' = voteReps \ {m} /\ UNCHANGED <<ballots, heard, up, disk>>
  BY DEF ReceiveVote, processVars
<1>3. CASE /\ m.term > currentTerm[n]
           /\ StepDown(n, m.term, Nil)
           /\ UNCHANGED <<votes, logVars, leaderVars, leaders>>
  <2>1. /\ OneVotePerTerm' /\ VotesRecorded' /\ RepliesGranted'
        /\ CountedGranted' /\ ElectedByMajority'
    BY <1>1, <1>2, <1>3, ElectionStepDown
  <2>2. DiskCurrent'
    BY <1>1, <1>2, <1>3, DiskUnchanged DEF ElectionInv, TypeOK, StepDown, logVars
  <2> QED
    BY <2>1, <2>2 DEF ElectionInv
<1>4. CASE UNCHANGED <<electionVars, logVars, leaderVars, leaders>>
  <2>1. UNCHANGED <<currentTerm, votedFor, role, votes, log, commitIndex, leaders>>
    BY <1>4 DEF electionVars, logVars
  <2>2. DiskCurrent'
    BY <1>1, <1>2, <2>1, DiskUnchanged
  <2> QED
    BY <1>2, <2>1, <2>2
    DEF ElectionInv, OneVotePerTerm, VotesRecorded, RepliesGranted, CountedGranted,
        ElectedByMajority
<1>5. CASE /\ m.granted /\ role[n] = "candidate" /\ currentTerm[n] = m.election
           /\ votes' = [votes EXCEPT ![n] = @ \cup {m.src}]
           /\ IF Cardinality(Q) >= Majority
                THEN BecomeLeader(n, currentTerm[n])
                ELSE UNCHANGED <<role, leaderId, logVars, leaderVars, leaders>>
           /\ UNCHANGED <<currentTerm, votedFor>>
  <2>1. OneVotePerTerm' /\ VotesRecorded' /\ RepliesGranted'
    BY <1>2, <1>5 DEF ElectionInv, OneVotePerTerm, VotesRecorded, RepliesGranted
  <2>2. \A p \in Q : <<p, currentTerm[n], n>> \in ballots
    <3>1. <<m.src, m.election, n>> \in ballots
      BY <1>5 DEF ElectionInv, RepliesGranted
    <3>2. \A p \in votes[n] : <<p, currentTerm[n], n>> \in ballots
      BY <1>1, <1>5 DEF ElectionInv, CountedGranted
    <3> QED
      BY <1>5, <3>1, <3>2
  <2>3. CountedGranted'
    <3> SUFFICES ASSUME NEW q \in Server, role'[q] = "candidate", NEW p \in votes'[q]
                 PROVE  <<p, currentTerm'[q], q>> \in ballots'
      BY DEF CountedGranted
    <3>1. CASE q = n
      BY <1>1, <1>2, <1>5, <2>2, <3>1 DEF ElectionInv, TypeOK
    <3>2. CASE q # n
      <4>1. role'[q] = role[q] /\ votes'[q] = votes[q]
        <5>1. role' = role \/ role' = [role EXCEPT ![n] = "leader"]
          BY <1>5 DEF BecomeLeader
        <5>2. role'[q] = role[q]
          BY <1>1, <3>2, <5>1 DEF ElectionInv, TypeOK
        <5>3. votes' = [votes EXCEPT ![n] = @ \cup {m.src}]
          BY <1>5
        <5>4. votes'[q] = votes[q]
          BY <1>1, <3>2, <5>3 DEF ElectionInv, TypeOK
        <5> QED
          BY <5>2, <5>4
      <4> QED
        BY <1>2, <1>5, <4>1 DEF ElectionInv, CountedGranted
    <3> QED
      BY <3>1, <3>2
  <2>4. ElectedByMajority'
    <3>1. CASE Cardinality(Q) >= Majority
      <4>1. leaders' = leaders \cup {<<currentTerm[n], n>>}
        BY <1>5, <3>1 DEF BecomeLeader
      <4>2. Q \in SUBSET Server /\ currentTerm[n] \in Nat
        BY <1>1 DEF ElectionInv, TypeOK
      <4> HIDE DEF Q
      <4> QED
        BY <1>1, <1>2, <2>2, <3>1, <4>1, <4>2, ElectionWon
    <3>2. CASE ~(Cardinality(Q) >= Majority)
      BY <1>2, <1>5, <3>2 DEF ElectionInv, ElectedByMajority
    <3> QED
      BY <3>1, <3>2
  <2>5. \A p \in Server \ {n} : log'[p] = log[p] /\ commitIndex'[p] = commitIndex[p]
    <3>1. UNCHANGED <<log, commitIndex>> \/ BecomeLeader(n, currentTerm[n])
      BY <1>5 DEF logVars
    <3>2. currentTerm[n] \in Nat
      BY <1>1 DEF ElectionInv, TypeOK
    <3> QED
      BY <1>1, <3>1, <3>2, LeaderLog
  <2>6. DiskCurrent'
    BY <1>1, <1>2, <1>5, <2>5, DiskUnchanged
  <2> QED
    BY <2>1, <2>3, <2>4, <2>6 DEF ElectionInv
<1> QED
  BY <1>3, <1>4, <1>5 DEF ReceiveVote

\* The steps that move log entries and heartbeats.
LEMMA ReplicationStep ==
  ASSUME ElectionInv, TypeOK',
         \/ \E n \in Server, cmd \in Cmd : Start(n, cmd)
         \/ \E n, p \in Server : ReplicateToPeer(n, p)
         \/ \E m \in appReqs : AppendEntries(m)
         \/ \E m \in appReps : ReceiveAppend(m)
         \/ \E m \in appReqs \cup appReps : CallFails(m)
  PROVE  ElectionInv'
<1>1. ASSUME NEW n \in Server, NEW cmd \in Cmd, Start(n, cmd) PROVE ElectionInv'
  <2>1. UNCHANGED <<currentTerm, votedFor, role, votes, ballots, leaders, heard, voteReps,
                    up, disk>> /\ up[n]
    BY <1>1 DEF Start, electionVars, voteRPCs, processVars, history
  <2>2. DiskCurrent'
    BY <1>1, <2>1, DiskUnchanged DEF Start, ElectionInv, TypeOK
  <2> QED
    BY <2>1, <2>2, ElectionUnchanged DEF ElectionInv
<1>2. ASSUME NEW n \in Server, NEW p \in Server, ReplicateToPeer(n, p) PROVE ElectionInv'
  <2>1. UNCHANGED <<currentTerm, votedFor, role, votes, ballots, leaders, heard, voteReps,
                    up, disk, log, commitIndex>> /\ up[n]
    BY <1>2 DEF ReplicateToPeer, electionVars, logVars, voteRPCs, processVars, history
  <2>2. DiskCurrent'
    BY <2>1, DiskUnchanged
  <2> QED
    BY <2>1, <2>2, ElectionUnchanged DEF ElectionInv
<1>3. ASSUME NEW m \in appReqs \cup appReps, CallFails(m) PROVE ElectionInv'
  <2>1. UNCHANGED <<currentTerm, votedFor, role, votes, ballots, leaders, heard, voteReps,
                    up, disk, log, commitIndex>>
    BY <1>3 DEF CallFails, electionVars, logVars, voteRPCs, processVars, history
  <2>2. DiskCurrent'
    BY <2>1 DEF ElectionInv, DiskCurrent, Snapshot
  <2> QED
    BY <2>1, <2>2, ElectionUnchanged DEF ElectionInv
<1>4. ASSUME NEW m \in appReqs, AppendEntries(m) PROVE ElectionInv'
  <2> DEFINE n == m.dst
  <2>1. m.src \in Server /\ n \in Server /\ m.term \in Nat
    <3>1. m \in AppReq
      BY DEF ElectionInv, TypeOK
    <3> QED
      BY <3>1 DEF AppReq
  <2>2. up[n] /\ UNCHANGED <<voteReps, up, disk, ballots, leaders>>
    BY <1>4 DEF AppendEntries, voteRPCs, processVars
  <2>3. \A p \in Server \ {n} :
          /\ currentTerm'[p] = currentTerm[p] /\ votedFor'[p] = votedFor[p]
          /\ log'[p] = log[p] /\ commitIndex'[p] = commitIndex[p]
    <3>1. \/ UNCHANGED <<currentTerm, votedFor>>
          \/ StepDown(n, m.term, m.src)
      BY <1>4 DEF AppendEntries, electionVars
    <3>2. \/ UNCHANGED <<log, commitIndex>>
          \/ \E l, c : log' = [log EXCEPT ![n] = l] /\ commitIndex' = [commitIndex EXCEPT ![n] = c]
      BY <1>4 DEF AppendEntries, logVars
    <3>3. \A p \in Server \ {n} :
            currentTerm'[p] = currentTerm[p] /\ votedFor'[p] = votedFor[p]
      BY <2>1, <3>1 DEF StepDown, ElectionInv, TypeOK
    <3>4. \A p \in Server \ {n} : log'[p] = log[p] /\ commitIndex'[p] = commitIndex[p]
      BY <2>1, <3>2 DEF ElectionInv, TypeOK
    <3> QED
      BY <3>3, <3>4
  <2>4. DiskCurrent'
    BY <2>1, <2>2, <2>3, DiskUnchanged
  <2>5. CASE UNCHANGED <<electionVars, heard>>
    BY <2>2, <2>4, <2>5, ElectionUnchanged DEF ElectionInv, electionVars
  <2>6. CASE /\ m.term >= currentTerm[n]
             /\ StepDown(n, m.term, m.src)
             /\ heard' = [heard EXCEPT ![n] = m.term]
             /\ UNCHANGED votes
    BY <2>1, <2>2, <2>4, <2>6, ElectionStepDown DEF ElectionInv
  <2> QED
    BY <1>4, <2>5, <2>6 DEF AppendEntries
<1>5. ASSUME NEW m \in appReps, ReceiveAppend(m) PROVE ElectionInv'
  <2> DEFINE n == m.dst
  <2>1. n \in Server /\ m.term \in Nat
    <3>1. m \in AppRep
      BY DEF ElectionInv, TypeOK
    <3> QED
      BY <3>1 DEF AppRep
  <2>2. up[n] /\ UNCHANGED <<voteReps, up, disk, ballots, leaders, heard, votes>>
    BY <1>5 DEF ReceiveAppend, voteRPCs, processVars, history
  <2>3. \A p \in Server \ {n} :
          /\ currentTerm'[p] = currentTerm[p] /\ votedFor'[p] = votedFor[p]
          /\ log'[p] = log[p] /\ commitIndex'[p] = commitIndex[p]
    BY <1>5, <2>1 DEF ReceiveAppend, StepDown, logVars, ElectionInv, TypeOK
  <2>4. DiskCurrent'
    BY <2>1, <2>2, <2>3, DiskUnchanged
  <2>5. CASE UNCHANGED <<currentTerm, votedFor, role>>
    BY <2>2, <2>4, <2>5, ElectionUnchanged DEF ElectionInv
  <2>6. CASE m.term > currentTerm[n] /\ StepDown(n, m.term, Nil)
    BY <2>1, <2>2, <2>4, <2>6, ElectionStepDown DEF ElectionInv
  <2> QED
    BY <1>5, <2>5, <2>6 DEF ReceiveAppend
<1> QED
  BY <1>1, <1>2, <1>3, <1>4, <1>5

\* Without a failing write a restarted node knows what it knew.
LEMMA ProcessStep ==
  ASSUME NoFaults, ElectionInv, TypeOK', NEW n \in Server,
         Shutdown(n) \/ Crash(n) \/ Make(n)
  PROVE  ElectionInv'
<1>1. CASE Shutdown(n)
  <2>1. /\ UNCHANGED <<currentTerm, votedFor, votes, ballots, leaders, heard, voteReps,
                       log, commitIndex>>
        /\ disk' = [disk EXCEPT ![n] = Snapshot(n)]
        /\ up' = [up EXCEPT ![n] = FALSE]
        /\ \A p \in Server : role'[p] = "candidate" => role[p] = "candidate"
    BY <1>1 DEF Shutdown, NoFaults, logVars, voteRPCs, history, ElectionInv, TypeOK
  <2>2. DiskCurrent'
    BY <2>1 DEF ElectionInv, TypeOK, DiskCurrent, Snapshot
  <2> QED
    BY <2>1, <2>2, ElectionUnchanged DEF ElectionInv
<1>2. CASE Crash(n)
  BY <1>2 DEF Crash, NoFaults
<1>3. CASE Make(n)
  <2>1. Restored(n) = {Snapshot(n)}
    BY <1>3 DEF Make, Restored, NoFaults, ElectionInv, DiskCurrent
  <2>2. UNCHANGED <<currentTerm, votedFor, log, commitIndex, ballots, leaders, heard,
                    voteReps, disk>>
    BY <1>3, <2>1 DEF Make, Snapshot, voteRPCs, history, ElectionInv, TypeOK
  <2>3. /\ role' = [role EXCEPT ![n] = "follower"]
        /\ votes' = [votes EXCEPT ![n] = {}]
        /\ up' = [up EXCEPT ![n] = TRUE]
    BY <1>3 DEF Make
  <2>4. OneVotePerTerm' /\ VotesRecorded' /\ RepliesGranted' /\ ElectedByMajority'
    BY <2>2 DEF ElectionInv, OneVotePerTerm, VotesRecorded, RepliesGranted, ElectedByMajority
  <2>5. CountedGranted'
    BY <2>2, <2>3 DEF ElectionInv, CountedGranted, TypeOK
  <2>6. DiskCurrent'
    BY <2>2, <2>3 DEF ElectionInv, DiskCurrent, Snapshot, TypeOK
  <2> QED
    BY <2>4, <2>5, <2>6 DEF ElectionInv
<1> QED
  BY <1>1, <1>2, <1>3

LEMMA ElectionStep ==
  ASSUME NoFaults, ElectionInv, [Next]_vars
  PROVE  ElectionInv'
<1>1. TypeOK'
  BY TypeStep DEF ElectionInv
<1>2. CASE UNCHANGED vars
  BY <1>2
  DEF vars, electionVars, logVars, voteRPCs, processVars, history, leaderVars, appRPCs,
      ElectionInv, TypeOK, OneVotePerTerm, VotesRecorded, RepliesGranted, CountedGranted,
      ElectedByMajority, DiskCurrent, Snapshot
<1> QED
  BY <1>1, <1>2, ElectionTimeoutStep, RequestVoteStep, ReceiveVoteStep, ReplicationStep,
     ProcessStep
  DEF Next

\* Two majorities elected in one term would share a voter.
LEMMA ElectionInvSafe == ElectionInv => ElectionSafety
<1> SUFFICES ASSUME ElectionInv, NEW e \in leaders, NEW f \in leaders, e[1] = f[1]
             PROVE  e[2] = f[2]
  BY DEF ElectionSafety
<1>1. PICK Q \in SUBSET Server :
        Cardinality(Q) >= Majority /\ \A p \in Q : <<p, e[1], e[2]>> \in ballots
  BY DEF ElectionInv, ElectedByMajority
<1>2. PICK R \in SUBSET Server :
        Cardinality(R) >= Majority /\ \A p \in R : <<p, f[1], f[2]>> \in ballots
  BY DEF ElectionInv, ElectedByMajority
<1>3. PICK p \in Q : p \in R
  BY <1>1, <1>2, MajoritiesMeet
<1>4. <<p, e[1], e[2]>> \in ballots /\ <<p, f[1], f[2]>> \in ballots
  BY <1>1, <1>2, <1>3
<1> QED
  BY <1>4 DEF ElectionInv, OneVotePerTerm

\* Each node votes at most once in a term, across stepDown and graceful
\* restarts, in every cluster whose nodes do not crash, whose snapshots get
\* written and in which no vote request outlives its election.
THEOREM VoteOnce == ASSUME NoFaults PROVE Spec => []OneVotePerTerm
<1>1. Init => ElectionInv
  BY ElectionInit
<1>2. ElectionInv /\ [Next]_vars => ElectionInv'
  BY ElectionStep
<1>3. ElectionInv => OneVotePerTerm
  BY DEF ElectionInv
<1> QED
  BY <1>1, <1>2, <1>3, PTL DEF Spec

\* Under the same assumptions no term has two leaders, whatever the size of
\* the cluster.
THEOREM OneLeaderPerTerm == ASSUME NoFaults PROVE Spec => []ElectionSafety
<1>1. Init => ElectionInv
  BY ElectionInit
<1>2. ElectionInv /\ [Next]_vars => ElectionInv'
  BY ElectionStep
<1>3. ElectionInv => ElectionSafety
  BY ElectionInvSafe
<1> QED
  BY <1>1, <1>2, <1>3, PTL DEF Spec
=============================================================================
