--------------------------- MODULE LogOrderProofs ---------------------------
(***************************************************************************)
(* What every node's log keeps to under all faults, for every cluster: its *)
(* terms are in order, a leader never points a follower past its own last  *)
(* entry, and it counts only acknowledgements of its own term's entries.   *)
(* Nothing here is assumed of the environment: processes may crash and     *)
(* forget, snapshots fail, calls be lost, repeated and reordered.          *)
(***************************************************************************)
EXTENDS RaftProofs

\* The terms of log l, all of them terms of some election, do not decrease
\* and do not pass t.
OrderedUpTo(l, t) ==
  \A j, k \in 1..Len(l) :
    j <= k => 1 <= l[j].term /\ l[j].term <= l[k].term /\ l[k].term <= t

\* Only a node that has counted a term up stands for election.
TermStarted == \A n \in Server : role[n] # "follower" => currentTerm[n] >= 1

LogsOrdered  == \A n \in Server : OrderedUpTo(log[n], currentTerm[n])
DisksOrdered == \A n \in Server : OrderedUpTo(disk[n].log, disk[n].term)

\* A call sends a piece of an ordered log and the term of what precedes it.
CallsOrdered ==
  \A m \in appReqs :
    /\ OrderedUpTo(m.entries, m.term)
    /\ \A k \in 1..Len(m.entries) : m.prevTerm <= m.entries[k].term

OrderInv == TypeOK /\ TermStarted /\ LogsOrdered /\ DisksOrdered /\ CallsOrdered

-----------------------------------------------------------------------------
\* The kinds of the variables that the arguments below are about.
LEMMA NodeTypes ==
  ASSUME TypeOK
  PROVE  /\ currentTerm \in [Server -> Nat]
         /\ role \in [Server -> Role]
         /\ boots \in [Server -> Nat]
         /\ log \in [Server -> Log]
         /\ \A p \in Server : Len(log[p]) \in Nat
<1>1. log \in [Server -> Log]
  BY DEF TypeOK, Log
<1>2. \A p \in Server : log[p] \in Log /\ Len(log[p]) \in Nat
  BY <1>1 DEF Log
<1> QED
  BY <1>1, <1>2 DEF TypeOK

-----------------------------------------------------------------------------
(* Lemmas on ordered logs.                                                 *)

LEMMA OrderedLater ==
  ASSUME NEW l \in Log, NEW t \in Nat, NEW u \in Nat, t <= u, OrderedUpTo(l, t)
  PROVE  OrderedUpTo(l, u)
<1> SUFFICES ASSUME NEW j \in 1..Len(l), NEW k \in 1..Len(l), j <= k
             PROVE  1 <= l[j].term /\ l[j].term <= l[k].term /\ l[k].term <= u
  BY DEF OrderedUpTo
<1>1. l[j].term \in Nat /\ l[k].term \in Nat
  BY EntryOfLog DEF Log
<1> QED
  BY <1>1 DEF OrderedUpTo

LEMMA OrderedAppend ==
  ASSUME NEW l \in Log, NEW t \in Nat \ {0}, NEW c \in Cmd \cup {NoOp}, OrderedUpTo(l, t)
  PROVE  OrderedUpTo(Append(l, [term |-> t, cmd |-> c]), t)
<1> DEFINE x == [term |-> t, cmd |-> c]
<1>1. /\ Len(Append(l, x)) = Len(l) + 1
      /\ \A k \in 1..Len(l) : Append(l, x)[k] = l[k]
      /\ Append(l, x)[Len(l) + 1] = x
  BY DEF Log, Entry
<1>2. Len(l) \in Nat /\ \A k \in 1..Len(l) : l[k].term \in Nat
  BY EntryOfLog DEF Log
<1>3. x.term = t
  OBVIOUS
<1> HIDE DEF x
<1> SUFFICES ASSUME NEW j \in 1..(Len(l) + 1), NEW k \in 1..(Len(l) + 1), j <= k
             PROVE  /\ 1 <= Append(l, x)[j].term
                    /\ Append(l, x)[j].term <= Append(l, x)[k].term
                    /\ Append(l, x)[k].term <= t
  BY <1>1 DEF OrderedUpTo, x
<1>4. CASE k \in 1..Len(l)
  BY <1>1, <1>2, <1>4 DEF OrderedUpTo
<1>5. CASE k = Len(l) + 1 /\ j \in 1..Len(l)
  BY <1>1, <1>2, <1>3, <1>5 DEF OrderedUpTo
<1>6. CASE k = Len(l) + 1 /\ j = Len(l) + 1
  BY <1>1, <1>3, <1>6
<1> QED
  BY <1>2, <1>4, <1>5, <1>6

\* What replicateToPeer sends.
LEMMA OrderedBatch ==
  ASSUME NEW l \in Log, NEW t \in Nat, NEW next \in Nat \ {0}, OrderedUpTo(l, t)
  PROVE  /\ OrderedUpTo(Batch(l, next), t)
         /\ \A k \in 1..Len(Batch(l, next)) :
              (IF next - 1 \in 1..Len(l) THEN l[next - 1].term ELSE 0) <= Batch(l, next)[k].term
         /\ next <= Len(l) + 1 => (next - 1) + Len(Batch(l, next)) = Len(l)
<1>1. Len(l) \in Nat /\ \A k \in 1..Len(l) : l[k] \in Entry /\ l[k].term \in Nat
  BY EntryOfLog DEF Log
<1>2. \A k \in next..Len(l) : l[k] \in Entry
  BY <1>1
<1>3. /\ Len(Batch(l, next)) = IF next <= Len(l) THEN Len(l) - next + 1 ELSE 0
      /\ \A k \in 1..(Len(l) - next + 1) : Batch(l, next)[k] = l[next + k - 1]
  BY <1>1, <1>2, SubSeqProperties DEF Batch
<1> DEFINE b == Batch(l, next)
<1>4. /\ Len(b) \in Nat
      /\ \A k \in 1..Len(b) : next + k - 1 \in 1..Len(l) /\ b[k] = l[next + k - 1]
  <2> HIDE DEF b
  <2> QED
    BY <1>1, <1>3 DEF b
<1> HIDE DEF b
<1>5. OrderedUpTo(b, t)
  <2> SUFFICES ASSUME NEW j \in 1..Len(b), NEW k \in 1..Len(b), j <= k
               PROVE  1 <= b[j].term /\ b[j].term <= b[k].term /\ b[k].term <= t
    BY DEF OrderedUpTo
  <2>1. /\ next + j - 1 \in 1..Len(l) /\ next + k - 1 \in 1..Len(l)
        /\ b[j] = l[next + j - 1] /\ b[k] = l[next + k - 1]
        /\ next + j - 1 <= next + k - 1
    BY <1>4
  <2> QED
    BY <2>1 DEF OrderedUpTo
<1>6. \A k \in 1..Len(b) :
         (IF next - 1 \in 1..Len(l) THEN l[next - 1].term ELSE 0) <= b[k].term
  <2> SUFFICES ASSUME NEW k \in 1..Len(b)
               PROVE  (IF next - 1 \in 1..Len(l) THEN l[next - 1].term ELSE 0) <= b[k].term
    OBVIOUS
  <2>1. /\ next + k - 1 \in 1..Len(l) /\ b[k] = l[next + k - 1]
        /\ next - 1 <= next + k - 1
    BY <1>4
  <2> QED
    BY <1>1, <2>1 DEF OrderedUpTo
<1> QED
  BY <1>1, <1>3, <1>5, <1>6 DEF b

\* The append loop of AppendEntries joins two ordered pieces in order, once
\* the consistency check has passed.
LEMMA OrderedSplice ==
  ASSUME NEW l \in Log, NEW prev \in 0..Len(l), NEW es \in Log, NEW prevTerm \in Nat,
         NEW t \in Nat, OrderedUpTo(l, t), OrderedUpTo(es, t),
         \A k \in 1..Len(es) : prevTerm <= es[k].term,
         ~ Clashes(l, prev, prevTerm)
  PROVE  OrderedUpTo(Splice(l, prev, es), t)
<1> DEFINE clash == {i \in 1..Len(es) :
                       prev + i <= Len(l) /\ l[prev + i].term # es[i].term}
           kept  == IF clash = {} THEN Len(l) ELSE prev + Min(clash) - 1
           m     == Max({kept, prev + Len(es)})
           f     == [k \in 1..m |-> IF k <= kept THEN l[k] ELSE es[k - prev]]
<1>1. Splice(l, prev, es) = f
  BY DEF Splice
<1>2. /\ Len(l) \in Nat /\ \A k \in 1..Len(l) : l[k].term \in Nat
      /\ Len(es) \in Nat /\ \A k \in 1..Len(es) : es[k].term \in Nat
  BY EntryOfLog DEF Log
<1>3. /\ kept \in prev..Len(l)
      /\ \A i \in 1..Len(es) : prev + i <= kept => l[prev + i].term = es[i].term
  <2>1. \A i \in 1..Len(es) :
           prev + i <= Len(l) => i \in clash \/ l[prev + i].term = es[i].term
    OBVIOUS
  <2>2. clash \in SUBSET Nat /\ \A i \in clash : i \in 1..Len(es) /\ prev + i <= Len(l)
    OBVIOUS
  <2>3. CASE clash = {}
    <3>1. kept = Len(l)
      BY <2>3
    <3> HIDE DEF kept, clash
    <3> QED
      BY <1>2, <2>1, <2>3, <3>1
  <2>4. CASE clash # {}
    <3>1. Min(clash) \in clash /\ \A i \in clash : Min(clash) <= i
      BY <2>2, <2>4, LeastNat
    <3>2. kept = prev + Min(clash) - 1
      BY <2>4
    <3> DEFINE c == Min(clash)
    <3> HIDE DEF kept, clash, c
    <3>3. c \in 1..Len(es) /\ prev + c <= Len(l) /\ kept = prev + c - 1
      BY <2>2, <3>1, <3>2 DEF c
    <3>4. \A i \in 1..Len(es) : i < c => i \notin clash
      BY <1>2, <3>1, <3>3 DEF c
    <3> QED
      BY <1>2, <2>1, <3>3, <3>4
  <2> QED
    BY <2>3, <2>4
<1>4. m \in Nat /\ m >= kept /\ m >= prev + Len(es) /\ m \in {kept, prev + Len(es)}
  <2>1. kept \in Nat /\ prev + Len(es) \in Nat
    BY <1>2, <1>3
  <2> HIDE DEF kept
  <2> QED
    BY <2>1, GreaterOfTwo
<1>5. Len(f) = m
  BY <1>1, <1>4, SpliceLog DEF Log
<1>6. prev > 0 => l[prev].term = prevTerm
  BY <1>2 DEF Clashes
<1> HIDE DEF kept, m
<1>7. \A k \in 1..m :
         /\ k <= kept => k \in 1..Len(l) /\ f[k] = l[k]
         /\ k > kept  => k - prev \in 1..Len(es) /\ f[k] = es[k - prev]
  BY <1>2, <1>3, <1>4
<1> HIDE DEF f
<1> SUFFICES ASSUME NEW j \in 1..m, NEW k \in 1..m, j <= k
             PROVE  1 <= f[j].term /\ f[j].term <= f[k].term /\ f[k].term <= t
  BY <1>1, <1>5 DEF OrderedUpTo
<1>8. CASE k <= kept
  <2>1. j <= kept
    BY <1>3, <1>4, <1>8
  <2> QED
    BY <1>7, <1>8, <2>1 DEF OrderedUpTo
<1>9. CASE j > kept
  <2>1. k > kept /\ j - prev <= k - prev
    BY <1>3, <1>4, <1>9
  <2> QED
    BY <1>7, <1>9, <2>1 DEF OrderedUpTo
<1>10. CASE k > kept /\ j <= kept
  <2>1. /\ f[j] = l[j] /\ j \in 1..Len(l)
        /\ f[k] = es[k - prev] /\ k - prev \in 1..Len(es)
    BY <1>7, <1>10
  <2>2. 1 <= l[j].term /\ es[k - prev].term <= t
    BY <2>1 DEF OrderedUpTo
  <2>3. l[j].term <= es[k - prev].term
    <3>1. CASE kept = prev
      <4>1. prev \in 1..Len(l) /\ j <= prev /\ prev > 0
        BY <1>2, <1>3, <1>10, <2>1, <3>1
      <4>2. l[j].term <= prevTerm
        BY <1>6, <2>1, <4>1 DEF OrderedUpTo
      <4> QED
        BY <1>2, <2>1, <4>2
    <3>2. CASE kept > prev
      <4>1. kept - prev \in 1..Len(es) /\ kept - prev <= k - prev /\ kept \in 1..Len(l)
        BY <1>2, <1>3, <1>10, <2>1, <3>2
      <4>2. l[kept].term = es[kept - prev].term
        <5>1. prev + (kept - prev) = kept /\ kept <= kept
          BY <1>3
        <5>2. prev + (kept - prev) <= kept =>
                l[prev + (kept - prev)].term = es[kept - prev].term
          BY <1>3, <4>1
        <5> QED
          BY <5>1, <5>2
      <4>3. es[kept - prev].term <= es[k - prev].term
        BY <2>1, <4>1 DEF OrderedUpTo
      <4>4. l[j].term <= l[kept].term
        <5>1. j <= kept /\ j \in 1..Len(l)
          BY <1>10, <2>1, <4>1
        <5> QED
          BY <4>1, <5>1 DEF OrderedUpTo
      <4>5. l[j].term <= es[kept - prev].term
        BY <4>2, <4>4
      <4>6. /\ l[j].term \in Nat /\ es[kept - prev].term \in Nat
            /\ es[k - prev].term \in Nat
        BY <1>2, <2>1, <4>1
      <4> QED
        BY <4>3, <4>5, <4>6
    <3> QED
      BY <1>3, <3>1, <3>2
  <2> QED
    BY <1>2, <2>1, <2>2, <2>3
<1> QED
  BY <1>3, <1>8, <1>9, <1>10

-----------------------------------------------------------------------------
(* Every step keeps the logs in order.                                     *)

LEMMA OrderInit == Init => OrderInv
<1> SUFFICES ASSUME Init PROVE OrderInv
  OBVIOUS
<1>1. TypeOK
  BY TypeInit
<1>2. \A n \in Server : log[n] = <<>> /\ disk[n].log = <<>> /\ role[n] = "follower"
  BY DEF Init, FreshState
<1>3. appReqs = {}
  BY DEF Init
<1> QED
  BY <1>1, <1>2, <1>3
  DEF OrderInv, TermStarted, LogsOrdered, DisksOrdered, CallsOrdered, OrderedUpTo

\* A new leader of term t whose log is ordered up to an earlier term, or t.
LEMMA OrderBecomeLeader ==
  ASSUME TypeOK, LogsOrdered, NEW n \in Server, NEW t \in Nat \ {0}, t >= currentTerm[n],
         BecomeLeader(n, t), currentTerm'[n] = t,
         \A p \in Server \ {n} : currentTerm'[p] = currentTerm[p]
  PROVE  LogsOrdered' /\ (TermStarted => TermStarted')
<1>1. /\ log[n] \in Log /\ currentTerm[n] \in Nat
      /\ log' = [log EXCEPT ![n] = Append(log[n], [term |-> t, cmd |-> NoOp])]
      /\ role' = [role EXCEPT ![n] = "leader"]
  BY DEF TypeOK, Log, BecomeLeader
<1>2. OrderedUpTo(log[n], t)
  BY <1>1, OrderedLater DEF LogsOrdered
<1>3. OrderedUpTo(Append(log[n], [term |-> t, cmd |-> NoOp]), t)
  BY <1>1, <1>2, OrderedAppend
<1>4. LogsOrdered'
  <2> SUFFICES ASSUME NEW p \in Server PROVE OrderedUpTo(log'[p], currentTerm'[p])
    BY DEF LogsOrdered
  <2>1. CASE p = n
    BY <1>1, <1>3, <2>1 DEF TypeOK
  <2>2. CASE p # n
    BY <1>1, <2>2 DEF TypeOK, LogsOrdered
  <2> QED
    BY <2>1, <2>2
<1>5. TermStarted => TermStarted'
  <2>1. \A p \in Server : IF p = n THEN currentTerm'[p] >= 1
                           ELSE role'[p] = role[p] /\ currentTerm'[p] = currentTerm[p]
    BY <1>1, NodeTypes
  <2> QED
    BY <2>1 DEF TermStarted
<1> QED
  BY <1>4, <1>5

\* A node that only learns of a term at least as high as its own.
LEMMA OrderLaterTerm ==
  ASSUME TypeOK, LogsOrdered, TermStarted, UNCHANGED log,
         NEW n \in Server, NEW t \in Nat, t >= currentTerm[n],
         currentTerm' = [currentTerm EXCEPT ![n] = t],
         \A p \in Server : role'[p] # "follower" => role[p] # "follower" \/ (p = n /\ t >= 1)
  PROVE  LogsOrdered' /\ TermStarted'
<1>1. LogsOrdered'
  <2> SUFFICES ASSUME NEW p \in Server PROVE OrderedUpTo(log[p], currentTerm'[p])
    BY DEF LogsOrdered
  <2>1. log[p] \in Log /\ currentTerm[p] \in Nat /\ OrderedUpTo(log[p], currentTerm[p])
    BY NodeTypes DEF LogsOrdered
  <2>2. currentTerm'[p] \in Nat /\ currentTerm[p] <= currentTerm'[p]
    BY <2>1, NodeTypes
  <2> QED
    BY <2>1, <2>2, OrderedLater
<1>2. TermStarted'
  <2> SUFFICES ASSUME NEW p \in Server, role'[p] # "follower" PROVE currentTerm'[p] >= 1
    BY DEF TermStarted
  <2>1. /\ currentTerm[p] \in Nat
        /\ IF p = n THEN currentTerm'[p] = t ELSE currentTerm'[p] = currentTerm[p]
    BY NodeTypes
  <2>2. role[p] # "follower" => currentTerm[p] >= 1
    BY DEF TermStarted
  <2> QED
    BY <2>1, <2>2
<1> QED
  BY <1>1, <1>2

LEMMA OrderElectionTimeout ==
  ASSUME OrderInv, NEW n \in Server, ElectionTimeout(n)
  PROVE  (TermStarted /\ LogsOrdered /\ DisksOrdered /\ CallsOrdered)'
<1> DEFINE t == currentTerm[n] + 1
<1>1. TypeOK /\ LogsOrdered /\ TermStarted /\ DisksOrdered /\ CallsOrdered
  BY DEF OrderInv
<1>2. currentTerm[n] \in Nat /\ t \in Nat \ {0} /\ t >= currentTerm[n]
  BY <1>1 DEF TypeOK
<1>3. currentTerm' = [currentTerm EXCEPT ![n] = t]
  BY DEF ElectionTimeout
<1>4. UNCHANGED <<disk, appReqs>>
  BY DEF ElectionTimeout, processVars, appRPCs
<1>5. DisksOrdered' /\ CallsOrdered'
  BY <1>1, <1>4 DEF DisksOrdered, CallsOrdered
<1>6. CASE BecomeLeader(n, t)
  <2>1. /\ currentTerm'[n] = t
        /\ \A p \in Server \ {n} : currentTerm'[p] = currentTerm[p]
    BY <1>1, <1>3 DEF TypeOK
  <2> HIDE DEF t
  <2> QED
    BY <1>1, <1>2, <1>5, <1>6, <2>1, OrderBecomeLeader
<1>7. CASE /\ role' = [role EXCEPT ![n] = "candidate"]
           /\ UNCHANGED <<logVars, leaderVars, leaders>>
  <2>1. UNCHANGED log /\ \A p \in Server : role'[p] # "follower" => role[p] # "follower" \/ p = n
    BY <1>1, <1>7 DEF TypeOK, logVars
  <2>2. t \in Nat /\ t >= 1
    BY <1>2
  <2> HIDE DEF t
  <2> QED
    BY <1>1, <1>2, <1>3, <1>5, <2>1, <2>2, OrderLaterTerm
<1> QED
  BY <1>6, <1>7 DEF ElectionTimeout

LEMMA OrderRequestVote ==
  ASSUME OrderInv, NEW m \in voteReqs, RequestVote(m)
  PROVE  (TermStarted /\ LogsOrdered /\ DisksOrdered /\ CallsOrdered)'
<1> DEFINE n == m.dst
           t == IF m.term > currentTerm[n] THEN m.term ELSE currentTerm[n]
<1>1. TypeOK /\ LogsOrdered /\ TermStarted /\ DisksOrdered /\ CallsOrdered
  BY DEF OrderInv
<1>2. n \in Server /\ m.term \in Nat /\ currentTerm[n] \in Nat
  BY <1>1 DEF TypeOK, VoteReq
<1>3. t \in Nat /\ t >= currentTerm[n]
  BY <1>2
<1>4. /\ currentTerm' = [currentTerm EXCEPT ![n] = t]
      /\ role' = [role EXCEPT ![n] = IF m.term > currentTerm[n] THEN "follower" ELSE @]
      /\ UNCHANGED <<log, disk, appReqs>>
  BY DEF RequestVote, logVars, processVars, appRPCs
<1>5. \A p \in Server : role'[p] # "follower" => role[p] # "follower"
  BY <1>1, <1>2, <1>4 DEF TypeOK
<1>6. DisksOrdered' /\ CallsOrdered'
  BY <1>1, <1>4 DEF DisksOrdered, CallsOrdered
<1> HIDE DEF t
<1> QED
  BY <1>1, <1>2, <1>3, <1>4, <1>5, <1>6, OrderLaterTerm

\* stepDown to a term that is not below the node's own.
LEMMA OrderStepDown ==
  ASSUME OrderInv, NEW n \in Server, NEW t \in Nat, t >= currentTerm[n],
         NEW p \in Server \cup {Nil}, StepDown(n, t, p), UNCHANGED log
  PROVE  (TermStarted /\ LogsOrdered)'
<1>1. TypeOK /\ LogsOrdered /\ TermStarted
  BY DEF OrderInv
<1>2. currentTerm' = [currentTerm EXCEPT ![n] = t]
  BY DEF StepDown
<1>3. \A q \in Server : role'[q] # "follower" => role[q] # "follower"
  BY <1>1 DEF TypeOK, StepDown
<1> QED
  BY <1>1, <1>2, <1>3, OrderLaterTerm

LEMMA OrderReceiveVote ==
  ASSUME OrderInv, NEW m \in voteReps, ReceiveVote(m)
  PROVE  (TermStarted /\ LogsOrdered /\ DisksOrdered /\ CallsOrdered)'
<1> DEFINE n == m.dst
<1>1. TypeOK /\ LogsOrdered /\ TermStarted /\ DisksOrdered /\ CallsOrdered
  BY DEF OrderInv
<1>2. n \in Server /\ m.term \in Nat /\ currentTerm[n] \in Nat
  BY <1>1 DEF TypeOK, VoteRep
<1>3. DisksOrdered' /\ CallsOrdered'
  BY <1>1 DEF ReceiveVote, processVars, appRPCs, DisksOrdered, CallsOrdered
<1>4. CASE m.term > currentTerm[n] /\ StepDown(n, m.term, Nil) /\ UNCHANGED log
  BY <1>2, <1>3, <1>4, OrderStepDown
<1>5. CASE UNCHANGED <<currentTerm, role, log>>
  BY <1>1, <1>3, <1>5 DEF TermStarted, LogsOrdered
<1>6. CASE role[n] = "candidate" /\ UNCHANGED currentTerm /\ BecomeLeader(n, currentTerm[n])
  <2>1. currentTerm[n] \in Nat \ {0}
    BY <1>1, <1>2, <1>6 DEF TermStarted
  <2> QED
    BY <1>1, <1>2, <1>3, <1>6, <2>1, OrderBecomeLeader
<1> QED
  BY <1>4, <1>5, <1>6 DEF ReceiveVote, logVars, electionVars

LEMMA OrderStart ==
  ASSUME OrderInv, NEW n \in Server, NEW cmd \in Cmd, Start(n, cmd)
  PROVE  (TermStarted /\ LogsOrdered /\ DisksOrdered /\ CallsOrdered)'
<1>1. TypeOK /\ LogsOrdered /\ TermStarted /\ DisksOrdered /\ CallsOrdered
  BY DEF OrderInv
<1>2. UNCHANGED <<currentTerm, role, disk, appReqs>>
  BY DEF Start, electionVars, processVars, appRPCs
<1>3. TermStarted' /\ DisksOrdered' /\ CallsOrdered'
  BY <1>1, <1>2 DEF TermStarted, DisksOrdered, CallsOrdered
<1> DEFINE l == Append(log[n], [term |-> currentTerm[n], cmd |-> cmd])
<1>4. OrderedUpTo(l, currentTerm[n])
  <2>1. log[n] \in Log /\ currentTerm[n] \in Nat \ {0}
    <3>1. role[n] = "leader"
      BY DEF Start
    <3>2. log[n] \in Log /\ currentTerm[n] \in Nat
      BY <1>1 DEF TypeOK, Log
    <3> QED
      BY <1>1, <3>1, <3>2 DEF TermStarted
  <2>2. OrderedUpTo(log[n], currentTerm[n])
    BY <1>1 DEF LogsOrdered
  <2> QED
    BY <2>1, <2>2, OrderedAppend
<1>5. log' = [log EXCEPT ![n] = l]
  BY DEF Start
<1> HIDE DEF l
<1>6. LogsOrdered'
  BY <1>1, <1>2, <1>4, <1>5 DEF TypeOK, LogsOrdered
<1> QED
  BY <1>3, <1>6

LEMMA OrderReplicateToPeer ==
  ASSUME OrderInv, NEW n \in Server, NEW p \in Server, ReplicateToPeer(n, p)
  PROVE  (TermStarted /\ LogsOrdered /\ DisksOrdered /\ CallsOrdered)'
<1>1. TypeOK /\ LogsOrdered /\ TermStarted /\ DisksOrdered /\ CallsOrdered
  BY DEF OrderInv
<1>2. UNCHANGED <<currentTerm, role, log, disk>>
  BY DEF ReplicateToPeer, electionVars, logVars, processVars
<1>3. TermStarted' /\ LogsOrdered' /\ DisksOrdered'
  BY <1>1, <1>2 DEF TermStarted, LogsOrdered, DisksOrdered
<1> DEFINE prev == nextIndex[n][p] - 1
           prevTerm == IF prev \in 1..Len(log[n]) THEN log[n][prev].term ELSE 0
           r == [src |-> n, dst |-> p, term |-> currentTerm[n], prevIdx |-> prev,
                 prevTerm |-> prevTerm, entries |-> Batch(log[n], prev + 1),
                 leaderCommit |-> commitIndex[n], boot |-> boots[n]]
<1>4. appReqs' = appReqs \cup {r}
  BY DEF ReplicateToPeer
<1>5. /\ nextIndex[n][p] \in Nat \ {0} /\ log[n] \in Log /\ currentTerm[n] \in Nat
      /\ prev + 1 = nextIndex[n][p]
  <2>1. nextIndex[n][p] \in Nat \ {0} /\ log[n] \in Log /\ currentTerm[n] \in Nat
    BY <1>1 DEF TypeOK, Log
  <2> QED
    BY <2>1
<1>6. /\ OrderedUpTo(r.entries, r.term)
      /\ \A k \in 1..Len(r.entries) : r.prevTerm <= r.entries[k].term
  <2>1. OrderedUpTo(log[n], currentTerm[n])
    BY <1>1 DEF LogsOrdered
  <2> QED
    BY <1>5, <2>1, OrderedBatch
<1> HIDE DEF r
<1>7. CallsOrdered'
  BY <1>1, <1>4, <1>6 DEF CallsOrdered
<1> QED
  BY <1>3, <1>7

LEMMA OrderAppendEntries ==
  ASSUME OrderInv, NEW m \in appReqs, AppendEntries(m)
  PROVE  (TermStarted /\ LogsOrdered /\ DisksOrdered /\ CallsOrdered)'
<1> DEFINE n    == m.dst
           prev == m.prevIdx
           l    == Splice(log[n], prev, m.entries)
<1>1. TypeOK /\ LogsOrdered /\ TermStarted /\ DisksOrdered /\ CallsOrdered
  BY DEF OrderInv
<1>2. /\ n \in Server /\ m.src \in Server /\ m.term \in Nat /\ prev \in Nat
      /\ m.prevTerm \in Nat /\ m.entries \in Log
  <2>1. m \in AppReq
    BY <1>1 DEF TypeOK
  <2> QED
    BY <2>1 DEF AppReq, Log
<1>3. log[n] \in Log /\ currentTerm[n] \in Nat /\ Len(log[n]) \in Nat
  BY <1>1, <1>2 DEF TypeOK, Log
<1>4. appReqs' \subseteq appReqs /\ UNCHANGED disk
  BY DEF AppendEntries, AppendReply, processVars
<1>5. DisksOrdered' /\ CallsOrdered'
  BY <1>1, <1>4 DEF DisksOrdered, CallsOrdered
<1>6. CASE UNCHANGED <<electionVars, logVars>>
  BY <1>1, <1>5, <1>6 DEF electionVars, logVars, TermStarted, LogsOrdered
<1>7. CASE m.term >= currentTerm[n] /\ StepDown(n, m.term, m.src) /\ UNCHANGED logVars
  BY <1>2, <1>3, <1>5, <1>7, OrderStepDown DEF logVars
<1>8. CASE /\ m.term >= currentTerm[n] /\ StepDown(n, m.term, m.src)
           /\ ~ (prev > Len(log[n])) /\ ~ Clashes(log[n], prev, m.prevTerm)
           /\ log' = [log EXCEPT ![n] = l]
  <2>1. prev \in 0..Len(log[n])
    BY <1>2, <1>3, <1>8
  <2>2. OrderedUpTo(log[n], m.term)
    BY <1>1, <1>2, <1>3, <1>8, OrderedLater DEF LogsOrdered
  <2>3. /\ OrderedUpTo(m.entries, m.term)
        /\ \A k \in 1..Len(m.entries) : m.prevTerm <= m.entries[k].term
    BY <1>1 DEF CallsOrdered
  <2>4. OrderedUpTo(l, m.term)
    BY <1>2, <1>3, <1>8, <2>1, <2>2, <2>3, OrderedSplice
  <2> HIDE DEF l
  <2>5. /\ currentTerm' = [currentTerm EXCEPT ![n] = m.term]
        /\ role' = [role EXCEPT ![n] = "follower"]
    BY <1>8 DEF StepDown
  <2>6. LogsOrdered'
    BY <1>1, <1>2, <1>8, <2>4, <2>5 DEF TypeOK, LogsOrdered
  <2>7. TermStarted'
    BY <1>1, <1>2, <2>5 DEF TypeOK, TermStarted
  <2> QED
    BY <1>5, <2>6, <2>7
<1>9. m.term < currentTerm[n] \/ m.term >= currentTerm[n]
  BY <1>2, <1>3
<1> QED
  BY <1>6, <1>7, <1>8, <1>9 DEF AppendEntries

LEMMA OrderReceiveAppend ==
  ASSUME OrderInv, NEW m \in appReps, ReceiveAppend(m)
  PROVE  (TermStarted /\ LogsOrdered /\ DisksOrdered /\ CallsOrdered)'
<1>1. TypeOK /\ LogsOrdered /\ TermStarted /\ DisksOrdered /\ CallsOrdered
  BY DEF OrderInv
<1>2. m.dst \in Server /\ m.term \in Nat /\ currentTerm[m.dst] \in Nat
  BY <1>1 DEF TypeOK, AppRep
<1>3. DisksOrdered' /\ CallsOrdered'
  BY <1>1 DEF ReceiveAppend, processVars, DisksOrdered, CallsOrdered
<1>4. CASE m.term > currentTerm[m.dst] /\ StepDown(m.dst, m.term, Nil) /\ UNCHANGED log
  BY <1>2, <1>3, <1>4, OrderStepDown
<1>5. CASE UNCHANGED <<currentTerm, role, log>>
  BY <1>1, <1>3, <1>5 DEF TermStarted, LogsOrdered
<1> QED
  BY <1>4, <1>5 DEF ReceiveAppend, logVars

LEMMA OrderProcess ==
  ASSUME OrderInv, NEW n \in Server, Shutdown(n) \/ Crash(n) \/ Make(n)
  PROVE  (TermStarted /\ LogsOrdered /\ DisksOrdered /\ CallsOrdered)'
<1>1. TypeOK /\ LogsOrdered /\ TermStarted /\ DisksOrdered /\ CallsOrdered
  BY DEF OrderInv
<1>2. CallsOrdered'
  BY <1>1 DEF Shutdown, Crash, Make, appRPCs, CallsOrdered
<1>3. \A p \in Server : role'[p] # "follower" => role[p] # "follower" /\ currentTerm'[p] = currentTerm[p]
  <2> SUFFICES ASSUME NEW p \in Server, role'[p] # "follower"
               PROVE  role[p] # "follower" /\ currentTerm'[p] = currentTerm[p]
    OBVIOUS
  <2>1. CASE Shutdown(n)
    BY <1>1, <2>1, NodeTypes DEF Shutdown
  <2>2. CASE Crash(n)
    BY <2>2 DEF Crash, electionVars
  <2>3. CASE Make(n)
    <3>1. p # n
      BY <1>1, <2>3, NodeTypes DEF Make
    <3> QED
      BY <1>1, <2>3, <3>1, NodeTypes DEF Make
  <2> QED
    BY <2>1, <2>2, <2>3
<1>4. TermStarted'
  BY <1>1, <1>3 DEF TermStarted
<1>5. CASE Shutdown(n)
  <2>1. LogsOrdered'
    BY <1>1, <1>5 DEF Shutdown, logVars, LogsOrdered
  <2>2. DisksOrdered'
    <3>1. Snapshot(n).log = log[n] /\ Snapshot(n).term = currentTerm[n]
      BY DEF Snapshot
    <3>2. disk' = [disk EXCEPT ![n] = Snapshot(n)] \/ disk' = disk
      BY <1>5 DEF Shutdown
    <3> QED
      BY <1>1, <3>1, <3>2 DEF TypeOK, LogsOrdered, DisksOrdered
  <2> QED
    BY <1>2, <1>4, <2>1, <2>2
<1>6. CASE Crash(n)
  BY <1>1, <1>2, <1>4, <1>6 DEF Crash, electionVars, logVars, LogsOrdered, DisksOrdered
<1>7. CASE Make(n)
  <2>1. PICK s \in Restored(n) : /\ log' = [log EXCEPT ![n] = s.log]
                                 /\ currentTerm' = [currentTerm EXCEPT ![n] = s.term]
    BY <1>7 DEF Make
  <2>2. s = disk[n] \/ (s.log = <<>> /\ s.term = 0)
    BY <1>1, <2>1, RestoredTypes DEF FreshState
  <2>3. UNCHANGED disk
    BY <1>7 DEF Make
  <2>4. OrderedUpTo(s.log, s.term)
    BY <1>1, <2>2 DEF DisksOrdered, OrderedUpTo
  <2>5. LogsOrdered'
    BY <1>1, <2>1, <2>4 DEF TypeOK, LogsOrdered
  <2> QED
    BY <1>1, <1>2, <1>4, <2>3, <2>5 DEF DisksOrdered
<1> QED
  BY <1>5, <1>6, <1>7

LEMMA OrderStep ==
  ASSUME OrderInv, [Next]_vars
  PROVE  OrderInv'
<1>1. TypeOK'
  BY TypeStep DEF OrderInv
<1>2. CASE UNCHANGED vars
  BY <1>1, <1>2
  DEF OrderInv, TermStarted, LogsOrdered, DisksOrdered, CallsOrdered,
      vars, electionVars, logVars, appRPCs, processVars
<1>3. ASSUME NEW m \in appReqs \cup appReps, CallFails(m)
      PROVE  (TermStarted /\ LogsOrdered /\ DisksOrdered /\ CallsOrdered)'
  BY <1>3 DEF OrderInv, TermStarted, LogsOrdered, DisksOrdered, CallsOrdered, CallFails,
              electionVars, logVars, processVars
<1>4. CASE Next
  <2>1. (TermStarted /\ LogsOrdered /\ DisksOrdered /\ CallsOrdered)'
    BY <1>3, <1>4, OrderElectionTimeout, OrderRequestVote, OrderReceiveVote, OrderStart,
       OrderReplicateToPeer, OrderAppendEntries, OrderReceiveAppend, OrderProcess
    DEF Next
  <2> QED
    BY <1>1, <2>1 DEF OrderInv
<1> QED
  BY <1>2, <1>4

LEMMA OrderAlways == Spec => []OrderInv
<1>1. Init => OrderInv
  BY OrderInit
<1>2. OrderInv /\ [Next]_vars => OrderInv'
  BY OrderStep
<1> QED
  BY <1>1, <1>2, PTL DEF Spec

\* The terms in a log never decrease and never pass the node's own term, for
\* any cluster and whatever happens to processes, files and calls.  The fast
\* backtrack, the up-to-date rule and the shortcut of the consistency check
\* (raft.go:440-449, 392-396, 454-466) all count on it.
THEOREM TermsAreOrdered == Spec => []TermsOrdered
<1>1. OrderInv => TermsOrdered
  <2> SUFFICES ASSUME OrderInv, NEW n \in Server, NEW k \in 1..Len(log[n])
               PROVE  log[n][k].term <=
                        IF k < Len(log[n]) THEN log[n][k + 1].term ELSE currentTerm[n]
    BY DEF TermsOrdered
  <2>1. Len(log[n]) \in Nat /\ OrderedUpTo(log[n], currentTerm[n])
    BY DEF OrderInv, TypeOK, LogsOrdered
  <2> QED
    BY <2>1 DEF OrderedUpTo
<1> QED
  BY <1>1, OrderAlways, PTL

-----------------------------------------------------------------------------
(* A leader stays within its own log.                                      *)

\* Of a call that process boot of node n made in term t, for s entries after
\* position i: a later process does not heed it; the same one either has left
\* that term, or no longer leads, or still has what it sent.
CallInLog(n, boot, t, i, s) ==
  /\ boot <= boots[n]
  /\ boot = boots[n] =>
       /\ t <= currentTerm[n]
       /\ t = currentTerm[n] => /\ role[n] # "candidate"
                                /\ role[n] = "leader" => i + s <= Len(log[n])

CallsInLog ==
  /\ \A m \in appReqs : CallInLog(m.src, m.boot, m.term, m.prevIdx, Len(m.entries))
  /\ \A m \in appReps : CallInLog(m.dst, m.boot, m.round, m.prevIdx, m.sent)

\* A follower answers with a position the leader asked about, or with the first.
ConflictsBehind ==
  \A m \in appReps : m.conflictIdx <= 1 \/ m.conflictIdx <= m.prevIdx

NextInLog ==
  \A n, p \in Server : role[n] = "leader" =>
    nextIndex[n][p] <= Len(log[n]) + 1 /\ matchIndex[n][p] <= Len(log[n])

LeaderInv == OrderInv /\ CallsInLog /\ ConflictsBehind /\ NextInLog /\ PrevEntryKnown

\* What a step may do to a node so that the calls it made stay in its log.
Forward(n) ==
  \/ boots'[n] > boots[n]
  \/ boots'[n] = boots[n] /\ currentTerm'[n] > currentTerm[n]
  \/ /\ boots'[n] = boots[n] /\ currentTerm'[n] = currentTerm[n]
     /\ role'[n] = "candidate" => role[n] = "candidate"
     /\ role'[n] = "leader" => role[n] # "follower" /\ Len(log'[n]) >= Len(log[n])

LEMMA CallKept ==
  ASSUME TypeOK, TypeOK', NEW n \in Server, Forward(n),
         NEW boot \in Nat, NEW t \in Nat, NEW i \in Nat, NEW s \in Nat,
         CallInLog(n, boot, t, i, s)
  PROVE  CallInLog(n, boot, t, i, s)'
<1>1. /\ boots[n] \in Nat /\ boots'[n] \in Nat
      /\ currentTerm[n] \in Nat /\ currentTerm'[n] \in Nat
      /\ Len(log[n]) \in Nat /\ Len(log'[n]) \in Nat
      /\ role[n] \in Role
  <2>1. /\ boots' \in [Server -> Nat] /\ currentTerm' \in [Server -> Nat]
        /\ log' \in [Server -> Seq(Entry)]
    BY DEF TypeOK
  <2> QED
    BY <2>1, NodeTypes
<1>2. CASE boots'[n] > boots[n] \/ (boots'[n] = boots[n] /\ currentTerm'[n] > currentTerm[n])
  BY <1>1, <1>2 DEF CallInLog
<1>3. CASE /\ boots'[n] = boots[n] /\ currentTerm'[n] = currentTerm[n]
           /\ role'[n] = "candidate" => role[n] = "candidate"
           /\ role'[n] = "leader" => role[n] # "follower" /\ Len(log'[n]) >= Len(log[n])
  BY <1>1, <1>3 DEF CallInLog, Role
<1> QED
  BY <1>2, <1>3 DEF Forward

\* A request in flight, and the reply that echoes it.
Echo(r, m) ==
  /\ r.dst = m.src /\ r.boot = m.boot /\ r.round = m.term
  /\ r.prevIdx = m.prevIdx /\ r.sent = Len(m.entries)

LEMMA CallsKept ==
  ASSUME TypeOK, TypeOK', CallsInLog, \A n \in Server : Forward(n),
         appReqs' \subseteq appReqs,
         \A r \in appReps' : r \in appReps \/ \E m \in appReqs : Echo(r, m)
  PROVE  CallsInLog'
<1>1. ASSUME NEW m \in appReqs
      PROVE  CallInLog(m.src, m.boot, m.term, m.prevIdx, Len(m.entries))'
  <2>1. m \in AppReq
    BY DEF TypeOK
  <2>2. /\ m.src \in Server /\ m.boot \in Nat /\ m.term \in Nat /\ m.prevIdx \in Nat
        /\ Len(m.entries) \in Nat
    BY <2>1 DEF AppReq
  <2>3. CallInLog(m.src, m.boot, m.term, m.prevIdx, Len(m.entries))
    BY DEF CallsInLog
  <2> QED
    BY <2>2, <2>3, CallKept
<1>2. ASSUME NEW m \in appReps
      PROVE  CallInLog(m.dst, m.boot, m.round, m.prevIdx, m.sent)'
  <2>1. m \in AppRep
    BY DEF TypeOK
  <2>2. /\ m.dst \in Server /\ m.boot \in Nat /\ m.round \in Nat /\ m.prevIdx \in Nat
        /\ m.sent \in Nat
    BY <2>1 DEF AppRep
  <2>3. CallInLog(m.dst, m.boot, m.round, m.prevIdx, m.sent)
    BY DEF CallsInLog
  <2> QED
    BY <2>2, <2>3, CallKept
<1>3. ASSUME NEW r \in appReps', NEW m \in appReqs, Echo(r, m)
      PROVE  CallInLog(r.dst, r.boot, r.round, r.prevIdx, r.sent)'
  BY <1>1, <1>3 DEF Echo
<1> QED
  BY <1>1, <1>2, <1>3 DEF CallsInLog

\* Steps that leave the calls alone, or drop some.
LEMMA LeaderUnchanged ==
  ASSUME LeaderInv, OrderInv', \A n \in Server : Forward(n),
         appReqs' \subseteq appReqs, appReps' \subseteq appReps
  PROVE  CallsInLog' /\ ConflictsBehind' /\ PrevEntryKnown'
<1>1. TypeOK /\ TypeOK' /\ CallsInLog /\ ConflictsBehind /\ PrevEntryKnown
  BY DEF LeaderInv, OrderInv
<1>2. CallsInLog'
  BY <1>1, CallsKept
<1> QED
  BY <1>1, <1>2 DEF ConflictsBehind, PrevEntryKnown

\* A node whose own log and positions a step leaves alone.
LEMMA NextKept ==
  ASSUME LeaderInv, UNCHANGED <<log, leaderVars>>,
         \A n \in Server : role'[n] = "leader" => role[n] = "leader"
  PROVE  NextInLog'
BY DEF LeaderInv, NextInLog, leaderVars

LEMMA LeaderBecomes ==
  ASSUME LeaderInv, NEW n \in Server, NEW t \in Nat, BecomeLeader(n, t)
  PROVE  /\ NextInLog'
         /\ Len(log'[n]) >= Len(log[n])
         /\ \A p \in Server \ {n} : role'[p] = role[p]
<1> DEFINE l == Append(log[n], [term |-> t, cmd |-> NoOp])
<1>1. TypeOK /\ NextInLog
  BY DEF LeaderInv, OrderInv
<1>2. Len(log[n]) \in Nat /\ Len(l) = Len(log[n]) + 1
  <2>1. log[n] \in Seq(Entry) /\ [term |-> t, cmd |-> NoOp] \in Entry
    BY <1>1 DEF TypeOK, Entry
  <2> QED
    BY <2>1
<1>3. /\ log' = [log EXCEPT ![n] = l]
      /\ role' = [role EXCEPT ![n] = "leader"]
      /\ nextIndex' = [nextIndex EXCEPT ![n] = [p \in Server |-> Len(log[n]) + 1]]
      /\ matchIndex' = [matchIndex EXCEPT ![n] = [p \in Server |-> IF p = n THEN Len(l) ELSE 0]]
  BY DEF BecomeLeader
<1> HIDE DEF l
<1>4. NextInLog'
  <2> SUFFICES ASSUME NEW q \in Server, NEW p \in Server, role'[q] = "leader"
               PROVE  nextIndex'[q][p] <= Len(log'[q]) + 1 /\ matchIndex'[q][p] <= Len(log'[q])
    BY DEF NextInLog
  <2>1. CASE q = n
    <3>1. /\ log'[n] = l /\ nextIndex'[n][p] = Len(log[n]) + 1
          /\ matchIndex'[n][p] = IF p = n THEN Len(l) ELSE 0
      BY <1>1, <1>3 DEF TypeOK
    <3> QED
      BY <1>2, <2>1, <3>1
  <2>2. CASE q # n
    BY <1>1, <1>3, <2>2 DEF TypeOK, NextInLog
  <2> QED
    BY <2>1, <2>2
<1>5. log'[n] = l
  BY <1>1, <1>3 DEF TypeOK
<1> QED
  BY <1>1, <1>2, <1>3, <1>4, <1>5 DEF TypeOK

LEMMA LeaderInit == Init => LeaderInv
<1> SUFFICES ASSUME Init PROVE LeaderInv
  OBVIOUS
<1>1. OrderInv
  BY OrderInit
<1> QED
  BY <1>1 DEF Init, LeaderInv, CallsInLog, ConflictsBehind, NextInLog, PrevEntryKnown

LEMMA LeaderElectionTimeout ==
  ASSUME LeaderInv, OrderInv', NEW n \in Server, ElectionTimeout(n)
  PROVE  CallsInLog' /\ ConflictsBehind' /\ PrevEntryKnown' /\ NextInLog'
<1>1. TypeOK
  BY DEF LeaderInv, OrderInv
<1>2. /\ currentTerm' = [currentTerm EXCEPT ![n] = currentTerm[n] + 1]
      /\ UNCHANGED <<boots, appReqs, appReps>>
  BY DEF ElectionTimeout, processVars, appRPCs
<1>3. currentTerm[n] + 1 \in Nat /\ currentTerm[n] + 1 > currentTerm[n]
  BY <1>1 DEF TypeOK
<1>4. \A p \in Server \ {n} : log'[p] = log[p] /\ role'[p] = role[p] /\ currentTerm'[p] = currentTerm[p]
  BY <1>1, <1>2 DEF TypeOK, ElectionTimeout, BecomeLeader, logVars
<1>5. \A p \in Server : Forward(p)
  <2> SUFFICES ASSUME NEW p \in Server PROVE Forward(p)
    OBVIOUS
  <2>1. CASE p = n
    BY <1>1, <1>2, <1>3, <2>1 DEF TypeOK, Forward
  <2>2. CASE p # n
    <3>1. Len(log[p]) \in Nat /\ role[p] \in Role
      BY <1>1 DEF TypeOK
    <3> QED
      BY <1>2, <1>4, <2>2, <3>1 DEF Forward, Role
  <2> QED
    BY <2>1, <2>2
<1>6. CallsInLog' /\ ConflictsBehind' /\ PrevEntryKnown'
  BY <1>2, <1>5, LeaderUnchanged
<1>7. CASE BecomeLeader(n, currentTerm[n] + 1)
  BY <1>3, <1>6, <1>7, LeaderBecomes
<1>8. CASE role' = [role EXCEPT ![n] = "candidate"] /\ UNCHANGED <<logVars, leaderVars>>
  BY <1>1, <1>6, <1>8, NextKept DEF TypeOK, logVars
<1> QED
  BY <1>7, <1>8 DEF ElectionTimeout

LEMMA LeaderRequestVote ==
  ASSUME LeaderInv, OrderInv', NEW m \in voteReqs, RequestVote(m)
  PROVE  CallsInLog' /\ ConflictsBehind' /\ PrevEntryKnown' /\ NextInLog'
<1> DEFINE n == m.dst
<1>1. TypeOK
  BY DEF LeaderInv, OrderInv
<1>2. n \in Server /\ m.term \in Nat /\ currentTerm[n] \in Nat
  BY <1>1 DEF TypeOK, VoteReq
<1>3. /\ currentTerm' = [currentTerm EXCEPT ![n] = IF m.term > currentTerm[n] THEN m.term ELSE @]
      /\ role' = [role EXCEPT ![n] = IF m.term > currentTerm[n] THEN "follower" ELSE @]
      /\ UNCHANGED <<log, boots, appReqs, appReps, leaderVars>>
  BY DEF RequestVote, logVars, processVars, appRPCs
<1>4. \A p \in Server : Forward(p)
  <2> SUFFICES ASSUME NEW p \in Server PROVE Forward(p)
    OBVIOUS
  <2>1. Len(log[p]) \in Nat
    BY <1>1, NodeTypes
  <2>2. CASE p = n /\ m.term > currentTerm[n]
    <3>1. currentTerm'[p] = m.term /\ boots'[p] = boots[p]
      BY <1>1, <1>3, <2>2, NodeTypes
    <3> QED
      BY <2>2, <3>1 DEF Forward
  <2>3. CASE ~ (p = n /\ m.term > currentTerm[n])
    <3>1. /\ currentTerm'[p] = currentTerm[p] /\ role'[p] = role[p]
          /\ boots'[p] = boots[p] /\ log'[p] = log[p]
      BY <1>1, <1>3, <2>3, NodeTypes
    <3> QED
      BY <2>1, <3>1 DEF Forward
  <2> QED
    BY <2>2, <2>3
<1>5. NextInLog'
  BY <1>1, <1>3, NextKept DEF TypeOK
<1> QED
  BY <1>3, <1>4, <1>5, LeaderUnchanged

\* A node learns of a later term from a reply.
LEMMA LeaderStepDown ==
  ASSUME LeaderInv, OrderInv', NEW n \in Server, NEW t \in Nat, t > currentTerm[n],
         StepDown(n, t, Nil), UNCHANGED <<log, leaderVars, boots>>,
         appReqs' \subseteq appReqs, appReps' \subseteq appReps
  PROVE  CallsInLog' /\ ConflictsBehind' /\ PrevEntryKnown' /\ NextInLog'
<1>1. TypeOK
  BY DEF LeaderInv, OrderInv
<1>2. /\ currentTerm' = [currentTerm EXCEPT ![n] = t]
      /\ role' = [role EXCEPT ![n] = "follower"]
  BY DEF StepDown
<1>3. \A p \in Server : Forward(p)
  <2> SUFFICES ASSUME NEW p \in Server PROVE Forward(p)
    OBVIOUS
  <2>1. Len(log[p]) \in Nat
    BY <1>1, NodeTypes
  <2>2. CASE p = n
    <3>1. currentTerm'[p] = t
      BY <1>1, <1>2, <2>2, NodeTypes
    <3> QED
      BY <2>2, <3>1 DEF Forward
  <2>3. CASE p # n
    <3>1. currentTerm'[p] = currentTerm[p] /\ role'[p] = role[p]
      BY <1>1, <1>2, <2>3, NodeTypes
    <3> QED
      BY <2>1, <3>1 DEF Forward
  <2> QED
    BY <2>2, <2>3
<1>4. NextInLog'
  BY <1>1, <1>2, NextKept DEF TypeOK
<1> QED
  BY <1>3, <1>4, LeaderUnchanged

LEMMA LeaderReceiveVote ==
  ASSUME LeaderInv, OrderInv', NEW m \in voteReps, ReceiveVote(m)
  PROVE  CallsInLog' /\ ConflictsBehind' /\ PrevEntryKnown' /\ NextInLog'
<1> DEFINE n == m.dst
<1>1. TypeOK
  BY DEF LeaderInv, OrderInv
<1>2. n \in Server /\ m.term \in Nat /\ currentTerm[n] \in Nat
  BY <1>1 DEF TypeOK, VoteRep
<1>3. UNCHANGED <<boots, appReqs, appReps>>
  BY DEF ReceiveVote, processVars, appRPCs
<1>4. CASE /\ m.term > currentTerm[n] /\ StepDown(n, m.term, Nil)
           /\ UNCHANGED <<log, leaderVars>>
  BY <1>2, <1>3, <1>4, LeaderStepDown
<1>5. CASE UNCHANGED <<currentTerm, role, log, leaderVars>>
  <2>1. \A p \in Server : Forward(p)
    <3> SUFFICES ASSUME NEW p \in Server PROVE Forward(p)
      OBVIOUS
    <3>1. Len(log[p]) \in Nat
      BY <1>1, NodeTypes
    <3> QED
      BY <1>3, <1>5, <3>1 DEF Forward
  <2> QED
    BY <1>3, <1>5, <2>1, LeaderUnchanged, NextKept
<1>6. CASE role[n] = "candidate" /\ UNCHANGED currentTerm /\ BecomeLeader(n, currentTerm[n])
  <2>1. /\ NextInLog' /\ Len(log'[n]) >= Len(log[n])
        /\ \A p \in Server \ {n} : role'[p] = role[p]
    BY <1>2, <1>6, LeaderBecomes
  <2>2. role'[n] = "leader" /\ \A p \in Server \ {n} : log'[p] = log[p]
    BY <1>1, <1>2, <1>6 DEF TypeOK, BecomeLeader
  <2>3. \A p \in Server : Forward(p)
    <3> SUFFICES ASSUME NEW p \in Server PROVE Forward(p)
      OBVIOUS
    <3>1. Len(log[p]) \in Nat
      BY <1>1, NodeTypes
    <3> QED
      BY <1>3, <1>6, <2>1, <2>2, <3>1 DEF Forward
  <2> QED
    BY <1>3, <2>1, <2>3, LeaderUnchanged
<1> QED
  BY <1>4, <1>5, <1>6 DEF ReceiveVote, logVars, electionVars

LEMMA LeaderStart ==
  ASSUME LeaderInv, OrderInv', NEW n \in Server, NEW cmd \in Cmd, Start(n, cmd)
  PROVE  CallsInLog' /\ ConflictsBehind' /\ PrevEntryKnown' /\ NextInLog'
<1> DEFINE l == Append(log[n], [term |-> currentTerm[n], cmd |-> cmd])
<1>1. TypeOK /\ NextInLog
  BY DEF LeaderInv, OrderInv
<1>2. Len(log[n]) \in Nat /\ Len(l) = Len(log[n]) + 1
  <2>1. log[n] \in Seq(Entry) /\ [term |-> currentTerm[n], cmd |-> cmd] \in Entry
    BY <1>1 DEF TypeOK, Entry
  <2> QED
    BY <2>1
<1>3. /\ role[n] = "leader"
      /\ log' = [log EXCEPT ![n] = l]
      /\ matchIndex' = [matchIndex EXCEPT ![n] = [matchIndex[n] EXCEPT ![n] = Len(l)]]
      /\ UNCHANGED <<currentTerm, role, nextIndex, boots, appReqs, appReps>>
  BY DEF Start, electionVars, processVars, appRPCs
<1> HIDE DEF l
<1>4. \A p \in Server : Len(log'[p]) >= Len(log[p]) /\ Len(log[p]) \in Nat /\ Len(log'[p]) \in Nat
  <2> SUFFICES ASSUME NEW p \in Server
               PROVE  Len(log'[p]) >= Len(log[p]) /\ Len(log[p]) \in Nat /\ Len(log'[p]) \in Nat
    OBVIOUS
  <2>1. CASE p = n
    BY <1>1, <1>2, <1>3, <2>1 DEF TypeOK
  <2>2. CASE p # n
    BY <1>1, <1>3, <2>2 DEF TypeOK
  <2> QED
    BY <2>1, <2>2
<1>5. \A p \in Server : Forward(p)
  BY <1>3, <1>4 DEF Forward
<1>6. NextInLog'
  <2> SUFFICES ASSUME NEW q \in Server, NEW p \in Server, role[q] = "leader"
               PROVE  nextIndex[q][p] <= Len(log'[q]) + 1 /\ matchIndex'[q][p] <= Len(log'[q])
    BY <1>3 DEF NextInLog
  <2>1. nextIndex[q][p] \in Nat /\ matchIndex[q][p] \in Nat
    BY <1>1 DEF TypeOK
  <2>2. nextIndex[q][p] <= Len(log[q]) + 1 /\ matchIndex[q][p] <= Len(log[q])
    BY <1>1 DEF NextInLog
  <2>3. matchIndex'[q][p] \in {matchIndex[q][p], Len(log'[q])}
    BY <1>1, <1>3 DEF TypeOK
  <2> QED
    BY <1>4, <2>1, <2>2, <2>3
<1> QED
  BY <1>3, <1>5, <1>6, LeaderUnchanged

\* A call starts inside the leader's log and covers it to the end.
LEMMA LeaderReplicateToPeer ==
  ASSUME LeaderInv, OrderInv', NEW n \in Server, NEW p \in Server, ReplicateToPeer(n, p)
  PROVE  CallsInLog' /\ ConflictsBehind' /\ PrevEntryKnown' /\ NextInLog'
<1> DEFINE prev == nextIndex[n][p] - 1
           prevTerm == IF prev \in 1..Len(log[n]) THEN log[n][prev].term ELSE 0
           r == [src |-> n, dst |-> p, term |-> currentTerm[n], prevIdx |-> prev,
                 prevTerm |-> prevTerm, entries |-> Batch(log[n], prev + 1),
                 leaderCommit |-> commitIndex[n], boot |-> boots[n]]
<1>1. TypeOK /\ LogsOrdered /\ CallsInLog /\ ConflictsBehind /\ PrevEntryKnown /\ NextInLog
  BY DEF LeaderInv, OrderInv
<1>2. /\ role[n] = "leader" /\ appReqs' = appReqs \cup {r}
      /\ UNCHANGED <<currentTerm, role, log, nextIndex, matchIndex, boots, appReps>>
  BY DEF ReplicateToPeer, electionVars, logVars, leaderVars, processVars
<1>3. /\ nextIndex[n][p] \in Nat \ {0} /\ log[n] \in Log /\ Len(log[n]) \in Nat
      /\ currentTerm[n] \in Nat /\ boots[n] \in Nat
  BY <1>1 DEF TypeOK, Log
<1>4. prev + 1 = nextIndex[n][p] /\ prev \in 0..Len(log[n])
  <2>1. nextIndex[n][p] <= Len(log[n]) + 1
    BY <1>1, <1>2 DEF NextInLog
  <2> QED
    BY <1>3, <2>1
<1>5. prev + Len(Batch(log[n], prev + 1)) = Len(log[n])
  <2>1. OrderedUpTo(log[n], currentTerm[n])
    BY <1>1 DEF LogsOrdered
  <2>2. nextIndex[n][p] <= Len(log[n]) + 1
    BY <1>1, <1>2 DEF NextInLog
  <2> QED
    BY <1>3, <1>4, <2>1, <2>2, OrderedBatch
<1>6. CallInLog(r.src, r.boot, r.term, r.prevIdx, Len(r.entries))
  BY <1>2, <1>3, <1>5 DEF CallInLog
<1>7. r.prevIdx > 0 => r.prevTerm > 0
  <2> SUFFICES ASSUME prev > 0 PROVE prevTerm > 0
    OBVIOUS
  <2>1. prev \in 1..Len(log[n])
    BY <1>3, <1>4
  <2>2. log[n][prev].term >= 1
    <3>1. OrderedUpTo(log[n], currentTerm[n])
      BY <1>1 DEF LogsOrdered
    <3>2. prev <= prev
      BY <2>1
    <3>3. 1 <= log[n][prev].term
      BY <2>1, <3>1, <3>2 DEF OrderedUpTo
    <3> QED
      BY <2>1, <1>3, <3>3, EntryOfLog DEF Log
  <2>3. log[n][prev].term \in Nat /\ prevTerm = log[n][prev].term
    BY <1>3, <2>1, EntryOfLog DEF Log
  <2> HIDE DEF prevTerm
  <2> QED
    BY <2>2, <2>3
<1> HIDE DEF r
<1>8. CallsInLog'
  BY <1>1, <1>2, <1>6 DEF CallsInLog, CallInLog
<1>9. PrevEntryKnown' /\ ConflictsBehind' /\ NextInLog'
  BY <1>1, <1>2, <1>7 DEF PrevEntryKnown, ConflictsBehind, NextInLog
<1> QED
  BY <1>8, <1>9

LEMMA LeaderAppendEntries ==
  ASSUME LeaderInv, OrderInv', NEW m \in appReqs, AppendEntries(m)
  PROVE  CallsInLog' /\ ConflictsBehind' /\ PrevEntryKnown' /\ NextInLog'
<1> DEFINE n == m.dst
<1>1. TypeOK /\ TypeOK' /\ CallsInLog /\ ConflictsBehind /\ PrevEntryKnown /\ NextInLog
  BY DEF LeaderInv, OrderInv
<1>2. n \in Server /\ m.term \in Nat /\ m.prevIdx \in Nat /\ currentTerm[n] \in Nat
      /\ log[n] \in Log /\ Len(log[n]) \in Nat
  <2>1. m \in AppReq
    BY <1>1 DEF TypeOK
  <2> QED
    BY <1>1, <2>1 DEF AppReq, TypeOK, Log
<1>3. appReqs' \subseteq appReqs /\ UNCHANGED <<leaderVars, boots>>
  BY DEF AppendEntries, AppendReply, processVars
<1>4. /\ \A r \in appReps' : r \in appReps \/ Echo(r, m)
      /\ \A r \in appReps' \ appReps : r.conflictIdx <= 1 \/ r.conflictIdx <= r.prevIdx
  <2>1. ASSUME NEW t, NEW s, NEW i, NEW ct, AppendReply(m, t, s, i, ct),
               i <= 1 \/ i <= m.prevIdx
        PROVE  /\ \A r \in appReps' : r \in appReps \/ Echo(r, m)
               /\ \A r \in appReps' \ appReps : r.conflictIdx <= 1 \/ r.conflictIdx <= r.prevIdx
    BY <2>1 DEF AppendReply, Echo
  <2>2. CASE \E t, s, ct : AppendReply(m, t, s, 1, ct)
    BY <2>1, <2>2
  <2>3. CASE /\ m.prevIdx > Len(log[n])
             /\ AppendReply(m, m.term, FALSE, Len(log[n]) + 1, NoTerm)
    <3>1. Len(log[n]) + 1 <= m.prevIdx
      BY <1>2, <2>3
    <3> QED
      BY <2>1, <2>3, <3>1
  <2>4. CASE /\ Clashes(log[n], m.prevIdx, m.prevTerm)
             /\ AppendReply(m, m.term, FALSE, FirstOfTerm(log[n], m.prevIdx),
                            log[n][m.prevIdx].term)
    <3>1. FirstOfTerm(log[n], m.prevIdx) <= m.prevIdx
      <4>1. m.prevIdx \in 1..Len(log[n])
        BY <2>4 DEF Clashes
      <4>2. FirstOfTerm(log[n], m.prevIdx) \in 1..m.prevIdx
        BY <1>2, <4>1, FirstOfTermBounds
      <4> QED
        BY <1>2, <4>2
    <3> QED
      BY <2>1, <2>4, <3>1
  <2> QED
    BY <2>2, <2>3, <2>4 DEF AppendEntries
<1>5. \/ UNCHANGED <<currentTerm, role, log>>
      \/ /\ m.term >= currentTerm[n]
         /\ currentTerm' = [currentTerm EXCEPT ![n] = m.term]
         /\ role' = [role EXCEPT ![n] = "follower"]
         /\ \A p \in Server \ {n} : log'[p] = log[p]
  BY <1>1 DEF AppendEntries, StepDown, electionVars, logVars, TypeOK
<1>6. \A p \in Server : Forward(p)
  <2> SUFFICES ASSUME NEW p \in Server PROVE Forward(p)
    OBVIOUS
  <2>1. Len(log[p]) \in Nat /\ role[p] \in Role /\ currentTerm[p] \in Nat
    BY <1>1 DEF TypeOK
  <2>2. CASE p = n
    <3>1. CASE UNCHANGED <<currentTerm, role, log>>
      BY <1>3, <2>1, <3>1 DEF Forward
    <3>2. CASE /\ m.term >= currentTerm[n]
               /\ currentTerm' = [currentTerm EXCEPT ![n] = m.term]
               /\ role' = [role EXCEPT ![n] = "follower"]
      <4>1. currentTerm'[p] = m.term /\ role'[p] = "follower"
        BY <1>1, <2>2, <3>2, NodeTypes
      <4>2. m.term = currentTerm[p] \/ m.term > currentTerm[p]
        BY <1>2, <2>1, <2>2, <3>2
      <4> QED
        BY <1>3, <4>1, <4>2 DEF Forward
    <3> QED
      BY <1>5, <3>1, <3>2
  <2>3. CASE p # n
    <3>1. currentTerm'[p] = currentTerm[p] /\ role'[p] = role[p] /\ log'[p] = log[p]
      BY <1>1, <1>2, <1>5, <2>3, NodeTypes
    <3> QED
      BY <1>3, <2>1, <3>1 DEF Forward, Role
  <2> QED
    BY <2>2, <2>3
<1>7. CallsInLog'
  BY <1>1, <1>3, <1>4, <1>6, CallsKept
<1>8. ConflictsBehind' /\ PrevEntryKnown'
  BY <1>1, <1>3, <1>4 DEF ConflictsBehind, PrevEntryKnown
<1>9. NextInLog'
  BY <1>1, <1>2, <1>3, <1>5 DEF NextInLog, TypeOK, leaderVars
<1> QED
  BY <1>7, <1>8, <1>9

\* After a rejection the leader backs off to a position of its log, or right
\* behind it, when the follower names one.
LEMMA BacktrackInLog ==
  ASSUME NEW l \in Log, NEW idx \in Nat, NEW term \in Int, idx <= Len(l) + 1
  PROVE  Backtrack(l, idx, term) <= Len(l) + 1
<1> DEFINE own == {k \in 1..Len(l) : l[k].term = term}
<1>1. Len(l) \in Nat
  BY DEF Log
<1>2. Max({1, idx}) <= Len(l) + 1
  BY <1>1, GreaterOfTwo
<1>3. CASE own # {}
  <2>1. own \in SUBSET Nat /\ \A k \in own : k <= Len(l)
    BY <1>1
  <2>2. Max(own) \in own
    BY <1>1, <1>3, <2>1, GreatestNat
  <2>3. Max(own) + 1 <= Len(l) + 1
    BY <1>1, <2>1, <2>2
  <2> QED
    BY <1>2, <2>3 DEF Backtrack
<1>4. CASE own = {}
  BY <1>2, <1>4 DEF Backtrack
<1> QED
  BY <1>3, <1>4

LEMMA LeaderReceiveAppend ==
  ASSUME LeaderInv, OrderInv', NEW m \in appReps, ReceiveAppend(m)
  PROVE  CallsInLog' /\ ConflictsBehind' /\ PrevEntryKnown' /\ NextInLog'
<1> DEFINE n == m.dst
           p == m.src
           acked == Acked(matchIndex[n][p], m.prevIdx, m.sent)
<1>1. TypeOK /\ CallsInLog /\ ConflictsBehind /\ NextInLog
  BY DEF LeaderInv, OrderInv
<1>2. /\ n \in Server /\ p \in Server /\ m.term \in Nat /\ m.round \in Nat
      /\ m.boot \in Nat /\ m.prevIdx \in Nat /\ m.sent \in Nat
      /\ m.conflictIdx \in Nat /\ m.conflictTerm \in Int
  BY <1>1 DEF TypeOK, AppRep
<1>3. /\ currentTerm[n] \in Nat /\ log[n] \in Log /\ Len(log[n]) \in Nat
      /\ matchIndex[n][p] \in Nat
  <2>1. matchIndex[n] \in [Server -> Nat]
    BY <1>1, <1>2 DEF TypeOK
  <2>2. currentTerm[n] \in Nat /\ log[n] \in Log /\ Len(log[n]) \in Nat
    BY <1>1, <1>2 DEF TypeOK, Log
  <2> QED
    BY <1>2, <2>1, <2>2
<1>4. appReps' \subseteq appReps /\ UNCHANGED <<boots, appReqs>> /\ boots[n] = m.boot
  BY DEF ReceiveAppend, processVars
<1>5. CASE /\ m.term > currentTerm[n] /\ StepDown(n, m.term, Nil)
           /\ UNCHANGED <<log, leaderVars>>
  BY <1>2, <1>4, <1>5, LeaderStepDown
<1>6. CASE UNCHANGED <<currentTerm, role, log>>
  <2>1. \A q \in Server : Forward(q)
    <3> SUFFICES ASSUME NEW q \in Server PROVE Forward(q)
      OBVIOUS
    <3>1. Len(log[q]) \in Nat
      BY <1>1 DEF TypeOK
    <3> QED
      BY <1>4, <1>6, <3>1 DEF Forward
  <2>2. CallsInLog' /\ ConflictsBehind' /\ PrevEntryKnown'
    BY <1>4, <2>1, LeaderUnchanged
  <2>3. CASE UNCHANGED leaderVars
    BY <1>6, <2>2, <2>3, NextKept
  <2>4. ASSUME role[n] = "leader", currentTerm[n] = m.round
        PROVE  m.prevIdx + m.sent <= Len(log[n])
    BY <1>1, <1>2, <1>4, <2>4 DEF CallsInLog, CallInLog
  <2>5. CASE /\ role[n] = "leader" /\ currentTerm[n] = m.round
             /\ matchIndex' = [matchIndex EXCEPT ![n] = [matchIndex[n] EXCEPT ![p] = acked]]
             /\ nextIndex' = [nextIndex EXCEPT ![n][p] = acked + 1]
    <3>1. matchIndex[n][p] <= Len(log[n])
      BY <1>1, <1>2, <2>5 DEF NextInLog
    <3>2. acked \in Nat /\ acked <= Len(log[n])
      <4>1. m.prevIdx + m.sent <= Len(log[n]) /\ m.prevIdx + m.sent \in Nat
        BY <1>2, <2>4, <2>5
      <4> QED
        BY <1>3, <3>1, <4>1, GreaterOfTwo DEF Acked
    <3> HIDE DEF acked
    <3>3. NextInLog'
      <4> SUFFICES ASSUME NEW a \in Server, NEW b \in Server, role[a] = "leader"
                   PROVE  /\ nextIndex'[a][b] <= Len(log[a]) + 1
                          /\ matchIndex'[a][b] <= Len(log[a])
        BY <1>6 DEF NextInLog
      <4>1. nextIndex[a][b] <= Len(log[a]) + 1 /\ matchIndex[a][b] <= Len(log[a])
        BY <1>1 DEF NextInLog
      <4>2. CASE a = n /\ b = p
        <5>1. nextIndex'[n][p] = acked + 1 /\ matchIndex'[n][p] = acked
          BY <1>1, <1>2, <2>5 DEF TypeOK
        <5> QED
          BY <1>3, <3>2, <4>2, <5>1
      <4>3. CASE ~ (a = n /\ b = p)
        <5>1. nextIndex'[a][b] = nextIndex[a][b] /\ matchIndex'[a][b] = matchIndex[a][b]
          BY <1>1, <1>2, <2>5, <4>3 DEF TypeOK
        <5> QED
          BY <4>1, <5>1
      <4> QED
        BY <4>2, <4>3
    <3> QED
      BY <2>2, <3>3
  <2>6. CASE /\ role[n] = "leader" /\ currentTerm[n] = m.round
             /\ nextIndex' = [nextIndex EXCEPT ![n][p] =
                  Backtrack(log[n], m.conflictIdx, m.conflictTerm)]
             /\ UNCHANGED matchIndex
    <3>1. m.conflictIdx <= Len(log[n]) + 1
      BY <1>1, <1>2, <1>3, <2>4, <2>6 DEF ConflictsBehind
    <3>2. Backtrack(log[n], m.conflictIdx, m.conflictTerm) <= Len(log[n]) + 1
      BY <1>2, <1>3, <3>1, BacktrackInLog
    <3>3. NextInLog'
      BY <1>1, <1>2, <1>6, <2>6, <3>2 DEF TypeOK, NextInLog
    <3> QED
      BY <2>2, <3>3
  <2> QED
    BY <1>6, <2>3, <2>5, <2>6, <1>3, <1>2, <1>5 DEF ReceiveAppend, Heeds, leaderVars
<1> QED
  BY <1>5, <1>6 DEF ReceiveAppend, logVars

LEMMA LeaderProcess ==
  ASSUME LeaderInv, OrderInv', NEW n \in Server, Shutdown(n) \/ Crash(n) \/ Make(n)
  PROVE  CallsInLog' /\ ConflictsBehind' /\ PrevEntryKnown' /\ NextInLog'
<1>1. TypeOK /\ NextInLog
  BY DEF LeaderInv, OrderInv
<1>2. UNCHANGED <<appReqs, appReps>>
  BY DEF Shutdown, Crash, Make, appRPCs
<1>3. CASE Shutdown(n) \/ Crash(n)
  <2>1. /\ UNCHANGED <<currentTerm, log, boots, leaderVars>>
        /\ \A p \in Server : role'[p] = role[p] \/ role'[p] = "follower"
    BY <1>1, <1>3 DEF TypeOK, Shutdown, Crash, electionVars, logVars
  <2>2. \A p \in Server : Forward(p)
    <3> SUFFICES ASSUME NEW p \in Server PROVE Forward(p)
      OBVIOUS
    <3>1. Len(log[p]) \in Nat
      BY <1>1, NodeTypes
    <3> QED
      BY <2>1, <3>1 DEF Forward
  <2>3. NextInLog'
    BY <2>1, NextKept
  <2> QED
    BY <1>2, <2>2, <2>3, LeaderUnchanged
<1>4. CASE Make(n)
  <2>1. /\ boots' = [boots EXCEPT ![n] = @ + 1]
        /\ \A p \in Server \ {n} : /\ currentTerm'[p] = currentTerm[p]
                                    /\ role'[p] = role[p]
                                    /\ log'[p] = log[p]
                                    /\ nextIndex'[p] = nextIndex[p]
                                    /\ matchIndex'[p] = matchIndex[p]
        /\ role'[n] = "follower"
    BY <1>1, <1>4 DEF TypeOK, Make
  <2>2. \A p \in Server : Forward(p)
    <3> SUFFICES ASSUME NEW p \in Server PROVE Forward(p)
      OBVIOUS
    <3>1. Len(log[p]) \in Nat /\ boots \in [Server -> Nat]
      BY <1>1, NodeTypes
    <3>2. CASE p = n
      <4>1. boots'[p] = boots[p] + 1 /\ boots[p] \in Nat
        BY <2>1, <3>1, <3>2
      <4> QED
        BY <4>1 DEF Forward
    <3>3. CASE p # n
      <4>1. /\ boots'[p] = boots[p] /\ currentTerm'[p] = currentTerm[p]
            /\ role'[p] = role[p] /\ log'[p] = log[p]
        BY <2>1, <3>1, <3>3
      <4> QED
        BY <3>1, <4>1 DEF Forward
    <3> QED
      BY <3>2, <3>3
  <2>3. NextInLog'
    BY <1>1, <2>1 DEF NextInLog
  <2> QED
    BY <1>2, <2>2, <2>3, LeaderUnchanged
<1> QED
  BY <1>3, <1>4

LEMMA LeaderStep ==
  ASSUME LeaderInv, [Next]_vars
  PROVE  LeaderInv'
<1>1. OrderInv'
  BY OrderStep DEF LeaderInv
<1>2. CASE UNCHANGED vars
  BY <1>1, <1>2
  DEF LeaderInv, CallsInLog, CallInLog, ConflictsBehind, NextInLog, PrevEntryKnown,
      vars, electionVars, logVars, leaderVars, appRPCs, processVars
<1>3. ASSUME NEW m \in appReqs \cup appReps, CallFails(m)
      PROVE  CallsInLog' /\ ConflictsBehind' /\ PrevEntryKnown' /\ NextInLog'
  BY <1>3
  DEF LeaderInv, CallsInLog, CallInLog, ConflictsBehind, NextInLog, PrevEntryKnown, CallFails,
      electionVars, logVars, leaderVars, processVars
<1>4. CASE Next
  <2>1. CallsInLog' /\ ConflictsBehind' /\ PrevEntryKnown' /\ NextInLog'
    BY <1>1, <1>3, <1>4, LeaderElectionTimeout, LeaderRequestVote, LeaderReceiveVote,
       LeaderStart, LeaderReplicateToPeer, LeaderAppendEntries, LeaderReceiveAppend,
       LeaderProcess
    DEF Next
  <2> QED
    BY <1>1, <2>1 DEF LeaderInv
<1> QED
  BY <1>2, <1>4

\* No leader of any cluster ever sends the prevLogTerm 0 that matches nothing:
\* acknowledgements and rejections, however late, of whatever call, leave
\* nextIndex within the log or right behind it.
THEOREM PrevEntryAlwaysKnown == Spec => []PrevEntryKnown
<1>1. Init => LeaderInv
  BY LeaderInit
<1>2. LeaderInv /\ [Next]_vars => LeaderInv'
  BY LeaderStep
<1>3. LeaderInv => PrevEntryKnown
  BY DEF LeaderInv
<1> QED
  BY <1>1, <1>2, <1>3, PTL DEF Spec

-----------------------------------------------------------------------------
(* What a leader counts is of its own term.                                *)

\* The log of a leader ends with entries of its own term.
LeadersEndOwn ==
  \A n \in Server : role[n] = "leader" =>
    Len(log[n]) > 0 /\ log[n][Len(log[n])].term = currentTerm[n]

\* What a call of process boot of node n, made in term t, covers up to position
\* k, ends in that term, as long as n leads it.
CallEndsOwn(n, boot, t, k) ==
  boot = boots[n] /\ t = currentTerm[n] /\ role[n] = "leader" /\ k > 0
    => log[n][k].term = currentTerm[n]

CallsEndOwn ==
  /\ \A m \in appReqs : CallEndsOwn(m.src, m.boot, m.term, m.prevIdx + Len(m.entries))
  /\ \A m \in appReps : CallEndsOwn(m.dst, m.boot, m.round, m.prevIdx + m.sent)

OwnInv == LeaderInv /\ LeadersEndOwn /\ CallsEndOwn /\ AckedOwnTerm

\* Where a leader's idea of what p holds comes from.
AckFrom(n, p) ==
  \/ matchIndex'[n][p] = matchIndex[n][p]
  \/ matchIndex'[n][p] = Len(log'[n])
  \/ \E m \in appReps : /\ m.dst = n /\ m.boot = boots[n] /\ m.round = currentTerm[n]
                        /\ matchIndex'[n][p] = m.prevIdx + m.sent

\* n leads on, and its log has at most grown by an entry of its term.
LeadsOn(n) ==
  /\ role[n] = "leader" /\ boots'[n] = boots[n] /\ currentTerm'[n] = currentTerm[n]
  /\ \/ log'[n] = log[n]
     \/ \E e \in Entry : e.term = currentTerm[n] /\ log'[n] = Append(log[n], e)
  /\ \A p \in Server : AckFrom(n, p)

\* n becomes the leader of a term of which no call of it can be on its way.
ComesToLead(n) ==
  /\ boots'[n] = boots[n]
  /\ \/ currentTerm'[n] > currentTerm[n]
     \/ currentTerm'[n] = currentTerm[n] /\ role[n] = "candidate"
  /\ \E e \in Entry : e.term = currentTerm'[n] /\ log'[n] = Append(log[n], e)
  /\ \A p \in Server : matchIndex'[n][p] \in {0, Len(log'[n])}
  /\ UNCHANGED <<appReqs, appReps>>

LEMMA SameLeadsOn ==
  ASSUME NEW n \in Server, role[n] = "leader", boots'[n] = boots[n],
         currentTerm'[n] = currentTerm[n], log'[n] = log[n], matchIndex'[n] = matchIndex[n]
  PROVE  LeadsOn(n)
BY DEF LeadsOn, AckFrom

LEMMA BecomesWins ==
  ASSUME TypeOK, NEW n \in Server, NEW t \in Nat, BecomeLeader(n, t),
         currentTerm'[n] = t, t > currentTerm[n] \/ (t = currentTerm[n] /\ role[n] = "candidate"),
         UNCHANGED <<boots, appReqs, appReps>>
  PROVE  ComesToLead(n)
<1> DEFINE e == [term |-> t, cmd |-> NoOp]
<1>1. e \in Entry /\ e.term = t
  BY DEF Entry
<1>2. /\ log' = [log EXCEPT ![n] = Append(log[n], e)]
      /\ matchIndex' = [matchIndex EXCEPT ![n] =
           [p \in Server |-> IF p = n THEN Len(Append(log[n], e)) ELSE 0]]
  BY DEF BecomeLeader
<1> HIDE DEF e
<1>3. log'[n] = Append(log[n], e)
  BY <1>2 DEF TypeOK
<1>4. \A p \in Server : matchIndex'[n][p] \in {0, Len(log'[n])}
  BY <1>2, <1>3 DEF TypeOK
<1> QED
  BY <1>1, <1>3, <1>4 DEF ComesToLead

\* Whoever leads after a step led before it, or has just won.
LEMMA LeadersLeadOn ==
  ASSUME TypeOK, [Next]_vars, NEW n \in Server, role'[n] = "leader"
  PROVE  LeadsOn(n) \/ ComesToLead(n)
<1>1. /\ currentTerm \in [Server -> Nat] /\ role \in [Server -> Role]
      /\ log \in [Server -> Seq(Entry)] /\ boots \in [Server -> Nat]
      /\ matchIndex \in [Server -> [Server -> Nat]]
  BY DEF TypeOK
<1>2. CASE /\ role'[n] = role[n] /\ boots'[n] = boots[n] /\ currentTerm'[n] = currentTerm[n]
           /\ log'[n] = log[n] /\ matchIndex'[n] = matchIndex[n]
  BY <1>2, SameLeadsOn
<1>3. ASSUME NEW q \in Server, ElectionTimeout(q) PROVE LeadsOn(n) \/ ComesToLead(n)
  <2>1. CASE q = n
    <3>1. /\ currentTerm'[n] = currentTerm[n] + 1
          /\ UNCHANGED <<boots, appReqs, appReps>>
      BY <1>1, <1>3, <2>1 DEF ElectionTimeout, appRPCs, processVars
    <3>2. BecomeLeader(n, currentTerm[n] + 1)
      BY <1>1, <1>3, <2>1 DEF ElectionTimeout
    <3> QED
      BY <1>1, <3>1, <3>2, BecomesWins
  <2>2. CASE q # n
    BY <1>1, <1>2, <1>3, <2>2
    DEF ElectionTimeout, BecomeLeader, logVars, leaderVars, processVars
  <2> QED
    BY <2>1, <2>2
<1>4. ASSUME NEW m \in voteReqs, RequestVote(m) PROVE LeadsOn(n) \/ ComesToLead(n)
  <2>1. m.dst \in Server
    BY DEF TypeOK, VoteReq
  <2> QED
    BY <1>1, <1>2, <1>4, <2>1 DEF RequestVote, logVars, leaderVars, processVars
<1>5. ASSUME NEW m \in voteReps, ReceiveVote(m) PROVE LeadsOn(n) \/ ComesToLead(n)
  <2>1. m.dst \in Server /\ m.term \in Nat
    BY DEF TypeOK, VoteRep
  <2>2. UNCHANGED <<boots, appReqs, appReps>>
    BY <1>5 DEF ReceiveVote, appRPCs, processVars
  <2>3. CASE StepDown(m.dst, m.term, Nil) /\ UNCHANGED <<logVars, leaderVars>>
    BY <1>1, <1>2, <2>1, <2>2, <2>3 DEF StepDown, logVars, leaderVars
  <2>4. CASE UNCHANGED <<role, currentTerm, logVars, leaderVars>>
    BY <1>2, <2>2, <2>4 DEF logVars, leaderVars
  <2>5. CASE /\ role[m.dst] = "candidate" /\ UNCHANGED currentTerm
             /\ BecomeLeader(m.dst, currentTerm[m.dst])
    <3>1. CASE m.dst = n
      BY <1>1, <2>2, <2>5, <3>1, BecomesWins
    <3>2. CASE m.dst # n
      BY <1>1, <1>2, <2>1, <2>2, <2>5, <3>2 DEF BecomeLeader
    <3> QED
      BY <3>1, <3>2
  <2> QED
    BY <1>5, <2>3, <2>4, <2>5 DEF ReceiveVote, electionVars
<1>6. ASSUME NEW q \in Server, NEW cmd \in Cmd, Start(q, cmd) PROVE LeadsOn(n) \/ ComesToLead(n)
  <2> DEFINE e == [term |-> currentTerm[q], cmd |-> cmd]
  <2>1. e \in Entry /\ e.term = currentTerm[q]
    BY <1>1 DEF Entry
  <2>2. /\ role[q] = "leader" /\ UNCHANGED <<role, currentTerm, boots>>
        /\ log' = [log EXCEPT ![q] = Append(log[q], e)]
        /\ matchIndex' = [matchIndex EXCEPT ![q] =
             [matchIndex[q] EXCEPT ![q] = Len(Append(log[q], e))]]
    BY <1>6 DEF Start, electionVars, processVars
  <2> HIDE DEF e
  <2>3. CASE q = n
    <3>1. log'[n] = Append(log[n], e)
      BY <1>1, <2>2, <2>3
    <3>2. \A p \in Server : matchIndex'[n][p] \in {matchIndex[n][p], Len(log'[n])}
      BY <1>1, <2>2, <2>3, <3>1
    <3> QED
      BY <2>1, <2>2, <2>3, <3>1, <3>2 DEF LeadsOn, AckFrom
  <2>4. CASE q # n
    BY <1>1, <1>2, <2>2, <2>4
  <2> QED
    BY <2>3, <2>4
<1>7. ASSUME NEW m \in appReqs, AppendEntries(m) PROVE LeadsOn(n) \/ ComesToLead(n)
  <2>1. m.dst \in Server
    BY DEF TypeOK, AppReq
  <2>2. UNCHANGED <<boots, matchIndex>>
    BY <1>7 DEF AppendEntries, processVars, leaderVars
  <2>3. CASE UNCHANGED <<electionVars, logVars>>
    BY <1>2, <2>2, <2>3 DEF electionVars, logVars
  <2>4. CASE /\ StepDown(m.dst, m.term, m.src)
             /\ \A p \in Server \ {m.dst} : log'[p] = log[p]
    BY <1>1, <1>2, <2>1, <2>2, <2>4 DEF StepDown
  <2> QED
    BY <1>1, <1>7, <2>1, <2>3, <2>4 DEF AppendEntries, logVars
<1>8. ASSUME NEW m \in appReps, ReceiveAppend(m) PROVE LeadsOn(n) \/ ComesToLead(n)
  <2> DEFINE acked == Acked(matchIndex[m.dst][m.src], m.prevIdx, m.sent)
  <2>1. /\ m.dst \in Server /\ m.src \in Server /\ m.prevIdx \in Nat /\ m.sent \in Nat
    <3>1. m \in AppRep
      BY DEF TypeOK
    <3> QED
      BY <3>1 DEF AppRep
  <2>2. matchIndex[m.dst][m.src] \in Nat /\ m.prevIdx + m.sent \in Nat
    <3>1. m.prevIdx + m.sent \in Nat
      BY <2>1
    <3>2. matchIndex[m.dst] \in [Server -> Nat]
      BY <1>1, <2>1
    <3> QED
      BY <2>1, <3>1, <3>2
  <2>3. UNCHANGED <<boots, log>> /\ boots[m.dst] = m.boot
    BY <1>8 DEF ReceiveAppend, processVars, logVars
  <2>4. CASE StepDown(m.dst, m.term, Nil) /\ UNCHANGED leaderVars
    BY <1>1, <1>2, <2>1, <2>3, <2>4 DEF StepDown, leaderVars
  <2>5. CASE UNCHANGED <<role, currentTerm, matchIndex>>
    BY <1>2, <2>3, <2>5
  <2>6. CASE /\ Heeds(m.dst, m.round) /\ UNCHANGED <<role, currentTerm>>
             /\ matchIndex' = [matchIndex EXCEPT ![m.dst] =
                  [matchIndex[m.dst] EXCEPT ![m.src] = acked]]
    <3>1. acked \in {matchIndex[m.dst][m.src], m.prevIdx + m.sent}
      BY <2>2, GreaterOfTwo DEF Acked
    <3> HIDE DEF acked
    <3>2. \A p \in Server : AckFrom(n, p)
      <4> SUFFICES ASSUME NEW p \in Server PROVE AckFrom(n, p)
        OBVIOUS
      <4>1. CASE m.dst = n /\ m.src = p
        <5>1. matchIndex'[n][p] = acked
          BY <1>1, <2>1, <2>6, <4>1
        <5>2. CASE acked = matchIndex[n][p]
          BY <5>1, <5>2 DEF AckFrom
        <5>3. CASE acked = m.prevIdx + m.sent
          <6>1. m.round = currentTerm[n] /\ m.boot = boots[n]
            BY <2>3, <2>6, <4>1 DEF Heeds
          <6> QED
            BY <4>1, <5>1, <5>3, <6>1 DEF AckFrom
        <5> QED
          BY <3>1, <4>1, <5>2, <5>3
      <4>2. CASE ~ (m.dst = n /\ m.src = p)
        <5>1. matchIndex'[n][p] = matchIndex[n][p]
          BY <1>1, <2>1, <2>6, <4>2
        <5> QED
          BY <5>1 DEF AckFrom
      <4> QED
        BY <4>1, <4>2
    <3> QED
      BY <2>3, <2>6, <3>2 DEF LeadsOn
  <2> QED
    BY <1>8, <2>4, <2>5, <2>6 DEF ReceiveAppend, leaderVars
<1>9. ASSUME NEW q \in Server, Shutdown(q) \/ Crash(q) \/ Make(q) PROVE LeadsOn(n) \/ ComesToLead(n)
  <2>1. q = n => Crash(q) \/ (Shutdown(q) /\ role[n] # "leader")
    BY <1>1, <1>9 DEF Make, Shutdown
  <2> QED
    BY <1>1, <1>2, <1>9, <2>1
    DEF Shutdown, Crash, Make, electionVars, logVars, leaderVars
<1>10. CASE \/ UNCHANGED vars
            \/ \E q, p \in Server : ReplicateToPeer(q, p)
            \/ \E m \in appReqs \cup appReps : CallFails(m)
  BY <1>2, <1>10
  DEF vars, ReplicateToPeer, CallFails, electionVars, logVars, leaderVars, processVars
<1> QED
  BY <1>3, <1>4, <1>5, <1>6, <1>7, <1>8, <1>9, <1>10 DEF Next

\* In a log that a leader keeps or adds to, a position that was there stays.
LEMMA PositionStays ==
  ASSUME TypeOK, NEW n \in Server, LeadsOn(n), NEW k \in Nat, k > 0, k <= Len(log[n])
  PROVE  log'[n][k] = log[n][k]
<1>1. log[n] \in Seq(Entry) /\ k \in 1..Len(log[n])
  BY DEF TypeOK
<1> QED
  BY <1>1 DEF LeadsOn

LEMMA EndStays ==
  ASSUME OwnInv, [Next]_vars
  PROVE  LeadersEndOwn'
<1> SUFFICES ASSUME NEW n \in Server, role'[n] = "leader"
             PROVE  Len(log'[n]) > 0 /\ log'[n][Len(log'[n])].term = currentTerm'[n]
  BY DEF LeadersEndOwn
<1>1. TypeOK /\ LeadersEndOwn /\ log[n] \in Seq(Entry)
  BY DEF OwnInv, LeaderInv, OrderInv, TypeOK
<1>2. ASSUME NEW e \in Entry, e.term = currentTerm'[n], log'[n] = Append(log[n], e)
      PROVE  Len(log'[n]) > 0 /\ log'[n][Len(log'[n])].term = currentTerm'[n]
  <2>1. Len(log'[n]) = Len(log[n]) + 1 /\ log'[n][Len(log[n]) + 1] = e /\ Len(log[n]) \in Nat
    BY <1>1, <1>2
  <2> QED
    BY <1>2, <2>1
<1>3. LeadsOn(n) \/ ComesToLead(n)
  BY <1>1, LeadersLeadOn
<1> QED
  BY <1>1, <1>2, <1>3 DEF LeadsOn, ComesToLead, LeadersEndOwn

LEMMA CallEndStays ==
  ASSUME OwnInv, [Next]_vars, NEW n \in Server, NEW boot \in Nat, NEW t \in Nat,
         NEW i \in Nat, NEW s \in Nat, CallInLog(n, boot, t, i, s),
         CallEndsOwn(n, boot, t, i + s)
  PROVE  CallEndsOwn(n, boot, t, i + s)' \/ boots'[n] # boots[n]
<1> SUFFICES ASSUME boots'[n] = boots[n], boot = boots'[n], t = currentTerm'[n],
                    role'[n] = "leader", i + s > 0
             PROVE  log'[n][i + s].term = currentTerm'[n]
  BY DEF CallEndsOwn
<1>1. TypeOK /\ currentTerm[n] \in Nat /\ i + s \in Nat
  <2>1. TypeOK
    BY DEF OwnInv, LeaderInv, OrderInv
  <2>2. currentTerm[n] \in Nat
    BY <2>1, NodeTypes
  <2>3. i + s \in Nat
    OBVIOUS
  <2> QED
    BY <2>1, <2>2, <2>3
<1>2. ~ ComesToLead(n)
  BY <1>1 DEF ComesToLead, CallInLog
<1>3. LeadsOn(n)
  BY <1>1, <1>2, LeadersLeadOn
<1>4. /\ i + s <= Len(log[n]) /\ log[n][i + s].term = currentTerm[n]
      /\ currentTerm'[n] = currentTerm[n]
  BY <1>3 DEF LeadsOn, CallInLog, CallEndsOwn
<1> QED
  BY <1>1, <1>3, <1>4, PositionStays

\* What is on its way after a step: what was before, an answer, or a call that
\* reaches to the end of its leader's log.
LEMMA CallsOnTheirWay ==
  ASSUME LeaderInv, [Next]_vars
  PROVE  /\ \A m \in appReqs' \ appReqs :
              /\ role[m.src] = "leader" /\ UNCHANGED <<currentTerm, log>>
              /\ m.prevIdx + Len(m.entries) = Len(log[m.src])
         /\ \A r \in appReps' : r \in appReps \/ \E m \in appReqs : Echo(r, m)
<1>1. TypeOK /\ LogsOrdered /\ NextInLog
  BY DEF LeaderInv, OrderInv
<1>2. ASSUME NEW n \in Server, NEW p \in Server, ReplicateToPeer(n, p),
             NEW m \in appReqs' \ appReqs
      PROVE  m.src = n /\ m.prevIdx + Len(m.entries) = Len(log[n])
  <2> DEFINE prev == nextIndex[n][p] - 1
  <2>1. /\ m.src = n /\ m.prevIdx = prev /\ m.entries = Batch(log[n], prev + 1)
        /\ role[n] = "leader"
    BY <1>2 DEF ReplicateToPeer
  <2>2. /\ nextIndex[n][p] \in Nat \ {0} /\ log[n] \in Log /\ Len(log[n]) \in Nat
        /\ currentTerm[n] \in Nat
    BY <1>1 DEF TypeOK, Log
  <2>3. nextIndex[n][p] <= Len(log[n]) + 1
    BY <1>1, <2>1 DEF NextInLog
  <2>4. prev + 1 = nextIndex[n][p] /\ prev \in 0..Len(log[n])
    BY <2>2, <2>3
  <2>5. OrderedUpTo(log[n], currentTerm[n])
    BY <1>1 DEF LogsOrdered
  <2>6. prev + Len(Batch(log[n], prev + 1)) = Len(log[n])
    BY <2>2, <2>3, <2>4, <2>5, OrderedBatch
  <2> QED
    BY <2>1, <2>6
<1>3. ASSUME NEW n \in Server, NEW p \in Server, ReplicateToPeer(n, p)
      PROVE  role[n] = "leader" /\ UNCHANGED <<currentTerm, log, appReps>>
  BY <1>3 DEF ReplicateToPeer, electionVars, logVars
<1>4. ASSUME NEW m \in appReqs, AppendEntries(m)
      PROVE  appReqs' \subseteq appReqs /\ \A r \in appReps' : r \in appReps \/ Echo(r, m)
  BY <1>4 DEF AppendEntries, AppendReply, Echo
<1>5. CASE UNCHANGED <<appReqs, appReps>>
  BY <1>5
<1>6. CASE \/ \E m \in appReps : ReceiveAppend(m)
           \/ \E m \in appReqs \cup appReps : CallFails(m)
  BY <1>6 DEF ReceiveAppend, CallFails
<1>7. CASE \/ UNCHANGED vars
           \/ \E n \in Server : ElectionTimeout(n)
           \/ \E m \in voteReqs : RequestVote(m)
           \/ \E m \in voteReps : ReceiveVote(m)
           \/ \E n \in Server, cmd \in Cmd : Start(n, cmd)
           \/ \E n \in Server : Shutdown(n) \/ Crash(n) \/ Make(n)
  BY <1>5, <1>7
  DEF vars, appRPCs, ElectionTimeout, RequestVote, ReceiveVote, Start, Shutdown, Crash, Make
<1>8. CASE \E n, p \in Server : ReplicateToPeer(n, p)
  BY <1>2, <1>3, <1>8
<1>9. CASE \E m \in appReqs : AppendEntries(m)
  BY <1>4, <1>9
<1> QED
  BY <1>6, <1>7, <1>8, <1>9 DEF Next

LEMMA CallsStay ==
  ASSUME OwnInv, LeaderInv', [Next]_vars
  PROVE  CallsEndOwn'
<1>1. /\ TypeOK /\ TypeOK' /\ LeaderInv /\ CallsInLog /\ CallsInLog' /\ CallsEndOwn
      /\ LeadersEndOwn
  BY DEF OwnInv, LeaderInv, OrderInv
\* A process that has just started leads nothing.
<1>2. ASSUME NEW n \in Server, boots'[n] # boots[n]
      PROVE  role'[n] # "leader"
  <2>1. role'[n] = "leader" => LeadsOn(n) \/ ComesToLead(n)
    BY <1>1, LeadersLeadOn
  <2> QED
    BY <1>2, <2>1 DEF LeadsOn, ComesToLead
<1>3. ASSUME NEW n \in Server, NEW boot \in Nat, NEW t \in Nat, NEW i \in Nat, NEW s \in Nat,
             CallInLog(n, boot, t, i, s), CallEndsOwn(n, boot, t, i + s)
      PROVE  CallEndsOwn(n, boot, t, i + s)'
  <2>1. CallEndsOwn(n, boot, t, i + s)' \/ boots'[n] # boots[n]
    BY <1>3, CallEndStays
  <2> QED
    BY <1>2, <2>1 DEF CallEndsOwn
<1>4. ASSUME NEW m \in appReqs
      PROVE  CallEndsOwn(m.src, m.boot, m.term, m.prevIdx + Len(m.entries))'
  <2>1. m \in AppReq
    BY <1>1 DEF TypeOK
  <2>2. /\ m.src \in Server /\ m.boot \in Nat /\ m.term \in Nat /\ m.prevIdx \in Nat
        /\ Len(m.entries) \in Nat
    BY <2>1 DEF AppReq
  <2>3. /\ CallInLog(m.src, m.boot, m.term, m.prevIdx, Len(m.entries))
        /\ CallEndsOwn(m.src, m.boot, m.term, m.prevIdx + Len(m.entries))
    BY <1>1 DEF CallsInLog, CallsEndOwn
  <2> QED
    BY <1>3, <2>2, <2>3
<1>5. ASSUME NEW m \in appReps
      PROVE  CallEndsOwn(m.dst, m.boot, m.round, m.prevIdx + m.sent)'
  <2>1. m \in AppRep
    BY <1>1 DEF TypeOK
  <2>2. /\ m.dst \in Server /\ m.boot \in Nat /\ m.round \in Nat /\ m.prevIdx \in Nat
        /\ m.sent \in Nat
    BY <2>1 DEF AppRep
  <2>3. /\ CallInLog(m.dst, m.boot, m.round, m.prevIdx, m.sent)
        /\ CallEndsOwn(m.dst, m.boot, m.round, m.prevIdx + m.sent)
    BY <1>1 DEF CallsInLog, CallsEndOwn
  <2> QED
    BY <1>3, <2>2, <2>3
<1>6. ASSUME NEW m \in appReqs', m \notin appReqs
      PROVE  CallEndsOwn(m.src, m.boot, m.term, m.prevIdx + Len(m.entries))'
  <2>1. /\ role[m.src] = "leader" /\ UNCHANGED <<currentTerm, log>>
        /\ m.prevIdx + Len(m.entries) = Len(log[m.src])
    BY <1>1, <1>6, CallsOnTheirWay
  <2>2. m.src \in Server
    BY <1>1, <1>6 DEF TypeOK, AppReq
  <2>3. log[m.src][Len(log[m.src])].term = currentTerm[m.src]
    BY <1>1, <2>1, <2>2 DEF LeadersEndOwn
  <2> QED
    BY <2>1, <2>3 DEF CallEndsOwn
<1>7. ASSUME NEW r \in appReps', NEW m \in appReqs, Echo(r, m)
      PROVE  CallEndsOwn(r.dst, r.boot, r.round, r.prevIdx + r.sent)'
  BY <1>4, <1>7 DEF Echo
<1>8. \A r \in appReps' : r \in appReps \/ \E m \in appReqs : Echo(r, m)
  BY <1>1, CallsOnTheirWay
<1> QED
  BY <1>4, <1>5, <1>6, <1>7, <1>8 DEF CallsEndOwn

LEMMA AcksStay ==
  ASSUME OwnInv, LeadersEndOwn', [Next]_vars
  PROVE  AckedOwnTerm'
<1> SUFFICES ASSUME NEW n \in Server, NEW p \in Server, role'[n] = "leader",
                    matchIndex'[n][p] > 0
             PROVE  log'[n][matchIndex'[n][p]].term = currentTerm'[n]
  BY DEF AckedOwnTerm
<1> DEFINE k == matchIndex'[n][p]
<1>1. /\ TypeOK /\ CallsInLog /\ CallsEndOwn /\ NextInLog /\ AckedOwnTerm
      /\ matchIndex[n][p] \in Nat
  BY DEF OwnInv, LeaderInv, OrderInv, TypeOK
<1>2. LeadsOn(n) \/ ComesToLead(n)
  BY <1>1, LeadersLeadOn
<1>3. CASE k = Len(log'[n])
  BY <1>3 DEF LeadersEndOwn
<1>4. CASE ComesToLead(n)
  BY <1>3, <1>4 DEF ComesToLead
<1>5. ASSUME LeadsOn(n), k \in Nat, k <= Len(log[n]), log[n][k].term = currentTerm[n]
      PROVE  log'[n][k].term = currentTerm'[n]
  BY <1>1, <1>5, PositionStays DEF LeadsOn
<1>6. CASE LeadsOn(n) /\ k = matchIndex[n][p]
  <2>1. role[n] = "leader"
    BY <1>6 DEF LeadsOn
  <2>2. k <= Len(log[n]) /\ log[n][k].term = currentTerm[n]
    BY <1>1, <1>6, <2>1 DEF NextInLog, AckedOwnTerm
  <2> QED
    BY <1>1, <1>5, <1>6, <2>2
<1>7. ASSUME LeadsOn(n), NEW m \in appReps, m.dst = n, m.boot = boots[n],
             m.round = currentTerm[n], k = m.prevIdx + m.sent
      PROVE  log'[n][k].term = currentTerm'[n]
  <2>1. role[n] = "leader"
    BY <1>7 DEF LeadsOn
  <2>2. /\ CallInLog(n, m.boot, m.round, m.prevIdx, m.sent)
        /\ CallEndsOwn(n, m.boot, m.round, m.prevIdx + m.sent)
    BY <1>1, <1>7 DEF CallsInLog, CallsEndOwn
  <2>3. k <= Len(log[n]) /\ log[n][k].term = currentTerm[n]
    BY <1>7, <2>1, <2>2 DEF CallInLog, CallEndsOwn
  <2>4. m.prevIdx \in Nat /\ m.sent \in Nat
    BY <1>1 DEF TypeOK, AppRep
  <2>5. k \in Nat
    BY <1>7, <2>4
  <2> QED
    BY <1>5, <1>7, <2>3, <2>5
<1>8. CASE LeadsOn(n)
  <2>1. AckFrom(n, p)
    BY <1>8 DEF LeadsOn
  <2> QED
    BY <1>3, <1>6, <1>7, <1>8, <2>1 DEF AckFrom
<1> QED
  BY <1>2, <1>4, <1>8

\* No leader of any cluster ever counts an entry of an earlier term as
\* acknowledged, whatever crashes and is lost: every call reaches to the end of
\* its log, where its own entries are, so that the test for the current term in
\* advanceCommitIndex turns nothing away.
THEOREM AcknowledgedInOwnTerm == Spec => []AckedOwnTerm
<1>1. Init => OwnInv
  <2> SUFFICES ASSUME Init PROVE OwnInv
    OBVIOUS
  <2>1. LeaderInv
    BY LeaderInit
  <2> QED
    BY <2>1 DEF Init, OwnInv, LeadersEndOwn, CallsEndOwn, AckedOwnTerm
<1>2. OwnInv /\ [Next]_vars => OwnInv'
  <2> SUFFICES ASSUME OwnInv, [Next]_vars PROVE OwnInv'
    OBVIOUS
  <2>1. LeaderInv'
    BY LeaderStep DEF OwnInv
  <2>2. LeadersEndOwn'
    BY EndStays
  <2>3. CallsEndOwn' /\ AckedOwnTerm'
    BY <2>1, <2>2, CallsStay, AcksStay
  <2> QED
    BY <2>1, <2>2, <2>3 DEF OwnInv
<1>3. OwnInv => AckedOwnTerm
  BY DEF OwnInv
<1> QED
  BY <1>1, <1>2, <1>3, PTL DEF Spec
=============================================================================
