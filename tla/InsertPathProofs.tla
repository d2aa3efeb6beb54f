-------------------------- MODULE InsertPathProofs --------------------------
(***************************************************************************)
(* What holds of module InsertPath for any calls, any capacity of applyCh  *)
(* and any bounds: the graph is the committed log applied in order, and a  *)
(* client is acknowledged only at a committed position.                    *)
(***************************************************************************)
EXTENDS InsertPath, TLAPS

\* The message that stands for position k of the log.
At(k) == [index |-> k, cmd |-> log[k]]

\* What is applied, what is in applyCh and what is left of the batch are, one
\* after the other, the log up to batchEnd; a batch is under way only while
\* lastApplied is behind.
Flow ==
  /\ commitIndex <= Len(log) /\ batchEnd <= commitIndex /\ lastApplied <= batchEnd
  /\ lastApplied = batchEnd => batch = <<>>
  /\ Len(applied) + Len(applyCh) + Len(batch) = batchEnd
  /\ \A k \in 1..Len(applied) : applied[k] = At(k)
  /\ \A k \in 1..Len(applyCh) : applyCh[k] = At(Len(applied) + k)
  /\ \A k \in 1..Len(batch) : batch[k] = At(Len(applied) + Len(applyCh) + k)

\* A call is registered at its own position, and its channel is closed only
\* after that position was applied.
Waiters ==
  /\ pending <= Len(applied)
  /\ \A k \in DOMAIN chs : logIdx[chs[k]] = k
  /\ \A c \in Call :
       handler[c] = "new" => c \notin closed /\ \A k \in DOMAIN chs : chs[k] # c
  /\ AcknowledgedIsCommitted

Inv == TypeOK /\ Flow /\ Waiters

-----------------------------------------------------------------------------
LEMMA EmptySequence ==
  ASSUME NEW S
  PROVE  <<>> \in Seq(S) /\ Len(<<>>) = 0 /\ DOMAIN <<>> = {}
  OBVIOUS

LEMMA InvInit == Init => Inv
<1> SUFFICES ASSUME Init PROVE Inv
  OBVIOUS
<1>1. TypeOK
  <2>1. log \in Seq(Cmd) /\ batch \in Seq(Msg) /\ applyCh \in Seq(Msg) /\ applied \in Seq(Msg)
    BY EmptySequence DEF Init
  <2>2. DOMAIN chs = {}
    BY EmptySequence DEF Init
  <2>3. handler \in [Call -> HandlerState] /\ logIdx \in [Call -> Nat]
    BY DEF Init, HandlerState
  <2> QED
    BY <2>1, <2>2, <2>3 DEF Init, TypeOK
<1>2. Flow
  BY EmptySequence DEF Init, Flow
<1>3. Waiters
  <2>1. Len(applied) = 0 /\ DOMAIN chs = {}
    BY EmptySequence DEF Init
  <2> QED
    BY <2>1 DEF Init, Waiters, AcknowledgedIsCommitted
<1> QED
  BY <1>1, <1>2, <1>3 DEF Inv

\* A log that keeps its committed part keeps the messages in flight true.
LEMMA FlowKept ==
  ASSUME Inv, log' \in Seq(Cmd), Len(log') >= commitIndex,
         \A k \in 1..commitIndex : log'[k] = log[k],
         UNCHANGED <<loopVars, applyCh, applierVars>>,
         commitIndex' = commitIndex
  PROVE  Flow'
<1>1. /\ Len(log') \in Nat /\ commitIndex \in Nat
      /\ Len(applied) \in Nat /\ Len(applyCh) \in Nat /\ Len(batch) \in Nat
  BY DEF Inv, TypeOK
<1>2. \A k \in 1..batchEnd : At(k)' = At(k)
  BY <1>1 DEF Inv, Flow, TypeOK, At
<1>3. /\ \A k \in 1..Len(applied) : k \in 1..batchEnd
      /\ \A k \in 1..Len(applyCh) : Len(applied) + k \in 1..batchEnd
      /\ \A k \in 1..Len(batch) : Len(applied) + Len(applyCh) + k \in 1..batchEnd
  BY <1>1 DEF Inv, Flow, TypeOK
<1>4. commitIndex' <= Len(log') /\ batchEnd' <= commitIndex'
  BY <1>1 DEF Inv, Flow, loopVars
<1> QED
  BY <1>2, <1>3, <1>4 DEF Inv, Flow, loopVars, applierVars

-----------------------------------------------------------------------------
(* The handlers.                                                           *)

LEMMA InsertStep ==
  ASSUME Inv, NEW c \in Call, Insert(c)
  PROVE  Inv'
<1>1. Encode(c) \in Cmd
  BY DEF Encode, Cmd
<1>2. /\ log' \in Seq(Cmd) /\ Len(log') >= commitIndex
      /\ \A k \in 1..commitIndex : log'[k] = log[k]
  <2>1. log \in Seq(Cmd) /\ commitIndex \in Nat /\ commitIndex <= Len(log)
    BY DEF Inv, TypeOK, Flow
  <2>2. log' = Append(log, Encode(c)) \/ log' = log
    BY DEF Insert
  <2> QED
    BY <1>1, <2>1, <2>2
<1>3. Flow'
  BY <1>2, FlowKept DEF Insert
<1>4. TypeOK'
  <2>1. handler' \in [Call -> HandlerState]
    BY DEF Inv, TypeOK, Insert, HandlerState
  <2>2. logIdx' \in [Call -> Nat]
    <3>1. Len(log) + 1 \in Nat
      BY DEF Inv, TypeOK
    <3>2. logIdx' = [logIdx EXCEPT ![c] = Len(log) + 1] \/ logIdx' = logIdx
      BY DEF Insert
    <3> QED
      BY <3>1, <3>2 DEF Inv, TypeOK
  <2>3. UNCHANGED <<leading, terms, commitIndex, lastApplied, batch, batchEnd, applyCh, applied,
                    pending, chs, closed, boots>>
    BY DEF Insert, loopVars, applierVars, waitVars
  <2> QED
    BY <1>2, <2>1, <2>2, <2>3 DEF Inv, TypeOK
<1>5. Waiters'
  <2>1. c \notin closed /\ \A k \in DOMAIN chs : chs[k] # c
    BY DEF Inv, Waiters, Insert
  <2>2. /\ \A d \in Call : d # c => logIdx'[d] = logIdx[d] /\ handler'[d] = handler[d]
        /\ handler'[c] \in {"proposed", "refused"}
    BY DEF Inv, TypeOK, Insert
  <2> QED
    BY <2>1, <2>2
    DEF Inv, TypeOK, Waiters, AcknowledgedIsCommitted, Insert, loopVars, applierVars, waitVars
<1> QED
  BY <1>3, <1>4, <1>5 DEF Inv

LEMMA HandlerStep ==
  ASSUME Inv, NEW c \in Call, Register(c) \/ Answer(c) \/ GiveUp(c)
  PROVE  Inv'
<1>1. Flow'
  <2>1. /\ log' \in Seq(Cmd) /\ Len(log') >= commitIndex
        /\ \A k \in 1..commitIndex : log'[k] = log[k]
    BY DEF Inv, TypeOK, Flow, Register, Answer, GiveUp, raftVars
  <2> QED
    BY <2>1, FlowKept DEF Register, Answer, GiveUp, raftVars
<1>2. CASE Register(c)
  <2>1. /\ DOMAIN chs' = DOMAIN chs \cup {logIdx[c]}
        /\ \A k \in DOMAIN chs' : chs'[k] = IF k = logIdx[c] THEN c ELSE chs[k]
    BY <1>2 DEF Register
  <2>2. TypeOK'
    BY <1>2, <2>1 DEF Inv, TypeOK, Register, HandlerState, raftVars, loopVars, applierVars
  <2>3. \A d \in Call : d # c => handler'[d] = handler[d]
    BY <1>2 DEF Inv, TypeOK, Register
  <2>4. handler'[c] = "waiting"
    BY <1>2 DEF Inv, TypeOK, Register
  <2>5. Waiters'
    BY <1>2, <2>1, <2>3, <2>4
    DEF Inv, TypeOK, Waiters, AcknowledgedIsCommitted, Register, raftVars, applierVars
  <2> QED
    BY <1>1, <2>2, <2>5 DEF Inv
<1>3. CASE Answer(c) \/ GiveUp(c)
  <2>1. TypeOK'
    BY <1>3
    DEF Inv, TypeOK, Answer, GiveUp, HandlerState, raftVars, loopVars, applierVars, waitVars
  <2>2. \A d \in Call : d # c => handler'[d] = handler[d]
    BY <1>3 DEF Inv, TypeOK, Answer, GiveUp
  <2>3. /\ handler'[c] \in {"acknowledged", "failed"}
        /\ handler'[c] = "acknowledged" => c \in closed
    BY <1>3 DEF Inv, TypeOK, Answer, GiveUp
  <2>4. Len(applied) \in Nat /\ Len(applied) <= commitIndex /\ commitIndex \in Nat
    <3>1. Len(applied) \in Nat /\ Len(applyCh) \in Nat /\ Len(batch) \in Nat
      BY DEF Inv, TypeOK
    <3> QED
      BY <3>1 DEF Inv, TypeOK, Flow
  <2>5. Waiters'
    BY <1>3, <2>2, <2>3, <2>4
    DEF Inv, TypeOK, Waiters, AcknowledgedIsCommitted, Answer, GiveUp, raftVars, applierVars,
        waitVars
  <2> QED
    BY <1>1, <2>1, <2>5 DEF Inv
<1> QED
  BY <1>2, <1>3

-----------------------------------------------------------------------------
(* commitApplyLoop and the Applier.                                        *)

LEMMA CollectStep ==
  ASSUME Inv, Collect
  PROVE  Inv'
<1> DEFINE first == lastApplied + 1
           n == commitIndex - lastApplied
<1>1. lastApplied \in Nat /\ commitIndex \in Nat /\ n \in Nat /\ n > 0
  BY DEF Inv, TypeOK, Flow, Collect, MoreCommitted
<1>2. batch' = [i \in 1..n |-> [index |-> lastApplied + i, cmd |-> log[lastApplied + i]]]
  <2>1. commitIndex - first + 1 = n
    BY <1>1
  <2>2. \A i \in 1..n : first + i - 1 = lastApplied + i
    BY <1>1
  <2> QED
    BY <2>1, <2>2 DEF Collect, Messages
<1>3. \A i \in 1..n : lastApplied + i \in 1..Len(log)
  BY <1>1 DEF Inv, Flow, TypeOK
<1>4. \A i \in 1..n : [index |-> lastApplied + i, cmd |-> log[lastApplied + i]] \in Msg
  <2>1. \A i \in 1..n : lastApplied + i \in Nat
    BY <1>1
  <2>2. \A k \in 1..Len(log) : log[k] \in Cmd
    BY DEF Inv, TypeOK
  <2> HIDE DEF n
  <2> QED
    BY <1>3, <2>1, <2>2 DEF Msg
<1>5. batch' \in Seq(Msg) /\ Len(batch') = n
  <2> HIDE DEF n
  <2>1. DOMAIN batch' = 1..n /\ batch' \in [1..n -> Msg]
    BY <1>2, <1>4
  <2> QED
    BY <1>1, <2>1
<1>6. TypeOK'
  BY <1>5 DEF Inv, TypeOK, Collect, raftVars, applierVars, waitVars, callVars
<1>7. batch = <<>> /\ Len(applied) + Len(applyCh) = lastApplied
  <2>1. batch = <<>>
    BY DEF Inv, Flow, Collect
  <2>2. Len(applied) \in Nat /\ Len(applyCh) \in Nat /\ Len(batch) = 0
    BY <2>1 DEF Inv, TypeOK
  <2> QED
    BY <2>1, <2>2 DEF Inv, Flow, Collect
<1>8. Flow'
  <2>1. \A k \in 1..Len(batch') : batch'[k] = At(Len(applied) + Len(applyCh) + k)
    BY <1>2, <1>5, <1>7 DEF At
  <2>2. Len(applied) \in Nat /\ Len(applyCh) \in Nat /\ lastApplied + n = commitIndex
    BY <1>1 DEF Inv, TypeOK
  <2>3. Len(applied) + Len(applyCh) + Len(batch') = commitIndex
    BY <1>5, <1>7, <2>2
  <2>4. lastApplied < commitIndex
    BY <1>1
  <2>5. /\ log' = log /\ commitIndex' = commitIndex /\ lastApplied' = lastApplied
        /\ batchEnd' = commitIndex /\ applied' = applied /\ applyCh' = applyCh
    BY DEF Collect, raftVars, applierVars
  <2> QED
    BY <1>1, <2>1, <2>3, <2>4, <2>5 DEF Inv, Flow, At
<1>9. Waiters'
  BY DEF Inv, Waiters, AcknowledgedIsCommitted, Collect, raftVars, applierVars, waitVars, callVars
<1> QED
  BY <1>6, <1>8, <1>9 DEF Inv

LEMMA SendStep ==
  ASSUME Inv, Send
  PROVE  Inv'
<1>1. /\ batch \in Seq(Msg) /\ batch # <<>> /\ applyCh \in Seq(Msg)
      /\ Len(batch) \in Nat \ {0} /\ Len(applyCh) \in Nat /\ Len(applied) \in Nat
  BY DEF Inv, TypeOK, Send
<1>2. /\ applyCh' \in Seq(Msg) /\ Len(applyCh') = Len(applyCh) + 1
      /\ batch' \in Seq(Msg) /\ Len(batch') = Len(batch) - 1
  BY <1>1 DEF Send
<1>3. /\ log' = log /\ commitIndex' = commitIndex /\ lastApplied' = lastApplied
      /\ batchEnd' = batchEnd /\ applied' = applied
  BY DEF Send, raftVars, applierVars
<1>4. TypeOK'
  BY <1>2 DEF Inv, TypeOK, Send, raftVars, applierVars, waitVars, callVars
<1>5. Flow'
  <2>1. \A k \in 1..Len(applyCh') : applyCh'[k] = At(Len(applied) + k)
    <3> SUFFICES ASSUME NEW k \in 1..Len(applyCh') PROVE applyCh'[k] = At(Len(applied) + k)
      OBVIOUS
    <3>1. CASE k \in 1..Len(applyCh)
      BY <1>1, <3>1 DEF Inv, Flow, Send
    <3>2. CASE k = Len(applyCh) + 1
      <4>1. applyCh'[k] = batch[1]
        BY <1>1, <3>2 DEF Send
      <4>2. batch[1] = At(Len(applied) + Len(applyCh) + 1)
        BY <1>1 DEF Inv, Flow
      <4>3. Len(applied) + Len(applyCh) + 1 = Len(applied) + k
        BY <1>1, <3>2
      <4> QED
        BY <4>1, <4>2, <4>3
    <3> QED
      BY <1>1, <1>2, <3>1, <3>2
  <2>2. \A k \in 1..Len(batch') : batch'[k] = At(Len(applied) + Len(applyCh') + k)
    <3> SUFFICES ASSUME NEW k \in 1..Len(batch')
                 PROVE  batch'[k] = At(Len(applied) + Len(applyCh') + k)
      OBVIOUS
    <3>1. k + 1 \in 1..Len(batch)
      BY <1>1, <1>2
    <3>2. batch'[k] = batch[k + 1]
      BY <1>1, <1>2 DEF Send
    <3>3. Len(applied) + Len(applyCh) + (k + 1) = Len(applied) + Len(applyCh') + k
      BY <1>1, <1>2
    <3>4. batch[k + 1] = At(Len(applied) + Len(applyCh) + (k + 1))
      BY <3>1 DEF Inv, Flow
    <3> QED
      BY <3>2, <3>3, <3>4
  <2>3. Len(applied) + Len(applyCh') + Len(batch') = batchEnd
    BY <1>1, <1>2 DEF Inv, Flow
  <2>4. lastApplied # batchEnd
    BY <1>1 DEF Inv, Flow
  <2> QED
    BY <1>3, <2>1, <2>2, <2>3, <2>4 DEF Inv, Flow, At
<1>6. Waiters'
  BY DEF Inv, Waiters, AcknowledgedIsCommitted, Send, raftVars, applierVars, waitVars, callVars
<1> QED
  BY <1>4, <1>5, <1>6 DEF Inv

LEMMA FinishStep ==
  ASSUME Inv, FinishBatch
  PROVE  Inv'
<1>1. TypeOK'
  BY DEF Inv, TypeOK, FinishBatch, raftVars, applierVars, waitVars, callVars
<1>2. Flow'
  BY DEF Inv, TypeOK, Flow, At, FinishBatch, raftVars, applierVars
<1>3. Waiters'
  BY DEF Inv, Waiters, AcknowledgedIsCommitted, FinishBatch, raftVars, applierVars, waitVars,
         callVars
<1> QED
  BY <1>1, <1>2, <1>3 DEF Inv

LEMMA ApplyStep ==
  ASSUME Inv, Apply
  PROVE  Inv'
<1>1. /\ applyCh \in Seq(Msg) /\ applyCh # <<>> /\ applied \in Seq(Msg)
      /\ Len(applyCh) \in Nat \ {0} /\ Len(applied) \in Nat /\ Len(batch) \in Nat
      /\ Head(applyCh) = applyCh[1] /\ applyCh[1] \in Msg
  BY DEF Inv, TypeOK, Apply
<1>2. /\ applied' \in Seq(Msg) /\ Len(applied') = Len(applied) + 1
      /\ applyCh' \in Seq(Msg) /\ Len(applyCh') = Len(applyCh) - 1
  BY <1>1 DEF Apply
<1>3. /\ log' = log /\ commitIndex' = commitIndex /\ lastApplied' = lastApplied
      /\ batchEnd' = batchEnd /\ batch' = batch
  BY DEF Apply, raftVars, loopVars
<1>4. applyCh[1] = At(Len(applied) + 1)
  BY <1>1 DEF Inv, Flow
<1>5. pending' = Len(applied')
  BY <1>1, <1>2, <1>4 DEF Apply, At
<1>6. TypeOK'
  <2>1. pending' \in Nat
    BY <1>2, <1>5
  <2> QED
    BY <1>2, <2>1 DEF Inv, TypeOK, Apply, raftVars, loopVars, waitVars, callVars
<1>7. Flow'
  <2>1. \A k \in 1..Len(applied') : applied'[k] = At(k)
    <3> SUFFICES ASSUME NEW k \in 1..Len(applied') PROVE applied'[k] = At(k)
      OBVIOUS
    <3>1. CASE k \in 1..Len(applied)
      BY <1>1, <3>1 DEF Inv, Flow, Apply
    <3>2. CASE k = Len(applied) + 1
      BY <1>1, <1>4, <3>2 DEF Apply
    <3> QED
      BY <1>1, <1>2, <3>1, <3>2
  <2>2. \A k \in 1..Len(applyCh') : applyCh'[k] = At(Len(applied') + k)
    <3> SUFFICES ASSUME NEW k \in 1..Len(applyCh') PROVE applyCh'[k] = At(Len(applied') + k)
      OBVIOUS
    <3>1. k + 1 \in 1..Len(applyCh)
      BY <1>1, <1>2
    <3>2. applyCh'[k] = applyCh[k + 1]
      BY <1>1, <1>2 DEF Apply
    <3>3. Len(applied) + (k + 1) = Len(applied') + k
      BY <1>1, <1>2
    <3>4. applyCh[k + 1] = At(Len(applied) + (k + 1))
      BY <3>1 DEF Inv, Flow
    <3> QED
      BY <3>2, <3>3, <3>4
  <2>3. \A k \in 1..Len(batch) : batch[k] = At(Len(applied') + Len(applyCh') + k)
    <3>1. Len(applied') + Len(applyCh') = Len(applied) + Len(applyCh)
      BY <1>1, <1>2
    <3> QED
      BY <3>1 DEF Inv, Flow
  <2>4. Len(applied') + Len(applyCh') + Len(batch) = batchEnd
    BY <1>1, <1>2 DEF Inv, Flow
  <2> QED
    BY <1>3, <2>1, <2>2, <2>3, <2>4 DEF Inv, Flow, At
<1>8. Waiters'
  BY <1>1, <1>2, <1>5
  DEF Inv, TypeOK, Waiters, AcknowledgedIsCommitted, Apply, raftVars, waitVars, callVars
<1> QED
  BY <1>6, <1>7, <1>8 DEF Inv

LEMMA NotifyStep ==
  ASSUME Inv, NotifyApplied
  PROVE  Inv'
<1>1. /\ DOMAIN chs' = DOMAIN chs \ {pending}
      /\ \A k \in DOMAIN chs' : chs'[k] = chs[k]
      /\ \A c \in closed' : c \in closed \/ \E k \in DOMAIN chs : k = pending /\ c = chs[k]
  BY DEF NotifyApplied, Notify, Waiter
<1>2. closed' \subseteq Call
  BY <1>1 DEF Inv, TypeOK
<1>3. TypeOK'
  BY <1>1, <1>2 DEF Inv, TypeOK, NotifyApplied, raftVars, loopVars, callVars
<1>4. Flow'
  BY DEF Inv, Flow, At, NotifyApplied, raftVars, loopVars
<1>5. \A c \in closed' : logIdx[c] \in 1..Len(applied) /\ handler[c] # "new"
  <2>1. pending \in 1..Len(applied)
    BY DEF Inv, TypeOK, Waiters, NotifyApplied
  <2> QED
    BY <1>1, <1>2, <2>1 DEF Inv, TypeOK, Waiters, AcknowledgedIsCommitted
<1>6. Waiters'
  <2>1. pending' <= Len(applied')
    BY DEF Inv, TypeOK, NotifyApplied
  <2> QED
    BY <1>1, <1>5, <2>1
    DEF Inv, Waiters, AcknowledgedIsCommitted, NotifyApplied, raftVars, callVars
<1> QED
  BY <1>3, <1>4, <1>6 DEF Inv

-----------------------------------------------------------------------------
(* The rest of the cluster.                                                *)

LEMMA ClusterStep ==
  ASSUME Inv, BecomeLeader \/ StepDown \/ AppendEntries \/ AdvanceCommitIndex
  PROVE  Inv'
<1>1. CASE BecomeLeader \/ StepDown \/ AppendEntries
  <2>1. /\ log' \in Seq(Cmd) /\ Len(log') >= commitIndex
        /\ \A k \in 1..commitIndex : log'[k] = log[k]
    <3>1. log \in Seq(Cmd) /\ commitIndex \in Nat /\ commitIndex <= Len(log)
      BY DEF Inv, TypeOK, Flow
    <3>2. CASE BecomeLeader
      BY <3>1, <3>2 DEF BecomeLeader, Cmd
    <3>3. CASE StepDown
      BY <3>1, <3>3 DEF StepDown
    <3>4. CASE AppendEntries
      <4>1. PICK k \in commitIndex..Len(log), e \in Cmd :
              log' = Append(SubSeq(log, 1, k), e)
        <5>1. \A k \in (IF Churn THEN commitIndex ELSE Len(log))..Len(log) :
                k \in commitIndex..Len(log)
          BY <3>1
        <5>2. PICK k \in (IF Churn THEN commitIndex ELSE Len(log))..Len(log),
                   e \in {Foreign, NoOp} \cup Call : log' = Append(SubSeq(log, 1, k), e)
          BY <3>4 DEF AppendEntries
        <5> QED
          BY <5>1, <5>2 DEF Cmd
      <4>2. /\ SubSeq(log, 1, k) \in Seq(Cmd) /\ Len(SubSeq(log, 1, k)) = k
            /\ \A i \in 1..k : SubSeq(log, 1, k)[i] = log[i]
        BY <3>1, <4>1
      <4> QED
        BY <3>1, <4>1, <4>2
    <3> QED
      BY <1>1, <3>2, <3>3, <3>4
  <2>2. Flow'
    BY <1>1, <2>1, FlowKept DEF BecomeLeader, StepDown, AppendEntries
  <2>3. TypeOK'
    <3>1. leading' \in BOOLEAN
      BY <1>1 DEF Inv, TypeOK, BecomeLeader, StepDown, AppendEntries
    <3>2. terms' \in Nat
      BY <1>1 DEF Inv, TypeOK, BecomeLeader, StepDown, AppendEntries
    <3>3. UNCHANGED <<commitIndex, lastApplied, batch, batchEnd, applyCh, applied, pending, chs,
                      closed, handler, logIdx, boots>>
      BY <1>1
      DEF BecomeLeader, StepDown, AppendEntries, loopVars, applierVars, waitVars, callVars
    <3> QED
      BY <2>1, <3>1, <3>2, <3>3 DEF Inv, TypeOK
  <2>4. Waiters'
    BY <1>1
    DEF Inv, Waiters, AcknowledgedIsCommitted, BecomeLeader, StepDown, AppendEntries,
        applierVars, waitVars, callVars
  <2> QED
    BY <2>2, <2>3, <2>4 DEF Inv
<1>2. CASE AdvanceCommitIndex
  <2>1. commitIndex' \in Nat /\ commitIndex' > commitIndex /\ commitIndex' <= Len(log)
    BY <1>2 DEF Inv, TypeOK, AdvanceCommitIndex
  <2>2. TypeOK'
    BY <1>2, <2>1
    DEF Inv, TypeOK, AdvanceCommitIndex, loopVars, applierVars, waitVars, callVars
  <2>3. Flow'
    <3>1. UNCHANGED <<log, lastApplied, batch, batchEnd, applyCh, applied>>
      BY <1>2 DEF AdvanceCommitIndex, loopVars, applierVars
    <3>2. commitIndex \in Nat /\ batchEnd \in Nat /\ Len(log) \in Nat
      BY DEF Inv, TypeOK
    <3>3. batchEnd <= commitIndex'
      BY <2>1, <3>2 DEF Inv, Flow
    <3> QED
      BY <2>1, <3>1, <3>3 DEF Inv, Flow, At
  <2>4. Waiters'
    BY <1>2, <2>1
    DEF Inv, TypeOK, Waiters, AcknowledgedIsCommitted, AdvanceCommitIndex, applierVars, waitVars,
        callVars
  <2> QED
    BY <2>2, <2>3, <2>4 DEF Inv
<1> QED
  BY <1>1, <1>2

LEMMA RestartStep ==
  ASSUME Inv, Restart
  PROVE  Inv'
<1>1. TypeOK'
  <2>1. /\ batch' \in Seq(Msg) /\ applyCh' \in Seq(Msg) /\ applied' \in Seq(Msg)
        /\ DOMAIN chs' = {} /\ closed' = {}
    BY EmptySequence DEF Restart
  <2>2. handler' \in [Call -> HandlerState]
    BY DEF Inv, TypeOK, Restart, HandlerState
  <2>3. leading' \in BOOLEAN
    BY DEF Restart
  <2>4. /\ boots' \in Nat /\ lastApplied' = 0 /\ batchEnd' = 0 /\ pending' = 0
        /\ UNCHANGED <<terms, log, commitIndex, logIdx>>
    BY DEF Inv, TypeOK, Restart
  <2> QED
    BY <2>1, <2>2, <2>3, <2>4 DEF Inv, TypeOK
<1>2. Flow'
  BY DEF Inv, TypeOK, Flow, Restart
<1>3. \A c \in Call : /\ handler'[c] = "acknowledged" => handler[c] = "acknowledged"
                      /\ handler'[c] = "new" => handler[c] = "new"
  BY DEF Inv, TypeOK, Restart
<1>4. Waiters'
  BY <1>3 DEF Inv, Waiters, AcknowledgedIsCommitted, Restart
<1> QED
  BY <1>1, <1>2, <1>4 DEF Inv

-----------------------------------------------------------------------------
LEMMA InvStep == Inv /\ [Next]_vars => Inv'
<1> SUFFICES ASSUME Inv, [Next]_vars PROVE Inv'
  OBVIOUS
<1>1. CASE UNCHANGED vars
  BY <1>1
  DEF Inv, TypeOK, Flow, At, Waiters, AcknowledgedIsCommitted, vars, raftVars, loopVars,
      applierVars, waitVars, callVars
<1>2. CASE Next
  BY <1>2, InsertStep, HandlerStep, CollectStep, SendStep, FinishStep, ApplyStep, NotifyStep,
     ClusterStep, RestartStep
  DEF Next
<1> QED
  BY <1>1, <1>2

LEMMA InvAlways == Spec => []Inv
  BY InvInit, InvStep, PTL DEF Spec

\* The graph of a node is built from its committed log, each entry once and in
\* order, whatever the capacity of applyCh, the timing of commitApplyLoop and
\* the Applier, the truncations of the log and the restarts.
THEOREM GraphFollowsLog == Spec => []AppliedIsCommitted
<1>1. Inv => AppliedIsCommitted
  <2> SUFFICES ASSUME Inv PROVE AppliedIsCommitted
    OBVIOUS
  <2>1. Len(applied) \in Nat /\ Len(applyCh) \in Nat /\ Len(batch) \in Nat
    BY DEF Inv, TypeOK
  <2> QED
    BY <2>1 DEF Inv, TypeOK, Flow, At, AppliedIsCommitted
<1> QED
  BY <1>1, InvAlways, PTL

\* A handler is woken only after its position was applied, and a client is
\* told "success" only at a committed position.
THEOREM NoEarlySuccess == Spec => []AcknowledgedIsCommitted
<1>1. Inv => AcknowledgedIsCommitted
  BY DEF Inv, Waiters
<1> QED
  BY <1>1, InvAlways, PTL

\* Every variable of the insert path keeps its type; only channels that calls
\* registered are ever closed.
THEOREM InsertTypeCorrect == Spec => []TypeOK
<1>1. Inv => TypeOK
  BY DEF Inv
<1> QED
  BY <1>1, InvAlways, PTL
=============================================================================
