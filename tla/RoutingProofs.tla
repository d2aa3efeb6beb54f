--------------------------- MODULE RoutingProofs ----------------------------
(***************************************************************************)
(* Routing for any cluster, any number of attempts, elections and changes  *)
(* of mind about the leader, and any loss of connections and processes.    *)
(***************************************************************************)
EXTENDS Routing, SequenceTheorems, TLAPS

\* The handlers of an attempt: the hop count of a handler is its place in the
\* chain, all but the last have passed the request on, and once it is proposed
\* nobody is left who could propose it again.  An answer has its reason in the
\* chain, and "noLeader" comes from the end of it.
Chained(a) ==
  /\ Len(chain[a]) <= maxHops + 1
  /\ proposed[a] \in {0, 1}
  /\ chain[a] = <<>> => proposed[a] = 0
  /\ \A k \in 1..Len(chain[a]) :
       LET h == chain[a][k]
       IN  /\ h.hops = k - 1
           /\ k < Len(chain[a]) => h.state \in {"forwarding", "returned", "gone"}
           /\ h.state = "forwarding" => k < Len(chain[a])
           /\ h.state \in {"routing", "asking"} => proposed[a] = 0
           /\ h.state = "waiting" => proposed[a] = 1
           /\ h.state = "returned" /\ h.answer \in {"ok", "deadline"} => proposed[a] = 1
           /\ h.state = "returned" /\ h.answer = "noLeader" =>
                /\ proposed[a] = 0
                /\ \A j \in k..Len(chain[a]) : chain[a][j].state = "returned"
  /\ answer[a] \in {"ok", "deadline"} => proposed[a] = 1
  /\ answer[a] = "noLeader" =>
       chain[a] # <<>> /\ chain[a][1].state = "returned" /\ chain[a][1].answer = "noLeader"

\* While everyone knows the leader, a handler that asks for it is not the
\* leader, the last hop goes to the leader, and nobody gives up.
Calmly(a) ==
  calm[a] =>
    /\ Settled
    /\ \A k \in 1..Len(chain[a]) :
         LET h == chain[a][k]
         IN  /\ h.hops = maxHops => leader[h.node] = h.node
             /\ h.state = "asking" => leader[h.node] # h.node
             /\ h.state = "returned" => h.answer # "noLeader"

RoutingInv == TypeOK /\ \A a \in Attempt : Chained(a) /\ Calmly(a)

LEMMA RoutingInit == Init => RoutingInv
<1> SUFFICES ASSUME Init PROVE RoutingInv
  OBVIOUS
<1>1. <<>> \in Seq(Handler) /\ <<>> \in Seq(Node) /\ Len(<<>>) = 0
  BY EmptySeq
<1>2. TypeOK
  BY <1>1 DEF Init, TypeOK
<1>3. \A a \in Attempt : Chained(a) /\ Calmly(a)
  BY <1>1 DEF Init, Chained, Calmly, maxHops
<1> QED
  BY <1>2, <1>3 DEF RoutingInv

-----------------------------------------------------------------------------
(* Raft and the client.                                                    *)

\* A change of what a node knows of the leader ends every calm.
LEMMA RoutingLearns ==
  ASSUME RoutingInv, NEW n \in Node, BecomeLeader(n) \/ HearLeader(n) \/ LoseLeader(n)
  PROVE  RoutingInv'
<1>1. TypeOK
  BY DEF RoutingInv
<1>2. \E t \in Nat, l \in Node \cup {Nil} : Learns(n, t, l)
  <2>1. CASE BecomeLeader(n)
    <3>1. Len(elected) + 1 \in Nat
      BY <1>1 DEF TypeOK
    <3> QED
      BY <2>1, <3>1 DEF BecomeLeader
  <2>2. CASE HearLeader(n)
    <3>1. PICK t \in 1..Len(elected) : Learns(n, t, elected[t])
      BY <2>2 DEF HearLeader
    <3>2. t \in Nat /\ elected[t] \in Node
      BY <1>1 DEF TypeOK
    <3> QED
      BY <3>1, <3>2
  <2>3. CASE LoseLeader(n)
    <3>1. term[n] \in Nat
      BY <1>1 DEF TypeOK
    <3> QED
      BY <2>3, <3>1 DEF LoseLeader
  <2> QED
    BY <2>1, <2>2, <2>3
<1>3. /\ term' \in [Node -> Nat] /\ leader' \in [Node -> Node \cup {Nil}]
      /\ calm' = [a \in Attempt |-> FALSE] /\ UNCHANGED <<owner, chain, answer, proposed>>
  BY <1>1, <1>2 DEF Learns, TypeOK
<1>4. elected' \in Seq(Node) /\ changes' \in Nat
  <2>1. changes + 1 \in Nat /\ Append(elected, n) \in Seq(Node)
    BY <1>1 DEF TypeOK
  <2> QED
    BY <1>1, <2>1 DEF TypeOK, BecomeLeader, HearLeader, LoseLeader
<1>5. TypeOK'
  BY <1>1, <1>3, <1>4 DEF TypeOK
<1>6. \A a \in Attempt : Chained(a)' /\ Calmly(a)'
  BY <1>3 DEF RoutingInv, Chained, Calmly
<1> QED
  BY <1>5, <1>6 DEF RoutingInv

LEMMA RoutingCall ==
  ASSUME RoutingInv, NEW a \in Attempt, NEW n \in Node, Call(a, n)
  PROVE  RoutingInv'
<1>1. /\ TypeOK /\ Chained(a)
      /\ chain[a] = <<>> /\ chain' = [chain EXCEPT ![a] = <<Arrives(n, 0)>>]
      /\ calm' = [calm EXCEPT ![a] = Settled]
      /\ UNCHANGED <<owner, raftVars, answer, proposed>>
  BY DEF RoutingInv, Call
<1>2. Arrives(n, 0) \in Handler
  BY DEF Arrives, Handler, maxHops
<1>3. <<Arrives(n, 0)>> \in Seq(Handler) /\ Len(<<Arrives(n, 0)>>) = 1
  BY <1>2
<1>4. TypeOK'
  <2>1. Settled \in BOOLEAN
    BY DEF Settled
  <2> QED
    BY <1>1, <1>3, <2>1 DEF TypeOK, raftVars
<1>5. chain'[a] = <<Arrives(n, 0)>> /\ calm'[a] = Settled
  BY <1>1 DEF TypeOK
<1>6. /\ Len(chain'[a]) = 1 /\ chain'[a] # <<>>
      /\ \A k \in 1..Len(chain'[a]) :
           k = 1 /\ chain'[a][k].hops = 0 /\ chain'[a][k].state = "routing"
  <2>1. Arrives(n, 0).hops = 0 /\ Arrives(n, 0).state = "routing"
    BY DEF Arrives
  <2> QED
    BY <1>5, <2>1
<1>7. Chained(a)' /\ Calmly(a)'
  <2>1. /\ proposed'[a] = 0 /\ answer'[a] # "noLeader"
        /\ answer'[a] \in {"ok", "deadline"} => proposed'[a] = 1
    BY <1>1 DEF Chained
  <2>2. calm'[a] => Settled'
    BY <1>1, <1>5 DEF Settled, raftVars
  <2> QED
    BY <1>6, <2>1, <2>2 DEF Chained, Calmly, maxHops
<1>8. ASSUME NEW b \in Attempt \ {a} PROVE Chained(b)' /\ Calmly(b)'
  <2>1. /\ chain'[b] = chain[b] /\ calm'[b] = calm[b]
        /\ UNCHANGED <<proposed, answer, leader>>
    BY <1>1 DEF TypeOK, raftVars
  <2>2. Chained(b) /\ Calmly(b)
    BY DEF RoutingInv
  <2> QED
    BY <2>1, <2>2 DEF Chained, Calmly, Settled
<1> QED
  BY <1>4, <1>7, <1>8 DEF RoutingInv

LEMMA RoutingAnswered ==
  ASSUME RoutingInv, NEW a \in Attempt, Receive(a) \/ GiveUp(a)
  PROVE  RoutingInv'
<1>1. /\ TypeOK /\ Chained(a) /\ chain[a] # <<>>
      /\ UNCHANGED <<owner, raftVars, chain, proposed, calm>>
  BY DEF RoutingInv, Receive, GiveUp, Calling
<1>2. 1 \in 1..Len(chain[a]) /\ chain[a][1] \in Handler
  <2>1. chain[a] \in Seq(Handler)
    BY <1>1 DEF TypeOK
  <2> QED
    BY <1>1, <2>1
<1>3. PICK ans \in {"none", "ok", "noLeader", "deadline", "lost"} :
        /\ answer' = [answer EXCEPT ![a] = ans]
        /\ ans = "lost" \/ (chain[a][1].state = "returned" /\ ans = chain[a][1].answer)
  <2>1. CASE Receive(a)
    BY <1>2, <2>1 DEF Receive, Handler
  <2>2. CASE GiveUp(a)
    BY <2>2 DEF GiveUp
  <2> QED
    BY <2>1, <2>2
<1>4. TypeOK'
  BY <1>1, <1>3 DEF TypeOK, raftVars
<1>5. answer'[a] = ans /\ \A b \in Attempt \ {a} : answer'[b] = answer[b]
  BY <1>1, <1>3 DEF TypeOK
<1>6. Chained(a)'
  <2>1. chain[a][1].state = "returned" /\ chain[a][1].answer \in {"ok", "deadline"} =>
          proposed[a] = 1
    BY <1>1, <1>2 DEF Chained
  <2> QED
    BY <1>1, <1>3, <1>5, <2>1 DEF Chained
<1>7. \A b \in Attempt \ {a} : Chained(b)'
  BY <1>1, <1>5 DEF RoutingInv, Chained
<1>8. \A b \in Attempt : Calmly(b)'
  BY <1>1 DEF RoutingInv, Calmly, Settled, raftVars
<1> QED
  BY <1>4, <1>6, <1>7, <1>8 DEF RoutingInv

-----------------------------------------------------------------------------
(* The handlers.                                                           *)

\* Attempts share nothing but what Raft tells them.
LEMMA OtherAttempts ==
  ASSUME RoutingInv, NEW a \in Attempt, NEW c, Becomes(a, c),
         \A b \in Attempt \ {a} : proposed'[b] = proposed[b]
  PROVE  /\ chain'[a] = c /\ calm'[a] = calm[a] /\ answer'[a] = answer[a] /\ leader' = leader
         /\ \A b \in Attempt \ {a} : Chained(b)' /\ Calmly(b)'
         /\ c \in Seq(Handler) /\ proposed' \in [Attempt -> Nat] => TypeOK'
<1>1. /\ TypeOK /\ chain' = [chain EXCEPT ![a] = c]
      /\ UNCHANGED <<owner, raftVars, answer, calm>>
  BY DEF RoutingInv, Becomes
<1>2. chain'[a] = c /\ \A b \in Attempt \ {a} : chain'[b] = chain[b]
  BY <1>1 DEF TypeOK
<1>3. ASSUME NEW b \in Attempt \ {a} PROVE Chained(b)' /\ Calmly(b)'
  BY <1>1, <1>2 DEF RoutingInv, Chained, Calmly, Settled, raftVars
<1>4. c \in Seq(Handler) /\ proposed' \in [Attempt -> Nat] => TypeOK'
  BY <1>1 DEF TypeOK, raftVars
<1> QED
  BY <1>1, <1>2, <1>3, <1>4 DEF raftVars

\* A handler goes on, or ends, without passing the request on.
LEMMA HandlerMoves ==
  ASSUME RoutingInv, NEW a \in Attempt, NEW k \in 1..Len(chain[a]), NEW h \in Handler,
         Becomes(a, With(a, k, h)),
         \A b \in Attempt \ {a} : proposed'[b] = proposed[b],
         proposed' \in [Attempt -> Nat],
         proposed'[a] = proposed[a] \/ (chain[a][k].state = "routing" /\ proposed'[a] = 1),
         chain[a][k].state \notin {"returned", "gone"},
         h.node = chain[a][k].node, h.hops = chain[a][k].hops,
         chain[a][k].state = "forwarding" => h.state \in {"returned", "gone"},
         h.state \in {"asking", "waiting", "returned", "gone"},
         h.state = "asking" => proposed'[a] = 0 /\ leader[h.node] # h.node,
         h.state = "waiting" => proposed'[a] = 1,
         h.state = "returned" /\ h.answer \in {"ok", "deadline"} => proposed'[a] = 1,
         h.state = "returned" /\ h.answer = "noLeader" =>
           /\ proposed'[a] = 0 /\ ~calm[a]
           /\ \A j \in k + 1..Len(chain[a]) : chain[a][j].state = "returned"
  PROVE  RoutingInv'
<1> DEFINE c == chain[a]
           d == With(a, k, h)
<1>1. /\ TypeOK /\ Chained(a) /\ Calmly(a) /\ c \in Seq(Handler) /\ Len(c) \in Nat
  BY DEF RoutingInv, TypeOK
<1>2. /\ d \in Seq(Handler) /\ Len(d) = Len(c) /\ d[k] = h
      /\ \A j \in 1..Len(c) : j # k => d[j] = c[j]
  BY <1>1 DEF With
<1>3. /\ chain'[a] = d /\ calm'[a] = calm[a] /\ answer'[a] = answer[a] /\ leader' = leader
      /\ \A b \in Attempt \ {a} : Chained(b)' /\ Calmly(b)'
      /\ TypeOK'
  BY <1>2, OtherAttempts
<1>4. k < Len(c) => c[k].state = "forwarding"
  BY <1>1 DEF Chained
<1> HIDE DEF d
<1>5. Chained(a)'
  <2>1. c[k].state = "routing" => k = Len(c) /\ proposed[a] = 0
    <3>1. c[k].state = "routing" => ~ (k < Len(c)) /\ proposed[a] = 0
      BY <1>1 DEF Chained
    <3>2. ~ (k < Len(c)) => k = Len(c)
      BY <1>1
    <3> QED
      BY <3>1, <3>2
  <2>2. ASSUME NEW j \in 1..Len(c), c[j].state = "returned", c[j].answer = "noLeader"
        PROVE  j > k /\ proposed'[a] = 0
    <3>1. proposed[a] = 0 /\ \A m \in j..Len(c) : c[m].state = "returned"
      BY <1>1, <2>2 DEF Chained
    <3>2. j > k
      BY <1>1, <3>1
    <3>3. c[k].state # "routing"
      BY <1>1, <2>1, <3>2
    <3> QED
      BY <3>1, <3>2, <3>3
  <2>3. proposed'[a] \in {0, 1} /\ (proposed[a] = 1 => proposed'[a] = 1)
    BY <1>1 DEF Chained
  <2>4. ASSUME NEW j \in 1..Len(c), j # k
        PROVE  /\ c[j].hops = j - 1
               /\ j < Len(c) => c[j].state \in {"forwarding", "returned", "gone"}
               /\ c[j].state = "forwarding" => j < Len(c)
               /\ c[j].state \in {"routing", "asking"} => proposed'[a] = 0
               /\ c[j].state = "waiting" => proposed'[a] = 1
               /\ c[j].state = "returned" /\ c[j].answer \in {"ok", "deadline"} => proposed'[a] = 1
               /\ c[j].state = "returned" /\ c[j].answer = "noLeader" =>
                    proposed'[a] = 0 /\ \A m \in j..Len(c) : d[m].state = "returned"
    <3>1. /\ c[j].hops = j - 1
          /\ j < Len(c) => c[j].state \in {"forwarding", "returned", "gone"}
          /\ c[j].state = "forwarding" => j < Len(c)
          /\ c[j].state \in {"routing", "asking"} => proposed[a] = 0
          /\ c[j].state = "waiting" => proposed[a] = 1
          /\ c[j].state = "returned" /\ c[j].answer \in {"ok", "deadline"} => proposed[a] = 1
          /\ c[j].state = "returned" /\ c[j].answer = "noLeader" =>
               \A m \in j..Len(c) : c[m].state = "returned"
      BY <1>1 DEF Chained
    <3>2. c[j].state \in {"routing", "asking"} => proposed'[a] = proposed[a]
      <4>1. c[j].state \in {"routing", "asking"} => j = Len(c)
        BY <3>1, <1>1
      <4> QED
        BY <2>1, <2>4, <4>1
    <3>3. c[j].state = "returned" /\ c[j].answer = "noLeader" =>
            proposed'[a] = 0 /\ \A m \in j..Len(c) : d[m].state = "returned"
      BY <1>1, <1>2, <2>2, <3>1
    <3> QED
      BY <2>3, <3>1, <3>2, <3>3
  <2>5. /\ h.hops = k - 1
        /\ k < Len(c) => h.state \in {"returned", "gone"}
    BY <1>1, <1>4 DEF Chained
  <2>6. h.state = "returned" /\ h.answer = "noLeader" =>
          \A m \in k..Len(c) : d[m].state = "returned"
    BY <1>1, <1>2
  <2>7. ASSUME NEW j \in 1..Len(d)
        PROVE  LET g == d[j]
               IN  /\ g.hops = j - 1
                   /\ j < Len(d) => g.state \in {"forwarding", "returned", "gone"}
                   /\ g.state = "forwarding" => j < Len(d)
                   /\ g.state \in {"routing", "asking"} => proposed'[a] = 0
                   /\ g.state = "waiting" => proposed'[a] = 1
                   /\ g.state = "returned" /\ g.answer \in {"ok", "deadline"} => proposed'[a] = 1
                   /\ g.state = "returned" /\ g.answer = "noLeader" =>
                        proposed'[a] = 0 /\ \A m \in j..Len(d) : d[m].state = "returned"
    <3>1. CASE j = k
      BY <1>2, <2>5, <2>6, <3>1
    <3>2. CASE j # k
      BY <1>2, <2>4, <3>2
    <3> QED
      BY <3>1, <3>2
  <2>8. /\ answer[a] \in {"ok", "deadline"} => proposed'[a] = 1
        /\ answer[a] # "noLeader"
    <3>1. answer[a] = "noLeader" => 1 > k
      BY <1>1, <2>2 DEF Chained
    <3> QED
      BY <1>1, <2>3, <3>1 DEF Chained
  <2>9. Len(d) <= maxHops + 1 /\ d # <<>>
    <3>1. Len(<<>>) = 0 /\ Len(c) # 0
      BY <1>1
    <3> QED
      BY <1>1, <1>2, <3>1 DEF Chained
  <2> QED
    BY <1>3, <2>3, <2>7, <2>8, <2>9 DEF Chained
<1>6. Calmly(a)'
  <2>1. ASSUME calm[a], NEW j \in 1..Len(d)
        PROVE  /\ d[j].hops = maxHops => leader[d[j].node] = d[j].node
               /\ d[j].state = "asking" => leader[d[j].node] # d[j].node
               /\ d[j].state = "returned" => d[j].answer # "noLeader"
    <3>1. CASE j = k
      BY <1>1, <1>2, <2>1, <3>1 DEF Calmly
    <3>2. CASE j # k
      BY <1>1, <1>2, <2>1, <3>2 DEF Calmly
    <3> QED
      BY <3>1, <3>2
  <2> QED
    BY <1>1, <1>3, <2>1 DEF Calmly, Settled
<1> QED
  BY <1>3, <1>5, <1>6 DEF RoutingInv

\* Only the last handler passes the request on, and only while hops are left.
LEMMA HandlerForwards ==
  ASSUME RoutingInv, NEW a \in Attempt, NEW k \in 1..Len(chain[a]), NEW n \in Node,
         Forward(a, k, n), UNCHANGED proposed,
         chain[a][k].state \in {"routing", "asking"}, chain[a][k].hops < maxHops,
         calm[a] /\ chain[a][k].hops + 1 = maxHops => leader[n] = n
  PROVE  RoutingInv'
<1> DEFINE c == chain[a]
           d == With(a, k, In("forwarding", c[k]))
           new == Arrives(n, HopsOn(c[k].hops))
           e == Append(d, new)
<1>1. /\ TypeOK /\ Chained(a) /\ Calmly(a) /\ c \in Seq(Handler) /\ Len(c) \in Nat
      /\ c[k] \in Handler
  <2>1. TypeOK /\ Chained(a) /\ Calmly(a)
    BY DEF RoutingInv
  <2>2. c \in Seq(Handler)
    BY <2>1 DEF TypeOK
  <2> QED
    BY <2>1, <2>2
<1>2. k = Len(c) /\ c[k].hops = k - 1 /\ proposed[a] = 0
  BY <1>1 DEF Chained
<1>3. /\ In("forwarding", c[k]) \in Handler
      /\ In("forwarding", c[k]).state = "forwarding"
      /\ In("forwarding", c[k]).hops = c[k].hops
      /\ In("forwarding", c[k]).node = c[k].node
  BY <1>1 DEF In, Handler
<1>4. /\ new \in Handler /\ new.hops = k /\ new.node = n /\ new.state = "routing"
  <2>1. c[k].hops + 1 \in 0..maxHops /\ HopsOn(c[k].hops) = k
    <3>1. c[k].hops \in 0..maxHops /\ c[k].hops < maxHops
      BY <1>1 DEF Handler
    <3> HIDE DEF c
    <3> QED
      BY <1>1, <1>2, <3>1 DEF maxHops, HopsOn
  <2>2. new = Arrives(n, k)
    BY <2>1
  <2>3. k \in 0..maxHops
    BY <2>1 DEF HopsOn
  <2> QED
    BY <2>2, <2>3 DEF Arrives, Handler
<1>5. /\ d \in Seq(Handler) /\ Len(d) = k /\ d[k] = In("forwarding", c[k])
      /\ \A j \in 1..k : j # k => d[j] = c[j]
  BY <1>1, <1>2, <1>3 DEF With
<1>6. Becomes(a, e)
  BY DEF Forward
<1> HIDE DEF new, d
<1>7. /\ e \in Seq(Handler) /\ Len(e) = k + 1 /\ e[k + 1] = new
      /\ \A j \in 1..k : e[j] = d[j]
  BY <1>4, <1>5
<1> HIDE DEF e
<1>8. /\ chain'[a] = e /\ calm'[a] = calm[a] /\ answer'[a] = answer[a] /\ leader' = leader
      /\ proposed'[a] = 0 /\ TypeOK'
      /\ \A b \in Attempt \ {a} : Chained(b)' /\ Calmly(b)'
  <2>1. proposed' \in [Attempt -> Nat]
    BY <1>1 DEF TypeOK
  <2> QED
    BY <1>2, <1>6, <1>7, <2>1, OtherAttempts
<1>9. ASSUME NEW j \in 1..Len(c), c[j].state = "returned", c[j].answer = "noLeader" PROVE FALSE
  BY <1>1, <1>2, <1>9 DEF Chained
<1>10. ASSUME NEW j \in 1..Len(e)
       PROVE  LET g == e[j]
              IN  /\ g.hops = j - 1
                  /\ j < Len(e) => g.state \in {"forwarding", "returned", "gone"}
                  /\ g.state = "forwarding" => j < Len(e)
                  /\ g.state # "waiting"
                  /\ ~ (g.state = "returned" /\ g.answer \in {"ok", "deadline", "noLeader"})
  <2>1. CASE j = k + 1
    BY <1>4, <1>7, <2>1
  <2>2. CASE j = k
    BY <1>2, <1>3, <1>5, <1>7, <2>2
  <2>3. CASE j < k
    <3>1. e[j] = c[j] /\ j \in 1..Len(c) /\ j < Len(c)
      BY <1>2, <1>5, <1>7, <2>3
    <3>2. /\ c[j].hops = j - 1 /\ c[j].state \in {"forwarding", "returned", "gone"}
          /\ ~ (c[j].state = "returned" /\ c[j].answer \in {"ok", "deadline"})
      BY <1>1, <1>2, <3>1 DEF Chained
    <3>3. ~ (c[j].state = "returned" /\ c[j].answer = "noLeader")
      BY <1>9, <3>1
    <3>4. j < Len(e)
      BY <1>2, <1>7, <2>3
    <3> HIDE DEF c
    <3> QED
      BY <3>1, <3>2, <3>3, <3>4
  <2> QED
    BY <1>7, <2>1, <2>2, <2>3
<1>11. Chained(a)'
  <2>1. Len(e) <= maxHops + 1 /\ e # <<>>
    BY <1>2, <1>7 DEF maxHops
  <2>2. answer[a] \notin {"ok", "deadline", "noLeader"}
    <3>1. answer[a] # "noLeader"
      BY <1>1, <1>9 DEF Chained
    <3> QED
      BY <1>1, <1>2, <3>1 DEF Chained
  <2> QED
    BY <1>8, <1>10, <2>1, <2>2 DEF Chained
<1>12. Calmly(a)'
  <2>1. ASSUME calm[a], NEW j \in 1..Len(e)
        PROVE  /\ e[j].hops = maxHops => leader[e[j].node] = e[j].node
               /\ e[j].state = "asking" => leader[e[j].node] # e[j].node
               /\ e[j].state = "returned" => e[j].answer # "noLeader"
    <3>1. CASE j = k + 1
      BY <1>2, <1>4, <1>7, <2>1, <3>1
    <3>2. CASE j = k
      BY <1>2, <1>3, <1>5, <1>7, <2>1, <3>2
    <3>3. CASE j < k
      <4>1. e[j] = c[j] /\ j \in 1..Len(c)
        BY <1>2, <1>5, <1>7, <3>3
      <4> QED
        BY <1>1, <2>1, <4>1 DEF Calmly
    <3> QED
      BY <1>7, <3>1, <3>2, <3>3
  <2> QED
    BY <1>1, <1>8, <2>1 DEF Calmly, Settled
<1> QED
  BY <1>8, <1>11, <1>12 DEF RoutingInv

LEMMA RoutingHandle ==
  ASSUME RoutingInv, NEW a \in Attempt, NEW k \in 1..Len(chain[a]),
         Handle(a, k) \/ Committed(a, k) \/ LoseForwarded(a, k) \/ Vanish(a, k)
  PROVE  RoutingInv'
<1> DEFINE h == chain[a][k]
<1>1. /\ TypeOK /\ Chained(a) /\ Calmly(a) /\ h \in Handler /\ proposed \in [Attempt -> Nat]
      /\ \A n \in Node : leader[n] \in Node \cup {Nil}
      /\ chain[a] \in Seq(Handler)
  <2>1. TypeOK /\ Chained(a) /\ Calmly(a)
    BY DEF RoutingInv
  <2>2. chain[a] \in Seq(Handler)
    BY <2>1 DEF TypeOK
  <2> QED
    BY <2>1, <2>2 DEF TypeOK
<1>2. /\ h.hops = k - 1
      /\ h.state \in {"routing", "asking"} => proposed[a] = 0
      /\ h.state = "waiting" => proposed[a] = 1
      /\ h.node \in Node /\ h.hops \in 0..maxHops
  BY <1>1 DEF Chained, Handler
<1>3. ASSUME NEW s \in {"asking", "waiting", "gone"}
      PROVE  LET g == In(s, h)
             IN  /\ g \in Handler /\ g.node = h.node /\ g.hops = h.hops /\ g.state = s
  BY <1>1 DEF In, Handler
<1>4. ASSUME NEW s \in {"none", "ok", "noLeader", "deadline", "lost"}
      PROVE  LET g == Returns(s, h)
             IN  /\ g \in Handler /\ g.node = h.node /\ g.hops = h.hops
                 /\ g.state = "returned" /\ g.answer = s
  BY <1>1 DEF Returns, Handler
<1> HIDE DEF h
<1>5. CASE ForwardToOwner(a, k)
  <2>1. /\ h.state = "routing" /\ h.hops = 0 /\ Forward(a, k, owner[a]) /\ UNCHANGED proposed
        /\ owner[a] \in Node
    BY <1>1, <1>5 DEF ForwardToOwner, GoesToOwner, TypeOK, h
  <2> QED
    BY <2>1, HandlerForwards DEF maxHops, h
<1>6. CASE Propose(a, k)
  <2>1. h.state = "routing"
    BY <1>6 DEF Propose, h
  <2>2. CASE leader[h.node] = h.node
    <3>1. /\ Becomes(a, With(a, k, In("waiting", h)))
          /\ proposed' = [proposed EXCEPT ![a] = @ + 1]
      BY <1>6, <2>2 DEF Propose, h
    <3>2. /\ proposed' \in [Attempt -> Nat] /\ proposed'[a] = 1
          /\ \A b \in Attempt \ {a} : proposed'[b] = proposed[b]
      BY <1>1, <1>2, <2>1, <3>1
    <3> QED
      BY <1>3, <2>1, <3>1, <3>2, HandlerMoves DEF h
  <2>3. CASE leader[h.node] # h.node
    <3>1. Becomes(a, With(a, k, In("asking", h))) /\ UNCHANGED proposed
      BY <1>6, <2>3 DEF Propose, h
    <3> QED
      BY <1>1, <1>2, <1>3, <2>1, <2>3, <3>1, HandlerMoves DEF h
  <2> QED
    BY <2>2, <2>3
<1>7. CASE AskLeader(a, k)
  <2>1. h.state = "asking" /\ UNCHANGED proposed
    BY <1>7 DEF AskLeader, h
  <2>2. calm[a] => /\ Settled /\ leader[h.node] # h.node
                   /\ h.hops = maxHops => leader[h.node] = h.node
    BY <1>1, <2>1 DEF Calmly, h
  <2>3. CASE HopsLeft(h.hops) /\ leader[h.node] \notin {Nil, h.node}
    <3>1. Forward(a, k, leader[h.node]) /\ leader[h.node] \in Node
      BY <1>1, <1>2, <1>7, <2>3 DEF AskLeader, h
    <3>2. calm[a] => leader[leader[h.node]] = leader[h.node]
      BY <1>2, <2>2, <3>1 DEF Settled
    <3> QED
      BY <2>1, <2>3, <3>1, <3>2, HandlerForwards DEF HopsLeft, h
  <2>4. CASE ~ (HopsLeft(h.hops) /\ leader[h.node] \notin {Nil, h.node})
    <3>1. Becomes(a, With(a, k, Returns("noLeader", h)))
      BY <1>7, <2>4 DEF AskLeader, h
    <3>2. ~calm[a]
      <4>1. Settled => leader[h.node] # Nil
        BY <1>2, RoutingAssumption DEF Settled
      <4>2. ~HopsLeft(h.hops) => h.hops = maxHops
        BY <1>2 DEF HopsLeft, maxHops
      <4> QED
        BY <2>2, <2>4, <4>1, <4>2
    <3>3. k = Len(chain[a])
      BY <1>1, <2>1 DEF Chained, h
    <3>4. \A j \in k + 1..Len(chain[a]) : chain[a][j].state = "returned"
      BY <1>1, <3>3
    <3> QED
      BY <1>1, <1>2, <1>4, <2>1, <3>1, <3>2, <3>4, HandlerMoves DEF h
  <2> QED
    BY <2>3, <2>4
<1>8. CASE TimeOut(a, k) \/ Committed(a, k)
  <2>1. /\ h.state = "waiting" /\ UNCHANGED proposed
        /\ \E s \in {"ok", "deadline"} : Becomes(a, With(a, k, Returns(s, h)))
    BY <1>8 DEF TimeOut, TimerSet, Committed, h
  <2> QED
    BY <1>1, <1>2, <1>4, <2>1, HandlerMoves DEF h
<1>9. CASE ReturnForwarded(a, k)
  <2> DEFINE below == chain[a][k + 1]
  <2>1. /\ h.state = "forwarding" /\ below.state = "returned" /\ UNCHANGED proposed
        /\ Becomes(a, With(a, k, Returns(below.answer, h)))
    BY <1>9 DEF ReturnForwarded, h
  <2>2. k < Len(chain[a])
    BY <1>1, <2>1 DEF Chained, h
  <2> QED
    <3>1. k + 1 \in 1..Len(chain[a])
      BY <1>1, <2>2
    <3>2. below \in Handler
      BY <1>1, <3>1
    <3>3. below.answer \in {"none", "ok", "noLeader", "deadline", "lost"}
      BY <3>2 DEF Handler
    <3>4. /\ below.answer \in {"ok", "deadline"} => proposed[a] = 1
          /\ below.answer = "noLeader" =>
               /\ proposed[a] = 0
               /\ \A j \in k + 1..Len(chain[a]) : chain[a][j].state = "returned"
      BY <1>1, <2>1, <3>1 DEF Chained
    <3>5. calm[a] => below.answer # "noLeader"
      BY <1>1, <2>1, <3>1 DEF Calmly
    <3> HIDE DEF below
    <3> QED
      BY <1>1, <1>4, <2>1, <3>3, <3>4, <3>5, HandlerMoves DEF h
<1>10. CASE LoseForwarded(a, k) \/ Vanish(a, k)
  <2>1. CASE LoseForwarded(a, k)
    <3>1. /\ h.state = "forwarding" /\ UNCHANGED proposed
          /\ Becomes(a, With(a, k, Returns("lost", h)))
      BY <2>1 DEF LoseForwarded, ForwardFailed, h
    <3> QED
      BY <1>1, <1>4, <3>1, HandlerMoves DEF h
  <2>2. CASE Vanish(a, k)
    <3>1. /\ h.state \notin {"returned", "gone"} /\ UNCHANGED proposed
          /\ Becomes(a, With(a, k, In("gone", h)))
      BY <2>2 DEF Vanish, h
    <3> QED
      BY <1>1, <1>3, <3>1, HandlerMoves DEF h
  <2> QED
    BY <1>10, <2>1, <2>2
<1> QED
  BY <1>5, <1>6, <1>7, <1>8, <1>9, <1>10 DEF Handle

-----------------------------------------------------------------------------
LEMMA RoutingStep ==
  ASSUME RoutingInv, [Next]_vars
  PROVE  RoutingInv'
<1>1. CASE UNCHANGED vars
  <2>1. UNCHANGED <<owner, elected, term, leader, changes, chain, answer, proposed, calm>>
    BY <1>1 DEF vars, raftVars
  <2>2. TypeOK'
    BY <2>1 DEF RoutingInv, TypeOK
  <2>3. \A a \in Attempt : Chained(a)' /\ Calmly(a)'
    BY <2>1 DEF RoutingInv, Chained, Calmly, Settled
  <2> QED
    BY <2>2, <2>3 DEF RoutingInv
<1>2. CASE Next
  BY <1>2, RoutingLearns, RoutingCall, RoutingAnswered, RoutingHandle DEF Next
<1> QED
  BY <1>1, <1>2

LEMMA RoutingAlways == Spec => []RoutingInv
<1>1. RoutingInv /\ [Next]_vars => RoutingInv'
  BY RoutingStep
<1> QED
  BY <1>1, RoutingInit, PTL DEF Spec

\* Every variable keeps its type; in particular no request carries a hop count
\* above maxHops.
THEOREM RoutingTypeCorrect == Spec => []TypeOK
<1>1. RoutingInv => TypeOK
  BY DEF RoutingInv
<1> QED
  BY <1>1, RoutingAlways, PTL

\* No attempt is forwarded more than twice, in a cluster of any size and
\* wherever its nodes believe the leader to be.
THEOREM AtMostTwoForwards == Spec => []TwoForwards
<1>1. RoutingInv => TwoForwards
  BY DEF RoutingInv, Chained, TwoForwards
<1> QED
  BY <1>1, RoutingAlways, PTL

\* No attempt is proposed twice, whichever of its calls break: only the last
\* handler of a chain can propose it, and none is added once it is proposed.
THEOREM AlwaysProposedOnce == Spec => []ProposedOnce
<1>1. ASSUME RoutingInv PROVE ProposedOnce
  <2>1. \A a \in Attempt : proposed[a] = 0 \/ proposed[a] = 1
    BY <1>1 DEF RoutingInv, Chained
  <2> QED
    BY <2>1 DEF ProposedOnce
<1> QED
  BY <1>1, RoutingAlways, PTL

\* What a client hears of its attempt is so, now and later: success and a commit
\* timeout mean that Raft took the command, "no Raft leader available" that no
\* node did or will.
THEOREM AnswersAlwaysTrue == Spec => []AnswersTrue
<1>1. ASSUME RoutingInv, NEW a \in Attempt
      PROVE  /\ answer[a] \in {"ok", "deadline"} => proposed[a] > 0
             /\ answer[a] = "noLeader" =>
                  /\ proposed[a] = 0
                  /\ \A k \in 1..Len(chain[a]) : chain[a][k].state = "returned"
  <2>1. Chained(a) /\ chain[a] \in Seq(Handler)
    BY <1>1 DEF RoutingInv, TypeOK
  <2>2. answer[a] \in {"ok", "deadline"} => proposed[a] > 0
    BY <2>1 DEF Chained
  <2>3. CASE answer[a] = "noLeader"
    <3>1. 1 \in 1..Len(chain[a])
      BY <2>1, <2>3 DEF Chained
    <3> QED
      BY <2>1, <2>2, <2>3, <3>1 DEF Chained
  <2> QED
    BY <2>2, <2>3
<1>2. RoutingInv => AnswersTrue
  BY <1>1 DEF AnswersTrue
<1> QED
  BY <1>2, RoutingAlways, PTL

\* While everyone knows the leader no client is turned away: the two forwards
\* always suffice, one to the owner on the ring and one to the leader.
THEOREM CalmAlwaysServed == Spec => []CalmIsServed
<1>1. ASSUME RoutingInv, NEW a \in Attempt, calm[a], answer[a] = "noLeader" PROVE FALSE
  <2>1. Chained(a) /\ Calmly(a) /\ chain[a] \in Seq(Handler)
    BY <1>1 DEF RoutingInv, TypeOK
  <2>2. 1 \in 1..Len(chain[a]) /\ chain[a][1].state = "returned" /\ chain[a][1].answer = "noLeader"
    BY <1>1, <2>1 DEF Chained
  <2> QED
    BY <1>1, <2>1, <2>2 DEF Calmly
<1>2. RoutingInv => CalmIsServed
  BY <1>1 DEF CalmIsServed
<1> QED
  BY <1>2, RoutingAlways, PTL
=============================================================================
