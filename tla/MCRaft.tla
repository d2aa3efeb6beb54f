------------------------------- MODULE MCRaft -------------------------------
(* Small clusters for TLC; the .cfg files give their size and the bounds.  *)
EXTENDS Raft

\* Neither the actions nor the properties tell the nodes apart.
Symmetry == Permutations(Server)

\* Nobody leads, the nodes hold s, and no election is going on.
Resting(s) ==
  /\ currentTerm = [n \in Server |-> s[n].term]
  /\ votedFor    = [n \in Server |-> s[n].votedFor]
  /\ log         = [n \in Server |-> s[n].log]
  /\ commitIndex = [n \in Server |-> s[n].commit]
  /\ role        = [n \in Server |-> "follower"]
  /\ leaderId    = [n \in Server |-> Nil]
  /\ votes       = [n \in Server |-> {}]
  /\ nextIndex   = [n \in Server |-> [p \in Server |-> 1]]
  /\ matchIndex  = [n \in Server |-> [p \in Server |-> 0]]
  /\ voteReqs = {} /\ voteReps = {} /\ appReqs = {}
  /\ up    = [n \in Server |-> TRUE]
  /\ boots = [n \in Server |-> 1]

\* All nodes were restarted gracefully, as a rolling update does, and hold
\* what they knew before; nothing is in flight any more.
Restarted(s) == Resting(s) /\ appReps = {} /\ disk = s

At(t, cmd) == [term |-> t, cmd |-> cmd]
State(t, vote, l, c) == [term |-> t, votedFor |-> vote, log |-> l, commit |-> c]

\* x had led term 1 and had brought y, but not yet z, up to date.
RestartedInit ==
  \E x, y \in Server :
    LET l == <<At(1, NoOp)>>
    IN  /\ x # y
        /\ Restarted([n \in Server |->
             CASE n = x -> State(1, x, l, 1)
               [] n = y -> State(1, Nil, l, 0)
               [] OTHER -> State(0, Nil, <<>>, 0)])
        /\ ballots = {<<x, 1, x>>, <<y, 1, x>>}
        /\ leaders = {<<1, x>>}
        /\ heard = [n \in Server |-> IF n = y THEN 1 ELSE 0]

RestartedSpec == RestartedInit /\ [][Next]_vars

\* x had led term 1, elected by y, and y had led term 2, elected by another
\* node: both appended, and neither had reached anyone.
DivergedInit ==
  \E x, y \in Server, cmd \in Cmd :
    /\ x # y
    /\ Restarted([n \in Server |->
         CASE n = x -> State(1, x, <<At(1, NoOp), At(1, cmd), At(1, cmd)>>, 0)
           [] n = y -> State(2, y, <<At(2, NoOp)>>, 0)
           [] OTHER -> State(2, y, <<>>, 0)])
    /\ ballots = {<<x, 1, x>>, <<y, 1, x>>, <<y, 2, y>>}
                   \cup {<<n, 2, y>> : n \in Server \ {x, y}}
    /\ leaders = {<<1, x>>, <<2, y>>}
    /\ heard = [n \in Server |-> 0]

\* x had led term 1 and brought its no-op to y, whose reply is still on its way.
\* y then led term 2, and x, when asked for its vote, left its own term; only y
\* has been restarted since.  x may lead again before the reply arrives.
ReturnInit ==
  \E x, y \in Server, cmd \in Cmd :
    LET Log(n) == CASE n = x -> <<At(1, NoOp), At(1, cmd)>>
                    [] n = y -> <<At(1, NoOp), At(2, NoOp)>>
                    [] OTHER -> <<>>
        Held(n) == State(2, IF n = x THEN Nil ELSE y, Log(n), 0)
    IN  /\ x # y
        /\ Resting([n \in Server |-> Held(n)])
        /\ disk = [n \in Server |-> IF n = y THEN Held(y) ELSE FreshState]
        /\ appReps = {[src |-> y, dst |-> x, term |-> 1, round |-> 1, prevIdx |-> 0,
                       sent |-> 1, boot |-> 1, success |-> TRUE, conflictIdx |-> 1,
                       conflictTerm |-> NoTerm]}
        /\ ballots = {<<x, 1, x>>, <<y, 1, x>>, <<y, 2, y>>}
                       \cup {<<n, 2, y>> : n \in Server \ {x, y}}
        /\ leaders = {<<1, x>>, <<2, y>>}
        /\ heard = [n \in Server |-> IF n = y THEN 1 ELSE 0]

RepairSpec == (DivergedInit \/ ReturnInit) /\ [][Next]_vars
=============================================================================
