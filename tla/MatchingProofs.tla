--------------------------- MODULE MatchingProofs ---------------------------
(***************************************************************************)
(* The logs of every cluster match, and a leader's matchIndex tells the    *)
(* truth, as long as no process crashes, snapshots get written and no vote *)
(* request outlives its election: what the Raft paper calls Log Matching,  *)
(* for the calls of this code, which overtake each other.                  *)
(*                                                                         *)
(* What makes the argument go through is to speak of the batches in flight *)
(* and of the logs alike, as pieces of a log: all of them match pairwise.  *)
(***************************************************************************)
EXTENDS LogOrderProofs

\* A piece of a log: entries, and the position and term of what precedes
\* them.  An AppendEntries call is one, and so is a whole log.
LogPiece(l) == [prevIdx |-> 0, prevTerm |-> 0, entries |-> l]

Pieces == appReqs \cup {LogPiece(log[n]) : n \in Server}

IsPiece(b) == b.prevIdx \in Nat /\ b.prevTerm \in Nat /\ b.entries \in Log

\* The positions a piece speaks about, and what it says of one: its term, and
\* the whole entry unless it is the one before the entries.
Span(b)       == (b.prevIdx..(b.prevIdx + Len(b.entries))) \ {0}
TermAt(b, k)  == IF k = b.prevIdx THEN b.prevTerm ELSE b.entries[k - b.prevIdx].term
EntryAt(b, k) == b.entries[k - b.prevIdx]

Same(a, b, k) ==
  /\ TermAt(a, k) = TermAt(b, k)
  /\ a.prevIdx < k /\ b.prevIdx < k => EntryAt(a, k) = EntryAt(b, k)

\* Pieces that have the same term at a position agree up to it.
Agree(a, b) ==
  \A k \in Span(a) \cap Span(b) :
    TermAt(a, k) = TermAt(b, k) => \A j \in Span(a) \cap Span(b) : j <= k => Same(a, b, j)

\* Piece c says nothing that piece a does not say.
Part(c, a) ==
  /\ a.prevIdx <= c.prevIdx
  /\ \A k \in Span(c) : k \in Span(a) /\ Same(c, a, k)

-----------------------------------------------------------------------------
(* Lemmas on pieces.                                                       *)

LEMMA SpanType ==
  ASSUME NEW b, IsPiece(b)
  PROVE  /\ Len(b.entries) \in Nat
         /\ \A k \in Span(b) : k \in Nat \ {0}
         /\ \A k \in Nat \ {0} :
              k \in Span(b) <=> b.prevIdx <= k /\ k <= b.prevIdx + Len(b.entries)
<1>1. Len(b.entries) \in Nat /\ b.prevIdx \in Nat
  BY DEF IsPiece, Log
<1> QED
  BY <1>1 DEF Span

LEMMA WholeLog ==
  ASSUME NEW l \in Log
  PROVE  /\ IsPiece(LogPiece(l))
         /\ Len(l) \in Nat
         /\ LogPiece(l).prevIdx = 0
         /\ \A k : k \in Span(LogPiece(l)) <=> k \in 1..Len(l)
         /\ \A k \in 1..Len(l) : TermAt(LogPiece(l), k) = l[k].term
                                 /\ EntryAt(LogPiece(l), k) = l[k]
<1>1. Len(l) \in Nat
  BY DEF Log
<1>2. LogPiece(l).prevIdx = 0 /\ LogPiece(l).prevTerm = 0 /\ LogPiece(l).entries = l
  BY DEF LogPiece
<1>3. IsPiece(LogPiece(l))
  BY <1>2 DEF IsPiece
<1>4. \A k : k \in Span(LogPiece(l)) <=> k \in 1..Len(l)
  BY <1>1, <1>2 DEF Span
<1>5. \A k \in 1..Len(l) : k # 0 /\ k - 0 = k
  BY <1>1
<1>6. \A k \in 1..Len(l) : TermAt(LogPiece(l), k) = l[k].term
                           /\ EntryAt(LogPiece(l), k) = l[k]
  BY <1>2, <1>5 DEF TermAt, EntryAt
<1> QED
  BY <1>1, <1>2, <1>3, <1>4, <1>6

LEMMA AgreeSelf == ASSUME NEW a PROVE Agree(a, a)
BY DEF Agree, Same

LEMMA AgreeSymmetric ==
  ASSUME NEW a, NEW b, Agree(a, b)
  PROVE  Agree(b, a)
BY DEF Agree, Same

LEMMA PartAgrees ==
  ASSUME NEW a, NEW b, NEW c, IsPiece(a), IsPiece(b), IsPiece(c), Part(c, a), Agree(a, b)
  PROVE  Agree(c, b)
<1> SUFFICES ASSUME NEW k \in Span(c) \cap Span(b), TermAt(c, k) = TermAt(b, k),
                    NEW j \in Span(c) \cap Span(b), j <= k
             PROVE  Same(c, b, j)
  BY DEF Agree
<1>1. /\ k \in Span(a) /\ j \in Span(a) /\ Same(c, a, k) /\ Same(c, a, j)
  BY DEF Part
<1>2. Same(a, b, j)
  BY <1>1 DEF Agree, Same
<1>3. c.prevIdx < j => a.prevIdx < j
  <2>1. a.prevIdx \in Nat /\ c.prevIdx \in Nat /\ a.prevIdx <= c.prevIdx /\ j \in Nat
    BY SpanType DEF IsPiece, Part
  <2> QED
    BY <2>1
<1> QED
  BY <1>1, <1>2, <1>3 DEF Same

\* A part of a log stays a part of it when the log grows.
LEMMA PartOfLonger ==
  ASSUME NEW l \in Log, NEW f \in Log, Len(l) <= Len(f), \A k \in 1..Len(l) : f[k] = l[k]
  PROVE  Part(LogPiece(l), LogPiece(f))
<1>1. \A k \in 1..Len(l) : k \in 1..Len(f)
  BY WholeLog
<1> QED
  BY <1>1, WholeLog DEF Part, Same

LEMMA PartTransitive ==
  ASSUME NEW a, NEW b, NEW c, IsPiece(a), IsPiece(b), IsPiece(c), Part(c, b), Part(b, a)
  PROVE  Part(c, a)
<1>1. a.prevIdx \in Nat /\ b.prevIdx \in Nat /\ c.prevIdx \in Nat
  BY DEF IsPiece
<1>2. a.prevIdx <= b.prevIdx /\ b.prevIdx <= c.prevIdx
  BY DEF Part
<1>3. a.prevIdx <= c.prevIdx
  BY <1>1, <1>2
<1> SUFFICES ASSUME NEW k \in Span(c) PROVE k \in Span(a) /\ Same(c, a, k)
  BY <1>3 DEF Part
<1>4. k \in Span(b) /\ k \in Span(a) /\ Same(c, b, k) /\ Same(b, a, k)
  BY DEF Part
<1>5. c.prevIdx < k => b.prevIdx < k
  BY <1>1, <1>2, SpanType
<1> QED
  BY <1>4, <1>5 DEF Same

\* What replicateToPeer sends is part of the leader's log.
LEMMA BatchIsPart ==
  ASSUME NEW l \in Log, NEW prev \in 0..Len(l), NEW m, IsPiece(m),
         m.prevIdx = prev, prev > 0 => m.prevTerm = l[prev].term,
         m.entries = Batch(l, prev + 1)
  PROVE  Part(m, LogPiece(l))
<1>1. Len(l) \in Nat /\ \A k \in (prev + 1)..Len(l) : l[k] \in Entry
  BY DEF Log
<1>2. /\ Len(m.entries) = IF prev + 1 <= Len(l) THEN Len(l) - (prev + 1) + 1 ELSE 0
      /\ \A i \in 1..(Len(l) - (prev + 1) + 1) : m.entries[i] = l[(prev + 1) + i - 1]
  BY <1>1, SubSeqProperties DEF Batch
<1>3. prev + Len(m.entries) = Len(l)
  BY <1>1, <1>2
<1> SUFFICES ASSUME NEW k \in Span(m)
             PROVE  k \in Span(LogPiece(l)) /\ Same(m, LogPiece(l), k)
  BY WholeLog DEF Part
<1>4. k \in 1..Len(l) /\ prev <= k
  BY <1>1, <1>3, SpanType
<1>5. CASE k = prev
  <2>1. TermAt(m, k) = l[k].term /\ ~ (m.prevIdx < k)
    BY <1>4, <1>5 DEF TermAt
  <2> QED
    BY <1>4, <2>1, WholeLog DEF Same
<1>6. CASE k # prev
  <2>1. k - prev \in 1..(Len(l) - (prev + 1) + 1) /\ (prev + 1) + (k - prev) - 1 = k
    BY <1>1, <1>4, <1>6
  <2>2. m.entries[k - prev] = l[k]
    BY <1>2, <2>1
  <2>3. TermAt(m, k) = l[k].term /\ EntryAt(m, k) = l[k]
    BY <1>6, <2>2 DEF TermAt, EntryAt
  <2> QED
    BY <1>4, <2>3, WholeLog DEF Same
<1> QED
  BY <1>5, <1>6

\* A new entry, of a term that the other piece has not at its position.
LEMMA GrownAgrees ==
  ASSUME NEW l \in Log, NEW x \in Entry, NEW b, IsPiece(b), Agree(LogPiece(l), b),
         Len(l) + 1 \in Span(b) => TermAt(b, Len(l) + 1) # x.term
  PROVE  Agree(LogPiece(Append(l, x)), b)
<1> DEFINE f == Append(l, x)
<1>1. /\ f \in Log /\ Len(f) = Len(l) + 1 /\ f[Len(l) + 1] = x
      /\ \A k \in 1..Len(l) : f[k] = l[k]
  BY AppendProperties DEF Log
<1> HIDE DEF f
<1>2. Len(l) \in Nat
  BY DEF Log
<1> SUFFICES ASSUME NEW k \in Span(LogPiece(f)) \cap Span(b),
                    TermAt(LogPiece(f), k) = TermAt(b, k),
                    NEW j \in Span(LogPiece(f)) \cap Span(b), j <= k
             PROVE  Same(LogPiece(f), b, j)
  BY DEF Agree, f
<1>3. k \in 1..(Len(l) + 1) /\ j \in 1..(Len(l) + 1)
  BY <1>1, WholeLog
<1>4. TermAt(LogPiece(f), k) = f[k].term
  BY <1>1, <1>3, WholeLog
<1>5. k # Len(l) + 1
  BY <1>1, <1>4
<1>6. k \in 1..Len(l) /\ j \in 1..Len(l)
  BY <1>2, <1>3, <1>5
<1>7. \A i \in 1..Len(l) : /\ i \in Span(LogPiece(l))
                           /\ TermAt(LogPiece(l), i) = TermAt(LogPiece(f), i)
                           /\ EntryAt(LogPiece(l), i) = EntryAt(LogPiece(f), i)
  <2>1. \A i \in 1..Len(l) : i \in 1..Len(f)
    BY <1>1, <1>2
  <2> QED
    BY <1>1, <2>1, WholeLog
<1>8. Same(LogPiece(l), b, j)
  BY <1>6, <1>7 DEF Agree
<1>9. LogPiece(l).prevIdx = LogPiece(f).prevIdx
  BY <1>1, WholeLog
<1> QED
  BY <1>6, <1>7, <1>8, <1>9 DEF Same

\* Up to position kept, log f is log l, of the same terms as the entries es
\* behind prev; behind kept come the entries.  What is cut off clashed.
JoinedAt(kept, f, l, prev, es) ==
  /\ f \in Log /\ Len(f) \in {kept, prev + Len(es)}
  /\ Len(f) >= kept /\ Len(f) >= prev + Len(es)
  /\ \A k \in 1..kept : f[k] = l[k]
  /\ \A k \in (kept + 1)..Len(f) : f[k] = es[k - prev]
  /\ \A i \in 1..Len(es) : prev + i <= kept => l[prev + i].term = es[i].term
  /\ kept < Len(l) =>
       \E i \in 1..Len(es) : prev + i = kept + 1 /\ l[prev + i].term # es[i].term

\* What the append loop of AppendEntries does.
LEMMA SpliceShape ==
  ASSUME NEW l \in Log, NEW prev \in 0..Len(l), NEW es \in Log
  PROVE  \E kept \in prev..Len(l) : JoinedAt(kept, Splice(l, prev, es), l, prev, es)
<1> DEFINE clash == {i \in 1..Len(es) :
                       prev + i <= Len(l) /\ l[prev + i].term # es[i].term}
           kept  == IF clash = {} THEN Len(l) ELSE prev + Min(clash) - 1
           m     == Max({kept, prev + Len(es)})
           f     == [k \in 1..m |-> IF k <= kept THEN l[k] ELSE es[k - prev]]
<1>1. Splice(l, prev, es) = f
  BY DEF Splice
<1>2. Len(l) \in Nat /\ Len(es) \in Nat
  BY DEF Log
<1>3. /\ kept \in prev..Len(l)
      /\ \A i \in 1..Len(es) : prev + i <= kept => l[prev + i].term = es[i].term
      /\ kept < Len(l) => \E i \in 1..Len(es) :
                            prev + i = kept + 1 /\ l[prev + i].term # es[i].term
  <2>1. \A i \in 1..Len(es) :
           prev + i <= Len(l) => i \in clash \/ l[prev + i].term = es[i].term
    OBVIOUS
  <2>2. clash \in SUBSET Nat
        /\ \A i \in clash : /\ i \in 1..Len(es) /\ prev + i <= Len(l)
                            /\ l[prev + i].term # es[i].term
    OBVIOUS
  <2>3. CASE clash = {}
    <3>1. kept = Len(l)
      BY <2>3
    <3> HIDE DEF kept, clash
    <3> QED
      BY <1>2, <2>1, <2>3, <3>1
  <2>4. CASE clash # {}
    <3>1. Min(clash) \in clash /\ \A i \in clash : Min(clash) <= i
      BY <2>2, <2>4, LeastNat
    <3>2. kept = prev + Min(clash) - 1
      BY <2>4
    <3> DEFINE c == Min(clash)
    <3> HIDE DEF kept, clash, c
    <3>3. /\ c \in 1..Len(es) /\ prev + c <= Len(l) /\ kept = prev + c - 1
          /\ l[prev + c].term # es[c].term
      BY <2>2, <3>1, <3>2 DEF c
    <3>4. \A i \in 1..Len(es) : i < c => i \notin clash
      BY <1>2, <3>1, <3>3 DEF c
    <3>5. prev + c = kept + 1 /\ kept \in prev..Len(l)
      BY <1>2, <3>3
    <3>6. \A i \in 1..Len(es) : prev + i <= kept => i < c /\ prev + i <= Len(l)
      BY <1>2, <3>3
    <3> QED
      BY <2>1, <3>3, <3>4, <3>5, <3>6
  <2> QED
    BY <2>3, <2>4
<1>4. m \in Nat /\ m >= kept /\ m >= prev + Len(es) /\ m \in {kept, prev + Len(es)}
  <2> HIDE DEF kept, clash
  <2>1. kept \in Nat /\ prev + Len(es) \in Nat
    BY <1>2, <1>3
  <2> QED
    BY <2>1, GreaterOfTwo
<1>5. f \in Log /\ Len(f) = m
  <2>1. f \in Log
    <3>1. Splice(l, prev, es) \in Log
      BY SpliceLog
    <3> HIDE DEF f
    <3> QED
      BY <1>1, <3>1
  <2> HIDE DEF m, kept
  <2>2. Len(f) = m
    BY <1>4, <2>1 DEF Log
  <2> QED
    BY <2>1, <2>2
<1> HIDE DEF kept, m
<1>6. /\ \A k \in 1..kept : f[k] = l[k]
      /\ \A k \in (kept + 1)..m : f[k] = es[k - prev]
  BY <1>2, <1>3, <1>4
<1> HIDE DEF f
<1> QED
  BY <1>1, <1>3, <1>4, <1>5, <1>6 DEF JoinedAt

\* What comes out of the append loop agrees with whatever both the log and
\* the call agree with.
LEMMA SpliceAgrees ==
  ASSUME NEW l \in Log, NEW m, IsPiece(m), m.prevIdx <= Len(l),
         ~ Clashes(l, m.prevIdx, m.prevTerm),
         NEW b, IsPiece(b), Agree(LogPiece(l), b), Agree(m, b)
  PROVE  Agree(LogPiece(Splice(l, m.prevIdx, m.entries)), b)
<1> DEFINE prev == m.prevIdx
           es   == m.entries
           f    == Splice(l, prev, es)
<1>1. prev \in 0..Len(l) /\ es \in Log /\ Len(l) \in Nat /\ Len(es) \in Nat
  BY DEF IsPiece, Log
<1> PICK kept \in prev..Len(l) : JoinedAt(kept, f, l, prev, es)
  BY <1>1, SpliceShape
<1> HIDE DEF f
<1>2. /\ f \in Log /\ Len(f) \in {kept, prev + Len(es)}
      /\ Len(f) >= kept /\ Len(f) >= prev + Len(es)
      /\ \A k \in 1..kept : f[k] = l[k]
      /\ \A k \in (kept + 1)..Len(f) : f[k] = es[k - prev]
      /\ \A i \in 1..Len(es) : prev + i <= kept => l[prev + i].term = es[i].term
  BY DEF JoinedAt
<1> SUFFICES ASSUME NEW k \in Span(LogPiece(f)) \cap Span(b),
                    TermAt(LogPiece(f), k) = TermAt(b, k),
                    NEW j \in Span(LogPiece(f)) \cap Span(b), j <= k
             PROVE  Same(LogPiece(f), b, j)
  BY DEF Agree, f
<1>3. k \in 1..Len(f) /\ j \in 1..Len(f) /\ Len(f) \in Nat
  BY <1>2, WholeLog
\* Below kept the new log is the old one; behind prev it is the entries.
<1>4. \A i \in 1..kept : /\ i \in Span(LogPiece(l)) /\ i \in Span(LogPiece(f))
                         /\ Same(LogPiece(l), LogPiece(f), i)
  <2> SUFFICES ASSUME NEW i \in 1..kept
               PROVE  /\ i \in Span(LogPiece(l)) /\ i \in Span(LogPiece(f))
                      /\ Same(LogPiece(l), LogPiece(f), i)
    OBVIOUS
  <2>1. i \in 1..Len(l) /\ i \in 1..Len(f) /\ f[i] = l[i]
    BY <1>1, <1>2, <1>3
  <2>2. /\ i \in Span(LogPiece(l))
        /\ TermAt(LogPiece(l), i) = l[i].term /\ EntryAt(LogPiece(l), i) = l[i]
    BY <2>1, WholeLog
  <2>3. /\ i \in Span(LogPiece(f))
        /\ TermAt(LogPiece(f), i) = f[i].term /\ EntryAt(LogPiece(f), i) = f[i]
    BY <1>2, <2>1, WholeLog
  <2> QED
    BY <2>1, <2>2, <2>3 DEF Same
<1>5. \A i \in (kept + 1)..Len(f) : /\ i \in Span(m) /\ prev < i
                                    /\ TermAt(m, i) = f[i].term
                                    /\ EntryAt(m, i) = f[i]
  <2> SUFFICES ASSUME NEW i \in (kept + 1)..Len(f)
               PROVE  /\ i \in Span(m) /\ prev < i
                      /\ TermAt(m, i) = f[i].term /\ EntryAt(m, i) = f[i]
    OBVIOUS
  <2>1. i \in Nat \ {0} /\ prev < i /\ i <= prev + Len(es)
    BY <1>1, <1>2, <1>3
  <2>2. i \in Span(m)
    BY <1>1, <2>1, SpanType
  <2>3. i # prev
    BY <1>1, <2>1
  <2> QED
    BY <1>2, <2>1, <2>2, <2>3 DEF TermAt, EntryAt
<1>6. CASE k <= kept
  <2>1. k \in 1..kept /\ j \in 1..kept
    BY <1>1, <1>2, <1>3, <1>6
  <2>2. Same(LogPiece(l), b, j)
    BY <1>4, <2>1 DEF Agree, Same
  <2> QED
    BY <1>4, <2>1, <2>2 DEF Same, LogPiece
<1>7. CASE k > kept
  <2>1. k \in (kept + 1)..Len(f)
    BY <1>1, <1>2, <1>3, <1>7
  <2>2. TermAt(m, k) = TermAt(b, k) /\ k \in Span(m)
    BY <1>2, <1>3, <1>5, <2>1, WholeLog
  <2>3. \A i \in Span(m) \cap Span(b) : i <= k => Same(m, b, i)
    BY <2>2 DEF Agree
  <2>4. CASE j > kept
    <3>1. j \in (kept + 1)..Len(f)
      BY <1>1, <1>2, <1>3, <2>4
    <3>2. Same(m, b, j) /\ prev < j
      BY <1>5, <2>3, <3>1
    <3> QED
      BY <1>2, <1>3, <1>5, <3>1, <3>2, WholeLog DEF Same
  <2>5. CASE j <= kept /\ prev < j
    <3>1. j \in 1..kept /\ j \in 1..Len(l) /\ j \in Span(m)
      <4>1. /\ j \in 1..kept /\ j \in 1..Len(l) /\ j \in Nat \ {0}
            /\ prev <= j /\ j <= prev + Len(es)
        BY <1>1, <1>2, <1>3, <2>1, <2>5
      <4> QED
        BY <4>1, SpanType
    <3>2. Same(m, b, j)
      BY <2>3, <3>1
    <3>3. Same(LogPiece(l), b, j)
      <4>1. j - prev \in 1..Len(es) /\ prev + (j - prev) = j /\ j # prev
        BY <1>1, <1>2, <1>3, <2>1, <2>5
      <4>2. l[j].term = es[j - prev].term
        BY <1>2, <2>5, <4>1
      <4>3. TermAt(m, j) = l[j].term
        BY <4>1, <4>2 DEF TermAt
      <4>4. TermAt(LogPiece(l), j) = TermAt(b, j)
        BY <3>1, <3>2, <4>3, WholeLog DEF Same
      <4> QED
        BY <1>4, <3>1, <4>4 DEF Agree
    <3> QED
      BY <1>4, <3>1, <3>3 DEF Same, LogPiece
  <2>6. CASE j <= prev
    <3>1. /\ prev \in 1..kept /\ prev \in Span(m) /\ prev \in Span(b) /\ prev <= k
          /\ j \in 1..kept
      <4>1. b.prevIdx \in Nat /\ b.prevIdx <= j /\ k <= b.prevIdx + Len(b.entries)
            /\ Len(b.entries) \in Nat
        BY SpanType DEF IsPiece
      <4>2. prev \in 1..kept /\ prev <= k /\ j \in 1..kept /\ prev \in Nat \ {0}
        BY <1>1, <1>2, <1>3, <1>7, <2>6
      <4>3. b.prevIdx <= prev /\ prev <= b.prevIdx + Len(b.entries)
            /\ prev <= prev + Len(es)
        BY <1>1, <1>3, <2>6, <4>1, <4>2
      <4> QED
        BY <4>2, <4>3, SpanType
    <3>2. TermAt(m, prev) = TermAt(b, prev)
      BY <2>3, <3>1 DEF Same
    <3>3. TermAt(m, prev) = l[prev].term
      <4>1. prev \in 1..Len(l)
        BY <1>1, <1>2, <3>1
      <4> QED
        BY <4>1 DEF TermAt, Clashes
    <3>4. TermAt(LogPiece(l), prev) = TermAt(b, prev)
      <4>1. prev \in 1..Len(l)
        BY <1>1, <1>2, <3>1
      <4> QED
        BY <3>2, <3>3, <4>1, WholeLog
    <3>5. Same(LogPiece(l), b, j)
      BY <1>4, <2>6, <3>1, <3>4 DEF Agree
    <3> QED
      BY <1>4, <3>1, <3>5 DEF Same, LogPiece
  <2> QED
    BY <1>1, <1>2, <1>3, <2>4, <2>5, <2>6
<1> QED
  BY <1>1, <1>2, <1>3, <1>6, <1>7

\* Logs with the same entries up to a position have the same prefix there.
LEMMA SamePrefix ==
  ASSUME NEW l \in Log, NEW f \in Log, NEW k \in Nat, k <= Len(l), k <= Len(f),
         \A j \in 1..k : l[j] = f[j]
  PROVE  SubSeq(l, 1, k) = SubSeq(f, 1, k) /\ Len(SubSeq(l, 1, k)) = k
<1>1. /\ \A j \in 1..k : l[j] \in Entry
      /\ \A j \in 1..k : f[j] \in Entry
  BY DEF Log
<1>2. /\ SubSeq(l, 1, k) \in Seq(Entry) /\ Len(SubSeq(l, 1, k)) = k
      /\ \A j \in 1..k : SubSeq(l, 1, k)[j] = l[j]
  <2>1. /\ SubSeq(l, 1, k) \in Seq(Entry)
        /\ Len(SubSeq(l, 1, k)) = IF 1 <= k THEN k - 1 + 1 ELSE 0
        /\ \A j \in 1..(k - 1 + 1) : SubSeq(l, 1, k)[j] = l[1 + j - 1]
    BY <1>1, SubSeqProperties
  <2> QED
    BY <2>1
<1>3. /\ SubSeq(f, 1, k) \in Seq(Entry) /\ Len(SubSeq(f, 1, k)) = k
      /\ \A j \in 1..k : SubSeq(f, 1, k)[j] = f[j]
  <2>1. /\ SubSeq(f, 1, k) \in Seq(Entry)
        /\ Len(SubSeq(f, 1, k)) = IF 1 <= k THEN k - 1 + 1 ELSE 0
        /\ \A j \in 1..(k - 1 + 1) : SubSeq(f, 1, k)[j] = f[1 + j - 1]
    BY <1>1, SubSeqProperties
  <2> QED
    BY <2>1
<1> QED
  BY <1>2, <1>3, SeqEqual

\* The entries up to a position, where two logs agree.
LEMMA PrefixHeld ==
  ASSUME NEW l \in Log, NEW f \in Log, NEW k \in Nat, k <= Len(l), k <= Len(f),
         \A j \in 1..k : l[j] = f[j]
  PROVE  IsPrefix(SubSeq(l, 1, k), f)
<1> DEFINE s == SubSeq(l, 1, k)
<1>1. s = SubSeq(f, 1, k) /\ Len(s) = k
  BY SamePrefix
<1>2. s \in Log /\ \A j \in 1..k : s[j] = f[j]
  <2>1. \A j \in 1..k : f[j] \in Entry
    BY DEF Log
  <2>2. /\ SubSeq(f, 1, k) \in Seq(Entry)
        /\ \A j \in 1..(k - 1 + 1) : SubSeq(f, 1, k)[j] = f[1 + j - 1]
    BY <2>1, SubSeqProperties
  <2> HIDE DEF s
  <2> QED
    BY <1>1, <2>2 DEF Log
<1> HIDE DEF s
<1>3. SubSeq(s, 1, k) = SubSeq(f, 1, k)
  BY <1>1, <1>2, SamePrefix
<1> QED
  BY <1>1, <1>3 DEF IsPrefix, s

\* A follower that takes part of log g, and agreed with g so far, holds g up
\* to the end of the batch, and still holds of g what it held.
LEMMA SpliceFollows ==
  ASSUME NEW l \in Log, NEW g \in Log, NEW m, IsPiece(m), Part(m, LogPiece(g)),
         m.prevIdx <= Len(l), ~ Clashes(l, m.prevIdx, m.prevTerm),
         Agree(LogPiece(l), LogPiece(g))
  PROVE  LET f    == Splice(l, m.prevIdx, m.entries)
             last == m.prevIdx + Len(m.entries)
         IN  /\ last <= Len(f) /\ last <= Len(g)
             /\ \A j \in 1..last : f[j] = g[j]
             /\ \A i \in Nat : i <= Len(l) /\ (\A j \in 1..i : l[j] = g[j])
                               => i <= Len(f) /\ \A j \in 1..i : f[j] = g[j]
<1> DEFINE prev == m.prevIdx
           es   == m.entries
           last == prev + Len(es)
           f    == Splice(l, prev, es)
<1>1. /\ prev \in 0..Len(l) /\ es \in Log /\ Len(l) \in Nat /\ Len(es) \in Nat
      /\ Len(g) \in Nat
  BY DEF IsPiece, Log
<1> PICK kept \in prev..Len(l) : JoinedAt(kept, f, l, prev, es)
  BY <1>1, SpliceShape
<1> HIDE DEF f
<1>2. /\ f \in Log /\ Len(f) \in {kept, prev + Len(es)}
      /\ Len(f) >= kept /\ Len(f) >= prev + Len(es)
      /\ \A k \in 1..kept : f[k] = l[k]
      /\ \A k \in (kept + 1)..Len(f) : f[k] = es[k - prev]
      /\ \A i \in 1..Len(es) : prev + i <= kept => l[prev + i].term = es[i].term
  BY DEF JoinedAt
<1>3. \A k \in Nat \ {0} : prev <= k /\ k <= last =>
        k \in Span(m) /\ k \in 1..Len(g) /\ Same(m, LogPiece(g), k)
  BY <1>1, SpanType, WholeLog DEF Part
<1>4. last <= Len(g)
  <2>1. CASE last = 0
    BY <1>1, <2>1
  <2>2. CASE last # 0
    <3>1. last \in Nat \ {0} /\ prev <= last /\ last <= last
      BY <1>1, <2>2
    <3> QED
      BY <1>1, <1>3, <3>1
  <2> QED
    BY <2>1, <2>2
<1>5. \A k \in (prev + 1)..last : es[k - prev] = g[k]
  <2> SUFFICES ASSUME NEW k \in (prev + 1)..last PROVE es[k - prev] = g[k]
    OBVIOUS
  <2>1. k \in Nat \ {0} /\ prev <= k /\ k <= last /\ prev < k /\ 0 < k
    BY <1>1
  <2>2. k \in 1..Len(g) /\ EntryAt(m, k) = EntryAt(LogPiece(g), k)
    BY <1>3, <2>1, WholeLog DEF Same
  <2> QED
    BY <2>2, WholeLog DEF EntryAt
\* Where the old log has the term that g has, it has all of g up to there.
<1>6. \A k \in 1..Len(l) : k \in 1..Len(g) /\ l[k].term = g[k].term =>
         \A j \in 1..k : l[j] = g[j]
  <2> SUFFICES ASSUME NEW k \in 1..Len(l), k \in 1..Len(g), l[k].term = g[k].term,
                      NEW j \in 1..k
               PROVE  l[j] = g[j]
    OBVIOUS
  <2>1. j \in 1..Len(l) /\ j \in 1..Len(g) /\ j <= k /\ 0 < j
    BY <1>1
  <2>2. /\ k \in Span(LogPiece(l)) \cap Span(LogPiece(g))
        /\ j \in Span(LogPiece(l)) \cap Span(LogPiece(g))
        /\ TermAt(LogPiece(l), k) = TermAt(LogPiece(g), k)
    BY <2>1, WholeLog
  <2>3. Same(LogPiece(l), LogPiece(g), j)
    BY <2>1, <2>2 DEF Agree
  <2> QED
    BY <2>1, <2>3, WholeLog DEF Same
<1>7. \A j \in 1..last : f[j] = g[j]
  <2> SUFFICES ASSUME NEW j \in 1..last PROVE f[j] = g[j]
    OBVIOUS
  <2>1. CASE j <= prev
    <3>1. /\ prev \in Nat \ {0} /\ prev <= prev /\ prev <= last /\ prev \in 1..Len(l)
          /\ j \in 1..prev /\ j \in 1..kept
      BY <1>1, <1>2, <2>1
    <3>2. prev \in 1..Len(g) /\ TermAt(m, prev) = TermAt(LogPiece(g), prev)
      BY <1>3, <3>1 DEF Same
    <3>3. m.prevTerm = g[prev].term /\ l[prev].term = m.prevTerm
      BY <3>1, <3>2, WholeLog DEF TermAt, Clashes
    <3> QED
      BY <1>2, <1>6, <3>1, <3>2, <3>3
  <2>2. CASE prev < j /\ j <= kept
    <3>1. /\ j \in (prev + 1)..last /\ j - prev \in 1..Len(es) /\ prev + (j - prev) = j
          /\ j \in 1..kept /\ j \in 1..Len(l) /\ j \in 1..Len(g) /\ j \in 1..j
      BY <1>1, <1>4, <2>2
    <3>2. l[j].term = es[j - prev].term
      BY <1>2, <2>2, <3>1
    <3>3. l[j] = g[j]
      BY <1>5, <1>6, <3>1, <3>2
    <3> QED
      BY <1>2, <3>1, <3>3
  <2>3. CASE j > kept
    <3>1. j \in (prev + 1)..last /\ j \in (kept + 1)..Len(f)
      <4>1. Len(f) \in Nat
        BY <1>2 DEF Log
      <4> QED
        BY <1>1, <1>2, <2>3, <4>1
    <3> QED
      BY <1>2, <1>5, <3>1
  <2> QED
    BY <1>1, <1>2, <2>1, <2>2, <2>3
<1>8. ASSUME NEW i \in Nat, i <= Len(l), \A j \in 1..i : l[j] = g[j]
      PROVE  i <= Len(f) /\ \A j \in 1..i : f[j] = g[j]
  <2>1. i <= kept
    <3> SUFFICES ASSUME i > kept PROVE FALSE
      BY <1>1, <1>2
    <3>1. kept < Len(l)
      <4>1. kept \in Nat /\ kept < i
        BY <1>1
      <4>2. i <= Len(l)
        BY <1>8
      <4> QED
        BY <1>1, <4>1, <4>2
    <3>2. PICK d \in 1..Len(es) : prev + d = kept + 1 /\ l[prev + d].term # es[d].term
      BY <3>1 DEF JoinedAt
    <3> DEFINE c == prev + d
    <3>3. c \in 1..i /\ c \in (prev + 1)..last /\ c - prev = d
      BY <1>1, <3>2
    <3> HIDE DEF c
    <3>4. es[c - prev] = g[c] /\ l[c] = g[c]
      BY <1>5, <1>8, <3>3
    <3> QED
      BY <3>2, <3>3, <3>4 DEF c
  <2>2. i <= Len(f) /\ \A j \in 1..i : j \in 1..kept
    <3>1. Len(f) \in Nat
      BY <1>2 DEF Log
    <3> QED
      BY <1>1, <1>2, <2>1, <3>1
  <2> QED
    BY <1>2, <1>8, <2>2
<1> QED
  BY <1>2, <1>4, <1>7, <1>8 DEF f

-----------------------------------------------------------------------------
(* The invariant of Log Matching.                                          *)

\* Who leads has won the election of its term, who stands for election has
\* not, and no term that was won lies ahead of its winner.
LeadersRecorded ==
  /\ \A n \in Server : role[n] = "leader" => <<currentTerm[n], n>> \in leaders
  /\ \A n \in Server : role[n] = "candidate" => <<currentTerm[n], n>> \notin leaders
  /\ \A e \in leaders : e[1] <= currentTerm[e[2]]

\* Every term found in a log or in flight was won by somebody.
PiecesElected ==
  \A b \in Pieces : \A k \in Span(b) : \E e \in leaders : e[1] = TermAt(b, k)

\* Nothing of a leader's term lies past the end of the leader's log: where it
\* appends next, nobody has an entry of its term.
PiecesBehind ==
  \A b \in Pieces : \A n \in Server : role[n] = "leader" =>
    \A k \in Span(b) : TermAt(b, k) = currentTerm[n] => k <= Len(log[n])

PiecesAgree == \A a, b \in Pieces : Agree(a, b)

MatchInv == LeadersRecorded /\ PiecesElected /\ PiecesBehind /\ PiecesAgree

\* What a step that elects nobody does to a node.
Calm(n) ==
  /\ currentTerm'[n] >= currentTerm[n]
  /\ role'[n] = "leader" => /\ role[n] = "leader" /\ currentTerm'[n] = currentTerm[n]
                            /\ log'[n] = log[n]
  /\ role'[n] = "candidate" => \/ currentTerm'[n] > currentTerm[n]
                               \/ role[n] = "candidate" /\ currentTerm'[n] = currentTerm[n]

LEMMA PieceTypes ==
  ASSUME TypeOK
  PROVE  \A b \in Pieces : IsPiece(b)
<1>1. ASSUME NEW b \in appReqs PROVE IsPiece(b)
  <2>1. b \in AppReq
    BY DEF TypeOK
  <2> QED
    BY <2>1 DEF AppReq, IsPiece, Log
<1>2. ASSUME NEW n \in Server PROVE IsPiece(LogPiece(log[n]))
  BY NodeTypes, WholeLog
<1> QED
  BY <1>1, <1>2 DEF Pieces

LEMMA MatchInit == Init => MatchInv
<1> SUFFICES ASSUME Init PROVE MatchInv
  OBVIOUS
<1>1. \A n \in Server : log[n] = <<>> /\ role[n] = "follower"
  BY DEF Init
<1>2. appReqs = {} /\ leaders = {}
  BY DEF Init
<1>3. \A b \in Pieces : b = LogPiece(<<>>)
  BY <1>1, <1>2 DEF Pieces
<1>4. Span(LogPiece(<<>>)) = {}
  BY DEF Span, LogPiece
<1>5. PiecesElected /\ PiecesBehind /\ PiecesAgree
  BY <1>3, <1>4, AgreeSelf DEF PiecesElected, PiecesBehind, PiecesAgree
<1> QED
  BY <1>1, <1>2, <1>5 DEF MatchInv, LeadersRecorded

\* A new piece joins the others.
LEMMA AgreeWithNew ==
  ASSUME PiecesAgree, NEW f, Pieces' \subseteq Pieces \cup {f}, \A b \in Pieces : Agree(f, b)
  PROVE  PiecesAgree'
<1> SUFFICES ASSUME NEW a \in Pieces', NEW b \in Pieces' PROVE Agree(a, b)
  BY DEF PiecesAgree
<1>1. \A c \in Pieces : Agree(c, f)
  BY AgreeSymmetric
<1> QED
  BY <1>1, AgreeSelf DEF PiecesAgree

\* Steps that elect nobody, and in which at most one piece is made, of terms
\* that other pieces have at the same positions.
LEMMA MatchCopied ==
  ASSUME TypeOK, TypeOK', MatchInv, UNCHANGED leaders, \A n \in Server : Calm(n),
         NEW f, Pieces' \subseteq Pieces \cup {f}, \A b \in Pieces : Agree(f, b),
         \A k \in Span(f) : \E b \in Pieces : k \in Span(b) /\ TermAt(f, k) = TermAt(b, k)
  PROVE  MatchInv'
<1>1. LeadersRecorded /\ PiecesElected /\ PiecesBehind /\ PiecesAgree
  BY DEF MatchInv
<1>2. /\ currentTerm \in [Server -> Nat] /\ currentTerm' \in [Server -> Nat]
      /\ leaders \subseteq Nat \X Server
  BY DEF TypeOK
<1>3. LeadersRecorded'
  <2>1. ASSUME NEW n \in Server, role'[n] = "leader"
        PROVE  <<currentTerm'[n], n>> \in leaders'
    BY <1>1, <2>1 DEF LeadersRecorded, Calm
  <2>2. ASSUME NEW e \in leaders' PROVE e[1] <= currentTerm'[e[2]]
    <3>1. e \in leaders /\ e[1] \in Nat /\ e[2] \in Server
      BY <1>2
    <3>2. e[1] <= currentTerm[e[2]] /\ currentTerm[e[2]] <= currentTerm'[e[2]]
      BY <1>1, <3>1 DEF LeadersRecorded, Calm
    <3>3. currentTerm[e[2]] \in Nat /\ currentTerm'[e[2]] \in Nat
      BY <1>2, <3>1
    <3> QED
      BY <3>1, <3>2, <3>3
  <2>3. ASSUME NEW n \in Server, role'[n] = "candidate"
        PROVE  <<currentTerm'[n], n>> \notin leaders'
    <3>1. CASE currentTerm'[n] > currentTerm[n]
      <4>1. currentTerm'[n] \in Nat /\ currentTerm[n] \in Nat
        BY <1>2
      <4>2. <<currentTerm'[n], n>> \in leaders => currentTerm'[n] <= currentTerm[n]
        BY <1>1 DEF LeadersRecorded
      <4> QED
        BY <3>1, <4>1, <4>2
    <3>2. CASE role[n] = "candidate" /\ currentTerm'[n] = currentTerm[n]
      BY <1>1, <3>2 DEF LeadersRecorded
    <3> QED
      BY <2>3, <3>1, <3>2 DEF Calm
  <2> QED
    BY <2>1, <2>2, <2>3 DEF LeadersRecorded
<1>4. \A b \in Pieces' : \A k \in Span(b) :
        \E c \in Pieces : k \in Span(c) /\ TermAt(b, k) = TermAt(c, k)
  OBVIOUS
<1>5. PiecesElected'
  BY <1>1, <1>4 DEF PiecesElected
<1>6. PiecesBehind'
  <2> SUFFICES ASSUME NEW b \in Pieces', NEW n \in Server, role'[n] = "leader",
                      NEW k \in Span(b), TermAt(b, k) = currentTerm'[n]
               PROVE  k <= Len(log'[n])
    BY DEF PiecesBehind
  <2>1. role[n] = "leader" /\ currentTerm'[n] = currentTerm[n] /\ log'[n] = log[n]
    BY DEF Calm
  <2> QED
    BY <1>1, <1>4, <2>1 DEF PiecesBehind
<1>7. PiecesAgree'
  BY <1>1, AgreeWithNew
<1> QED
  BY <1>3, <1>5, <1>6, <1>7 DEF MatchInv

\* Steps that elect nobody and make no piece.
LEMMA MatchKept ==
  ASSUME TypeOK, TypeOK', MatchInv, UNCHANGED <<log, leaders>>, appReqs' \subseteq appReqs,
         \A n \in Server : Calm(n)
  PROVE  MatchInv'
<1>1. PICK n \in Server : TRUE
  BY RaftLogAssumption
<1>2. LogPiece(log[n]) \in Pieces /\ Pieces' \subseteq Pieces
  BY DEF Pieces
<1>3. \A b \in Pieces : Agree(LogPiece(log[n]), b)
  BY <1>2 DEF MatchInv, PiecesAgree
<1> QED
  BY <1>2, <1>3, MatchCopied

\* A leader appends an entry of its term, in which nobody else leads.
LEMMA MatchGrown ==
  ASSUME TypeOK, TypeOK', MatchInv, ElectionSafety', UNCHANGED appReqs,
         NEW n \in Server, NEW x \in Entry,
         log' = [log EXCEPT ![n] = Append(log[n], x)],
         leaders' = leaders \cup {<<x.term, n>>},
         role'[n] = "leader", currentTerm'[n] = x.term, x.term >= currentTerm[n],
         \A p \in Server \ {n} : role'[p] = role[p] /\ currentTerm'[p] = currentTerm[p],
         \A b \in Pieces : \A k \in Span(b) : TermAt(b, k) = x.term => k <= Len(log[n])
  PROVE  MatchInv'
<1> DEFINE l == log[n]
           f == LogPiece(Append(l, x))
<1>1. LeadersRecorded /\ PiecesElected /\ PiecesBehind /\ PiecesAgree
  BY DEF MatchInv
<1>2. /\ currentTerm \in [Server -> Nat] /\ currentTerm' \in [Server -> Nat]
      /\ leaders \subseteq Nat \X Server /\ x.term \in Nat
      /\ log[n] \in Log /\ Len(l) \in Nat
  BY NodeTypes DEF TypeOK, Entry
<1>3. /\ Append(l, x) \in Log /\ Len(Append(l, x)) = Len(l) + 1
      /\ Append(l, x)[Len(l) + 1] = x
      /\ \A k \in 1..Len(l) : Append(l, x)[k] = l[k]
  BY <1>2, AppendProperties DEF Log
<1>4. log'[n] = Append(l, x) /\ \A p \in Server \ {n} : log'[p] = log[p]
  BY NodeTypes
<1>5. LogPiece(l) \in Pieces /\ Pieces' \subseteq Pieces \cup {f}
  BY <1>4 DEF Pieces
<1>6. \A k \in Span(f) : \/ k = Len(l) + 1 /\ TermAt(f, k) = x.term
                         \/ k \in Span(LogPiece(l)) /\ TermAt(f, k) = TermAt(LogPiece(l), k)
  <2> SUFFICES ASSUME NEW k \in Span(f)
               PROVE  \/ k = Len(l) + 1 /\ TermAt(f, k) = x.term
                      \/ k \in Span(LogPiece(l)) /\ TermAt(f, k) = TermAt(LogPiece(l), k)
    OBVIOUS
  <2>1. k \in 1..(Len(l) + 1) /\ TermAt(f, k) = Append(l, x)[k].term
    BY <1>3, WholeLog
  <2>2. k = Len(l) + 1 \/ k \in 1..Len(l)
    BY <1>2, <2>1
  <2> QED
    BY <1>2, <1>3, <2>1, <2>2, WholeLog
<1>7. LeadersRecorded'
  <2>1. ASSUME NEW p \in Server
        PROVE  /\ role'[p] = "leader" => <<currentTerm'[p], p>> \in leaders'
               /\ role'[p] = "candidate" => <<currentTerm'[p], p>> \notin leaders'
    <3>1. CASE p = n
      BY <3>1
    <3>2. CASE p # n
      BY <1>1, <3>2 DEF LeadersRecorded
    <3> QED
      BY <3>1, <3>2
  <2>2. ASSUME NEW e \in leaders' PROVE e[1] <= currentTerm'[e[2]]
    <3>1. CASE e = <<x.term, n>>
      BY <1>2, <3>1
    <3>2. CASE e \in leaders
      <4>1. e[1] \in Nat /\ e[2] \in Server /\ e[1] <= currentTerm[e[2]]
        BY <1>1, <1>2, <3>2 DEF LeadersRecorded
      <4>2. currentTerm[e[2]] \in Nat /\ currentTerm'[e[2]] \in Nat
            /\ currentTerm[e[2]] <= currentTerm'[e[2]]
        BY <1>2, <4>1
      <4> QED
        BY <4>1, <4>2
    <3> QED
      BY <3>1, <3>2
  <2> QED
    BY <2>1, <2>2 DEF LeadersRecorded
<1>8. PiecesElected'
  <2> SUFFICES ASSUME NEW b \in Pieces', NEW k \in Span(b)
               PROVE  \E e \in leaders' : e[1] = TermAt(b, k)
    BY DEF PiecesElected
  <2>1. CASE b \in Pieces
    BY <1>1, <2>1 DEF PiecesElected
  <2>2. CASE b = f /\ k \in Span(LogPiece(l)) /\ TermAt(f, k) = TermAt(LogPiece(l), k)
    BY <1>1, <1>5, <2>2 DEF PiecesElected
  <2>3. CASE b = f /\ TermAt(f, k) = x.term
    <3>1. <<x.term, n>> \in leaders' /\ <<x.term, n>>[1] = TermAt(b, k)
      BY <2>3
    <3> QED
      BY <3>1, Zenon
  <2> QED
    BY <1>5, <1>6, <2>1, <2>2, <2>3
<1>9. PiecesBehind'
  <2> SUFFICES ASSUME NEW b \in Pieces', NEW p \in Server, role'[p] = "leader",
                      NEW k \in Span(b), TermAt(b, k) = currentTerm'[p]
               PROVE  k <= Len(log'[p])
    BY DEF PiecesBehind
  <2>1. CASE p = n
    <3>1. k <= Len(l) \/ k = Len(l) + 1
      BY <1>2, <1>5, <1>6, <2>1
    <3>2. k \in Int
      <4>1. IsPiece(b)
        BY <1>3, <1>5, PieceTypes, WholeLog
      <4> QED
        BY <4>1, SpanType
    <3> QED
      BY <1>2, <1>3, <1>4, <2>1, <3>1, <3>2
  <2>2. CASE p # n
    <3>1. role[p] = "leader" /\ currentTerm'[p] = currentTerm[p] /\ log'[p] = log[p]
      BY <1>4, <2>2
    <3>2. currentTerm[p] # x.term
      <4>1. <<currentTerm[p], p>> \in leaders'
        BY <1>1, <3>1 DEF LeadersRecorded
      <4>2. <<x.term, n>> \in leaders'
        OBVIOUS
      <4> QED
        BY <2>2, <4>1, <4>2 DEF ElectionSafety
    <3> QED
      BY <1>1, <1>5, <1>6, <3>1, <3>2 DEF PiecesBehind
  <2> QED
    BY <2>1, <2>2
<1>10. PiecesAgree'
  <2>1. ASSUME NEW b \in Pieces PROVE Agree(f, b)
    <3>1. IsPiece(b) /\ Agree(LogPiece(l), b)
      BY <1>1, <1>5, PieceTypes DEF PiecesAgree
    <3>2. Len(l) + 1 \in Span(b) => TermAt(b, Len(l) + 1) # x.term
      BY <1>2
    <3> QED
      BY <1>2, <3>1, <3>2, GrownAgrees
  <2> QED
    BY <1>1, <1>5, <2>1, AgreeWithNew
<1> QED
  BY <1>7, <1>8, <1>9, <1>10 DEF MatchInv

-----------------------------------------------------------------------------
(* Every step keeps the pieces matching.                                   *)

LEMMA SafetyNext == ASSUME ElectionInv' PROVE ElectionSafety'
BY ElectionInvSafe, PTL

\* Winning the election of a term not won before: nobody has an entry of it.
LEMMA MatchBecomeLeader ==
  ASSUME TypeOK, TypeOK', MatchInv, ElectionSafety', UNCHANGED appReqs,
         NEW n \in Server, NEW t \in Nat, t >= currentTerm[n],
         <<t, n>> \notin leaders, BecomeLeader(n, t), currentTerm'[n] = t,
         \A p \in Server \ {n} : currentTerm'[p] = currentTerm[p]
  PROVE  MatchInv'
<1> DEFINE x == [term |-> t, cmd |-> NoOp]
<1>1. x \in Entry /\ x.term = t
  BY DEF Entry
<1>2. /\ log' = [log EXCEPT ![n] = Append(log[n], x)]
      /\ leaders' = leaders \cup {<<x.term, n>>}
      /\ role' = [role EXCEPT ![n] = "leader"]
  BY DEF BecomeLeader
<1>3. /\ role'[n] = "leader" /\ \A p \in Server \ {n} : role'[p] = role[p]
  BY <1>2, NodeTypes
<1>4. \A e \in leaders : e[1] # t
  <2> SUFFICES ASSUME NEW e \in leaders, e[1] = t PROVE FALSE
    OBVIOUS
  <2>1. e = <<e[1], e[2]>>
    <3>1. e \in Nat \X Server
      BY DEF TypeOK
    <3> QED
      BY <3>1
  <2>2. <<t, n>> \in leaders' /\ e \in leaders'
    BY <1>1, <1>2
  <2>3. e[2] = n
    BY <2>2 DEF ElectionSafety
  <2> QED
    BY <2>1, <2>3
<1>5. \A b \in Pieces : \A k \in Span(b) : TermAt(b, k) # t
  BY <1>4 DEF MatchInv, PiecesElected
<1> HIDE DEF x
<1> QED
  BY <1>1, <1>2, <1>3, <1>5, MatchGrown

LEMMA MatchElectionTimeout ==
  ASSUME TypeOK, TypeOK', MatchInv, ElectionSafety', NEW n \in Server, ElectionTimeout(n)
  PROVE  MatchInv'
<1> DEFINE t == currentTerm[n] + 1
<1>1. /\ currentTerm[n] \in Nat /\ t \in Nat /\ t > currentTerm[n] /\ t >= currentTerm[n]
      /\ \A p \in Server : currentTerm[p] \in Nat
  BY NodeTypes
<1>2. currentTerm' = [currentTerm EXCEPT ![n] = t] /\ UNCHANGED appReqs
  BY DEF ElectionTimeout, appRPCs
<1>3. currentTerm'[n] = t /\ \A p \in Server \ {n} : currentTerm'[p] = currentTerm[p]
  BY <1>2, NodeTypes
<1>4. CASE BecomeLeader(n, t)
  <2>1. <<t, n>> \notin leaders
    <3>1. <<t, n>> \in leaders => t <= currentTerm[n]
      BY DEF MatchInv, LeadersRecorded
    <3> QED
      BY <1>1, <3>1
  <2> HIDE DEF t
  <2> QED
    BY <1>1, <1>2, <1>3, <1>4, <2>1, MatchBecomeLeader
<1>5. CASE /\ role' = [role EXCEPT ![n] = "candidate"]
           /\ UNCHANGED <<logVars, leaderVars, leaders>>
  <2>1. \A p \in Server : IF p = n THEN role'[p] = "candidate" ELSE role'[p] = role[p]
    BY <1>5, NodeTypes
  <2>2. \A p \in Server : Calm(p)
    BY <1>1, <1>3, <1>5, <2>1 DEF Calm, logVars
  <2> QED
    BY <1>2, <1>5, <2>2, MatchKept DEF logVars
<1> QED
  BY <1>4, <1>5 DEF ElectionTimeout

\* A voter may leave its term and its role for a later term.
LEMMA CalmRequestVote ==
  ASSUME TypeOK, NEW m \in voteReqs, RequestVote(m)
  PROVE  \A p \in Server : Calm(p)
<1> DEFINE n == m.dst
           newer == m.term > currentTerm[n]
<1>1. n \in Server /\ m.term \in Nat /\ \A p \in Server : currentTerm[p] \in Nat
  BY NodeTypes DEF TypeOK, VoteReq
<1>2. /\ currentTerm' = [currentTerm EXCEPT ![n] = IF newer THEN m.term ELSE @]
      /\ role' = [role EXCEPT ![n] = IF newer THEN "follower" ELSE @]
      /\ UNCHANGED <<log, leaders, appReqs>>
  BY DEF RequestVote, logVars, appRPCs
<1>3. \A p \in Server :
        \/ currentTerm'[p] = currentTerm[p] /\ role'[p] = role[p]
        \/ currentTerm'[p] > currentTerm[p] /\ role'[p] = "follower"
  BY <1>1, <1>2, NodeTypes
<1> QED
  BY <1>1, <1>2, <1>3 DEF Calm

LEMMA MatchRequestVote ==
  ASSUME TypeOK, TypeOK', MatchInv, NEW m \in voteReqs, RequestVote(m)
  PROVE  MatchInv'
<1>1. UNCHANGED <<log, leaders, appReqs>>
  BY DEF RequestVote, logVars, appRPCs
<1> QED
  BY <1>1, CalmRequestVote, MatchKept

\* stepDown to a term that is not below the node's own.
LEMMA CalmStepDown ==
  ASSUME TypeOK, NEW n \in Server, NEW t \in Nat, t >= currentTerm[n],
         NEW p \in Server \cup {Nil}, StepDown(n, t, p),
         \A q \in Server \ {n} : log'[q] = log[q]
  PROVE  \A q \in Server : Calm(q)
<1>1. \A q \in Server : currentTerm[q] \in Nat
  BY NodeTypes
<1>2. /\ currentTerm' = [currentTerm EXCEPT ![n] = t]
      /\ role' = [role EXCEPT ![n] = "follower"]
  BY DEF StepDown
<1>3. \A q \in Server : IF q = n THEN currentTerm'[q] = t /\ role'[q] = "follower"
                        ELSE currentTerm'[q] = currentTerm[q] /\ role'[q] = role[q]
  BY <1>2, NodeTypes
<1> QED
  BY <1>1, <1>3 DEF Calm

\* A step that leaves terms, roles and logs alone.
LEMMA CalmUnchanged ==
  ASSUME TypeOK, UNCHANGED <<currentTerm, role, log>>
  PROVE  \A q \in Server : Calm(q)
<1>1. \A q \in Server : currentTerm[q] \in Nat
  BY NodeTypes
<1> QED
  BY <1>1 DEF Calm

LEMMA MatchReceiveVote ==
  ASSUME TypeOK, TypeOK', MatchInv, ElectionSafety', NEW m \in voteReps, ReceiveVote(m)
  PROVE  MatchInv'
<1> DEFINE n == m.dst
<1>1. n \in Server /\ m.term \in Nat /\ currentTerm[n] \in Nat
  BY NodeTypes DEF TypeOK, VoteRep
<1>2. UNCHANGED appReqs
  BY DEF ReceiveVote, appRPCs
<1>3. CASE m.term > currentTerm[n] /\ StepDown(n, m.term, Nil) /\ UNCHANGED <<log, leaders>>
  <2>1. \A q \in Server : Calm(q)
    BY <1>1, <1>3, CalmStepDown
  <2> QED
    BY <1>2, <1>3, <2>1, MatchKept
<1>4. CASE UNCHANGED <<currentTerm, role, log, leaders>>
  BY <1>2, <1>4, CalmUnchanged, MatchKept
<1>5. CASE /\ role[n] = "candidate" /\ UNCHANGED currentTerm
           /\ BecomeLeader(n, currentTerm[n])
  <2>1. <<currentTerm[n], n>> \notin leaders
    BY <1>1, <1>5 DEF MatchInv, LeadersRecorded
  <2>2. currentTerm[n] >= currentTerm[n]
    BY <1>1
  <2> QED
    BY <1>1, <1>2, <1>5, <2>1, <2>2, MatchBecomeLeader
<1> QED
  BY <1>3, <1>4, <1>5 DEF ReceiveVote, logVars, electionVars

LEMMA MatchStart ==
  ASSUME TypeOK, TypeOK', MatchInv, ElectionSafety', NEW n \in Server, NEW cmd \in Cmd,
         Start(n, cmd)
  PROVE  MatchInv'
<1> DEFINE x == [term |-> currentTerm[n], cmd |-> cmd]
<1>1. currentTerm[n] \in Nat /\ x \in Entry /\ x.term = currentTerm[n]
  BY NodeTypes DEF Entry
<1>2. /\ log' = [log EXCEPT ![n] = Append(log[n], x)] /\ role[n] = "leader"
      /\ UNCHANGED <<currentTerm, role, leaders, appReqs>>
  BY DEF Start, electionVars, appRPCs, history
<1>3. leaders' = leaders \cup {<<x.term, n>>}
  BY <1>1, <1>2 DEF MatchInv, LeadersRecorded
<1>4. \A b \in Pieces : \A k \in Span(b) : TermAt(b, k) = x.term => k <= Len(log[n])
  BY <1>1, <1>2 DEF MatchInv, PiecesBehind
<1>5. x.term >= currentTerm[n]
  BY <1>1
<1> HIDE DEF x
<1> QED
  BY <1>1, <1>2, <1>3, <1>4, <1>5, MatchGrown

\* The call replicateToPeer makes carries part of the leader's log.
LEMMA CallIsPart ==
  ASSUME LeaderInv, LeaderInv', NEW n \in Server, NEW p \in Server, ReplicateToPeer(n, p)
  PROVE  \E m \in AppReq : /\ appReqs' = appReqs \cup {m}
                           /\ m.src = n /\ m.term = currentTerm[n]
                           /\ m.leaderCommit = commitIndex[n]
                           /\ IsPiece(m) /\ Part(m, LogPiece(log[n]))
                           /\ m.prevIdx + Len(m.entries) = Len(log[n])
<1> DEFINE prev == nextIndex[n][p] - 1
           prevTerm == IF prev \in 1..Len(log[n]) THEN log[n][prev].term ELSE 0
           m == [src |-> n, dst |-> p, term |-> currentTerm[n], prevIdx |-> prev,
                 prevTerm |-> prevTerm, entries |-> Batch(log[n], prev + 1),
                 leaderCommit |-> commitIndex[n], boot |-> boots[n]]
<1>1. /\ TypeOK /\ appReqs' \subseteq AppReq /\ PrevEntryKnown'
      /\ OrderedUpTo(log[n], currentTerm[n])
  BY DEF LeaderInv, OrderInv, LogsOrdered, TypeOK
<1>2. appReqs' = appReqs \cup {m}
  BY DEF ReplicateToPeer
<1>3. m \in AppReq /\ (m.prevIdx > 0 => m.prevTerm > 0)
  BY <1>1, <1>2 DEF PrevEntryKnown
<1>4. log[n] \in Log /\ Len(log[n]) \in Nat
  BY <1>1, NodeTypes
<1>5. /\ m.prevIdx = prev /\ m.entries = Batch(log[n], prev + 1) /\ m.prevTerm = prevTerm
      /\ m.src = n /\ m.term = currentTerm[n] /\ m.leaderCommit = commitIndex[n]
  OBVIOUS
<1> HIDE DEF m
<1>6. IsPiece(m)
  BY <1>3 DEF AppReq, IsPiece, Log
<1>7. prev \in 0..Len(log[n]) /\ (prev > 0 => m.prevTerm = log[n][prev].term)
  <2>1. prev \in Nat
    BY <1>5, <1>6 DEF IsPiece
  <2>2. prev > 0 => prev \in 1..Len(log[n])
    BY <1>3, <1>5
  <2> QED
    BY <1>4, <1>5, <2>1, <2>2
<1>8. Part(m, LogPiece(log[n]))
  BY <1>4, <1>5, <1>6, <1>7, BatchIsPart
<1>9. m.prevIdx + Len(m.entries) = Len(log[n])
  <2>1. /\ prev + 1 \in Nat \ {0} /\ prev + 1 <= Len(log[n]) + 1 /\ (prev + 1) - 1 = prev
        /\ currentTerm[n] \in Nat
    <3>1. currentTerm[n] \in Nat
      BY <1>1, NodeTypes
    <3> HIDE DEF prev
    <3> QED
      BY <1>4, <1>7, <3>1
  <2>2. (prev + 1) - 1 + Len(Batch(log[n], prev + 1)) = Len(log[n])
    BY <1>1, <1>4, <2>1, OrderedBatch
  <2> QED
    BY <1>5, <2>1, <2>2
<1> QED
  BY <1>2, <1>3, <1>5, <1>6, <1>8, <1>9

LEMMA MatchReplicateToPeer ==
  ASSUME LeaderInv, LeaderInv', MatchInv, NEW n \in Server, NEW p \in Server,
         ReplicateToPeer(n, p)
  PROVE  MatchInv'
<1>1. TypeOK /\ TypeOK'
  BY DEF LeaderInv, OrderInv
<1>2. UNCHANGED <<currentTerm, role, log, leaders>>
  BY DEF ReplicateToPeer, electionVars, logVars, history
<1>3. PICK m \in AppReq : /\ appReqs' = appReqs \cup {m}
                          /\ IsPiece(m) /\ Part(m, LogPiece(log[n]))
  BY CallIsPart
<1> DEFINE a == LogPiece(log[n])
<1>4. a \in Pieces /\ IsPiece(a) /\ Pieces' \subseteq Pieces \cup {m}
  BY <1>1, <1>2, <1>3, PieceTypes DEF Pieces
<1> HIDE DEF a
<1>5. \A b \in Pieces : Agree(m, b)
  <2> SUFFICES ASSUME NEW b \in Pieces PROVE Agree(m, b)
    OBVIOUS
  <2>1. IsPiece(b) /\ Agree(a, b)
    BY <1>1, <1>4, PieceTypes DEF MatchInv, PiecesAgree
  <2> QED
    BY <1>3, <1>4, <2>1, PartAgrees DEF a
<1>6. \A k \in Span(m) : k \in Span(a) /\ TermAt(m, k) = TermAt(a, k)
  BY <1>3 DEF Part, Same, a
<1> QED
  BY <1>1, <1>2, <1>4, <1>5, <1>6, CalmUnchanged, MatchCopied

LEMMA MatchAppendEntries ==
  ASSUME TypeOK, TypeOK', MatchInv, NEW m \in appReqs, AppendEntries(m)
  PROVE  MatchInv'
<1> DEFINE n    == m.dst
           prev == m.prevIdx
           l    == Splice(log[n], prev, m.entries)
<1>1. /\ n \in Server /\ m.src \in Server /\ m.term \in Nat /\ currentTerm[n] \in Nat
      /\ m \in Pieces /\ LogPiece(log[n]) \in Pieces /\ IsPiece(m) /\ log[n] \in Log
      /\ Len(log[n]) \in Nat
  BY NodeTypes, PieceTypes DEF TypeOK, AppReq, Pieces
<1>2. appReqs' \subseteq appReqs /\ UNCHANGED leaders
  BY DEF AppendEntries, AppendReply
<1>3. CASE UNCHANGED <<electionVars, logVars>>
  BY <1>2, <1>3, CalmUnchanged, MatchKept DEF electionVars, logVars
<1>4. CASE m.term >= currentTerm[n] /\ StepDown(n, m.term, m.src) /\ UNCHANGED logVars
  <2>1. \A q \in Server : Calm(q)
    BY <1>1, <1>4, CalmStepDown DEF logVars
  <2> QED
    BY <1>2, <1>4, <2>1, MatchKept DEF logVars
<1>5. CASE /\ m.term >= currentTerm[n] /\ StepDown(n, m.term, m.src)
           /\ ~ (prev > Len(log[n])) /\ ~ Clashes(log[n], prev, m.prevTerm)
           /\ log' = [log EXCEPT ![n] = l]
  <2> DEFINE f == LogPiece(l)
  <2>1. m.prevIdx <= Len(log[n]) /\ prev \in 0..Len(log[n]) /\ m.entries \in Log
    BY <1>1, <1>5 DEF IsPiece
  <2>2. /\ Pieces' \subseteq Pieces \cup {f}
        /\ \A q \in Server \ {n} : log'[q] = log[q]
    BY <1>1, <1>2, <1>5, NodeTypes DEF Pieces
  <2>3. \A b \in Pieces : Agree(f, b)
    <3> SUFFICES ASSUME NEW b \in Pieces PROVE Agree(f, b)
      OBVIOUS
    <3>1. IsPiece(b) /\ Agree(LogPiece(log[n]), b) /\ Agree(m, b)
      BY <1>1, PieceTypes DEF MatchInv, PiecesAgree
    <3> QED
      BY <1>1, <1>5, <2>1, <3>1, SpliceAgrees
  <2>4. \A k \in Span(f) : \E b \in Pieces : k \in Span(b) /\ TermAt(f, k) = TermAt(b, k)
    <3> SUFFICES ASSUME NEW k \in Span(f)
                 PROVE  \E b \in Pieces : k \in Span(b) /\ TermAt(f, k) = TermAt(b, k)
      OBVIOUS
    <3> PICK kept \in prev..Len(log[n]) : JoinedAt(kept, l, log[n], prev, m.entries)
      BY <1>1, <2>1, SpliceShape
    <3> HIDE DEF l
    <3>1. /\ l \in Log /\ Len(l) \in {kept, prev + Len(m.entries)}
          /\ \A i \in 1..kept : l[i] = log[n][i]
          /\ \A i \in (kept + 1)..Len(l) : l[i] = m.entries[i - prev]
      BY DEF JoinedAt
    <3>2. k \in 1..Len(l) /\ TermAt(f, k) = l[k].term
      BY <3>1, WholeLog
    <3>3. CASE k <= kept
      <4>1. k \in 1..kept /\ k \in 1..Len(log[n])
        BY <1>1, <2>1, <3>1, <3>2, <3>3
      <4>2. k \in Span(LogPiece(log[n])) /\ TermAt(LogPiece(log[n]), k) = TermAt(f, k)
        BY <1>1, <3>1, <3>2, <4>1, WholeLog
      <4> QED
        BY <1>1, <4>2
    <3>4. CASE k > kept
      <4>1. Len(m.entries) \in Nat /\ Len(l) \in Nat
        BY <1>1, <3>1, SpanType DEF Log
      <4>2. /\ k \in (kept + 1)..Len(l) /\ k \in Nat \ {0} /\ k # prev
            /\ prev <= k /\ k <= prev + Len(m.entries)
        BY <1>1, <2>1, <3>1, <3>2, <3>4, <4>1
      <4>3. k \in Span(m) /\ TermAt(m, k) = TermAt(f, k)
        BY <1>1, <3>1, <3>2, <4>2, SpanType DEF TermAt
      <4> QED
        BY <1>1, <4>3
    <3> QED
      BY <2>1, <3>1, <3>2, <3>3, <3>4
  <2>5. \A q \in Server : Calm(q)
    BY <1>1, <1>5, <2>2, CalmStepDown
  <2> HIDE DEF f, l
  <2> QED
    BY <1>2, <2>2, <2>3, <2>4, <2>5, MatchCopied
<1> QED
  BY <1>3, <1>4, <1>5 DEF AppendEntries

LEMMA MatchReceiveAppend ==
  ASSUME TypeOK, TypeOK', MatchInv, NEW m \in appReps, ReceiveAppend(m)
  PROVE  MatchInv'
<1> DEFINE n == m.dst
<1>1. n \in Server /\ m.term \in Nat /\ currentTerm[n] \in Nat
  BY NodeTypes DEF TypeOK, AppRep
<1>2. UNCHANGED <<log, leaders, appReqs>>
  BY DEF ReceiveAppend, logVars, history
<1>3. CASE m.term > currentTerm[n] /\ StepDown(n, m.term, Nil)
  <2>1. \A q \in Server : Calm(q)
    BY <1>1, <1>2, <1>3, CalmStepDown
  <2> QED
    BY <1>2, <2>1, MatchKept
<1>4. CASE UNCHANGED <<currentTerm, role>>
  BY <1>2, <1>4, CalmUnchanged, MatchKept
<1> QED
  BY <1>3, <1>4 DEF ReceiveAppend

\* Without crashes and failing writes, a process comes back with the term and
\* the log it had.
LEMMA RestartKeeps ==
  ASSUME NoFaults, ElectionInv, NEW n \in Server, Shutdown(n) \/ Crash(n) \/ Make(n)
  PROVE  /\ UNCHANGED <<currentTerm, log>>
         /\ \A p \in Server : role'[p] = role[p] \/ role'[p] = "follower"
<1>1. TypeOK
  BY DEF ElectionInv
<1>2. CASE Shutdown(n)
  BY <1>1, <1>2 DEF Shutdown, logVars, TypeOK
<1>3. CASE Crash(n)
  BY <1>3 DEF Crash, NoFaults
<1>4. CASE Make(n)
  <2>1. \A s \in Restored(n) : s.term = currentTerm[n] /\ s.log = log[n]
    <3>1. Restored(n) = {Snapshot(n)}
      BY <1>4 DEF Make, Restored, NoFaults, ElectionInv, DiskCurrent
    <3> QED
      BY <3>1 DEF Snapshot
  <2> QED
    BY <1>1, <1>4, <2>1 DEF Make, TypeOK
<1> QED
  BY <1>2, <1>3, <1>4

LEMMA RestartCalm ==
  ASSUME NoFaults, ElectionInv, NEW n \in Server, Shutdown(n) \/ Crash(n) \/ Make(n)
  PROVE  UNCHANGED log /\ \A p \in Server : Calm(p)
<1>1. /\ UNCHANGED <<currentTerm, log>>
      /\ \A p \in Server : role'[p] = role[p] \/ role'[p] = "follower"
  BY RestartKeeps
<1>2. \A p \in Server : currentTerm[p] \in Nat
  BY NodeTypes DEF ElectionInv
<1> QED
  BY <1>1, <1>2 DEF Calm

LEMMA MatchProcess ==
  ASSUME NoFaults, ElectionInv, TypeOK', MatchInv, NEW n \in Server,
         Shutdown(n) \/ Crash(n) \/ Make(n)
  PROVE  MatchInv'
<1>1. TypeOK
  BY DEF ElectionInv
<1>2. UNCHANGED <<leaders, appReqs>>
  BY DEF Shutdown, Crash, Make, appRPCs, history
<1> QED
  BY <1>1, <1>2, RestartCalm, MatchKept

LEMMA MatchStep ==
  ASSUME NoFaults, ElectionInv, ElectionInv', LeaderInv, LeaderInv', MatchInv, [Next]_vars
  PROVE  MatchInv'
<1>1. TypeOK /\ TypeOK' /\ ElectionSafety'
  BY SafetyNext DEF ElectionInv
<1>2. CASE UNCHANGED vars
  BY <1>1, <1>2, CalmUnchanged, MatchKept
  DEF vars, electionVars, logVars, appRPCs, history
<1>3. ASSUME NEW m \in appReqs \cup appReps, CallFails(m) PROVE MatchInv'
  BY <1>1, <1>3, CalmUnchanged, MatchKept DEF CallFails, electionVars, logVars, history
<1> QED
  BY <1>1, <1>2, <1>3, MatchElectionTimeout, MatchRequestVote, MatchReceiveVote, MatchStart,
     MatchReplicateToPeer, MatchAppendEntries, MatchReceiveAppend, MatchProcess
  DEF Next

LEMMA MatchInvSafe ==
  ASSUME TypeOK, MatchInv
  PROVE  LogMatching
<1> SUFFICES ASSUME NEW n \in Server, NEW p \in Server, NEW k \in 1..Len(log[n]),
                    k <= Len(log[p]), log[n][k].term = log[p][k].term
             PROVE  SubSeq(log[n], 1, k) = SubSeq(log[p], 1, k)
  BY DEF LogMatching
<1> DEFINE a == LogPiece(log[n])
           b == LogPiece(log[p])
<1>1. log[n] \in Log /\ log[p] \in Log /\ Len(log[n]) \in Nat /\ Len(log[p]) \in Nat
  BY NodeTypes
<1>2. k \in 1..Len(log[p]) /\ \A j \in 1..k : j \in 1..Len(log[n]) /\ j \in 1..Len(log[p])
  BY <1>1
<1>3. Agree(a, b)
  BY DEF MatchInv, PiecesAgree, Pieces
<1>4. k \in Span(a) \cap Span(b) /\ TermAt(a, k) = TermAt(b, k)
  BY <1>1, <1>2, WholeLog
<1>5. \A j \in 1..k : log[n][j] = log[p][j]
  <2> SUFFICES ASSUME NEW j \in 1..k PROVE log[n][j] = log[p][j]
    OBVIOUS
  <2>1. j \in Span(a) \cap Span(b) /\ j <= k /\ j > 0
    BY <1>1, <1>2, WholeLog
  <2>2. Same(a, b, j) /\ a.prevIdx < j /\ b.prevIdx < j
    BY <1>1, <1>3, <1>4, <2>1, WholeLog DEF Agree
  <2> QED
    BY <1>1, <1>2, <2>2, WholeLog DEF Same
<1> QED
  BY <1>1, <1>2, <1>5, SamePrefix

LEMMA MatchAlways == ASSUME NoFaults PROVE Spec => [](ElectionInv /\ LeaderInv /\ MatchInv)
<1>1. Init => ElectionInv /\ LeaderInv /\ MatchInv
  BY ElectionInit, LeaderInit, MatchInit
<1>2. ElectionInv /\ LeaderInv /\ MatchInv /\ [Next]_vars
        => (ElectionInv /\ LeaderInv /\ MatchInv)'
  BY ElectionStep, LeaderStep, MatchStep
<1> QED
  BY <1>1, <1>2, PTL DEF Spec

\* Where two logs of any cluster have the same term at a position, they are
\* the same up to it: the consistency check of AppendEntries and its append
\* loop maintain this for batches of any age, in any order, in every cluster
\* whose nodes do not crash, whose snapshots get written and in which no vote
\* request outlives its election.
THEOREM LogsMatch == ASSUME NoFaults PROVE Spec => []LogMatching
<1>1. ElectionInv /\ MatchInv => LogMatching
  BY MatchInvSafe DEF ElectionInv
<1> QED
  BY <1>1, MatchAlways, PTL

-----------------------------------------------------------------------------
(* What a leader believes its followers acknowledged.                      *)

Leads(n, t) == role[n] = "leader" /\ currentTerm[n] = t

\* Node p holds the first i entries of n.
Holds(n, p, i) ==
  i <= Len(log[n]) /\ i <= Len(log[p]) /\ \A j \in 1..i : log[p][j] = log[n][j]

\* A call comes from a leader of its term, and says what that leader's log
\* says as long as it leads.
CallTrue(m) ==
  /\ <<m.term, m.src>> \in leaders
  /\ Leads(m.src, m.term) => Part(m, LogPiece(log[m.src]))

\* Who answered with success still holds what was sent, until it leaves that
\* term.
ReplyTrue(r) ==
  /\ <<r.round, r.dst>> \in leaders
  /\ r.success =>
       /\ r.round <= currentTerm[r.src]
       /\ Leads(r.dst, r.round) /\ currentTerm[r.src] = r.round
            => Holds(r.dst, r.src, r.prevIdx + r.sent)

\* A leader n that takes p to hold i entries is right, until p leaves its term.
MatchedTrue(n, p, i) ==
  /\ i > 0 => currentTerm[p] >= currentTerm[n]
  /\ currentTerm[p] = currentTerm[n] => Holds(n, p, i)

CallsTrue   == \A m \in appReqs : CallTrue(m)
RepliesTrue == \A r \in appReps : ReplyTrue(r)
MatchesTrue ==
  \A n, p \in Server : role[n] = "leader" => MatchedTrue(n, p, matchIndex[n][p])

AckInv == CallsTrue /\ RepliesTrue /\ MatchesTrue

\* The log of a node stays, or gets longer.
Grows(n) ==
  /\ Len(log[n]) <= Len(log'[n])
  /\ \A j \in 1..Len(log[n]) : log'[n][j] = log[n][j]

\* What a step may do to a node: move on in time, go on leading with its log
\* or a longer one, or win an election not won before.
Onward(n) ==
  /\ currentTerm'[n] >= currentTerm[n]
  /\ role'[n] = "leader" =>
       \/ role[n] = "leader" /\ currentTerm'[n] = currentTerm[n] /\ Grows(n)
       \/ <<currentTerm'[n], n>> \notin leaders

\* What a step may do to follower p of leader n: p still holds what it held.
StillHolds(n, p) ==
  /\ role[n] = "leader" /\ role'[n] = "leader"
  /\ currentTerm[p] = currentTerm[n] /\ currentTerm'[p] = currentTerm[p]
  => \A i \in Nat : Holds(n, p, i) => Holds(n, p, i)'

\* Such steps leave what was true of calls, replies and acknowledgements true.
LEMMA AckKept ==
  ASSUME TypeOK, TypeOK', AckInv, LeadersRecorded, leaders \subseteq leaders',
         \A n \in Server : Onward(n), \A n, p \in Server : StillHolds(n, p)
  PROVE  /\ \A m \in appReqs : CallTrue(m)'
         /\ \A r \in appReps : ReplyTrue(r)'
         /\ \A n, p \in Server : \A i \in Nat :
              /\ role[n] = "leader" /\ role'[n] = "leader" /\ currentTerm'[n] = currentTerm[n]
              /\ MatchedTrue(n, p, i)
              => MatchedTrue(n, p, i)'
<1>1. /\ \A p \in Server : currentTerm[p] \in Nat /\ Len(log[p]) \in Nat /\ log[p] \in Log
      /\ currentTerm' \in [Server -> Nat] /\ log' \in [Server -> Log]
      /\ \A p \in Server : Len(log'[p]) \in Nat
  <2>1. /\ currentTerm' \in [Server -> Nat] /\ log' \in [Server -> Log]
    BY DEF TypeOK, Log
  <2>2. \A p \in Server : log'[p] \in Log
    BY <2>1
  <2> QED
    BY <2>1, <2>2, NodeTypes, WholeLog
\* Who leads before and after, and is on record as the leader of that term,
\* leads the same term.
<1>2. ASSUME NEW n \in Server, NEW t, role'[n] = "leader", currentTerm'[n] = t,
             <<t, n>> \in leaders
      PROVE  Leads(n, t) /\ Grows(n)
  BY <1>2 DEF Onward, Leads
<1>3. ASSUME NEW m \in appReqs PROVE CallTrue(m)'
  <2>1. CallTrue(m) /\ m \in AppReq
    BY DEF AckInv, CallsTrue, TypeOK
  <2>2. m.src \in Server /\ IsPiece(m)
    BY <2>1 DEF AppReq, IsPiece, Log
  <2>3. ASSUME Leads(m.src, m.term)' PROVE Part(m, LogPiece(log'[m.src]))
    <3>1. /\ Leads(m.src, m.term)
          /\ Len(log[m.src]) <= Len(log'[m.src])
          /\ \A j \in 1..Len(log[m.src]) : log'[m.src][j] = log[m.src][j]
      BY <1>2, <2>1, <2>2, <2>3 DEF CallTrue, Leads, Grows
    <3>2. log[m.src] \in Log /\ log'[m.src] \in Log
      BY <1>1, <2>2
    <3>3. Part(m, LogPiece(log[m.src]))
      BY <2>1, <3>1 DEF CallTrue
    <3>4. Part(LogPiece(log[m.src]), LogPiece(log'[m.src]))
      BY <3>1, <3>2, PartOfLonger
    <3> QED
      BY <2>2, <3>2, <3>3, <3>4, PartTransitive, WholeLog
  <2> QED
    BY <2>1, <2>3 DEF CallTrue
<1>4. ASSUME NEW r \in appReps PROVE ReplyTrue(r)'
  <2>1. ReplyTrue(r) /\ r \in AppRep
    BY DEF AckInv, RepliesTrue, TypeOK
  <2>2. /\ r.src \in Server /\ r.dst \in Server /\ r.round \in Nat
        /\ r.prevIdx + r.sent \in Nat
    BY <2>1 DEF AppRep
  <2>3. ASSUME r.success
        PROVE  /\ r.round <= currentTerm'[r.src]
               /\ Leads(r.dst, r.round)' /\ currentTerm'[r.src] = r.round
                    => Holds(r.dst, r.src, r.prevIdx + r.sent)'
    <3>1. r.round <= currentTerm[r.src] /\ currentTerm[r.src] <= currentTerm'[r.src]
      BY <1>1, <2>1, <2>2, <2>3 DEF ReplyTrue, Onward
    <3>2. currentTerm[r.src] \in Nat /\ currentTerm'[r.src] \in Nat
      BY <1>1, <2>2
    <3>3. ASSUME Leads(r.dst, r.round)', currentTerm'[r.src] = r.round
          PROVE  Holds(r.dst, r.src, r.prevIdx + r.sent)'
      <4>1. Leads(r.dst, r.round) /\ role'[r.dst] = "leader"
        BY <1>2, <2>1, <2>2, <3>3 DEF ReplyTrue, Leads
      <4>2. currentTerm[r.src] = r.round /\ currentTerm'[r.src] = currentTerm[r.src]
        BY <2>2, <3>1, <3>2, <3>3
      <4>3. Holds(r.dst, r.src, r.prevIdx + r.sent)
        BY <2>1, <2>3, <4>1, <4>2 DEF ReplyTrue
      <4> QED
        BY <2>2, <4>1, <4>2, <4>3 DEF StillHolds, Leads
    <3> QED
      BY <2>2, <3>1, <3>2, <3>3
  <2> QED
    BY <2>1, <2>3 DEF ReplyTrue
<1>5. ASSUME NEW n \in Server, NEW p \in Server, NEW i \in Nat,
             role[n] = "leader", role'[n] = "leader", currentTerm'[n] = currentTerm[n],
             MatchedTrue(n, p, i)
      PROVE  MatchedTrue(n, p, i)'
  <2>1. /\ currentTerm[p] \in Nat /\ currentTerm'[p] \in Nat /\ currentTerm[n] \in Nat
        /\ currentTerm[p] <= currentTerm'[p]
    BY <1>1 DEF Onward
  <2>2. i > 0 => currentTerm'[p] >= currentTerm'[n]
    BY <1>5, <2>1 DEF MatchedTrue
  <2>3. ASSUME currentTerm'[p] = currentTerm'[n] PROVE Holds(n, p, i)'
    <3>1. CASE i = 0
      BY <1>1, <3>1 DEF Holds
    <3>2. CASE i > 0
      <4>1. currentTerm[p] = currentTerm[n] /\ currentTerm'[p] = currentTerm[p]
        BY <1>5, <2>1, <2>3, <3>2 DEF MatchedTrue
      <4> QED
        BY <1>5, <4>1 DEF MatchedTrue, StillHolds
    <3> QED
      BY <3>1, <3>2
  <2> QED
    BY <2>2, <2>3 DEF MatchedTrue
<1> QED
  BY <1>3, <1>4, <1>5

\* What is new among calls, replies and acknowledgements is to be looked at.
LEMMA AckCarried ==
  ASSUME TypeOK, TypeOK', AckInv, LeadersRecorded, leaders \subseteq leaders',
         \A n \in Server : Onward(n), \A n, p \in Server : StillHolds(n, p),
         \A m \in appReqs' : m \in appReqs \/ CallTrue(m)',
         \A r \in appReps' : r \in appReps \/ ReplyTrue(r)',
         \A n, p \in Server : role'[n] = "leader" =>
           \/ /\ role[n] = "leader" /\ currentTerm'[n] = currentTerm[n]
              /\ matchIndex'[n][p] = matchIndex[n][p]
           \/ MatchedTrue(n, p, matchIndex[n][p])'
  PROVE  AckInv'
<1>1. /\ \A m \in appReqs : CallTrue(m)'
      /\ \A r \in appReps : ReplyTrue(r)'
      /\ \A n, p \in Server : \A i \in Nat :
           /\ role[n] = "leader" /\ role'[n] = "leader" /\ currentTerm'[n] = currentTerm[n]
           /\ MatchedTrue(n, p, i)
           => MatchedTrue(n, p, i)'
  BY AckKept
<1>2. CallsTrue' /\ RepliesTrue'
  BY <1>1 DEF CallsTrue, RepliesTrue
<1>3. ASSUME NEW n \in Server, NEW p \in Server, role'[n] = "leader"
      PROVE  MatchedTrue(n, p, matchIndex[n][p])'
  <2> DEFINE i == matchIndex[n][p]
  <2>1. CASE /\ role[n] = "leader" /\ currentTerm'[n] = currentTerm[n]
             /\ matchIndex'[n][p] = i
    <3>1. i \in Nat
      BY DEF TypeOK
    <3>2. MatchedTrue(n, p, i)
      BY <2>1 DEF AckInv, MatchesTrue
    <3> QED
      BY <1>1, <1>3, <2>1, <3>1, <3>2 DEF MatchedTrue, Holds
  <2> QED
    BY <1>3, <2>1
<1> QED
  BY <1>2, <1>3 DEF AckInv, MatchesTrue

-----------------------------------------------------------------------------
(* Every step keeps calls, replies and acknowledgements true.              *)

LEMMA AckInit == Init => AckInv
<1> SUFFICES ASSUME Init PROVE AckInv
  OBVIOUS
<1>1. appReqs = {} /\ appReps = {} /\ \A n \in Server : role[n] # "leader"
  BY DEF Init
<1> QED
  BY <1>1 DEF AckInv, CallsTrue, RepliesTrue, MatchesTrue

\* Where the logs of both only grow, a follower holds what it held.
LEMMA GrowsHolds ==
  ASSUME TypeOK, TypeOK', NEW n \in Server, NEW p \in Server, Grows(n), Grows(p)
  PROVE  StillHolds(n, p)
<1> SUFFICES ASSUME NEW i \in Nat, Holds(n, p, i) PROVE Holds(n, p, i)'
  BY DEF StillHolds
<1>1. /\ Len(log[n]) \in Nat /\ Len(log[p]) \in Nat
      /\ Len(log'[n]) \in Nat /\ Len(log'[p]) \in Nat
  <2>1. log' \in [Server -> Log]
    BY DEF TypeOK, Log
  <2>2. log'[n] \in Log /\ log'[p] \in Log
    BY <2>1
  <2> QED
    BY <2>2, NodeTypes, WholeLog
<1>2. i <= Len(log[n]) /\ i <= Len(log[p])
  BY DEF Holds
<1>3. i <= Len(log'[n]) /\ i <= Len(log'[p])
  BY <1>1, <1>2 DEF Grows
<1>4. \A j \in 1..i : j \in 1..Len(log[n]) /\ j \in 1..Len(log[p])
  BY <1>1, <1>2
<1>5. \A j \in 1..i : log'[p][j] = log'[n][j]
  BY <1>4 DEF Grows, Holds
<1> QED
  BY <1>3, <1>5 DEF Holds

\* Steps that elect nobody, touch no log and no acknowledgement, and answer
\* or make at most what is true.
LEMMA AckQuiet ==
  ASSUME TypeOK, TypeOK', AckInv, LeadersRecorded, UNCHANGED <<log, leaders>>,
         \A n \in Server : Calm(n),
         \A m \in appReqs' : m \in appReqs \/ CallTrue(m)',
         \A r \in appReps' : r \in appReps \/ ReplyTrue(r)',
         \A n, p \in Server : role'[n] = "leader" =>
           matchIndex'[n][p] = matchIndex[n][p] \/ MatchedTrue(n, p, matchIndex[n][p])'
  PROVE  AckInv'
<1>1. \A n \in Server : Grows(n)
  BY NodeTypes DEF Grows
<1>2. \A n, p \in Server : StillHolds(n, p)
  BY <1>1, GrowsHolds
<1>3. \A n \in Server : Onward(n)
  BY <1>1 DEF Calm, Onward
<1>4. \A n, p \in Server : role'[n] = "leader" =>
        \/ /\ role[n] = "leader" /\ currentTerm'[n] = currentTerm[n]
           /\ matchIndex'[n][p] = matchIndex[n][p]
        \/ MatchedTrue(n, p, matchIndex[n][p])'
  BY DEF Calm
<1>5. leaders \subseteq leaders'
  OBVIOUS
<1> QED
  BY <1>2, <1>3, <1>4, <1>5, AckCarried

\* A node appends one entry.
LEMMA GrowsByOne ==
  ASSUME TypeOK, NEW n \in Server, NEW x \in Entry, log' = [log EXCEPT ![n] = Append(log[n], x)]
  PROVE  /\ \A q \in Server : Grows(q)
         /\ log'[n] = Append(log[n], x)
<1>1. log[n] \in Log /\ \A q \in Server : Len(log[q]) \in Nat
  BY NodeTypes
<1>2. log'[n] = Append(log[n], x) /\ \A q \in Server \ {n} : log'[q] = log[q]
  BY NodeTypes
<1>3. /\ Len(Append(log[n], x)) = Len(log[n]) + 1
      /\ \A j \in 1..Len(log[n]) : Append(log[n], x)[j] = log[n][j]
  BY <1>1, AppendProperties DEF Log
<1> QED
  BY <1>1, <1>2, <1>3 DEF Grows

\* After any step a leader is right about its own log, and about followers
\* it takes to hold nothing.
LEMMA HoldsNext ==
  ASSUME TypeOK', NEW n \in Server
  PROVE  /\ \A i \in Nat : i <= Len(log'[n]) => MatchedTrue(n, n, i)'
         /\ \A p \in Server : MatchedTrue(n, p, 0)'
<1>1. currentTerm'[n] \in Nat /\ log' \in [Server -> Log]
  BY DEF TypeOK, Log
<1>2. \A p \in Server : Len(log'[p]) \in Nat
  <2>1. \A p \in Server : log'[p] \in Log
    BY <1>1
  <2> QED
    BY <2>1, WholeLog
<1> QED
  BY <1>1, <1>2 DEF MatchedTrue, Holds

LEMMA AckBecomeLeader ==
  ASSUME TypeOK, TypeOK', AckInv, LeadersRecorded, UNCHANGED appReqs, UNCHANGED appReps,
         NEW n \in Server, NEW t \in Nat, t >= currentTerm[n],
         <<t, n>> \notin leaders, BecomeLeader(n, t), currentTerm'[n] = t,
         \A p \in Server \ {n} : currentTerm'[p] = currentTerm[p]
  PROVE  AckInv'
<1> DEFINE x == [term |-> t, cmd |-> NoOp]
           l == Append(log[n], x)
<1>1. /\ x \in Entry /\ log' = [log EXCEPT ![n] = l]
      /\ leaders \subseteq leaders' /\ role' = [role EXCEPT ![n] = "leader"]
      /\ matchIndex' = [matchIndex EXCEPT ![n] = [p \in Server |-> IF p = n THEN Len(l) ELSE 0]]
  BY DEF BecomeLeader, Entry
<1>2. \A q \in Server : Grows(q)
  BY <1>1, GrowsByOne
<1>3. log'[n] = l
  BY <1>1, GrowsByOne
<1>4. /\ \A p \in Server \ {n} : role'[p] = role[p] /\ matchIndex'[p] = matchIndex[p]
      /\ \A p \in Server : matchIndex'[n][p] = IF p = n THEN Len(l) ELSE 0
  <2>1. role \in [Server -> Role] /\ matchIndex \in [Server -> [Server -> Nat]]
    BY DEF TypeOK
  <2> QED
    BY <1>1, <2>1
<1>5. \A q \in Server : currentTerm[q] \in Nat
  BY NodeTypes
<1>6. \A q \in Server : Onward(q)
  BY <1>2, <1>4, <1>5 DEF Onward
<1>7. \A p, q \in Server : StillHolds(p, q)
  BY <1>2, GrowsHolds
<1> HIDE DEF l
<1>8. \A p \in Server : MatchedTrue(n, p, matchIndex[n][p])'
  <2>1. Len(l) \in Nat
    <3>1. log'[n] \in Log
      BY DEF TypeOK, Log
    <3> QED
      BY <1>3, <3>1, WholeLog
  <2>2. matchIndex'[n][n] = Len(l) /\ \A p \in Server \ {n} : matchIndex'[n][p] = 0
    BY <1>4
  <2>3. \A i \in Nat : i <= Len(log'[n]) => MatchedTrue(n, n, i)'
    BY HoldsNext
  <2>4. \A p \in Server : MatchedTrue(n, p, 0)'
    BY HoldsNext
  <2>5. MatchedTrue(n, n, matchIndex[n][n])'
    BY <1>3, <2>1, <2>2, <2>3 DEF MatchedTrue, Holds
  <2>6. ASSUME NEW p \in Server \ {n} PROVE MatchedTrue(n, p, matchIndex[n][p])'
    BY <2>2, <2>4 DEF MatchedTrue, Holds
  <2> QED
    BY <2>5, <2>6
<1>9. \A q, p \in Server : role'[q] = "leader" =>
        \/ /\ role[q] = "leader" /\ currentTerm'[q] = currentTerm[q]
           /\ matchIndex'[q][p] = matchIndex[q][p]
        \/ MatchedTrue(q, p, matchIndex[q][p])'
  BY <1>4, <1>8
<1> QED
  BY <1>1, <1>6, <1>7, <1>9, AckCarried

LEMMA AckElectionTimeout ==
  ASSUME TypeOK, TypeOK', AckInv, LeadersRecorded, NEW n \in Server, ElectionTimeout(n)
  PROVE  AckInv'
<1> DEFINE t == currentTerm[n] + 1
<1>1. /\ currentTerm[n] \in Nat /\ t \in Nat /\ t > currentTerm[n] /\ t >= currentTerm[n]
      /\ \A p \in Server : currentTerm[p] \in Nat
  BY NodeTypes
<1>2. currentTerm' = [currentTerm EXCEPT ![n] = t] /\ UNCHANGED appReqs /\ UNCHANGED appReps
  BY DEF ElectionTimeout, appRPCs
<1>3. currentTerm'[n] = t /\ \A p \in Server \ {n} : currentTerm'[p] = currentTerm[p]
  BY <1>2, NodeTypes
<1>4. CASE BecomeLeader(n, t)
  <2>1. <<t, n>> \notin leaders
    <3>1. <<t, n>> \in leaders => t <= currentTerm[n]
      BY DEF LeadersRecorded
    <3> QED
      BY <1>1, <3>1
  <2> HIDE DEF t
  <2> QED
    BY <1>1, <1>2, <1>3, <1>4, <2>1, AckBecomeLeader
<1>5. CASE /\ role' = [role EXCEPT ![n] = "candidate"]
           /\ UNCHANGED <<logVars, leaderVars, leaders>>
  <2>1. \A p \in Server : IF p = n THEN role'[p] = "candidate" ELSE role'[p] = role[p]
    BY <1>5, NodeTypes
  <2>2. \A p \in Server : Calm(p)
    BY <1>1, <1>3, <1>5, <2>1 DEF Calm, logVars
  <2> QED
    BY <1>2, <1>5, <2>2, AckQuiet DEF logVars, leaderVars
<1> QED
  BY <1>4, <1>5 DEF ElectionTimeout

LEMMA AckRequestVote ==
  ASSUME TypeOK, TypeOK', AckInv, LeadersRecorded, NEW m \in voteReqs, RequestVote(m)
  PROVE  AckInv'
<1>1. \A p \in Server : Calm(p)
  BY CalmRequestVote
<1>2. UNCHANGED <<log, leaders, matchIndex, appReqs, appReps>>
  BY DEF RequestVote, logVars, leaderVars, appRPCs
<1> QED
  BY <1>1, <1>2, AckQuiet

LEMMA AckReceiveVote ==
  ASSUME TypeOK, TypeOK', AckInv, LeadersRecorded, NEW m \in voteReps, ReceiveVote(m)
  PROVE  AckInv'
<1> DEFINE n == m.dst
<1>1. n \in Server /\ m.term \in Nat /\ currentTerm[n] \in Nat
  BY NodeTypes DEF TypeOK, VoteRep
<1>2. UNCHANGED appReqs /\ UNCHANGED appReps
  BY DEF ReceiveVote, appRPCs
<1>3. CASE /\ m.term > currentTerm[n] /\ StepDown(n, m.term, Nil)
           /\ UNCHANGED <<log, matchIndex, leaders>>
  <2>1. \A q \in Server : Calm(q)
    BY <1>1, <1>3, CalmStepDown
  <2> QED
    BY <1>2, <1>3, <2>1, AckQuiet
<1>4. CASE UNCHANGED <<currentTerm, role, log, matchIndex, leaders>>
  BY <1>2, <1>4, CalmUnchanged, AckQuiet
<1>5. CASE /\ role[n] = "candidate" /\ UNCHANGED currentTerm
           /\ BecomeLeader(n, currentTerm[n])
  <2>1. <<currentTerm[n], n>> \notin leaders
    BY <1>1, <1>5 DEF LeadersRecorded
  <2>2. currentTerm[n] >= currentTerm[n]
    BY <1>1
  <2> QED
    BY <1>1, <1>2, <1>5, <2>1, <2>2, AckBecomeLeader
<1> QED
  BY <1>3, <1>4, <1>5 DEF ReceiveVote, logVars, leaderVars, electionVars

LEMMA AckStart ==
  ASSUME TypeOK, TypeOK', AckInv, LeadersRecorded, NEW n \in Server, NEW cmd \in Cmd,
         Start(n, cmd)
  PROVE  AckInv'
<1> DEFINE x == [term |-> currentTerm[n], cmd |-> cmd]
           l == Append(log[n], x)
<1>1. /\ x \in Entry /\ log' = [log EXCEPT ![n] = l]
      /\ matchIndex' = [matchIndex EXCEPT ![n] = [matchIndex[n] EXCEPT ![n] = Len(l)]]
      /\ UNCHANGED <<currentTerm, role, leaders, appReqs, appReps>>
  BY NodeTypes DEF Start, Entry, electionVars, appRPCs, history
<1>2. \A q \in Server : Grows(q)
  BY <1>1, GrowsByOne
<1>3. log'[n] = l
  BY <1>1, GrowsByOne
<1>4. /\ matchIndex'[n][n] = Len(l)
      /\ \A q, p \in Server : q # n \/ p # n => matchIndex'[q][p] = matchIndex[q][p]
  <2>1. matchIndex \in [Server -> [Server -> Nat]]
    BY DEF TypeOK
  <2> QED
    BY <1>1, <2>1
<1>5. \A q \in Server : Onward(q)
  BY <1>1, <1>2, NodeTypes DEF Onward
<1>6. \A p, q \in Server : StillHolds(p, q)
  BY <1>2, GrowsHolds
<1> HIDE DEF l
<1>7. MatchedTrue(n, n, matchIndex[n][n])'
  <2>1. Len(l) \in Nat
    <3>1. log'[n] \in Log
      BY DEF TypeOK, Log
    <3> QED
      BY <1>3, <3>1, WholeLog
  <2>2. \A i \in Nat : i <= Len(log'[n]) => MatchedTrue(n, n, i)'
    BY HoldsNext
  <2> QED
    BY <1>3, <1>4, <2>1, <2>2 DEF MatchedTrue, Holds
<1>8. \A q, p \in Server : role'[q] = "leader" =>
        \/ /\ role[q] = "leader" /\ currentTerm'[q] = currentTerm[q]
           /\ matchIndex'[q][p] = matchIndex[q][p]
        \/ MatchedTrue(q, p, matchIndex[q][p])'
  BY <1>1, <1>4, <1>7
<1> QED
  BY <1>1, <1>5, <1>6, <1>8, AckCarried

LEMMA AckReplicateToPeer ==
  ASSUME LeaderInv, LeaderInv', AckInv, LeadersRecorded, NEW n \in Server, NEW p \in Server,
         ReplicateToPeer(n, p)
  PROVE  AckInv'
<1>1. TypeOK /\ TypeOK'
  BY DEF LeaderInv, OrderInv
<1>2. UNCHANGED <<currentTerm, role, log, matchIndex, leaders, appReps>>
  BY DEF ReplicateToPeer, electionVars, logVars, leaderVars, history
<1>3. PICK m \in AppReq : /\ appReqs' = appReqs \cup {m}
                          /\ m.src = n /\ m.term = currentTerm[n]
                          /\ Part(m, LogPiece(log[n]))
  BY CallIsPart
<1>4. role[n] = "leader"
  BY DEF ReplicateToPeer
<1>5. CallTrue(m)'
  BY <1>2, <1>3, <1>4 DEF CallTrue, LeadersRecorded
<1> QED
  BY <1>1, <1>2, <1>3, <1>5, CalmUnchanged, AckQuiet

\* Only its leader calls nodes in a term: whoever leads the term of a call
\* sent it.
LEMMA CallersLead ==
  ASSUME LeadersRecorded, ElectionSafety, NEW m, CallTrue(m), NEW q \in Server,
         Leads(q, m.term)
  PROVE  q = m.src /\ Part(m, LogPiece(log[q]))
<1>1. <<m.term, q>> \in leaders /\ <<m.term, m.src>> \in leaders
  BY DEF LeadersRecorded, CallTrue, Leads
<1>2. q = m.src
  BY <1>1 DEF ElectionSafety
<1> QED
  BY <1>2 DEF CallTrue

LEMMA AckAppendEntries ==
  ASSUME TypeOK, TypeOK', ElectionSafety, MatchInv, AckInv, NEW m \in appReqs, AppendEntries(m)
  PROVE  AckInv'
<1> DEFINE n    == m.dst
           prev == m.prevIdx
           last == prev + Len(m.entries)
           l    == Splice(log[n], prev, m.entries)
<1>1. /\ n \in Server /\ m.src \in Server /\ m.term \in Nat /\ currentTerm[n] \in Nat
      /\ IsPiece(m) /\ log[n] \in Log /\ Len(log[n]) \in Nat
      /\ \A q \in Server : currentTerm[q] \in Nat /\ log[q] \in Log
  BY NodeTypes, PieceTypes DEF TypeOK, AppReq, Pieces
<1>2. CallTrue(m) /\ LeadersRecorded
  BY DEF AckInv, CallsTrue, MatchInv
<1>3. appReqs' \subseteq appReqs /\ UNCHANGED <<leaders, matchIndex>>
  BY DEF AppendEntries, AppendReply, leaderVars
\* A rejection promises nothing.
<1>4. ASSUME NEW t, NEW i, NEW ct, AppendReply(m, t, FALSE, i, ct)
      PROVE  \A r \in appReps' : r \in appReps \/ ReplyTrue(r)'
  <2> SUFFICES ASSUME NEW r \in appReps', r \notin appReps PROVE ReplyTrue(r)'
    OBVIOUS
  <2>1. r.round = m.term /\ r.dst = m.src /\ r.success = FALSE
    BY <1>4 DEF AppendReply
  <2> QED
    BY <1>2, <1>3, <2>1 DEF ReplyTrue, CallTrue
<1>5. CASE /\ UNCHANGED <<electionVars, logVars>>
           /\ AppendReply(m, currentTerm[n], FALSE, 1, NoTerm)
  <2>1. \A q \in Server : Calm(q)
    BY <1>5, CalmUnchanged DEF electionVars, logVars
  <2> QED
    BY <1>2, <1>3, <1>4, <1>5, <2>1, AckQuiet DEF logVars
<1>6. CASE /\ m.term >= currentTerm[n] /\ StepDown(n, m.term, m.src) /\ UNCHANGED logVars
           /\ \/ AppendReply(m, m.term, FALSE, Len(log[n]) + 1, NoTerm)
              \/ AppendReply(m, m.term, FALSE, FirstOfTerm(log[n], prev), log[n][prev].term)
  <2>1. \A q \in Server : Calm(q)
    BY <1>1, <1>6, CalmStepDown DEF logVars
  <2>2. \A r \in appReps' : r \in appReps \/ ReplyTrue(r)'
    BY <1>4, <1>6
  <2> QED
    BY <1>2, <1>3, <1>6, <2>1, <2>2, AckQuiet DEF logVars
<1>7. CASE /\ m.term >= currentTerm[n] /\ StepDown(n, m.term, m.src)
           /\ ~ (prev > Len(log[n])) /\ ~ Clashes(log[n], prev, m.prevTerm)
           /\ AppendReply(m, m.term, TRUE, 1, NoTerm)
           /\ log' = [log EXCEPT ![n] = l]
  <2>1. /\ currentTerm'[n] = m.term /\ role'[n] = "follower" /\ log'[n] = l
        /\ \A q \in Server \ {n} : /\ currentTerm'[q] = currentTerm[q] /\ role'[q] = role[q]
                                   /\ log'[q] = log[q]
    <3>1. /\ currentTerm' = [currentTerm EXCEPT ![n] = m.term]
          /\ role' = [role EXCEPT ![n] = "follower"]
      BY <1>7 DEF StepDown
    <3> QED
      BY <1>1, <1>7, <3>1, NodeTypes
  \* What the follower now holds of a leader of that term.
  <2>2. ASSUME NEW q \in Server, q # n, Leads(q, m.term)
        PROVE  /\ q = m.src
               /\ Holds(q, n, last)'
               /\ \A i \in Nat : Holds(q, n, i) => Holds(q, n, i)'
    <3>1. q = m.src /\ Part(m, LogPiece(log[q]))
      BY <1>2, <2>2, CallersLead
    <3>2. /\ log[n] \in Log /\ log[q] \in Log /\ IsPiece(m)
          /\ m.prevIdx <= Len(log[n]) /\ ~ Clashes(log[n], m.prevIdx, m.prevTerm)
      BY <1>1, <1>7 DEF IsPiece
    <3>3. Agree(LogPiece(log[n]), LogPiece(log[q]))
      BY <1>1 DEF MatchInv, PiecesAgree, Pieces
    <3>4. /\ last <= Len(l) /\ last <= Len(log[q])
          /\ \A j \in 1..last : l[j] = log[q][j]
          /\ \A i \in Nat : i <= Len(log[n]) /\ (\A j \in 1..i : log[n][j] = log[q][j])
                            => i <= Len(l) /\ \A j \in 1..i : l[j] = log[q][j]
      BY <3>1, <3>2, <3>3, SpliceFollows
    <3> HIDE DEF l
    <3>5. log'[n] = l /\ log'[q] = log[q]
      BY <2>1, <2>2
    <3> QED
      BY <3>1, <3>4, <3>5 DEF Holds
  <2> HIDE DEF l
  <2>3. \A q \in Server : Onward(q)
    <3>1. \A q \in Server \ {n} : Grows(q)
      BY <1>1, <2>1, NodeTypes DEF Grows
    <3> QED
      BY <1>1, <1>7, <2>1, <3>1 DEF Onward
  <2>4. ASSUME NEW q \in Server, NEW p \in Server PROVE StillHolds(q, p)
    <3>1. CASE q = n
      BY <2>1, <3>1 DEF StillHolds
    <3>2. CASE q # n /\ p # n
      BY <2>1, <3>2 DEF StillHolds, Holds
    <3>3. CASE q # n /\ p = n
      BY <2>1, <2>2, <3>3 DEF StillHolds, Leads
    <3> QED
      BY <3>1, <3>2, <3>3
  <2>5. ASSUME NEW r \in appReps', r \notin appReps PROVE ReplyTrue(r)'
    <3>1. /\ r.src = n /\ r.dst = m.src /\ r.round = m.term
          /\ r.prevIdx = prev /\ r.sent = Len(m.entries)
      BY <1>7, <2>5 DEF AppendReply
    <3>2. r.prevIdx + r.sent = last /\ r.round <= currentTerm'[r.src]
      BY <1>1, <2>1, <3>1
    <3>3. ASSUME Leads(m.src, m.term)' PROVE Holds(m.src, n, last)'
      <4>1. m.src # n /\ Leads(m.src, m.term)
        BY <1>1, <2>1, <3>3 DEF Leads
      <4> QED
        BY <1>1, <2>2, <4>1
    <3>4. <<r.round, r.dst>> \in leaders'
      BY <1>2, <1>3, <3>1 DEF CallTrue
    <3> HIDE DEF last
    <3> QED
      BY <3>1, <3>2, <3>3, <3>4 DEF ReplyTrue
  <2>6. \A q, p \in Server : role'[q] = "leader" =>
          /\ role[q] = "leader" /\ currentTerm'[q] = currentTerm[q]
          /\ matchIndex'[q][p] = matchIndex[q][p]
    BY <1>3, <2>1
  <2> QED
    BY <1>2, <1>3, <2>3, <2>4, <2>5, <2>6, AckCarried
<1> QED
  BY <1>5, <1>6, <1>7 DEF AppendEntries

LEMMA AckReceiveAppend ==
  ASSUME TypeOK, TypeOK', AckInv, LeadersRecorded, NEW m \in appReps, ReceiveAppend(m)
  PROVE  AckInv'
<1> DEFINE n     == m.dst
           p     == m.src
           acked == Acked(matchIndex[n][p], m.prevIdx, m.sent)
<1>1. /\ n \in Server /\ p \in Server /\ m.term \in Nat /\ m.prevIdx \in Nat /\ m.sent \in Nat
      /\ m.prevIdx + m.sent \in Nat /\ currentTerm[n] \in Nat /\ matchIndex[n][p] \in Nat
      /\ m.round \in Nat /\ currentTerm[p] \in Nat
  <2>1. m \in AppRep /\ matchIndex \in [Server -> [Server -> Nat]]
    BY DEF TypeOK
  <2>2. /\ n \in Server /\ p \in Server /\ m.term \in Nat /\ m.prevIdx \in Nat /\ m.sent \in Nat
        /\ m.round \in Nat
    BY <2>1 DEF AppRep
  <2>3. currentTerm[n] \in Nat /\ currentTerm[p] \in Nat
    BY <2>2, NodeTypes
  <2> QED
    BY <2>1, <2>2, <2>3
<1>2. appReps' \subseteq appReps /\ UNCHANGED <<log, leaders, appReqs>>
  BY DEF ReceiveAppend, logVars, history
<1>3. CASE m.term > currentTerm[n] /\ StepDown(n, m.term, Nil) /\ UNCHANGED matchIndex
  <2>1. \A q \in Server : Calm(q)
    BY <1>1, <1>2, <1>3, CalmStepDown
  <2> QED
    BY <1>2, <1>3, <2>1, AckQuiet
<1>4. CASE UNCHANGED <<currentTerm, role, matchIndex>>
  BY <1>2, <1>4, CalmUnchanged, AckQuiet
<1>5. CASE /\ role[n] = "leader" /\ currentTerm[n] = m.round /\ m.success
           /\ matchIndex' = [matchIndex EXCEPT ![n] = [matchIndex[n] EXCEPT ![p] = acked]]
           /\ UNCHANGED <<currentTerm, role>>
  <2>1. /\ matchIndex'[n][p] = acked
        /\ \A q, s \in Server : q # n \/ s # p => matchIndex'[q][s] = matchIndex[q][s]
    <3>1. matchIndex \in [Server -> [Server -> Nat]]
      BY DEF TypeOK
    <3> QED
      BY <1>1, <1>5, <3>1
  <2>2. MatchedTrue(n, p, matchIndex[n][p])
    BY <1>1, <1>5 DEF AckInv, MatchesTrue
  <2>3. MatchedTrue(n, p, m.prevIdx + m.sent)
    <3>1. ReplyTrue(m)
      BY DEF AckInv, RepliesTrue
    <3> QED
      BY <1>1, <1>5, <3>1 DEF ReplyTrue, MatchedTrue, Leads
  <2>4. acked = IF matchIndex[n][p] >= m.prevIdx + m.sent THEN matchIndex[n][p]
                ELSE m.prevIdx + m.sent
    BY <1>1, GreaterOfTwo DEF Acked
  <2> HIDE DEF acked
  <2>5. MatchedTrue(n, p, acked)
    BY <2>2, <2>3, <2>4
  <2>6. MatchedTrue(n, p, matchIndex[n][p])'
    BY <1>2, <1>5, <2>1, <2>5 DEF MatchedTrue, Holds
  <2>7. \A q, s \in Server : role'[q] = "leader" =>
          matchIndex'[q][s] = matchIndex[q][s] \/ MatchedTrue(q, s, matchIndex[q][s])'
    BY <2>1, <2>6
  <2> QED
    BY <1>2, <1>5, <2>7, CalmUnchanged, AckQuiet
<1> QED
  BY <1>3, <1>4, <1>5 DEF ReceiveAppend, Heeds, leaderVars

LEMMA AckProcess ==
  ASSUME NoFaults, ElectionInv, TypeOK', AckInv, LeadersRecorded, NEW n \in Server,
         Shutdown(n) \/ Crash(n) \/ Make(n)
  PROVE  AckInv'
<1>1. TypeOK
  BY DEF ElectionInv
<1>2. /\ UNCHANGED log
      /\ \A p \in Server : Calm(p)
  BY RestartCalm
<1>3. /\ UNCHANGED <<leaders, appReqs, appReps>>
  BY DEF Shutdown, Crash, Make, appRPCs, history
<1>4. \A q, p \in Server : role'[q] = "leader" => matchIndex'[q][p] = matchIndex[q][p]
  <2>1. CASE Shutdown(n) \/ Crash(n)
    BY <2>1 DEF Shutdown, Crash, leaderVars
  <2>2. CASE Make(n)
    <3>1. role \in [Server -> Role] /\ matchIndex \in [Server -> [Server -> Nat]]
      BY <1>1 DEF TypeOK
    <3> QED
      BY <2>2, <3>1 DEF Make
  <2> QED
    BY <2>1, <2>2
<1> QED
  BY <1>1, <1>2, <1>3, <1>4, AckQuiet

LEMMA AckStep ==
  ASSUME NoFaults, ElectionInv, ElectionInv', LeaderInv, LeaderInv', MatchInv, AckInv, [Next]_vars
  PROVE  AckInv'
<1>1. TypeOK /\ TypeOK' /\ ElectionSafety /\ LeadersRecorded
  BY ElectionInvSafe DEF ElectionInv, MatchInv
<1>2. CASE UNCHANGED vars
  BY <1>1, <1>2, CalmUnchanged, AckQuiet
  DEF vars, electionVars, logVars, leaderVars, appRPCs, history
<1>3. ASSUME NEW m \in appReqs \cup appReps, CallFails(m) PROVE AckInv'
  <2>1. /\ UNCHANGED <<currentTerm, role, log, matchIndex, leaders>>
        /\ appReqs' \subseteq appReqs /\ appReps' \subseteq appReps
    BY <1>3 DEF CallFails, electionVars, logVars, leaderVars, history
  <2> QED
    BY <1>1, <2>1, CalmUnchanged, AckQuiet
<1> QED
  BY <1>1, <1>2, <1>3, AckElectionTimeout, AckRequestVote, AckReceiveVote, AckStart,
     AckReplicateToPeer, AckAppendEntries, AckReceiveAppend, AckProcess
  DEF Next

LEMMA AckInvSafe ==
  ASSUME TypeOK, AckInv
  PROVE  AckedTrue
<1> SUFFICES ASSUME NEW n \in Server, NEW p \in Server,
                    role[n] = "leader", currentTerm[n] = currentTerm[p]
             PROVE  /\ matchIndex[n][p] <= Len(log[n])
                    /\ IsPrefix(SubSeq(log[n], 1, matchIndex[n][p]), log[p])
  BY DEF AckedTrue
<1> DEFINE i == matchIndex[n][p]
<1>1. i \in Nat /\ log[n] \in Log /\ log[p] \in Log
  BY NodeTypes DEF TypeOK
<1>2. MatchedTrue(n, p, i)
  BY DEF AckInv, MatchesTrue
<1> HIDE DEF i
<1>3. Holds(n, p, i)
  BY <1>2 DEF MatchedTrue
<1>4. IsPrefix(SubSeq(log[n], 1, i), log[p])
  BY <1>1, <1>3, PrefixHeld DEF Holds
<1> QED
  BY <1>3, <1>4 DEF Holds, i

\* While a node leads the term that a follower is in, the follower holds every
\* entry the leader takes it to have acknowledged, whatever order batches and
\* replies arrived in: what advanceCommitIndex counts is true, in every
\* cluster whose nodes do not crash, whose snapshots get written and in which
\* no vote request outlives its election.
THEOREM AcknowledgementsTrue == ASSUME NoFaults PROVE Spec => []AckedTrue
<1>1. Init => AckInv
  BY AckInit
<1>2. /\ ElectionInv /\ LeaderInv /\ MatchInv
      /\ (ElectionInv /\ LeaderInv /\ MatchInv)'
      /\ AckInv /\ [Next]_vars
      => AckInv'
  BY AckStep
<1>3. ElectionInv /\ AckInv => AckedTrue
  BY AckInvSafe DEF ElectionInv
<1> QED
  BY <1>1, <1>2, <1>3, MatchAlways, PTL DEF Spec
=============================================================================
