---------------------------- MODULE CommitProofs ----------------------------
(***************************************************************************)
(* What is committed stays: every later leader holds it, and the nodes of  *)
(* a cluster commit one log that only grows, as long as no process         *)
(* crashes, snapshots get written and no vote request outlives its         *)
(* election.  So does the repair of a follower's log: each rejection of    *)
(* such a cluster moves the leader.                                        *)
(*                                                                         *)
(* The argument is that of consensus by ballots, with terms for ballots: a *)
(* position of a leader's term is either given up, because a majority has  *)
(* left the term without acknowledging it, or everything of a later term   *)
(* fits it.  Pieces of logs (MatchingProofs) are what has to fit.          *)
(***************************************************************************)
EXTENDS MatchingProofs

HasIn(l, k, v) == k \in 1..Len(l) /\ l[k].term = v

\* A piece that knows of a later entry than one of term v at position k.
Beyond(b, k, v) ==
  \E j \in Span(b) : TermAt(b, j) > v \/ (TermAt(b, j) = v /\ j >= k)

\* A piece that can be of a log with term v at position k.
Fits(b, k, v) ==
  \A i \in Span(b) : /\ i < k => TermAt(b, i) <= v
                     /\ i = k => TermAt(b, i) = v
                     /\ i > k => TermAt(b, i) >= v

\* Whoever knows of something later has, or will have, term v at position k.
Fitting(k, v) == \A b \in Pieces : Beyond(b, k, v) => Fits(b, k, v)

\* A term that piece a has at some position runs in piece b from there on, as
\* far as b has it at all: a term is begun once, in all logs.
OneRun(a, b) ==
  \A j \in Span(a), k \in Span(b) :
    j <= k /\ TermAt(a, j) = TermAt(b, k) =>
      \A i \in Span(b) : j <= i /\ i <= k => TermAt(b, i) = TermAt(b, k)

-----------------------------------------------------------------------------
(* Lemmas on pieces.                                                       *)

LEMMA TermType ==
  ASSUME NEW b, IsPiece(b), NEW k \in Span(b)
  PROVE  k \in Nat \ {0} /\ TermAt(b, k) \in Nat
<1>1. k \in Nat \ {0} /\ b.prevIdx <= k /\ k <= b.prevIdx + Len(b.entries)
  BY SpanType
<1>2. b.prevIdx \in Nat /\ b.prevTerm \in Nat /\ Len(b.entries) \in Nat /\ b.entries \in Seq(Entry)
  BY SpanType DEF IsPiece, Log
<1>3. CASE k # b.prevIdx
  <2>1. k - b.prevIdx \in 1..Len(b.entries)
    BY <1>1, <1>2, <1>3
  <2> QED
    BY <1>1, <1>2, <1>3, <2>1, EntryOfLog DEF TermAt
<1> QED
  BY <1>1, <1>2, <1>3 DEF TermAt

\* What comes out of the append loop, position by position.
FromBoth(f, l, m, kept) ==
  /\ f \in Log
  /\ \A i \in 1..kept : i \in 1..Len(f) /\ f[i] = l[i]
  /\ \A i \in Span(m) : i \in 1..Len(f) /\ f[i].term = TermAt(m, i)
  /\ \A i \in 1..Len(f) : i > kept => i \in Span(m)
  /\ kept < Len(l) => /\ kept + 1 \in Span(m)
                      /\ l[kept + 1].term # TermAt(m, kept + 1)

LEMMA SpliceTells ==
  ASSUME NEW l \in Log, NEW m, IsPiece(m), m.prevIdx <= Len(l),
         ~ Clashes(l, m.prevIdx, m.prevTerm)
  PROVE  \E kept \in m.prevIdx..Len(l) :
           FromBoth(Splice(l, m.prevIdx, m.entries), l, m, kept)
<1> DEFINE prev == m.prevIdx
           es   == m.entries
           f    == Splice(l, prev, es)
<1>1. /\ prev \in 0..Len(l) /\ es \in Log /\ Len(l) \in Nat /\ Len(es) \in Nat
      /\ prev \in Nat
  BY DEF IsPiece, Log
<1> PICK kept \in prev..Len(l) : JoinedAt(kept, f, l, prev, es)
  BY <1>1, SpliceShape
<1> HIDE DEF f
<1>2. /\ f \in Log /\ Len(f) \in {kept, prev + Len(es)}
      /\ Len(f) >= kept /\ Len(f) >= prev + Len(es)
      /\ \A k \in 1..kept : f[k] = l[k]
      /\ \A k \in (kept + 1)..Len(f) : f[k] = es[k - prev]
      /\ \A i \in 1..Len(es) : prev + i <= kept => l[prev + i].term = es[i].term
  BY DEF JoinedAt
<1>3. Len(f) \in Nat /\ kept \in Nat
  BY <1>1, <1>2 DEF Log
<1>4. \A i \in 1..kept : i \in 1..Len(f) /\ f[i] = l[i]
  BY <1>2, <1>3
<1>5. ASSUME NEW i \in Span(m) PROVE i \in 1..Len(f) /\ f[i].term = TermAt(m, i)
  <2>1. i \in Nat \ {0} /\ prev <= i /\ i <= prev + Len(es)
    BY SpanType
  <2>2. i \in 1..Len(f)
    BY <1>1, <1>2, <1>3, <2>1
  <2>3. CASE i = prev
    <3>1. i \in 1..kept /\ i \in 1..Len(l)
      BY <1>1, <1>3, <2>1, <2>3
    <3> QED
      BY <1>2, <2>2, <2>3, <3>1 DEF TermAt, Clashes
  <2>4. CASE i # prev /\ i <= kept
    <3>1. i \in 1..kept /\ i - prev \in 1..Len(es) /\ prev + (i - prev) = i
      BY <1>1, <1>3, <2>1, <2>4
    <3>2. l[i].term = es[i - prev].term
      BY <1>2, <2>4, <3>1
    <3> QED
      BY <1>2, <2>2, <2>4, <3>1, <3>2 DEF TermAt
  <2>5. CASE i > kept
    <3>1. i \in (kept + 1)..Len(f) /\ i # prev
      BY <1>1, <1>3, <2>2, <2>5
    <3> QED
      BY <1>2, <2>2, <3>1 DEF TermAt
  <2> QED
    BY <1>3, <2>1, <2>3, <2>4, <2>5
<1>6. ASSUME NEW i \in 1..Len(f), i > kept PROVE i \in Span(m)
  <2>1. i \in Nat \ {0} /\ prev <= i /\ i <= prev + Len(es)
    BY <1>1, <1>2, <1>3, <1>6
  <2> QED
    BY <2>1, SpanType
<1>7. ASSUME kept < Len(l)
      PROVE  kept + 1 \in Span(m) /\ l[kept + 1].term # TermAt(m, kept + 1)
  <2>1. PICK i \in 1..Len(es) : prev + i = kept + 1 /\ l[prev + i].term # es[i].term
    BY <1>7 DEF JoinedAt
  <2>2. /\ kept + 1 \in Nat \ {0} /\ prev <= kept + 1 /\ kept + 1 <= prev + Len(es)
        /\ kept + 1 # prev /\ (kept + 1) - prev = i
    BY <1>1, <1>3, <2>1
  <2>3. kept + 1 \in Span(m)
    BY <2>2, SpanType
  <2> QED
    BY <2>1, <2>2, <2>3 DEF TermAt
<1> QED
  BY <1>2, <1>4, <1>5, <1>6, <1>7 DEF FromBoth, f

LEMMA RunPart ==
  ASSUME NEW a, NEW b, NEW c, Part(c, a)
  PROVE  OneRun(a, b) => OneRun(c, b)
<1>1. \A k \in Span(c) : k \in Span(a) /\ TermAt(c, k) = TermAt(a, k)
  BY DEF Part, Same
<1> QED
  BY <1>1 DEF OneRun

LEMMA RunInPart ==
  ASSUME NEW a, NEW b, NEW c, Part(c, a)
  PROVE  OneRun(b, a) => OneRun(b, c)
<1>1. \A k \in Span(c) : k \in Span(a) /\ TermAt(c, k) = TermAt(a, k)
  BY DEF Part, Same
<1> QED
  BY <1>1 DEF OneRun

\* The splice of two pieces begins terms only where one of them does.
LEMMA RunSplice ==
  ASSUME NEW l \in Log, NEW m, IsPiece(m), m.prevIdx <= Len(l),
         ~ Clashes(l, m.prevIdx, m.prevTerm),
         NEW a, IsPiece(a), OneRun(a, LogPiece(l)), OneRun(a, m)
  PROVE  OneRun(a, LogPiece(Splice(l, m.prevIdx, m.entries)))
<1> DEFINE f == Splice(l, m.prevIdx, m.entries)
<1> PICK kept \in m.prevIdx..Len(l) : FromBoth(f, l, m, kept)
  BY SpliceTells
<1>1. /\ f \in Log
      /\ \A i \in 1..kept : i \in 1..Len(f) /\ f[i] = l[i]
      /\ \A i \in Span(m) : i \in 1..Len(f) /\ f[i].term = TermAt(m, i)
      /\ \A i \in 1..Len(f) : i > kept => i \in Span(m)
  BY DEF FromBoth
<1> HIDE DEF f
<1>2. /\ kept \in Nat /\ m.prevIdx \in Nat /\ m.prevIdx <= kept /\ kept <= Len(l)
      /\ Len(l) \in Nat /\ Len(f) \in Nat /\ Len(m.entries) \in Nat
  BY <1>1, SpanType DEF IsPiece, Log
<1> SUFFICES ASSUME NEW j \in Span(a), NEW k \in 1..Len(f), j <= k, TermAt(a, j) = f[k].term,
                    NEW i \in 1..Len(f), j <= i, i <= k
             PROVE  f[i].term = f[k].term
  <2>1. \A i \in Span(LogPiece(f)) : i \in 1..Len(f) /\ TermAt(LogPiece(f), i) = f[i].term
    BY <1>1, WholeLog
  <2> QED
    BY <2>1 DEF OneRun, f
<1>3. j \in Nat \ {0}
  BY SpanType
\* In the old log.
<1>4. ASSUME NEW h \in 1..kept, TermAt(a, j) = l[h].term, NEW g \in 1..kept, j <= g, g <= h
      PROVE  f[g].term = f[h].term
  <2>1. g \in 1..Len(l) /\ h \in 1..Len(l) /\ j <= h
    BY <1>2, <1>3, <1>4
  <2>2. l[g].term = l[h].term
    BY <1>4, <2>1, WholeLog DEF OneRun
  <2> QED
    BY <1>1, <1>4, <2>2
<1>5. CASE k <= kept
  <2>1. k \in 1..kept /\ i \in 1..kept /\ f[k] = l[k]
    BY <1>1, <1>2, <1>5
  <2> QED
    BY <1>4, <2>1
<1>6. CASE k > kept
  <2>1. k \in Span(m) /\ TermAt(m, k) = f[k].term
    BY <1>1, <1>6
  <2>2. \A g \in Span(m) : j <= g /\ g <= k => TermAt(m, g) = f[k].term
    BY <2>1 DEF OneRun
  <2>3. k <= m.prevIdx + Len(m.entries)
    BY <2>1, SpanType
  <2>4. CASE i >= m.prevIdx
    <3>1. i \in Nat \ {0} /\ m.prevIdx <= i /\ i <= m.prevIdx + Len(m.entries)
      BY <1>2, <2>3, <2>4
    <3>2. i \in Span(m)
      BY <3>1, SpanType
    <3> QED
      BY <1>1, <2>2, <3>2
  <2>5. CASE i < m.prevIdx
    <3> DEFINE p == m.prevIdx
    <3>1. /\ p \in Nat \ {0} /\ p <= p /\ p <= p + Len(m.entries) /\ j <= p /\ p <= k
          /\ p \in 1..kept /\ i \in 1..kept /\ i <= p
      BY <1>2, <1>3, <1>6, <2>5
    <3> HIDE DEF p
    <3>2. p \in Span(m)
      BY <3>1, SpanType DEF p
    <3>3. f[p].term = f[k].term /\ f[p] = l[p]
      BY <1>1, <2>2, <3>1, <3>2
    <3> QED
      BY <1>4, <3>1, <3>3
  <2> QED
    BY <1>2, <2>4, <2>5
<1> QED
  BY <1>2, <1>5, <1>6

LEMMA FitsPart ==
  ASSUME NEW a, NEW c, Part(c, a), NEW k, NEW v, Beyond(a, k, v) => Fits(a, k, v)
  PROVE  Beyond(c, k, v) => Fits(c, k, v)
<1>1. \A i \in Span(c) : i \in Span(a) /\ TermAt(c, i) = TermAt(a, i)
  BY DEF Part, Same
<1>2. Beyond(c, k, v) => Beyond(a, k, v)
  BY <1>1 DEF Beyond
<1> QED
  BY <1>1, <1>2 DEF Fits

\* For whole logs, to fit and to have the entry are the same.
LEMMA HasBeyond ==
  ASSUME NEW l \in Log, NEW k \in Nat \ {0}, NEW v \in Nat, HasIn(l, k, v)
  PROVE  Beyond(LogPiece(l), k, v)
BY WholeLog DEF HasIn, Beyond

LEMMA BeyondHas ==
  ASSUME NEW l \in Log, NEW k \in Nat \ {0}, NEW v \in Nat,
         Beyond(LogPiece(l), k, v), Fits(LogPiece(l), k, v)
  PROVE  HasIn(l, k, v)
<1> DEFINE b == LogPiece(l)
<1>1. /\ IsPiece(b) /\ Len(l) \in Nat
      /\ \A i : i \in Span(b) <=> i \in 1..Len(l)
      /\ \A i \in 1..Len(l) : TermAt(b, i) = l[i].term
  BY WholeLog
<1> HIDE DEF b
<1>2. PICK j \in Span(b) : TermAt(b, j) > v \/ (TermAt(b, j) = v /\ j >= k)
  BY DEF Beyond, b
<1>3. TermAt(b, j) \in Nat /\ j \in 1..Len(l) /\ (j < k => TermAt(b, j) <= v)
  BY <1>1, TermType DEF Fits, b
<1>4. k <= j
  BY <1>2, <1>3
<1>5. k \in 1..Len(l)
  BY <1>1, <1>3, <1>4
<1> QED
  BY <1>1, <1>5 DEF Fits, HasIn, b

LEMMA HasFits ==
  ASSUME NEW l \in Log, NEW t \in Nat, OrderedUpTo(l, t),
         NEW k \in Nat \ {0}, NEW v \in Nat, HasIn(l, k, v)
  PROVE  Fits(LogPiece(l), k, v)
<1> SUFFICES ASSUME NEW i \in 1..Len(l)
             PROVE  /\ i < k => l[i].term <= v
                    /\ i = k => l[i].term = v
                    /\ i > k => l[i].term >= v
  BY WholeLog DEF Fits
<1>1. k \in 1..Len(l) /\ l[k].term = v
  BY DEF HasIn
<1>2. i \in Nat
  OBVIOUS
<1>3. i < k => l[i].term <= l[k].term
  BY <1>1, <1>2 DEF OrderedUpTo
<1>4. i > k => l[k].term <= l[i].term
  BY <1>1, <1>2 DEF OrderedUpTo
<1>5. l[i].term \in Nat
  BY EntryOfLog DEF Log
<1> QED
  BY <1>1, <1>3, <1>4, <1>5

\* The splice of two pieces that fit has the entry if it knows of a later one.
LEMMA FitsSplice ==
  ASSUME NEW l \in Log, NEW m, IsPiece(m), m.prevIdx <= Len(l),
         ~ Clashes(l, m.prevIdx, m.prevTerm), NEW k \in Nat \ {0}, NEW v \in Nat,
         Beyond(LogPiece(l), k, v) => Fits(LogPiece(l), k, v),
         Beyond(m, k, v) => Fits(m, k, v),
         Beyond(LogPiece(Splice(l, m.prevIdx, m.entries)), k, v)
  PROVE  HasIn(Splice(l, m.prevIdx, m.entries), k, v)
<1> DEFINE f == Splice(l, m.prevIdx, m.entries)
<1> PICK kept \in m.prevIdx..Len(l) : FromBoth(f, l, m, kept)
  BY SpliceTells
<1>1. /\ f \in Log
      /\ \A i \in 1..kept : i \in 1..Len(f) /\ f[i] = l[i]
      /\ \A i \in Span(m) : i \in 1..Len(f) /\ f[i].term = TermAt(m, i)
      /\ \A i \in 1..Len(f) : i > kept => i \in Span(m)
  BY DEF FromBoth
<1>2. Beyond(LogPiece(f), k, v)
  OBVIOUS
<1> SUFFICES HasIn(f, k, v)
  OBVIOUS
<1> HIDE DEF f
<1>3. /\ kept \in Nat /\ m.prevIdx \in Nat /\ m.prevIdx <= kept /\ kept <= Len(l)
      /\ Len(l) \in Nat /\ Len(f) \in Nat /\ Len(m.entries) \in Nat
  BY <1>1, SpanType DEF IsPiece, Log
<1>4. PICK j \in 1..Len(f) : f[j].term > v \/ (f[j].term = v /\ j >= k)
  BY <1>1, <1>2, WholeLog DEF Beyond
\* What the old log has up to kept stays.
<1>5. k <= kept /\ HasIn(l, k, v) => HasIn(f, k, v)
  <2> SUFFICES ASSUME k <= kept, HasIn(l, k, v) PROVE HasIn(f, k, v)
    OBVIOUS
  <2>1. k \in 1..kept
    BY <1>3
  <2> QED
    BY <1>1, <2>1 DEF HasIn
<1>6. \A i \in 1..Len(l) : /\ i \in Span(LogPiece(l))
                           /\ TermAt(LogPiece(l), i) = l[i].term
                           /\ l[i].term \in Nat
  BY WholeLog, TermType
<1>7. \A i \in Span(m) : i \in Nat \ {0} /\ TermAt(m, i) \in Nat
  BY TermType
<1>8. CASE j <= kept
  <2>1. j \in 1..kept /\ j \in 1..Len(l) /\ f[j] = l[j]
    BY <1>1, <1>3, <1>8
  <2>2. Beyond(LogPiece(l), k, v)
    BY <1>4, <1>6, <2>1 DEF Beyond
  <2>3. j < k => l[j].term <= v
    BY <1>6, <2>1, <2>2 DEF Fits
  <2>4. k <= j
    BY <1>3, <1>4, <1>6, <2>1, <2>3
  <2> QED
    BY <1>3, <1>5, <1>8, <2>2, <2>4, BeyondHas
<1>9. CASE j > kept
  <2>1. j \in Span(m) /\ TermAt(m, j) = f[j].term
    BY <1>1, <1>9
  <2>2. Beyond(m, k, v)
    BY <1>4, <2>1 DEF Beyond
  <2>3. \A i \in Span(m) : /\ i < k => TermAt(m, i) <= v
                           /\ i = k => TermAt(m, i) = v
                           /\ i > k => TermAt(m, i) >= v
    BY <2>2 DEF Fits
  <2>4. k <= j /\ j <= m.prevIdx + Len(m.entries)
    BY <1>4, <1>7, <2>1, <2>3, SpanType
  <2>5. CASE k >= m.prevIdx
    <3>1. k \in Span(m)
      BY <1>3, <2>4, <2>5, SpanType
    <3> QED
      BY <1>1, <2>3, <3>1 DEF HasIn
  <2>6. CASE k < m.prevIdx
    <3> DEFINE p == m.prevIdx
    <3>1. /\ p \in Nat \ {0} /\ p <= p /\ p <= p + Len(m.entries) /\ p > k
          /\ p \in 1..kept /\ p \in 1..Len(l) /\ k <= kept /\ p >= k
      BY <1>3, <2>6
    <3> HIDE DEF p
    <3>2. p \in Span(m)
      BY <3>1, SpanType DEF p
    <3>3. TermAt(m, p) >= v /\ f[p].term = TermAt(m, p) /\ f[p] = l[p]
      BY <1>1, <2>3, <3>1, <3>2
    <3>4. l[p].term > v \/ (l[p].term = v /\ p >= k)
      BY <1>6, <3>1, <3>3
    <3>5. Beyond(LogPiece(l), k, v)
      BY <1>6, <3>1, <3>4 DEF Beyond
    <3> QED
      BY <1>5, <3>1, <3>5, BeyondHas
  <2> QED
    BY <1>3, <2>5, <2>6
<1> QED
  BY <1>3, <1>8, <1>9

\* Piece m ends with an entry of term t, or with nothing after one.
EndsWith(m, t) ==
  LET last == m.prevIdx + Len(m.entries)
  IN  last \in Span(m) /\ TermAt(m, last) = t

\* The append loop cuts no entry off that what it is given fits.
LEMMA HasSplice ==
  ASSUME NEW l \in Log, NEW m, IsPiece(m), m.prevIdx <= Len(l),
         ~ Clashes(l, m.prevIdx, m.prevTerm), NEW k \in Nat \ {0}, NEW v \in Nat,
         HasIn(l, k, v), NEW t \in Nat, t >= v, EndsWith(m, t),
         Beyond(m, k, v) => Fits(m, k, v), Agree(m, LogPiece(l)), OneRun(m, LogPiece(l))
  PROVE  HasIn(Splice(l, m.prevIdx, m.entries), k, v)
<1> DEFINE f    == Splice(l, m.prevIdx, m.entries)
           last == m.prevIdx + Len(m.entries)
<1> PICK kept \in m.prevIdx..Len(l) : FromBoth(f, l, m, kept)
  BY SpliceTells
<1>1. /\ f \in Log
      /\ \A i \in 1..kept : i \in 1..Len(f) /\ f[i] = l[i]
      /\ kept < Len(l) => /\ kept + 1 \in Span(m)
                          /\ l[kept + 1].term # TermAt(m, kept + 1)
  BY DEF FromBoth
<1> SUFFICES HasIn(f, k, v)
  OBVIOUS
<1> HIDE DEF f
<1>2. /\ kept \in Nat /\ m.prevIdx \in Nat /\ m.prevIdx <= kept /\ kept <= Len(l)
      /\ Len(l) \in Nat /\ Len(m.entries) \in Nat /\ last \in Nat
  BY SpanType DEF IsPiece, Log
<1>3. k \in 1..Len(l) /\ l[k].term = v
  BY DEF HasIn
<1>4. CASE k <= kept
  <2>1. k \in 1..kept
    BY <1>2, <1>4
  <2> QED
    BY <1>1, <1>3, <2>1 DEF HasIn
<1>5. CASE k > kept
  <2> DEFINE c == kept + 1
  <2>1. kept < Len(l) /\ c \in 1..Len(l) /\ c <= k
    BY <1>2, <1>3, <1>5
  <2>2. c \in Span(m) /\ l[c].term # TermAt(m, c)
    BY <1>1, <2>1
  <2>3. c <= last
    BY <2>2, SpanType
  <2> HIDE DEF c
  <2>4. \A i \in 1..Len(l) : i \in Span(LogPiece(l)) /\ TermAt(LogPiece(l), i) = l[i].term
    BY WholeLog
  \* Where the call and the log have one term, at or behind c, they agree on c.
  <2>5. \A i \in Span(m) : ~ (c <= i /\ i \in 1..Len(l) /\ TermAt(m, i) = l[i].term)
    <3> SUFFICES ASSUME NEW i \in Span(m), c <= i, i \in 1..Len(l), TermAt(m, i) = l[i].term
                 PROVE  FALSE
      OBVIOUS
    <3>1. Same(m, LogPiece(l), c)
      BY <2>1, <2>2, <2>4 DEF Agree
    <3> QED
      BY <2>1, <2>2, <2>4, <3>1 DEF Same
  <2>6. last \in Span(m) /\ TermAt(m, last) = t
    BY DEF EndsWith
  <2> HIDE DEF last
  <2>7. CASE k <= last
    <3>1. Beyond(m, k, v)
      BY <2>6, <2>7 DEF Beyond
    <3>2. k \in Span(m)
      <4>1. m.prevIdx <= k
        BY <1>2, <1>5, <1>3
      <4> QED
        BY <1>2, <2>7, <4>1, SpanType DEF last
    <3> QED
      BY <1>3, <2>1, <2>5, <3>1, <3>2 DEF Fits
  <2>8. CASE k > last /\ t > v
    <3>1. Beyond(m, k, v)
      BY <2>6, <2>8 DEF Beyond
    <3> QED
      BY <1>2, <2>6, <2>8, <3>1 DEF Fits
  <2>9. CASE k > last /\ t = v
    <3>1. last \in 1..Len(l) /\ last <= k
      <4>1. last \in Nat \ {0}
        BY <2>6, SpanType
      <4> QED
        BY <1>2, <1>3, <2>9, <4>1
    <3>2. l[last].term = v
      BY <1>3, <2>4, <2>6, <2>9, <3>1 DEF OneRun
    <3> QED
      BY <2>3, <2>5, <2>6, <2>9, <3>1, <3>2
  <2> QED
    BY <1>2, <2>7, <2>8, <2>9
<1> QED
  BY <1>2, <1>4, <1>5

\* Two logs that have one entry are the same up to it.
LEMMA SameUpTo ==
  ASSUME NEW l \in Log, NEW f \in Log, Agree(LogPiece(l), LogPiece(f)),
         NEW k \in Nat \ {0}, NEW v \in Nat, HasIn(l, k, v), HasIn(f, k, v)
  PROVE  k <= Len(l) /\ k <= Len(f) /\ \A j \in 1..k : l[j] = f[j]
<1>1. /\ k \in 1..Len(l) /\ k \in 1..Len(f) /\ Len(l) \in Nat /\ Len(f) \in Nat
      /\ l[k].term = f[k].term
  BY DEF HasIn, Log
<1> SUFFICES ASSUME NEW j \in 1..k PROVE l[j] = f[j]
  BY <1>1
<1>2. j \in 1..Len(l) /\ j \in 1..Len(f) /\ j <= k /\ 0 < j
  BY <1>1
<1>3. Same(LogPiece(l), LogPiece(f), j)
  BY <1>1, <1>2, WholeLog DEF Agree
<1> QED
  BY <1>2, <1>3, WholeLog DEF Same

-----------------------------------------------------------------------------
(* What a step may do to logs, calls and elections.                        *)

\* Nothing to logs and elections, and no call.
Quiet ==
  /\ UNCHANGED <<log, leaders>> /\ appReqs' \subseteq appReqs
  /\ \A q \in Server : Calm(q)

\* Leader n sends m.
Sends(n, m) ==
  /\ UNCHANGED <<currentTerm, role, log, leaders>> /\ appReqs' = appReqs \cup {m}
  /\ role[n] = "leader" /\ m.src = n /\ m.term = currentTerm[n]
  /\ m \in AppReq /\ IsPiece(m) /\ Part(m, LogPiece(log[n]))
  /\ m.prevIdx + Len(m.entries) = Len(log[n]) /\ m.leaderCommit = commitIndex[n]

\* Node n wins the election of a term not won before.
Wins(n) ==
  /\ <<currentTerm'[n], n>> \notin leaders
  /\ leaders' = leaders \cup {<<currentTerm'[n], n>>}

\* Leader n, new or not, appends entry x of its term.
Appends(n, x) ==
  /\ log' = [log EXCEPT ![n] = Append(log[n], x)] /\ UNCHANGED appReqs
  /\ x \in Entry /\ x.term = currentTerm'[n]
  /\ currentTerm'[n] >= currentTerm[n] /\ role'[n] = "leader"
  /\ \A q \in Server \ {n} : currentTerm'[q] = currentTerm[q] /\ role'[q] = role[q]
  /\ \/ role[n] = "leader" /\ currentTerm'[n] = currentTerm[n] /\ UNCHANGED leaders
     \/ Wins(n)

\* Node m.dst takes what call m says into its log.
Splices(m) ==
  /\ m \in appReqs /\ appReqs' \subseteq appReqs /\ UNCHANGED leaders
  /\ m.term >= currentTerm[m.dst]
  /\ currentTerm' = [currentTerm EXCEPT ![m.dst] = m.term]
  /\ role' = [role EXCEPT ![m.dst] = "follower"]
  /\ m.prevIdx <= Len(log[m.dst]) /\ ~ Clashes(log[m.dst], m.prevIdx, m.prevTerm)
  /\ log' = [log EXCEPT ![m.dst] = Splice(@, m.prevIdx, m.entries)]

Kinds ==
  \/ Quiet
  \/ \E n \in Server, m \in AppReq : Sends(n, m)
  \/ \E n \in Server, x \in Entry : Appends(n, x)
  \/ \E m \in appReqs : Splices(m)

LEMMA KindBecomeLeader ==
  ASSUME TypeOK, NEW n \in Server, NEW t \in Nat, BecomeLeader(n, t), UNCHANGED appReqs,
         currentTerm' = [currentTerm EXCEPT ![n] = t], t >= currentTerm[n],
         <<t, n>> \notin leaders
  PROVE  Kinds
<1> DEFINE x == [term |-> t, cmd |-> NoOp]
<1>1. /\ x \in Entry /\ x.term = t
      /\ log' = [log EXCEPT ![n] = Append(log[n], x)]
      /\ role' = [role EXCEPT ![n] = "leader"]
      /\ leaders' = leaders \cup {<<t, n>>}
  BY DEF BecomeLeader, Entry
<1> HIDE DEF x
<1>2. currentTerm'[n] = t /\ role'[n] = "leader"
      /\ \A q \in Server \ {n} : currentTerm'[q] = currentTerm[q] /\ role'[q] = role[q]
  BY <1>1, NodeTypes
<1>3. Appends(n, x)
  BY <1>1, <1>2 DEF Appends, Wins
<1> QED
  BY <1>1, <1>3 DEF Kinds

LEMMA KindElection ==
  ASSUME TypeOK, LeadersRecorded,
         \/ \E n \in Server : ElectionTimeout(n)
         \/ \E m \in voteReqs : RequestVote(m)
         \/ \E m \in voteReps : ReceiveVote(m)
  PROVE  Kinds
<1>1. ASSUME NEW n \in Server, ElectionTimeout(n) PROVE Kinds
  <2> DEFINE t == currentTerm[n] + 1
  <2>1. /\ currentTerm[n] \in Nat /\ t \in Nat /\ t > currentTerm[n] /\ t >= currentTerm[n]
        /\ \A p \in Server : currentTerm[p] \in Nat
    BY NodeTypes
  <2>2. currentTerm' = [currentTerm EXCEPT ![n] = t] /\ UNCHANGED appReqs
    BY <1>1 DEF ElectionTimeout, appRPCs
  <2>3. CASE BecomeLeader(n, t)
    <3>1. <<t, n>> \notin leaders
      <4>1. <<t, n>> \in leaders => t <= currentTerm[n]
        BY DEF LeadersRecorded
      <4> QED
        BY <2>1, <4>1
    <3> HIDE DEF t
    <3> QED
      BY <2>1, <2>2, <2>3, <3>1, KindBecomeLeader
  <2>4. CASE /\ role' = [role EXCEPT ![n] = "candidate"]
             /\ UNCHANGED <<logVars, leaderVars, leaders>>
    <3>1. \A p \in Server : IF p = n THEN role'[p] = "candidate" /\ currentTerm'[p] = t
                            ELSE role'[p] = role[p] /\ currentTerm'[p] = currentTerm[p]
      BY <2>2, <2>4, NodeTypes
    <3>2. \A p \in Server : Calm(p)
      BY <2>1, <2>4, <3>1 DEF Calm, logVars
    <3> QED
      BY <2>2, <2>4, <3>2 DEF Kinds, Quiet, logVars
  <2> QED
    BY <1>1, <2>3, <2>4 DEF ElectionTimeout
<1>2. ASSUME NEW m \in voteReqs, RequestVote(m) PROVE Kinds
  <2>1. \A p \in Server : Calm(p)
    BY <1>2, CalmRequestVote
  <2> QED
    BY <1>2, <2>1 DEF RequestVote, logVars, appRPCs, Kinds, Quiet
<1>3. ASSUME NEW m \in voteReps, ReceiveVote(m) PROVE Kinds
  <2> DEFINE n == m.dst
  <2>1. n \in Server /\ m.term \in Nat /\ currentTerm[n] \in Nat
    BY NodeTypes DEF TypeOK, VoteRep
  <2>2. UNCHANGED appReqs
    BY <1>3 DEF ReceiveVote, appRPCs
  <2>3. CASE m.term > currentTerm[n] /\ StepDown(n, m.term, Nil) /\ UNCHANGED <<log, leaders>>
    <3>1. \A q \in Server : Calm(q)
      BY <2>1, <2>3, CalmStepDown
    <3> QED
      BY <2>2, <2>3, <3>1 DEF Kinds, Quiet
  <2>4. CASE UNCHANGED <<currentTerm, role, log, leaders>>
    BY <2>2, <2>4, CalmUnchanged DEF Kinds, Quiet
  <2>5. CASE /\ role[n] = "candidate" /\ UNCHANGED currentTerm
             /\ BecomeLeader(n, currentTerm[n])
    <3>1. <<currentTerm[n], n>> \notin leaders
      BY <2>1, <2>5 DEF LeadersRecorded
    <3>2. /\ currentTerm[n] >= currentTerm[n]
          /\ currentTerm' = [currentTerm EXCEPT ![n] = currentTerm[n]]
      BY <2>1, <2>5, NodeTypes
    <3> QED
      BY <2>1, <2>2, <2>5, <3>1, <3>2, KindBecomeLeader
  <2> QED
    BY <1>3, <2>3, <2>4, <2>5 DEF ReceiveVote, logVars, electionVars
<1> QED
  BY <1>1, <1>2, <1>3

LEMMA KindReplication ==
  ASSUME LeaderInv, LeaderInv', LeadersRecorded,
         \/ \E n \in Server, cmd \in Cmd : Start(n, cmd)
         \/ \E n, p \in Server : ReplicateToPeer(n, p)
         \/ \E m \in appReqs : AppendEntries(m)
         \/ \E m \in appReps : ReceiveAppend(m)
         \/ \E m \in appReqs \cup appReps : CallFails(m)
  PROVE  Kinds
<1>0. TypeOK
  BY DEF LeaderInv, OrderInv
<1>1. ASSUME NEW n \in Server, NEW cmd \in Cmd, Start(n, cmd) PROVE Kinds
  <2> DEFINE x == [term |-> currentTerm[n], cmd |-> cmd]
  <2>1. currentTerm[n] \in Nat /\ x \in Entry /\ x.term = currentTerm[n]
    BY <1>0, NodeTypes DEF Entry
  <2>2. /\ log' = [log EXCEPT ![n] = Append(log[n], x)] /\ role[n] = "leader"
        /\ UNCHANGED <<currentTerm, role, leaders, appReqs>>
    BY <1>1 DEF Start, electionVars, appRPCs, history
  <2> HIDE DEF x
  <2>3. Appends(n, x)
    BY <2>1, <2>2 DEF Appends
  <2> QED
    BY <2>1, <2>3 DEF Kinds
<1>2. ASSUME NEW n \in Server, NEW p \in Server, ReplicateToPeer(n, p) PROVE Kinds
  <2>1. PICK m \in AppReq : /\ appReqs' = appReqs \cup {m}
                            /\ m.src = n /\ m.term = currentTerm[n]
                            /\ m.leaderCommit = commitIndex[n]
                            /\ IsPiece(m) /\ Part(m, LogPiece(log[n]))
                            /\ m.prevIdx + Len(m.entries) = Len(log[n])
    BY <1>2, CallIsPart
  <2>2. UNCHANGED <<currentTerm, role, log, leaders>> /\ role[n] = "leader"
    BY <1>2 DEF ReplicateToPeer, electionVars, logVars, history
  <2>3. Sends(n, m)
    BY <2>1, <2>2 DEF Sends
  <2> QED
    BY <2>3 DEF Kinds
<1>3. ASSUME NEW m \in appReqs, AppendEntries(m) PROVE Kinds
  <2> DEFINE n == m.dst
             prev == m.prevIdx
  <2>1. /\ n \in Server /\ m.src \in Server /\ m.term \in Nat /\ currentTerm[n] \in Nat
        /\ prev \in Nat /\ Len(log[n]) \in Nat
    BY <1>0, NodeTypes DEF TypeOK, AppReq
  <2>2. appReqs' \subseteq appReqs /\ UNCHANGED leaders
    BY <1>3 DEF AppendEntries, AppendReply
  <2>3. CASE UNCHANGED <<electionVars, logVars>>
    BY <1>0, <2>2, <2>3, CalmUnchanged DEF Kinds, Quiet, electionVars, logVars
  <2>4. CASE m.term >= currentTerm[n] /\ StepDown(n, m.term, m.src) /\ UNCHANGED logVars
    <3>1. \A q \in Server : Calm(q)
      BY <1>0, <2>1, <2>4, CalmStepDown DEF logVars
    <3> QED
      BY <2>2, <2>4, <3>1 DEF Kinds, Quiet, logVars
  <2>5. CASE /\ m.term >= currentTerm[n] /\ StepDown(n, m.term, m.src)
             /\ ~ (prev > Len(log[n])) /\ ~ Clashes(log[n], prev, m.prevTerm)
             /\ log' = [log EXCEPT ![n] = Splice(log[n], prev, m.entries)]
    <3>1. prev <= Len(log[n])
      BY <2>1, <2>5
    <3>2. Splices(m)
      BY <2>2, <2>5, <3>1 DEF Splices, StepDown
    <3> QED
      BY <3>2 DEF Kinds
  <2> QED
    BY <1>3, <2>3, <2>4, <2>5 DEF AppendEntries
<1>4. ASSUME NEW m \in appReps, ReceiveAppend(m) PROVE Kinds
  <2> DEFINE n == m.dst
  <2>1. n \in Server /\ m.term \in Nat /\ currentTerm[n] \in Nat
    BY <1>0, NodeTypes DEF TypeOK, AppRep
  <2>2. UNCHANGED <<log, leaders, appReqs>>
    BY <1>4 DEF ReceiveAppend, logVars, history
  <2>3. CASE m.term > currentTerm[n] /\ StepDown(n, m.term, Nil)
    <3>1. \A q \in Server : Calm(q)
      BY <1>0, <2>1, <2>2, <2>3, CalmStepDown
    <3> QED
      BY <2>2, <3>1 DEF Kinds, Quiet
  <2>4. CASE UNCHANGED <<currentTerm, role>>
    BY <1>0, <2>2, <2>4, CalmUnchanged DEF Kinds, Quiet
  <2> QED
    BY <1>4, <2>3, <2>4 DEF ReceiveAppend
<1>5. ASSUME NEW m \in appReqs \cup appReps, CallFails(m) PROVE Kinds
  <2>1. UNCHANGED <<currentTerm, role, log, leaders>> /\ appReqs' \subseteq appReqs
    BY <1>5 DEF CallFails, electionVars, logVars, history
  <2> QED
    BY <1>0, <2>1, CalmUnchanged DEF Kinds, Quiet
<1> QED
  BY <1>1, <1>2, <1>3, <1>4, <1>5

LEMMA StepKinds ==
  ASSUME NoFaults, ElectionInv, LeaderInv, LeaderInv', LeadersRecorded, [Next]_vars
  PROVE  Kinds
<1>1. TypeOK
  BY DEF ElectionInv
<1>2. CASE UNCHANGED vars
  BY <1>1, <1>2, CalmUnchanged
  DEF Kinds, Quiet, vars, electionVars, logVars, appRPCs, history
<1>3. ASSUME NEW n \in Server, Shutdown(n) \/ Crash(n) \/ Make(n) PROVE Kinds
  <2>1. UNCHANGED log /\ \A p \in Server : Calm(p)
    BY <1>3, RestartCalm
  <2>2. UNCHANGED <<leaders, appReqs>>
    BY <1>3 DEF Shutdown, Crash, Make, appRPCs, history
  <2> QED
    BY <2>1, <2>2 DEF Kinds, Quiet
<1> QED
  BY <1>1, <1>2, <1>3, KindElection, KindReplication DEF Next

-----------------------------------------------------------------------------
(* A term begins at one position, in all pieces.                           *)

\* A leader's log ends with an entry of its term, and so does, or with the
\* position before it, whatever it sends.
LeadersOwn == \A n \in Server : role[n] = "leader" => EndsWith(LogPiece(log[n]), currentTerm[n])
CallsCurrent == \A m \in appReqs : EndsWith(m, m.term)

PiecesOneRun == \A a, b \in Pieces : OneRun(a, b)

RunInv == LeadersOwn /\ CallsCurrent /\ PiecesOneRun

LEMMA EndsWithLog ==
  ASSUME NEW l \in Log, NEW t
  PROVE  EndsWith(LogPiece(l), t) <=> Len(l) > 0 /\ l[Len(l)].term = t
<1>1. /\ Len(l) \in Nat /\ LogPiece(l).prevIdx = 0 /\ LogPiece(l).entries = l
      /\ \A k : k \in Span(LogPiece(l)) <=> k \in 1..Len(l)
      /\ \A k \in 1..Len(l) : TermAt(LogPiece(l), k) = l[k].term
  BY WholeLog DEF LogPiece
<1>2. LogPiece(l).prevIdx + Len(LogPiece(l).entries) = Len(l)
  BY <1>1
<1>3. Len(l) > 0 <=> Len(l) \in 1..Len(l)
  BY <1>1
<1> QED
  BY <1>1, <1>2, <1>3 DEF EndsWith

LEMMA RunInit == Init => RunInv
<1> SUFFICES ASSUME Init PROVE RunInv
  OBVIOUS
<1>1. /\ appReqs = {}
      /\ \A n \in Server : role[n] = "follower" /\ log[n] = <<>>
  BY DEF Init
<1>2. Pieces \subseteq {LogPiece(<<>>)}
  BY <1>1 DEF Pieces
<1>3. Span(LogPiece(<<>>)) = {}
  BY DEF Span, LogPiece
<1>4. PiecesOneRun
  BY <1>2, <1>3 DEF PiecesOneRun, OneRun
<1> QED
  BY <1>1, <1>4 DEF RunInv, LeadersOwn, CallsCurrent

\* A leader has its term wherever any piece has it.
LEMMA PiecesKnown ==
  ASSUME TypeOK, MatchInv, RunInv, NEW n \in Server, role[n] = "leader",
         NEW b \in Pieces, NEW k \in Span(b), TermAt(b, k) = currentTerm[n]
  PROVE  k \in 1..Len(log[n]) /\ log[n][k].term = currentTerm[n]
<1> DEFINE l == log[n]
<1>1. l \in Log /\ Len(l) \in Nat /\ IsPiece(b) /\ LogPiece(l) \in Pieces
  BY NodeTypes, PieceTypes DEF Pieces
<1>2. k \in Nat \ {0} /\ k <= Len(l)
  BY <1>1, SpanType DEF MatchInv, PiecesBehind
<1>3. OneRun(b, LogPiece(l)) /\ EndsWith(LogPiece(l), currentTerm[n])
  BY <1>1 DEF RunInv, PiecesOneRun, LeadersOwn
<1> HIDE DEF l
<1>4. Len(l) > 0 /\ l[Len(l)].term = currentTerm[n]
  BY <1>1, <1>3, EndsWithLog
<1>5. k \in 1..Len(l) /\ Len(l) \in 1..Len(l)
  BY <1>1, <1>2, <1>4
<1>6. k \in Span(LogPiece(l)) /\ Len(l) \in Span(LogPiece(l))
      /\ TermAt(LogPiece(l), Len(l)) = currentTerm[n] /\ TermAt(LogPiece(l), k) = l[k].term
  BY <1>1, <1>4, <1>5, WholeLog
<1>7. TermAt(LogPiece(l), k) = currentTerm[n]
  BY <1>2, <1>3, <1>6 DEF OneRun
<1> QED
  BY <1>5, <1>6, <1>7 DEF l

\* A new piece that only copies others.
LEMMA RunWithNew ==
  ASSUME PiecesOneRun, NEW f, Pieces' \subseteq Pieces \cup {f},
         \A b \in Pieces : OneRun(b, f),
         \A k \in Span(f) : \E b \in Pieces : k \in Span(b) /\ TermAt(f, k) = TermAt(b, k)
  PROVE  PiecesOneRun'
<1>1. ASSUME NEW b, \A a \in Pieces : OneRun(a, b) PROVE OneRun(f, b)
  BY <1>1 DEF OneRun
<1>2. \A b \in Pieces : OneRun(f, b)
  BY <1>1 DEF PiecesOneRun
<1>3. OneRun(f, f)
  BY <1>1
<1>4. \A a, b \in Pieces \cup {f} : OneRun(a, b)
  BY <1>2, <1>3 DEF PiecesOneRun
<1> QED
  BY <1>4 DEF PiecesOneRun

\* A new entry, of a term that pieces have only where the log ends with it.
LEMMA RunGrown ==
  ASSUME NEW l \in Log, NEW x \in Entry, NEW b, IsPiece(b),
         OneRun(b, LogPiece(l)), OneRun(LogPiece(l), b),
         \A k \in Span(b) : TermAt(b, k) = x.term =>
           k <= Len(l) /\ Len(l) > 0 /\ l[Len(l)].term = x.term
  PROVE  OneRun(b, LogPiece(Append(l, x))) /\ OneRun(LogPiece(Append(l, x)), b)
<1> DEFINE f == Append(l, x)
<1>1. /\ f \in Log /\ Len(f) = Len(l) + 1 /\ f[Len(l) + 1] = x
      /\ \A k \in 1..Len(l) : f[k] = l[k]
  BY AppendProperties DEF Log
<1> HIDE DEF f
<1>2. Len(l) \in Nat
  BY DEF Log
<1>3. /\ \A k : k \in Span(LogPiece(l)) <=> k \in 1..Len(l)
      /\ \A k \in 1..Len(l) : TermAt(LogPiece(l), k) = l[k].term
      /\ \A k : k \in Span(LogPiece(f)) <=> k \in 1..(Len(l) + 1)
      /\ \A k \in 1..(Len(l) + 1) : TermAt(LogPiece(f), k) = f[k].term
  BY <1>1, WholeLog
<1>4. \A k \in 1..(Len(l) + 1) : k \in 1..Len(l) \/ (k = Len(l) + 1 /\ f[k].term = x.term)
  BY <1>1, <1>2
<1>5. ASSUME NEW j \in Span(b), NEW k \in 1..(Len(l) + 1), j <= k, TermAt(b, j) = f[k].term,
             NEW i \in 1..(Len(l) + 1), j <= i, i <= k
      PROVE  f[i].term = f[k].term
  <2>1. j \in Nat \ {0}
    BY SpanType
  <2>2. ASSUME NEW h \in 1..Len(l), l[h].term = TermAt(b, j), NEW g \in 1..Len(l),
               j <= g, g <= h
        PROVE  f[g].term = f[h].term
    <3>1. l[g].term = l[h].term
      BY <1>3, <2>1, <2>2 DEF OneRun
    <3> QED
      BY <1>1, <3>1
  <2>3. CASE k \in 1..Len(l)
    BY <1>1, <1>2, <1>5, <2>2, <2>3
  <2>4. CASE k = Len(l) + 1 /\ f[k].term = x.term
    <3>1. j <= Len(l) /\ Len(l) \in 1..Len(l) /\ l[Len(l)].term = x.term
      BY <1>2, <1>5, <2>4
    <3>2. CASE i \in 1..Len(l)
      <4>1. f[i].term = f[Len(l)].term
        BY <1>2, <1>5, <2>2, <2>4, <3>1, <3>2
      <4> QED
        BY <1>1, <2>4, <3>1, <4>1
    <3> QED
      BY <1>4, <2>4, <3>2
  <2> QED
    BY <1>4, <2>3, <2>4
<1>6. OneRun(b, LogPiece(f))
  BY <1>3, <1>5 DEF OneRun
<1>7. ASSUME NEW j \in 1..(Len(l) + 1), NEW k \in Span(b), j <= k, f[j].term = TermAt(b, k),
             NEW i \in Span(b), j <= i, i <= k
      PROVE  TermAt(b, i) = TermAt(b, k)
  <2>1. j \in 1..Len(l)
    <3>1. k \in Nat
      BY SpanType
    <3> QED
      BY <1>2, <1>4, <1>7, <3>1
  <2> QED
    BY <1>1, <1>3, <1>7, <2>1 DEF OneRun
<1>8. OneRun(LogPiece(f), b)
  BY <1>3, <1>7 DEF OneRun
<1> QED
  BY <1>6, <1>8 DEF f

LEMMA RunQuiet ==
  ASSUME TypeOK, RunInv, Quiet
  PROVE  RunInv'
<1>1. /\ UNCHANGED log /\ appReqs' \subseteq appReqs /\ \A q \in Server : Calm(q)
  BY DEF Quiet
<1>2. Pieces' \subseteq Pieces
  BY <1>1 DEF Pieces
<1>3. PiecesOneRun'
  BY <1>2 DEF RunInv, PiecesOneRun
<1>4. CallsCurrent'
  BY <1>1 DEF RunInv, CallsCurrent
<1>5. LeadersOwn'
  BY <1>1 DEF RunInv, LeadersOwn, Calm
<1> QED
  BY <1>3, <1>4, <1>5 DEF RunInv

LEMMA RunSends ==
  ASSUME TypeOK, RunInv, NEW n \in Server, NEW m \in AppReq, Sends(n, m)
  PROVE  RunInv'
<1> DEFINE l    == log[n]
           last == m.prevIdx + Len(m.entries)
<1>1. /\ UNCHANGED <<currentTerm, role, log>> /\ appReqs' = appReqs \cup {m}
      /\ role[n] = "leader" /\ m.term = currentTerm[n]
      /\ IsPiece(m) /\ Part(m, LogPiece(l)) /\ last = Len(l)
  BY DEF Sends
<1>2. /\ l \in Log /\ Len(l) \in Nat /\ LogPiece(l) \in Pieces
      /\ Pieces' \subseteq Pieces \cup {m}
  BY <1>1, NodeTypes DEF Pieces
<1>3. EndsWith(LogPiece(l), m.term)
  BY <1>1 DEF RunInv, LeadersOwn
<1> HIDE DEF l
<1>4. \A k \in Span(m) : k \in Span(LogPiece(l)) /\ TermAt(m, k) = TermAt(LogPiece(l), k)
  BY <1>1 DEF Part, Same
<1>5. EndsWith(m, m.term)
  <2>1. /\ last \in Nat \ {0} /\ last \in 1..Len(l) /\ l[last].term = m.term
        /\ m.prevIdx <= last
    <3>1. Len(l) > 0 /\ l[Len(l)].term = m.term
      BY <1>2, <1>3, EndsWithLog
    <3>2. m.prevIdx \in Nat /\ Len(m.entries) \in Nat
      BY <1>1, SpanType DEF IsPiece
    <3> QED
      BY <1>1, <1>2, <3>1, <3>2
  <2>2. last \in Span(m)
    BY <1>1, <2>1, SpanType
  <2>3. TermAt(m, last) = m.term
    BY <1>2, <1>4, <2>1, <2>2, WholeLog
  <2> QED
    BY <2>2, <2>3 DEF EndsWith
<1>6. \A b \in Pieces : OneRun(b, m)
  BY <1>1, <1>2, RunInPart DEF RunInv, PiecesOneRun
<1>7. PiecesOneRun'
  BY <1>2, <1>4, <1>6, RunWithNew DEF RunInv
<1>8. CallsCurrent'
  BY <1>1, <1>5 DEF RunInv, CallsCurrent
<1>9. LeadersOwn'
  BY <1>1 DEF RunInv, LeadersOwn
<1> QED
  BY <1>7, <1>8, <1>9 DEF RunInv

\* Nobody has an entry of a term not won before.
LEMMA TermIsNew ==
  ASSUME TypeOK, TypeOK', MatchInv, ElectionSafety', NEW n \in Server, Wins(n)
  PROVE  \A b \in Pieces : \A k \in Span(b) : TermAt(b, k) # currentTerm'[n]
<1> SUFFICES ASSUME NEW b \in Pieces, NEW k \in Span(b), TermAt(b, k) = currentTerm'[n]
             PROVE  FALSE
  OBVIOUS
<1>1. PICK e \in leaders : e[1] = currentTerm'[n]
  BY DEF MatchInv, PiecesElected
<1>2. e \in leaders' /\ <<currentTerm'[n], n>> \in leaders'
  BY DEF Wins
<1>3. e[2] = n
  BY <1>1, <1>2 DEF ElectionSafety
<1>4. e = <<e[1], e[2]>>
  <2>1. leaders \subseteq Nat \X Server
    BY DEF TypeOK
  <2>2. e \in Nat \X Server
    BY <2>1
  <2> QED
    BY <2>2
<1>5. e = <<currentTerm'[n], n>>
  BY <1>1, <1>3, <1>4
<1>6. <<currentTerm'[n], n>> \notin leaders
  BY DEF Wins
<1> QED
  BY <1>5, <1>6

\* A term that a leader appends: where pieces have it, the log ends with it.
LEMMA TermAtEnd ==
  ASSUME TypeOK, TypeOK', MatchInv, RunInv, ElectionSafety',
         NEW n \in Server, NEW x \in Entry, Appends(n, x)
  PROVE  \A b \in Pieces : \A k \in Span(b) : TermAt(b, k) = x.term =>
           /\ k <= Len(log[n]) /\ Len(log[n]) > 0 /\ log[n][Len(log[n])].term = x.term
           /\ role[n] = "leader" /\ currentTerm[n] = x.term
<1>1. x.term = currentTerm'[n]
  BY DEF Appends
<1>2. CASE role[n] = "leader" /\ currentTerm'[n] = currentTerm[n]
  <2>1. EndsWith(LogPiece(log[n]), currentTerm[n]) /\ log[n] \in Log
    BY <1>2, NodeTypes DEF RunInv, LeadersOwn
  <2>2. Len(log[n]) > 0 /\ log[n][Len(log[n])].term = currentTerm[n]
    BY <2>1, EndsWithLog
  <2> QED
    BY <1>1, <1>2, <2>2 DEF MatchInv, PiecesBehind
<1>3. CASE Wins(n)
  BY <1>1, <1>3, TermIsNew
<1> QED
  BY <1>2, <1>3 DEF Appends

\* What a step of this kind does to the pieces.
LEMMA PiecesGrown ==
  ASSUME TypeOK, NEW n \in Server, NEW x \in Entry, Appends(n, x)
  PROVE  /\ log'[n] = Append(log[n], x) /\ \A q \in Server \ {n} : log'[q] = log[q]
         /\ Pieces' \subseteq Pieces \cup {LogPiece(Append(log[n], x))}
<1>1. log' = [log EXCEPT ![n] = Append(log[n], x)] /\ UNCHANGED appReqs
  BY DEF Appends
<1>2. log'[n] = Append(log[n], x) /\ \A q \in Server \ {n} : log'[q] = log[q]
  BY <1>1, NodeTypes
<1> QED
  BY <1>1, <1>2 DEF Pieces

LEMMA RunAppends ==
  ASSUME TypeOK, TypeOK', MatchInv, RunInv, ElectionSafety',
         NEW n \in Server, NEW x \in Entry, Appends(n, x)
  PROVE  RunInv'
<1> DEFINE l == log[n]
           f == LogPiece(Append(l, x))
<1>1. l \in Log /\ LogPiece(l) \in Pieces /\ \A b \in Pieces : IsPiece(b)
  BY NodeTypes, PieceTypes DEF Pieces
<1>2. /\ log'[n] = Append(l, x) /\ \A q \in Server \ {n} : log'[q] = log[q]
      /\ Pieces' \subseteq Pieces \cup {f}
  BY PiecesGrown
<1>3. \A b \in Pieces : \A k \in Span(b) : TermAt(b, k) = x.term =>
        k <= Len(l) /\ Len(l) > 0 /\ l[Len(l)].term = x.term
  BY TermAtEnd
<1> HIDE DEF l, f
<1>4. \A b \in Pieces : OneRun(b, f) /\ OneRun(f, b)
  BY <1>1, <1>3, RunGrown DEF f, RunInv, PiecesOneRun
<1>5. OneRun(f, f)
  <2>1. OneRun(LogPiece(l), f)
    BY <1>1, <1>4
  <2>2. /\ Append(l, x) \in Log /\ Len(Append(l, x)) = Len(l) + 1 /\ Len(l) \in Nat
        /\ \A k \in 1..Len(l) : Append(l, x)[k] = l[k]
    BY <1>1, AppendProperties DEF Log
  <2> SUFFICES ASSUME NEW j \in Span(f), NEW k \in Span(f), j <= k, TermAt(f, j) = TermAt(f, k),
                      NEW i \in Span(f), j <= i, i <= k
               PROVE  TermAt(f, i) = TermAt(f, k)
    BY DEF OneRun
  <2>3. j \in 1..(Len(l) + 1) /\ i \in 1..(Len(l) + 1) /\ k \in 1..(Len(l) + 1)
    BY <2>2, WholeLog DEF f
  <2>4. CASE j \in 1..Len(l)
    <3>1. j \in 1..Len(Append(l, x))
      BY <2>2, <2>4
    <3>2. j \in Span(LogPiece(l)) /\ TermAt(LogPiece(l), j) = TermAt(f, j)
      BY <1>1, <2>2, <2>4, <3>1, WholeLog DEF f
    <3> QED
      BY <2>1, <3>2 DEF OneRun
  <2>5. CASE j \notin 1..Len(l)
    <3>1. i = k
      BY <2>2, <2>3, <2>5
    <3> QED
      BY <3>1
  <2> QED
    BY <2>4, <2>5
<1>6. \A a, b \in Pieces \cup {f} : OneRun(a, b)
  BY <1>4, <1>5 DEF RunInv, PiecesOneRun
<1>7. PiecesOneRun'
  BY <1>2, <1>6 DEF PiecesOneRun
<1>8. CallsCurrent'
  BY DEF Appends, RunInv, CallsCurrent
<1>9. LeadersOwn'
  <2>1. EndsWith(f, x.term)
    <3>1. /\ Append(l, x) \in Log /\ Len(Append(l, x)) = Len(l) + 1 /\ Len(l) \in Nat
          /\ Append(l, x)[Len(l) + 1] = x
      BY <1>1, AppendProperties DEF Log
    <3>2. Len(Append(l, x)) > 0 /\ Append(l, x)[Len(Append(l, x))].term = x.term
      BY <3>1
    <3> QED
      BY <3>1, <3>2, EndsWithLog DEF f
  <2>2. /\ x.term = currentTerm'[n] /\ LogPiece(log'[n]) = f
        /\ \A q \in Server \ {n} : currentTerm'[q] = currentTerm[q] /\ role'[q] = role[q]
    BY <1>2 DEF Appends, f
  <2> SUFFICES ASSUME NEW q \in Server, role'[q] = "leader"
               PROVE  EndsWith(LogPiece(log'[q]), currentTerm'[q])
    BY DEF LeadersOwn, EndsWith, LogPiece, TermAt, Span
  <2> QED
    BY <1>2, <2>1, <2>2 DEF RunInv, LeadersOwn
<1> QED
  BY <1>7, <1>8, <1>9 DEF RunInv

\* What a step of this kind does to the pieces.
LEMMA PiecesSpliced ==
  ASSUME TypeOK, NEW m \in appReqs, Splices(m)
  PROVE  /\ m.dst \in Server /\ IsPiece(m) /\ m.term \in Nat
         /\ log'[m.dst] = Splice(log[m.dst], m.prevIdx, m.entries)
         /\ currentTerm'[m.dst] = m.term /\ role'[m.dst] = "follower"
         /\ \A q \in Server \ {m.dst} : /\ log'[q] = log[q] /\ role'[q] = role[q]
                                        /\ currentTerm'[q] = currentTerm[q]
         /\ Pieces' \subseteq
              Pieces \cup {LogPiece(Splice(log[m.dst], m.prevIdx, m.entries))}
<1> DEFINE n == m.dst
<1>1. n \in Server /\ IsPiece(m) /\ m.term \in Nat
  BY PieceTypes DEF TypeOK, AppReq, Pieces
<1>2. /\ log' = [log EXCEPT ![n] = Splice(@, m.prevIdx, m.entries)]
      /\ currentTerm' = [currentTerm EXCEPT ![n] = m.term]
      /\ role' = [role EXCEPT ![n] = "follower"]
      /\ appReqs' \subseteq appReqs
  BY DEF Splices
<1>3. /\ log'[n] = Splice(log[n], m.prevIdx, m.entries)
      /\ currentTerm'[n] = m.term /\ role'[n] = "follower"
      /\ \A q \in Server \ {n} : /\ log'[q] = log[q] /\ role'[q] = role[q]
                                 /\ currentTerm'[q] = currentTerm[q]
  BY <1>1, <1>2, NodeTypes
<1> QED
  BY <1>1, <1>2, <1>3 DEF Pieces

LEMMA RunSplices ==
  ASSUME TypeOK, RunInv, NEW m \in appReqs, Splices(m)
  PROVE  RunInv'
<1> DEFINE n == m.dst
           l == log[n]
           s == Splice(l, m.prevIdx, m.entries)
           f == LogPiece(s)
<1>1. /\ n \in Server /\ IsPiece(m) /\ role'[n] = "follower"
      /\ \A q \in Server \ {n} : /\ log'[q] = log[q] /\ role'[q] = role[q]
                                 /\ currentTerm'[q] = currentTerm[q]
      /\ Pieces' \subseteq Pieces \cup {f}
  BY PiecesSpliced
<1>2. /\ appReqs' \subseteq appReqs
      /\ m.prevIdx <= Len(l) /\ ~ Clashes(l, m.prevIdx, m.prevTerm)
  BY DEF Splices
<1>3. /\ l \in Log /\ LogPiece(l) \in Pieces /\ m \in Pieces
      /\ \A b \in Pieces : IsPiece(b)
  BY <1>1, NodeTypes, PieceTypes DEF Pieces
<1> HIDE DEF l
<1>4. \A b \in Pieces : OneRun(b, f)
  BY <1>1, <1>2, <1>3, RunSplice DEF RunInv, PiecesOneRun
<1>5. \A k \in Span(f) : \E b \in Pieces : k \in Span(b) /\ TermAt(f, k) = TermAt(b, k)
  <2> SUFFICES ASSUME NEW k \in Span(f)
               PROVE  \E b \in Pieces : k \in Span(b) /\ TermAt(f, k) = TermAt(b, k)
    OBVIOUS
  <2> PICK kept \in m.prevIdx..Len(l) : FromBoth(s, l, m, kept)
    BY <1>1, <1>2, <1>3, SpliceTells
  <2> HIDE DEF s
  <2>1. /\ s \in Log
        /\ \A i \in 1..kept : i \in 1..Len(s) /\ s[i] = l[i]
        /\ \A i \in Span(m) : i \in 1..Len(s) /\ s[i].term = TermAt(m, i)
        /\ \A i \in 1..Len(s) : i > kept => i \in Span(m)
    BY DEF FromBoth
  <2>2. k \in 1..Len(s) /\ TermAt(f, k) = s[k].term
    BY <2>1, WholeLog
  <2>3. CASE k > kept
    BY <1>3, <2>1, <2>2, <2>3
  <2>4. CASE ~ (k > kept)
    <3>1. k \in 1..kept /\ k \in 1..Len(l)
      <4>1. Len(l) \in Nat /\ m.prevIdx \in Nat
        BY <1>1, <1>3 DEF Log, IsPiece
      <4> QED
        BY <2>2, <2>4, <4>1
    <3>2. s[k] = l[k] /\ k \in Span(LogPiece(l)) /\ TermAt(LogPiece(l), k) = l[k].term
      BY <1>3, <2>1, <3>1, WholeLog
    <3> QED
      BY <1>3, <2>2, <3>2
  <2> QED
    BY <2>3, <2>4
<1> HIDE DEF f
<1>6. PiecesOneRun'
  BY <1>1, <1>4, <1>5, RunWithNew DEF RunInv
<1>7. CallsCurrent'
  BY <1>2 DEF RunInv, CallsCurrent
<1>8. LeadersOwn'
  <2> SUFFICES ASSUME NEW q \in Server, role'[q] = "leader"
               PROVE  EndsWith(LogPiece(log'[q]), currentTerm'[q])
    BY DEF LeadersOwn, EndsWith, LogPiece, TermAt, Span
  <2>1. q # n
    BY <1>1
  <2> QED
    BY <1>1, <2>1 DEF RunInv, LeadersOwn
<1> QED
  BY <1>6, <1>7, <1>8 DEF RunInv

LEMMA RunStep ==
  ASSUME TypeOK, TypeOK', MatchInv, RunInv, ElectionSafety', Kinds
  PROVE  RunInv'
BY RunQuiet, RunSends, RunAppends, RunSplices DEF Kinds

-----------------------------------------------------------------------------
(* Votes: what a candidate says of its log stays true while it stands.     *)

VoteCallsTrue ==
  \A m \in voteReqs :
    /\ m.term <= currentTerm[m.src]
    /\ role[m.src] = "candidate" /\ currentTerm[m.src] = m.term =>
         m.lastIdx = Len(log[m.src]) /\ m.lastTerm = LastTerm(log[m.src])

\* Nobody votes in an election that its candidate has not begun.
BallotsStarted == \A b \in ballots : b[2] <= currentTerm[b[3]]

VoteInv == VoteCallsTrue /\ BallotsStarted

\* Time goes on, and who stands for election before and after a step in one
\* term has its log left alone.
LEMMA CandidatesStand ==
  ASSUME TypeOK, Kinds, NEW q \in Server
  PROVE  /\ currentTerm'[q] >= currentTerm[q]
         /\ role'[q] = "candidate" =>
              \/ currentTerm'[q] > currentTerm[q]
              \/ role[q] = "candidate" /\ currentTerm'[q] = currentTerm[q] /\ log'[q] = log[q]
<1>1. currentTerm[q] \in Nat /\ currentTerm[q] >= currentTerm[q]
  BY NodeTypes
<1>2. CASE Quiet
  BY <1>2 DEF Quiet, Calm
<1>3. CASE \E n \in Server, m \in AppReq : Sends(n, m)
  BY <1>1, <1>3 DEF Sends
<1>4. ASSUME NEW n \in Server, NEW x \in Entry, Appends(n, x)
      PROVE  /\ currentTerm'[q] >= currentTerm[q]
             /\ role'[q] = "candidate" =>
                  /\ role[q] = "candidate" /\ currentTerm'[q] = currentTerm[q]
                  /\ log'[q] = log[q]
  <2>1. log'[n] = Append(log[n], x) /\ \A p \in Server \ {n} : log'[p] = log[p]
    BY <1>4, PiecesGrown
  <2> QED
    BY <1>1, <1>4, <2>1 DEF Appends
<1>5. ASSUME NEW m \in appReqs, Splices(m)
      PROVE  /\ currentTerm'[q] >= currentTerm[q]
             /\ role'[q] = "candidate" =>
                  /\ role[q] = "candidate" /\ currentTerm'[q] = currentTerm[q]
                  /\ log'[q] = log[q]
  <2>1. /\ m.dst \in Server /\ currentTerm'[m.dst] = m.term /\ role'[m.dst] = "follower"
        /\ \A p \in Server \ {m.dst} : /\ log'[p] = log[p] /\ role'[p] = role[p]
                                       /\ currentTerm'[p] = currentTerm[p]
    BY <1>5, PiecesSpliced
  <2>2. m.term >= currentTerm[m.dst]
    BY <1>5 DEF Splices
  <2> QED
    BY <1>1, <2>1, <2>2
<1> QED
  BY <1>2, <1>3, <1>4, <1>5 DEF Kinds

\* Which steps make vote requests and ballots.
LEMMA BallotSteps ==
  ASSUME TypeOK, [Next]_vars
  PROVE  \/ UNCHANGED ballots /\ voteReqs' \subseteq voteReqs
         \/ \E n \in Server : ElectionTimeout(n)
         \/ \E m \in voteReqs : RequestVote(m)
<1>1. CASE UNCHANGED vars
  BY <1>1 DEF vars, voteRPCs, history
<1>2. CASE \E m \in voteReps : ReceiveVote(m)
  BY <1>2 DEF ReceiveVote
<1>3. CASE \/ \E n \in Server, cmd \in Cmd : Start(n, cmd)
           \/ \E n, p \in Server : ReplicateToPeer(n, p)
  BY <1>3 DEF Start, ReplicateToPeer, voteRPCs, history
<1>4. CASE \E m \in appReqs : AppendEntries(m)
  BY <1>4 DEF AppendEntries, voteRPCs
<1>5. CASE \E m \in appReps : ReceiveAppend(m)
  BY <1>5 DEF ReceiveAppend, voteRPCs, history
<1>6. CASE \/ \E m \in appReqs \cup appReps : CallFails(m)
           \/ \E n \in Server : Shutdown(n) \/ Crash(n) \/ Make(n)
  BY <1>6 DEF CallFails, Shutdown, Crash, Make, voteRPCs, history
<1> QED
  BY <1>1, <1>2, <1>3, <1>4, <1>5, <1>6 DEF Next

LEMMA VoteInit == Init => VoteInv
BY DEF Init, VoteInv, VoteCallsTrue, BallotsStarted

LEMMA VoteStep ==
  ASSUME TypeOK, TypeOK', VoteInv, Kinds, [Next]_vars
  PROVE  VoteInv'
<1>1. \A q \in Server :
        /\ currentTerm'[q] >= currentTerm[q]
        /\ role'[q] = "candidate" =>
             \/ currentTerm'[q] > currentTerm[q]
             \/ role[q] = "candidate" /\ currentTerm'[q] = currentTerm[q] /\ log'[q] = log[q]
  BY CandidatesStand
<1>2. /\ \A q \in Server : currentTerm[q] \in Nat /\ currentTerm'[q] \in Nat
      /\ \A m \in voteReqs : m.src \in Server /\ m.dst \in Server /\ m.term \in Nat
      /\ \A b \in ballots : b[3] \in Server /\ b[2] \in Nat
  <2>1. /\ currentTerm \in [Server -> Nat] /\ currentTerm' \in [Server -> Nat]
        /\ voteReqs \subseteq VoteReq /\ ballots \subseteq Server \X Nat \X Server
    BY DEF TypeOK
  <2> QED
    BY <2>1 DEF VoteReq
\* What was true of old requests and ballots stays true.
<1>3. ASSUME NEW m \in voteReqs
      PROVE  /\ m.term <= currentTerm'[m.src]
             /\ role'[m.src] = "candidate" /\ currentTerm'[m.src] = m.term =>
                  m.lastIdx = Len(log'[m.src]) /\ m.lastTerm = LastTerm(log'[m.src])
  <2> DEFINE q == m.src
  <2>1. /\ q \in Server /\ m.term \in Nat /\ currentTerm[q] \in Nat /\ currentTerm'[q] \in Nat
        /\ m.term <= currentTerm[q]
        /\ role[q] = "candidate" /\ currentTerm[q] = m.term =>
             m.lastIdx = Len(log[q]) /\ m.lastTerm = LastTerm(log[q])
    BY <1>2 DEF VoteInv, VoteCallsTrue
  <2> QED
    BY <1>1, <2>1
<1>4. \A b \in ballots : b[2] <= currentTerm'[b[3]]
  BY <1>1, <1>2 DEF VoteInv, BallotsStarted
<1>5. CASE UNCHANGED ballots /\ voteReqs' \subseteq voteReqs
  BY <1>3, <1>4, <1>5 DEF VoteInv, VoteCallsTrue, BallotsStarted
<1>6. ASSUME NEW n \in Server, ElectionTimeout(n) PROVE VoteInv'
  <2> DEFINE t == currentTerm[n] + 1
  <2>1. /\ currentTerm' = [currentTerm EXCEPT ![n] = t]
        /\ ballots' = ballots \cup {<<n, t, n>>}
        /\ \A m \in voteReqs' : m \in voteReqs \/
             (m.src = n /\ m.term = t /\ m.lastIdx = Len(log[n]) /\ m.lastTerm = LastTerm(log[n]))
    BY <1>6 DEF ElectionTimeout
  <2>2. currentTerm'[n] = t /\ t <= currentTerm'[n]
    BY <1>2, <2>1, NodeTypes
  <2>3. role'[n] = "leader" \/ log'[n] = log[n]
    BY <1>6, NodeTypes DEF ElectionTimeout, BecomeLeader, logVars
  <2> HIDE DEF t
  <2>4. BallotsStarted'
    BY <1>4, <2>1, <2>2 DEF BallotsStarted
  <2>5. VoteCallsTrue'
    BY <1>3, <2>1, <2>2, <2>3 DEF VoteCallsTrue
  <2> QED
    BY <2>4, <2>5 DEF VoteInv
<1>7. ASSUME NEW m \in voteReqs, RequestVote(m) PROVE VoteInv'
  <2>1. /\ voteReqs' \subseteq voteReqs
        /\ ballots' \subseteq ballots \cup {<<m.dst, m.term, m.src>>}
    BY <1>7 DEF RequestVote
  <2>2. m.term <= currentTerm'[m.src]
    BY <1>3
  <2>3. BallotsStarted'
    BY <1>4, <2>1, <2>2 DEF BallotsStarted
  <2>4. VoteCallsTrue'
    BY <1>3, <2>1 DEF VoteCallsTrue
  <2> QED
    BY <2>3, <2>4 DEF VoteInv
<1> QED
  BY <1>5, <1>6, <1>7, BallotSteps

-----------------------------------------------------------------------------
(* What a step leaves of an entry, and of its position's fate.             *)

Has(p, k, v) == HasIn(log[p], k, v)

\* Node p has the entry, and so has whoever p has promised its vote since.
Keeps(p, k, v) ==
  /\ currentTerm[p] >= v
  /\ Has(p, k, v)
  /\ \A c \in Server :
       /\ role[c] = "candidate" /\ currentTerm[c] > v
       /\ <<p, currentTerm[c], c>> \in ballots
       => Has(c, k, v)

\* The invariants that speak of one state at a time and of no commit.
BaseInv == ElectionInv /\ LeaderInv /\ MatchInv /\ AckInv /\ RunInv /\ VoteInv

\* What proofs need of them again and again.
Basics ==
  /\ TypeOK /\ ElectionSafety
  /\ \A q \in Server : /\ log[q] \in Log /\ Len(log[q]) \in Nat
                       /\ currentTerm[q] \in Nat
                       /\ OrderedUpTo(log[q], currentTerm[q])
                       /\ LogPiece(log[q]) \in Pieces
  /\ \A b \in Pieces : IsPiece(b)

LEMMA BaseFacts == BaseInv => Basics
<1> SUFFICES ASSUME BaseInv PROVE Basics
  OBVIOUS
<1>1. TypeOK /\ ElectionSafety /\ LogsOrdered
  BY ElectionInvSafe DEF BaseInv, ElectionInv, LeaderInv, OrderInv
<1>2. \A b \in Pieces : IsPiece(b)
  BY <1>1, PieceTypes
<1>3. \A q \in Server : /\ log[q] \in Log /\ Len(log[q]) \in Nat /\ currentTerm[q] \in Nat
  BY <1>1, NodeTypes
<1>4. \A q \in Server : OrderedUpTo(log[q], currentTerm[q])
  BY <1>1 DEF LogsOrdered
<1>5. \A q \in Server : LogPiece(log[q]) \in Pieces
  BY DEF Pieces
<1> QED
  BY <1>1, <1>2, <1>3, <1>4, <1>5 DEF Basics

LEMMA BaseNext == BaseInv' => Basics'
BY BaseFacts, PTL

\* An entry that everything later fits is never cut off.
LEMMA HasStays ==
  ASSUME BaseInv, Kinds, NEW k \in Nat \ {0}, NEW v \in Nat, Fitting(k, v),
         NEW p \in Server, Has(p, k, v), currentTerm[p] >= v
  PROVE  Has(p, k, v)'
<1>1. /\ TypeOK /\ log[p] \in Log /\ Len(log[p]) \in Nat /\ LogPiece(log[p]) \in Pieces
      /\ \A b \in Pieces : IsPiece(b)
  BY BaseFacts DEF Basics
<1>2. k \in 1..Len(log[p]) /\ log[p][k].term = v
  BY DEF Has, HasIn
<1>3. CASE log'[p] = log[p]
  BY <1>3 DEF Has, HasIn
<1>4. CASE Quiet
  BY <1>3, <1>4 DEF Quiet
<1>5. CASE \E n \in Server, m \in AppReq : Sends(n, m)
  BY <1>3, <1>5 DEF Sends
<1>6. ASSUME NEW n \in Server, NEW x \in Entry, Appends(n, x) PROVE Has(p, k, v)'
  <2>1. log'[n] = Append(log[n], x) /\ \A q \in Server \ {n} : log'[q] = log[q]
    BY <1>1, <1>6, PiecesGrown
  <2>2. CASE p = n
    <3>1. /\ Len(log'[p]) = Len(log[p]) + 1
          /\ \A j \in 1..Len(log[p]) : log'[p][j] = log[p][j]
      BY <1>1, <2>1, <2>2, AppendProperties DEF Log
    <3>2. k \in 1..Len(log'[p]) /\ log'[p][k] = log[p][k]
      BY <1>1, <1>2, <3>1
    <3> QED
      BY <1>2, <3>2 DEF Has, HasIn
  <2> QED
    BY <1>3, <2>1, <2>2
<1>7. ASSUME NEW m \in appReqs, Splices(m) PROVE Has(p, k, v)'
  <2>1. /\ m.dst \in Server /\ IsPiece(m) /\ m.term \in Nat
        /\ log'[m.dst] = Splice(log[m.dst], m.prevIdx, m.entries)
        /\ \A q \in Server \ {m.dst} : log'[q] = log[q]
    BY <1>1, <1>7, PiecesSpliced
  <2>2. CASE p = m.dst
    <3>1. /\ m.prevIdx <= Len(log[p]) /\ ~ Clashes(log[p], m.prevIdx, m.prevTerm)
          /\ m.term >= currentTerm[p]
      BY <1>7, <2>2 DEF Splices
    <3>2. m.term >= v
      <4>1. currentTerm[p] \in Nat
        BY <1>1, NodeTypes
      <4> QED
        BY <2>1, <3>1, <4>1
    <3>3. m \in Pieces
      BY DEF Pieces
    <3>4. /\ EndsWith(m, m.term) /\ OneRun(m, LogPiece(log[p]))
          /\ Agree(m, LogPiece(log[p]))
          /\ Beyond(m, k, v) => Fits(m, k, v)
      BY <1>1, <3>3
      DEF BaseInv, RunInv, CallsCurrent, PiecesOneRun, MatchInv, PiecesAgree, Fitting
    <3>5. HasIn(log[p], k, v)
      BY DEF Has
    <3>6. HasIn(Splice(log[p], m.prevIdx, m.entries), k, v)
      BY <1>1, <2>1, <3>1, <3>2, <3>4, <3>5, HasSplice
    <3> QED
      BY <2>1, <2>2, <3>6 DEF Has
  <2> QED
    BY <1>3, <2>1, <2>2
<1> QED
  BY <1>4, <1>5, <1>6, <1>7 DEF Kinds

\* RequestVote's up-to-date rule: who gets the vote of a node that has the
\* entry has it too.
LEMMA UpToDateHas ==
  ASSUME NEW l \in Log, NEW f \in Log, NEW t \in Nat, OrderedUpTo(l, t),
         NEW k \in Nat \ {0}, NEW v \in Nat \ {0}, HasIn(l, k, v),
         UpToDate(Len(f), LastTerm(f), l),
         Beyond(LogPiece(f), k, v) => Fits(LogPiece(f), k, v)
  PROVE  HasIn(f, k, v)
<1>1. k \in 1..Len(l) /\ l[k].term = v /\ Len(l) \in Nat /\ Len(f) \in Nat
  BY DEF HasIn, Log
<1>2. LastTerm(l) = l[Len(l)].term /\ l[Len(l)].term >= v /\ LastTerm(l) \in Nat
  <2>1. l # <<>> /\ Len(l) \in 1..Len(l) /\ k <= Len(l)
    BY <1>1
  <2>2. LastTerm(l) = l[Len(l)].term
    BY <2>1 DEF LastTerm
  <2>3. l[k].term <= l[Len(l)].term
    BY <1>1, <2>1 DEF OrderedUpTo
  <2>4. LastTerm(l) \in Nat
    BY LastTermType
  <2> QED
    BY <1>1, <2>2, <2>3, <2>4
<1>3. LastTerm(f) > LastTerm(l) \/ (LastTerm(f) = LastTerm(l) /\ Len(f) >= Len(l))
  BY DEF UpToDate
<1>4. LastTerm(f) \in Nat
  BY LastTermType
<1>5. f # <<>> /\ LastTerm(f) = f[Len(f)].term /\ Len(f) \in 1..Len(f)
  <2>1. LastTerm(f) # 0
    BY <1>2, <1>3, <1>4
  <2>2. f # <<>>
    BY <2>1 DEF LastTerm
  <2>3. Len(f) # 0
    BY <2>2, EmptySeq DEF Log
  <2> QED
    BY <1>1, <2>2, <2>3 DEF LastTerm
<1>6. f[Len(f)].term > v \/ (f[Len(f)].term = v /\ Len(f) >= k)
  BY <1>1, <1>2, <1>3, <1>4, <1>5
<1>7. Beyond(LogPiece(f), k, v)
  <2>1. Len(f) \in Span(LogPiece(f)) /\ TermAt(LogPiece(f), Len(f)) = f[Len(f)].term
    BY <1>5, WholeLog
  <2> QED
    BY <1>6, <2>1 DEF Beyond
<1> QED
  BY <1>7, BeyondHas

\* What fits goes on fitting, unless a later term is won by a node without
\* the entry.
LEMMA FittingStays ==
  ASSUME BaseInv, BaseInv', Kinds, NEW k \in Nat \ {0}, NEW v \in Nat, Fitting(k, v),
         \E e \in leaders : e[1] = v,
         \A n \in Server : Wins(n) /\ currentTerm'[n] > v => Has(n, k, v)
  PROVE  Fitting(k, v)'
<1>1. /\ TypeOK /\ TypeOK' /\ ElectionSafety' /\ MatchInv /\ RunInv
      /\ \A q \in Server : /\ log[q] \in Log /\ Len(log[q]) \in Nat /\ currentTerm[q] \in Nat
                           /\ LogPiece(log[q]) \in Pieces
      /\ \A b \in Pieces : IsPiece(b)
  BY BaseFacts, BaseNext DEF BaseInv, Basics
<1>2. \A q \in Server : /\ log'[q] \in Log /\ currentTerm'[q] \in Nat
                        /\ OrderedUpTo(log'[q], currentTerm'[q])
  BY BaseNext DEF Basics
<1>3. ASSUME NEW f, Pieces' \subseteq Pieces \cup {f}, Beyond(f, k, v) => Fits(f, k, v)
      PROVE  Fitting(k, v)'
  BY <1>3 DEF Fitting
\* A log that has the entry fits.
<1>4. ASSUME NEW q \in Server, HasIn(log'[q], k, v)
      PROVE  Fits(LogPiece(log'[q]), k, v)
  BY <1>2, <1>4, HasFits
<1>5. CASE Quiet
  <2>1. Pieces' \subseteq Pieces
    BY <1>5 DEF Quiet, Pieces
  <2> QED
    BY <2>1 DEF Fitting
<1>6. ASSUME NEW n \in Server, NEW m \in AppReq, Sends(n, m) PROVE Fitting(k, v)'
  <2>1. /\ Pieces' \subseteq Pieces \cup {m}
        /\ Part(m, LogPiece(log[n]))
    BY <1>6 DEF Sends, Pieces
  <2>2. Beyond(m, k, v) => Fits(m, k, v)
    BY <1>1, <2>1, FitsPart DEF Fitting
  <2> QED
    BY <1>3, <2>1, <2>2
<1>7. ASSUME NEW n \in Server, NEW x \in Entry, Appends(n, x) PROVE Fitting(k, v)'
  <2> DEFINE l == log[n]
             f == Append(l, x)
  <2>1. log'[n] = f /\ Pieces' \subseteq Pieces \cup {LogPiece(f)}
    BY <1>1, <1>7, PiecesGrown
  <2>2. /\ f \in Log /\ Len(f) = Len(l) + 1 /\ f[Len(l) + 1] = x /\ Len(l) \in Nat
        /\ \A j \in 1..Len(l) : f[j] = l[j]
        /\ l \in Log /\ LogPiece(l) \in Pieces
    BY <1>1, AppendProperties DEF Log
  <2> HIDE DEF l, f
  <2>3. /\ \A j : j \in Span(LogPiece(f)) <=> j \in 1..(Len(l) + 1)
        /\ \A j \in 1..(Len(l) + 1) : TermAt(LogPiece(f), j) = f[j].term
        /\ \A j : j \in Span(LogPiece(l)) <=> j \in 1..Len(l)
        /\ \A j \in 1..Len(l) : TermAt(LogPiece(l), j) = l[j].term
    BY <2>2, WholeLog
  <2>4. HasIn(l, k, v) => HasIn(f, k, v)
    <3> SUFFICES ASSUME HasIn(l, k, v) PROVE HasIn(f, k, v)
      OBVIOUS
    <3>1. k \in 1..Len(l) /\ l[k].term = v
      BY DEF HasIn
    <3>2. k \in 1..Len(f) /\ f[k] = l[k]
      BY <2>2, <3>1
    <3> QED
      BY <3>1, <3>2 DEF HasIn
  <2>5. Beyond(LogPiece(l), k, v) => HasIn(l, k, v)
    BY <2>2, BeyondHas DEF Fitting
  <2>6. ASSUME Beyond(LogPiece(f), k, v), ~ Beyond(LogPiece(l), k, v) PROVE HasIn(f, k, v)
    <3>1. x.term > v \/ (x.term = v /\ Len(l) + 1 >= k)
      <4>1. PICK j \in 1..(Len(l) + 1) : f[j].term > v \/ (f[j].term = v /\ j >= k)
        BY <2>3, <2>6 DEF Beyond
      <4>2. j \notin 1..Len(l)
        BY <2>2, <2>3, <2>6, <4>1 DEF Beyond
      <4>3. j = Len(l) + 1
        BY <2>2, <4>2
      <4> QED
        BY <2>2, <4>1, <4>3
    <3>2. x.term = currentTerm'[n] /\ x.term \in Nat
      BY <1>7 DEF Appends, Entry
    <3>3. CASE role[n] = "leader" /\ currentTerm'[n] = currentTerm[n]
      <4>1. EndsWith(LogPiece(l), x.term)
        BY <1>1, <3>2, <3>3 DEF RunInv, LeadersOwn, l
      <4>2. Len(l) > 0 /\ l[Len(l)].term = x.term
        BY <2>2, <4>1, EndsWithLog
      <4>3. Len(l) \in Span(LogPiece(l)) /\ TermAt(LogPiece(l), Len(l)) = x.term
        BY <2>2, <2>3, <4>2
      <4>4. ~ (x.term > v) /\ ~ (x.term = v /\ Len(l) >= k)
        BY <2>6, <4>3 DEF Beyond
      <4>5. k = Len(l) + 1 /\ x.term = v
        BY <2>2, <3>1, <4>4
      <4>6. k \in 1..Len(f) /\ f[k].term = v
        BY <2>2, <4>5
      <4> QED
        BY <4>6 DEF HasIn
    <3>4. CASE Wins(n)
      <4>1. x.term # v
        <5>1. PICK e \in leaders : e[1] = v
          OBVIOUS
        <5>2. e \in leaders' /\ <<currentTerm'[n], n>> \in leaders'
          BY <3>4 DEF Wins
        <5>3. e[1] = currentTerm'[n] => e[2] = n
          BY <1>1, <5>2 DEF ElectionSafety
        <5>4. e = <<e[1], e[2]>>
          <6>1. leaders \subseteq Nat \X Server
            BY <1>1 DEF TypeOK
          <6>2. e \in Nat \X Server
            BY <6>1
          <6> QED
            BY <6>2
        <5>5. <<currentTerm'[n], n>> \notin leaders
          BY <3>4 DEF Wins
        <5> QED
          BY <3>2, <5>1, <5>3, <5>4, <5>5
      <4>2. Has(n, k, v)
        BY <3>1, <3>2, <3>4, <4>1
      <4>3. HasIn(l, k, v)
        BY <4>2 DEF Has, l
      <4> QED
        BY <2>4, <4>3
    <3> QED
      BY <1>7, <3>3, <3>4 DEF Appends
  <2>7. Beyond(LogPiece(f), k, v) => HasIn(f, k, v)
    BY <2>4, <2>5, <2>6
  <2>8. Beyond(LogPiece(f), k, v) => Fits(LogPiece(f), k, v)
    BY <1>4, <2>1, <2>7
  <2> QED
    BY <1>3, <2>1, <2>8
<1>8. ASSUME NEW m \in appReqs, Splices(m) PROVE Fitting(k, v)'
  <2> DEFINE n == m.dst
             f == Splice(log[n], m.prevIdx, m.entries)
  <2>1. /\ n \in Server /\ IsPiece(m) /\ log'[n] = f
        /\ Pieces' \subseteq Pieces \cup {LogPiece(f)}
    BY <1>1, <1>8, PiecesSpliced
  <2>2. /\ m \in Pieces /\ LogPiece(log[n]) \in Pieces /\ log[n] \in Log
        /\ m.prevIdx <= Len(log[n]) /\ ~ Clashes(log[n], m.prevIdx, m.prevTerm)
    BY <1>1, <1>8, <2>1 DEF Splices, Pieces
  <2>3. /\ Beyond(LogPiece(log[n]), k, v) => Fits(LogPiece(log[n]), k, v)
        /\ Beyond(m, k, v) => Fits(m, k, v)
    BY <2>2 DEF Fitting
  <2>4. Beyond(LogPiece(f), k, v) => HasIn(f, k, v)
    BY <2>1, <2>2, <2>3, FitsSplice
  <2> HIDE DEF f
  <2>5. Beyond(LogPiece(f), k, v) => Fits(LogPiece(f), k, v)
    BY <1>4, <2>1, <2>4
  <2> QED
    BY <1>3, <2>1, <2>5
<1> QED
  BY <1>5, <1>6, <1>7, <1>8 DEF Kinds

\* Who voted for a winner: the winner itself, or a node whose vote the winner
\* already stood for.
LEMMA WinnerVotes ==
  ASSUME TypeOK, TypeOK', BallotsStarted, [Next]_vars, NEW n \in Server, Wins(n),
         NEW p, <<p, currentTerm'[n], n>> \in ballots'
  PROVE  \/ p = n
         \/ /\ role[n] = "candidate" /\ currentTerm'[n] = currentTerm[n]
            /\ <<p, currentTerm[n], n>> \in ballots
<1>1. leaders' # leaders /\ <<currentTerm'[n], n>> \in leaders'
      /\ <<currentTerm'[n], n>> \notin leaders
  BY DEF Wins
<1>2. ASSUME NEW q \in Server, ElectionTimeout(q)
      PROVE  p = n
  <2> DEFINE t == currentTerm[q] + 1
  <2>1. /\ leaders' = leaders \/ leaders' = leaders \cup {<<t, q>>}
        /\ ballots' = ballots \cup {<<q, t, q>>}
        /\ currentTerm' = [currentTerm EXCEPT ![q] = t]
    BY <1>2 DEF ElectionTimeout, BecomeLeader
  <2>2. q = n
    BY <1>1, <2>1
  <2>3. currentTerm'[n] = t /\ t \in Nat /\ currentTerm[n] \in Nat /\ currentTerm[n] < t
    BY <2>1, <2>2, NodeTypes
  <2> HIDE DEF t
  <2>4. CASE <<p, t, n>> \in ballots
    <3>1. <<p, t, n>>[2] <= currentTerm[<<p, t, n>>[3]]
      BY <2>4 DEF BallotsStarted
    <3> QED
      BY <2>3, <3>1
  <2>5. CASE <<p, t, n>> = <<q, t, q>>
    BY <2>2, <2>5
  <2> QED
    BY <2>1, <2>3, <2>4, <2>5
<1>3. ASSUME NEW m \in voteReps, ReceiveVote(m)
      PROVE  /\ role[n] = "candidate" /\ currentTerm'[n] = currentTerm[n]
             /\ <<p, currentTerm[n], n>> \in ballots
  <2>1. /\ UNCHANGED ballots
        /\ leaders' = leaders \/
             /\ role[m.dst] = "candidate" /\ UNCHANGED currentTerm
             /\ leaders' = leaders \cup {<<currentTerm[m.dst], m.dst>>}
    BY <1>3 DEF ReceiveVote, BecomeLeader
  <2>2. m.dst = n /\ role[n] = "candidate" /\ UNCHANGED currentTerm
    BY <1>1, <2>1
  <2> QED
    BY <2>1, <2>2
<1>4. CASE UNCHANGED vars
  BY <1>1, <1>4 DEF vars, history
<1>5. CASE \/ \E m \in voteReqs : RequestVote(m)
           \/ \E m \in appReqs : AppendEntries(m)
  BY <1>1, <1>5 DEF RequestVote, AppendEntries
<1>6. CASE \/ \E q \in Server, cmd \in Cmd : Start(q, cmd)
           \/ \E q, r \in Server : ReplicateToPeer(q, r)
           \/ \E m \in appReps : ReceiveAppend(m)
           \/ \E m \in appReqs \cup appReps : CallFails(m)
           \/ \E q \in Server : Shutdown(q) \/ Crash(q) \/ Make(q)
  BY <1>1, <1>6 DEF Start, ReplicateToPeer, ReceiveAppend, CallFails, Shutdown, Crash, Make, history
<1> QED
  BY <1>2, <1>3, <1>4, <1>5, <1>6 DEF Next

\* Who wins a later term with the vote of a node that keeps the entry has it.
LEMMA WinnerHas ==
  ASSUME TypeOK, TypeOK', BallotsStarted, [Next]_vars, NEW n \in Server, Wins(n),
         NEW p \in Server, <<p, currentTerm'[n], n>> \in ballots', NEW k, NEW v \in Nat,
         Keeps(p, k, v), currentTerm'[n] > v
  PROVE  Has(n, k, v)
<1>1. CASE p = n
  BY <1>1 DEF Keeps
<1>2. CASE /\ role[n] = "candidate" /\ currentTerm'[n] = currentTerm[n]
           /\ <<p, currentTerm[n], n>> \in ballots
  BY <1>2 DEF Keeps
<1> QED
  BY <1>1, <1>2, WinnerVotes

LEMMA KeepsStays ==
  ASSUME BaseInv, BaseInv', Kinds, [Next]_vars, NEW k \in Nat \ {0}, NEW v \in Nat \ {0},
         Fitting(k, v), NEW p \in Server, Keeps(p, k, v)
  PROVE  Keeps(p, k, v)'
<1>1. /\ TypeOK /\ TypeOK' /\ VoteInv
      /\ \A q \in Server : /\ log[q] \in Log /\ currentTerm[q] \in Nat
                           /\ OrderedUpTo(log[q], currentTerm[q])
                           /\ LogPiece(log[q]) \in Pieces
  BY BaseFacts, BaseNext DEF BaseInv, Basics
<1>2. \A q \in Server : currentTerm'[q] \in Nat
  BY BaseNext DEF Basics
<1>3. \A q \in Server :
        /\ currentTerm'[q] >= currentTerm[q]
        /\ role'[q] = "candidate" =>
             \/ currentTerm'[q] > currentTerm[q]
             \/ role[q] = "candidate" /\ currentTerm'[q] = currentTerm[q] /\ log'[q] = log[q]
  BY <1>1, CandidatesStand
<1>4. currentTerm'[p] >= v
  BY <1>1, <1>2, <1>3 DEF Keeps
<1>5. Has(p, k, v)'
  BY HasStays DEF Keeps
<1>6. ASSUME NEW c \in Server, role'[c] = "candidate", currentTerm'[c] > v,
             <<p, currentTerm'[c], c>> \in ballots'
      PROVE  Has(c, k, v)'
  <2>1. CASE <<p, currentTerm'[c], c>> \in ballots
    <3>1. <<p, currentTerm'[c], c>>[2] <= currentTerm[<<p, currentTerm'[c], c>>[3]]
      BY <1>1, <2>1 DEF VoteInv, BallotsStarted
    <3>2. role[c] = "candidate" /\ currentTerm'[c] = currentTerm[c] /\ log'[c] = log[c]
      BY <1>1, <1>2, <1>3, <1>6, <3>1
    <3>3. Has(c, k, v)
      BY <1>6, <2>1, <3>2 DEF Keeps
    <3> QED
      BY <3>2, <3>3 DEF Has
  <2>2. ASSUME NEW n \in Server, ElectionTimeout(n), <<p, currentTerm'[c], c>> \notin ballots
        PROVE  Has(c, k, v)'
    <3>1. <<p, currentTerm'[c], c>> = <<n, currentTerm[n] + 1, n>>
      BY <1>6, <2>2 DEF ElectionTimeout
    <3> QED
      BY <1>5, <3>1
  <2>3. ASSUME NEW m \in voteReqs, RequestVote(m), <<p, currentTerm'[c], c>> \notin ballots
        PROVE  Has(c, k, v)'
    <3>1. /\ <<p, currentTerm'[c], c>> = <<m.dst, m.term, m.src>>
          /\ UpToDate(m.lastIdx, m.lastTerm, log[m.dst])
      BY <1>6, <2>3 DEF RequestVote
    <3>2. p = m.dst /\ currentTerm'[c] = m.term /\ c = m.src
      BY <3>1
    <3>3. m.term <= currentTerm[c]
      BY <1>1, <3>2 DEF VoteInv, VoteCallsTrue
    <3>4. role[c] = "candidate" /\ currentTerm[c] = m.term /\ log'[c] = log[c]
      BY <1>1, <1>2, <1>3, <1>6, <3>2, <3>3
    <3>5. m.lastIdx = Len(log[c]) /\ m.lastTerm = LastTerm(log[c])
      BY <1>1, <3>2, <3>4 DEF VoteInv, VoteCallsTrue
    <3>6. HasIn(log[p], k, v) /\ UpToDate(Len(log[c]), LastTerm(log[c]), log[p])
      BY <3>1, <3>2, <3>5 DEF Keeps, Has
    <3>7. Beyond(LogPiece(log[c]), k, v) => Fits(LogPiece(log[c]), k, v)
      BY <1>1 DEF Fitting
    <3>8. HasIn(log[c], k, v)
      BY <1>1, <3>6, <3>7, UpToDateHas
    <3> QED
      BY <3>4, <3>8 DEF Has
  <2>4. CASE UNCHANGED ballots
    BY <1>6, <2>1, <2>4
  <2> QED
    BY <1>1, <2>1, <2>2, <2>3, <2>4, BallotSteps
<1> QED
  BY <1>4, <1>5, <1>6 DEF Keeps

-----------------------------------------------------------------------------
(* The positions of a leader's own term: given up, or safe.                *)

Quorums == {Q \in SUBSET Server : Cardinality(Q) >= Majority}

\* Leader n knows that p holds position k, or the reply that says so is on
\* its way.
Acker(n, k, p) ==
  \/ matchIndex[n][p] >= k
  \/ \E r \in appReps :
       /\ r.src = p /\ r.dst = n /\ r.boot = boots[n] /\ r.round = currentTerm[n]
       /\ r.success /\ r.prevIdx + r.sent >= k

\* A majority has moved on to later terms without acknowledging position k.
Never(n, k) ==
  \E Q \in Quorums : \A q \in Q : currentTerm[q] > currentTerm[n] /\ ~ Acker(n, k, q)

Safe(n, k) ==
  \/ Never(n, k)
  \/ /\ Fitting(k, currentTerm[n])
     /\ \A p \in Server : Acker(n, k, p) => Keeps(p, k, currentTerm[n])

LeadersSafe ==
  \A n \in Server : role[n] = "leader" =>
    \A k \in 1..Len(log[n]) : log[n][k].term = currentTerm[n] => Safe(n, k)

\* Every election was won with the votes of a majority, and the voters are
\* not behind it.
WonByQuorum ==
  \A e \in leaders : \E Q \in Quorums :
    \A q \in Q : <<q, e[1], e[2]>> \in ballots /\ e[1] <= currentTerm[q]

\* A node has not voted in later terms than its own.
HoldersKeep ==
  \A p \in Server, k \in Nat : Has(p, k, currentTerm[p]) => Keeps(p, k, currentTerm[p])

\* Who acknowledges a leader of its own term holds what it acknowledges.
AckersHold ==
  \A n, p \in Server : \A k \in 1..Len(log[n]) :
    /\ role[n] = "leader" /\ currentTerm[p] = currentTerm[n]
    /\ Acker(n, k, p) /\ log[n][k].term = currentTerm[n]
    => Has(p, k, currentTerm[n])

LEMMA VotingFacts == BaseInv => WonByQuorum /\ HoldersKeep /\ AckersHold
<1> SUFFICES ASSUME BaseInv PROVE WonByQuorum /\ HoldersKeep /\ AckersHold
  OBVIOUS
<1>1. /\ TypeOK /\ VotesRecorded /\ ElectedByMajority /\ AckInv /\ MatchInv
      /\ \A q \in Server : /\ log[q] \in Log /\ Len(log[q]) \in Nat /\ currentTerm[q] \in Nat
  BY BaseFacts DEF BaseInv, ElectionInv, Basics
<1>2. WonByQuorum
  <2> SUFFICES ASSUME NEW e \in leaders
               PROVE  \E Q \in Quorums : \A q \in Q :
                        <<q, e[1], e[2]>> \in ballots /\ e[1] <= currentTerm[q]
    BY DEF WonByQuorum
  <2>1. PICK Q \in SUBSET Server : /\ Cardinality(Q) >= Majority
                                   /\ \A p \in Q : <<p, e[1], e[2]>> \in ballots
    BY <1>1 DEF ElectedByMajority
  <2>2. ASSUME NEW q \in Q PROVE e[1] <= currentTerm[q]
    <3>1. <<q, e[1], e[2]>> \in ballots
      BY <2>1
    <3>2. <<q, e[1], e[2]>>[2] <= currentTerm[<<q, e[1], e[2]>>[1]]
      BY <1>1, <3>1 DEF VotesRecorded
    <3> QED
      BY <3>2
  <2> QED
    BY <2>1, <2>2 DEF Quorums
<1>3. HoldersKeep
  <2> SUFFICES ASSUME NEW p \in Server, NEW k \in Nat, Has(p, k, currentTerm[p])
               PROVE  Keeps(p, k, currentTerm[p])
    BY DEF HoldersKeep
  <2>1. ASSUME NEW c \in Server, currentTerm[c] > currentTerm[p],
               <<p, currentTerm[c], c>> \in ballots
        PROVE  FALSE
    <3>1. <<p, currentTerm[c], c>>[2] <= currentTerm[<<p, currentTerm[c], c>>[1]]
      BY <1>1, <2>1 DEF VotesRecorded
    <3> QED
      BY <1>1, <2>1, <3>1
  <2> QED
    BY <1>1, <2>1 DEF Keeps
<1>4. AckersHold
  <2> SUFFICES ASSUME NEW n \in Server, NEW p \in Server, NEW k \in 1..Len(log[n]),
                      role[n] = "leader", currentTerm[p] = currentTerm[n],
                      Acker(n, k, p), log[n][k].term = currentTerm[n]
               PROVE  Has(p, k, currentTerm[n])
    BY DEF AckersHold
  <2>1. ASSUME NEW i \in Nat, i >= k, Holds(n, p, i) PROVE Has(p, k, currentTerm[n])
    <3>1. k \in 1..i /\ k \in 1..Len(log[p]) /\ log[p][k] = log[n][k]
      BY <1>1, <2>1 DEF Holds
    <3> QED
      BY <3>1 DEF Has, HasIn
  <2>2. CASE matchIndex[n][p] >= k
    <3>1. matchIndex[n][p] \in Nat
      BY <1>1 DEF TypeOK
    <3>2. Holds(n, p, matchIndex[n][p])
      BY <1>1 DEF AckInv, MatchesTrue, MatchedTrue
    <3> QED
      BY <2>1, <2>2, <3>1, <3>2
  <2>3. ASSUME NEW r \in appReps, r.src = p, r.dst = n, r.round = currentTerm[n],
               r.success, r.prevIdx + r.sent >= k
        PROVE  Has(p, k, currentTerm[n])
    <3>1. r.prevIdx + r.sent \in Nat
      <4>1. r \in AppRep
        BY <1>1 DEF TypeOK
      <4>2. r.prevIdx \in Nat /\ r.sent \in Nat
        BY <4>1 DEF AppRep
      <4> QED
        BY <4>2
    <3>2. Holds(n, p, r.prevIdx + r.sent)
      BY <1>1, <2>3 DEF AckInv, RepliesTrue, ReplyTrue, Leads
    <3> QED
      BY <2>1, <2>3, <3>1, <3>2
  <2> QED
    BY <2>2, <2>3 DEF Acker
<1> QED
  BY <1>2, <1>3, <1>4

LEMMA VotingNext == BaseInv' => WonByQuorum' /\ HoldersKeep' /\ AckersHold'
BY VotingFacts, PTL

\* What a step may do to the log of a node that leads after it.
LEMMA LeaderGoes ==
  ASSUME TypeOK, Kinds, NEW n \in Server, role'[n] = "leader"
  PROVE  \/ role[n] = "leader" /\ currentTerm'[n] = currentTerm[n] /\ log'[n] = log[n]
         \/ \E x \in Entry : Appends(n, x)
<1>1. CASE Quiet
  BY <1>1 DEF Quiet, Calm
<1>2. CASE \E q \in Server, m \in AppReq : Sends(q, m)
  BY <1>2 DEF Sends
<1>3. ASSUME NEW q \in Server, NEW x \in Entry, Appends(q, x)
      PROVE  \/ role[n] = "leader" /\ currentTerm'[n] = currentTerm[n] /\ log'[n] = log[n]
             \/ Appends(n, x)
  <2>1. CASE q = n
    BY <1>3, <2>1
  <2>2. CASE q # n
    <3>1. log'[n] = log[n]
      BY <1>3, <2>2, PiecesGrown
    <3>2. role'[n] = role[n] /\ currentTerm'[n] = currentTerm[n]
      BY <1>3, <2>2 DEF Appends
    <3> QED
      BY <3>1, <3>2
  <2> QED
    BY <2>1, <2>2
<1>4. ASSUME NEW m \in appReqs, Splices(m)
      PROVE  role[n] = "leader" /\ currentTerm'[n] = currentTerm[n] /\ log'[n] = log[n]
  <2>1. /\ role'[m.dst] = "follower"
        /\ \A q \in Server \ {m.dst} : /\ log'[q] = log[q] /\ role'[q] = role[q]
                                       /\ currentTerm'[q] = currentTerm[q]
    BY <1>4, PiecesSpliced
  <2>2. n # m.dst
    BY <2>1
  <2> QED
    BY <2>1, <2>2
<1> QED
  BY <1>1, <1>2, <1>3, <1>4 DEF Kinds

\* While a leader leads on, only nodes of its own term acknowledge anew.
LEMMA AckersKept ==
  ASSUME TypeOK, TypeOK', [Next]_vars, NEW n \in Server, role[n] = "leader", role'[n] = "leader",
         currentTerm'[n] = currentTerm[n],
         NEW p \in Server, NEW k \in Nat, Acker(n, k, p)'
  PROVE  Acker(n, k, p) \/ currentTerm'[p] = currentTerm[n]
<1>1. CASE p = n
  BY <1>1
<1>2. ASSUME matchIndex'[n] = matchIndex[n], boots'[n] = boots[n],
             \A r \in appReps' : r \in appReps \/ currentTerm'[r.src] = r.round
      PROVE  Acker(n, k, p) \/ currentTerm'[p] = currentTerm[n]
  BY <1>2 DEF Acker
<1>3. /\ matchIndex \in [Server -> [Server -> Nat]] /\ currentTerm \in [Server -> Nat]
      /\ boots \in [Server -> Nat] /\ role \in [Server -> Role]
  BY DEF TypeOK
<1>4. CASE UNCHANGED vars
  BY <1>2, <1>4 DEF vars, leaderVars, appRPCs, processVars
<1>5. ASSUME NEW q \in Server, ElectionTimeout(q) PROVE matchIndex'[n] = matchIndex[n]
  <2>1. q # n
    BY <1>5 DEF ElectionTimeout
  <2> QED
    BY <1>3, <1>5, <2>1 DEF ElectionTimeout, BecomeLeader, leaderVars
<1>6. CASE \E q \in Server : ElectionTimeout(q)
  BY <1>2, <1>5, <1>6 DEF ElectionTimeout, appRPCs, processVars
<1>7. CASE \E m \in voteReqs : RequestVote(m)
  BY <1>2, <1>7 DEF RequestVote, leaderVars, appRPCs, processVars
<1>8. ASSUME NEW m \in voteReps, ReceiveVote(m) PROVE matchIndex'[n] = matchIndex[n]
  <2>1. \/ UNCHANGED leaderVars
        \/ role[m.dst] = "candidate" /\ BecomeLeader(m.dst, currentTerm[m.dst])
    BY <1>8 DEF ReceiveVote
  <2>2. m.dst \in Server
    BY DEF TypeOK, VoteRep
  <2> QED
    BY <1>3, <2>1, <2>2 DEF BecomeLeader, leaderVars
<1>9. CASE \E m \in voteReps : ReceiveVote(m)
  BY <1>2, <1>8, <1>9 DEF ReceiveVote, appRPCs, processVars
<1>10. ASSUME NEW q \in Server, NEW cmd \in Cmd, Start(q, cmd)
       PROVE  Acker(n, k, p) \/ currentTerm'[p] = currentTerm[n]
  <2>1. UNCHANGED <<appReps, boots, currentTerm>>
    BY <1>10 DEF Start, appRPCs, processVars, electionVars
  <2>2. p # n => matchIndex'[n][p] = matchIndex[n][p]
    BY <1>3, <1>10 DEF Start
  <2> QED
    BY <1>1, <2>1, <2>2 DEF Acker
<1>11. CASE \E q, r \in Server : ReplicateToPeer(q, r)
  BY <1>2, <1>11 DEF ReplicateToPeer, leaderVars, processVars
<1>12. ASSUME NEW m \in appReqs, AppendEntries(m)
       PROVE  Acker(n, k, p) \/ currentTerm'[p] = currentTerm[n]
  <2>1. UNCHANGED <<matchIndex, boots>>
    BY <1>12 DEF AppendEntries, leaderVars, processVars
  <2>2. ASSUME NEW r \in appReps', r \notin appReps, r.success
        PROVE  currentTerm'[r.src] = r.round
    <3>1. m.dst \in Server
      BY DEF TypeOK, AppReq
    <3>2. r.src = m.dst /\ r.round = m.term
      BY <1>12, <2>2 DEF AppendEntries, AppendReply
    <3>3. m.term >= currentTerm[m.dst] /\ StepDown(m.dst, m.term, m.src)
      BY <1>12, <2>2 DEF AppendEntries, AppendReply
    <3> QED
      BY <1>3, <3>1, <3>2, <3>3 DEF StepDown
  <2> QED
    BY <2>1, <2>2 DEF Acker
<1>13. ASSUME NEW m \in appReps, ReceiveAppend(m)
       PROVE  Acker(n, k, p) \/ currentTerm'[p] = currentTerm[n]
  <2>1. appReps' \subseteq appReps /\ UNCHANGED boots /\ boots[m.dst] = m.boot
    BY <1>13 DEF ReceiveAppend, processVars
  <2>2. CASE UNCHANGED matchIndex
    BY <2>1, <2>2 DEF Acker
  <2>3. CASE /\ currentTerm[m.dst] = m.round /\ m.success
             /\ matchIndex' = [matchIndex EXCEPT ![m.dst] =
                  [matchIndex[m.dst] EXCEPT ![m.src] =
                     Acked(matchIndex[m.dst][m.src], m.prevIdx, m.sent)]]
    <3>1. m.dst \in Server /\ m.src \in Server /\ m.prevIdx \in Nat /\ m.sent \in Nat
      <4>1. m \in AppRep
        BY DEF TypeOK
      <4> QED
        BY <4>1 DEF AppRep
    <3>2. CASE m.dst = n /\ m.src = p
      <4>1. matchIndex'[n][p] = Acked(matchIndex[n][p], m.prevIdx, m.sent)
        BY <1>3, <2>3, <3>1, <3>2
      <4>2. matchIndex[n][p] \in Nat /\ m.prevIdx + m.sent \in Nat
        BY <1>3, <3>1
      <4>3. matchIndex'[n][p] \in {matchIndex[n][p], m.prevIdx + m.sent}
        BY <4>1, <4>2, GreaterOfTwo DEF Acked
      <4> QED
        BY <2>1, <2>3, <3>2, <4>3 DEF Acker
    <3>3. CASE ~ (m.dst = n /\ m.src = p)
      <4>1. matchIndex'[n][p] = matchIndex[n][p]
        BY <1>3, <2>3, <3>1, <3>3
      <4> QED
        BY <2>1, <4>1 DEF Acker
    <3> QED
      BY <3>2, <3>3
  <2> QED
    BY <1>13, <2>2, <2>3 DEF ReceiveAppend, Heeds, leaderVars
<1>14. CASE \E m \in appReqs \cup appReps : CallFails(m)
  BY <1>2, <1>14 DEF CallFails, leaderVars, processVars
<1>15. CASE \E q \in Server : Shutdown(q) \/ Crash(q)
  BY <1>2, <1>15 DEF Shutdown, Crash, leaderVars, appRPCs
<1>16. ASSUME NEW q \in Server, Make(q)
       PROVE  matchIndex'[n] = matchIndex[n] /\ boots'[n] = boots[n]
  <2>1. q # n
    BY <1>3, <1>16 DEF Make
  <2> QED
    BY <1>3, <1>16, <2>1 DEF Make
<1>17. CASE \E q \in Server : Make(q)
  BY <1>2, <1>16, <1>17 DEF Make, appRPCs
<1> QED
  BY <1>4, <1>6, <1>7, <1>9, <1>10, <1>11, <1>12, <1>13, <1>14, <1>15, <1>17 DEF Next

\* At the position a leader appends at, nobody else has acknowledged.
LEMMA FirstAcker ==
  ASSUME LeaderInv, TypeOK', [Next]_vars, NEW n \in Server, role'[n] = "leader",
         log'[n] # log[n], NEW k, k = Len(log[n]) + 1, NEW p \in Server, Acker(n, k, p)'
  PROVE  p = n
<1>1. /\ TypeOK /\ Len(log[n]) \in Nat /\ log \in [Server -> Log]
      /\ matchIndex \in [Server -> [Server -> Nat]] /\ currentTerm \in [Server -> Nat]
      /\ role \in [Server -> Role]
  BY NodeTypes DEF LeaderInv, OrderInv, TypeOK
\* A reply on its way does not reach so far.
<1>2. ASSUME NEW r \in appReps, r.dst = n, r.boot = boots[n],
             \/ r.round > currentTerm[n]
             \/ r.round = currentTerm[n] /\ role[n] # "follower"
      PROVE  ~ (r.prevIdx + r.sent >= k)
  <2>1. CallInLog(n, r.boot, r.round, r.prevIdx, r.sent)
    BY <1>2 DEF LeaderInv, CallsInLog
  <2>2. r.round \in Nat /\ r.prevIdx + r.sent \in Nat /\ currentTerm[n] \in Nat
    <3>1. r \in AppRep
      BY <1>1 DEF TypeOK
    <3>2. r.round \in Nat /\ r.prevIdx \in Nat /\ r.sent \in Nat
      BY <3>1 DEF AppRep
    <3> QED
      BY <1>1, <3>2
  <2>3. role[n] = "leader" /\ r.prevIdx + r.sent <= Len(log[n])
    BY <1>1, <1>2, <2>1, <2>2 DEF CallInLog, Role
  <2> QED
    BY <1>1, <2>2, <2>3
<1>3. ASSUME matchIndex'[n][p] < k \/ p = n, UNCHANGED <<appReps, boots>>,
             \/ currentTerm'[n] > currentTerm[n]
             \/ currentTerm'[n] = currentTerm[n] /\ role[n] # "follower"
      PROVE  p = n
  <2>1. matchIndex'[n][p] \in Nat /\ k \in Nat
    BY <1>1 DEF TypeOK
  <2>2. CASE matchIndex'[n][p] >= k
    BY <1>3, <2>1, <2>2
  <2>3. ASSUME NEW r \in appReps', r.dst = n, r.boot = boots'[n], r.round = currentTerm'[n],
               r.prevIdx + r.sent >= k
        PROVE  p = n
    <3>1. r \in appReps /\ r.boot = boots[n]
      BY <1>3, <2>3
    <3>2. \/ r.round > currentTerm[n]
          \/ r.round = currentTerm[n] /\ role[n] # "follower"
      BY <1>3, <2>3
    <3> QED
      BY <1>2, <2>3, <3>1, <3>2
  <2> QED
    BY <2>2, <2>3 DEF Acker
<1>4. ASSUME NEW t \in Nat, BecomeLeader(n, t) PROVE matchIndex'[n][p] < k \/ p = n
  <2>1. matchIndex'[n] = [q \in Server |->
                            IF q = n THEN Len(Append(log[n], [term |-> t, cmd |-> NoOp])) ELSE 0]
    BY <1>1, <1>4 DEF BecomeLeader
  <2> QED
    BY <1>1, <2>1
<1>5. ASSUME NEW q \in Server, ElectionTimeout(q) PROVE p = n
  <2>1. q = n
    BY <1>1, <1>5 DEF ElectionTimeout, BecomeLeader, logVars
  <2>2. currentTerm'[n] = currentTerm[n] + 1 /\ UNCHANGED <<appReps, boots>>
    BY <1>1, <1>5, <2>1 DEF ElectionTimeout, appRPCs, processVars
  <2>3. BecomeLeader(n, currentTerm[n] + 1)
    BY <1>5, <2>1 DEF ElectionTimeout, logVars
  <2> QED
    BY <1>1, <1>3, <1>4, <2>2, <2>3
<1>6. ASSUME NEW m \in voteReps, ReceiveVote(m) PROVE p = n
  <2>1. m.dst \in Server
    BY <1>1 DEF TypeOK, VoteRep
  <2>2. /\ role[m.dst] = "candidate" /\ UNCHANGED currentTerm
        /\ BecomeLeader(m.dst, currentTerm[m.dst])
    BY <1>6 DEF ReceiveVote, logVars
  <2>3. m.dst = n
    BY <1>1, <2>1, <2>2 DEF BecomeLeader
  <2>4. UNCHANGED <<appReps, boots>>
    BY <1>6 DEF ReceiveVote, appRPCs, processVars
  <2> QED
    BY <1>1, <1>3, <1>4, <2>2, <2>3, <2>4
<1>7. ASSUME NEW q \in Server, NEW cmd \in Cmd, Start(q, cmd) PROVE p = n
  <2>1. q = n /\ role[n] = "leader"
    BY <1>1, <1>7 DEF Start
  <2>2. UNCHANGED <<appReps, boots, currentTerm>>
    BY <1>7 DEF Start, appRPCs, processVars, electionVars
  <2>3. p # n => matchIndex'[n][p] = matchIndex[n][p]
    BY <1>1, <1>7, <2>1 DEF Start
  <2>4. matchIndex[n][p] <= Len(log[n]) /\ matchIndex[n][p] \in Nat
    BY <1>1, <2>1 DEF LeaderInv, NextInLog
  <2> QED
    BY <1>1, <1>3, <2>1, <2>2, <2>3, <2>4
<1>8. ASSUME NEW m \in appReqs, AppendEntries(m) PROVE FALSE
  <2>1. m.dst \in Server
    BY <1>1 DEF TypeOK, AppReq
  <2>2. CASE m.dst = n
    BY <1>1, <1>8, <2>1, <2>2 DEF AppendEntries, StepDown, logVars
  <2>3. CASE m.dst # n
    BY <1>1, <1>8, <2>1, <2>3 DEF AppendEntries, logVars
  <2> QED
    BY <2>2, <2>3
<1>9. CASE UNCHANGED log
  BY <1>9
<1>10. ASSUME NEW q \in Server, Make(q) PROVE FALSE
  BY <1>1, <1>10 DEF Make
<1>11. CASE \/ UNCHANGED vars
            \/ \E m \in voteReqs : RequestVote(m)
            \/ \E q, r \in Server : ReplicateToPeer(q, r)
            \/ \E m \in appReps : ReceiveAppend(m)
            \/ \E m \in appReqs \cup appReps : CallFails(m)
            \/ \E q \in Server : Shutdown(q) \/ Crash(q)
  BY <1>9, <1>11
  DEF vars, RequestVote, ReplicateToPeer, ReceiveAppend, CallFails, Shutdown, Crash, logVars
<1> QED
  BY <1>5, <1>6, <1>7, <1>8, <1>10, <1>11 DEF Next

LEMMA SafeStays ==
  ASSUME BaseInv, BaseInv', Kinds, [Next]_vars, NEW n \in Server, role[n] = "leader",
         role'[n] = "leader", currentTerm'[n] = currentTerm[n],
         NEW k \in 1..Len(log[n]), log[n][k].term = currentTerm[n], Safe(n, k)
  PROVE  Safe(n, k)'
<1>1. /\ TypeOK /\ TypeOK' /\ MatchInv /\ VoteInv
      /\ \A q \in Server : /\ log[q] \in Log /\ Len(log[q]) \in Nat /\ currentTerm[q] \in Nat
                           /\ currentTerm'[q] \in Nat
                           /\ OrderedUpTo(log[q], currentTerm[q])
  BY BaseFacts, BaseNext DEF BaseInv, Basics
<1> PICK t \in Nat \ {0} : t = currentTerm[n]
  <2>1. 1 <= log[n][k].term
    BY <1>1 DEF OrderedUpTo
  <2> QED
    BY <1>1, <2>1
<1>2. k \in Nat \ {0} /\ k \in Nat
  BY <1>1
<1>3. \A q \in Server : currentTerm'[q] >= currentTerm[q]
  BY <1>1, CandidatesStand
<1>4. \A p \in Server : Acker(n, k, p)' => Acker(n, k, p) \/ currentTerm'[p] = t
  BY <1>1, <1>2, AckersKept
<1>5. CASE Never(n, k)
  <2>1. PICK Q \in Quorums : \A q \in Q : currentTerm[q] > currentTerm[n] /\ ~ Acker(n, k, q)
    BY <1>5 DEF Never
  <2>2. ASSUME NEW q \in Q PROVE currentTerm'[q] > currentTerm'[n] /\ ~ Acker(n, k, q)'
    <3>1. q \in Server
      BY DEF Quorums
    <3>2. currentTerm'[q] > t
      BY <1>1, <1>3, <2>1, <3>1
    <3> QED
      BY <1>1, <1>4, <2>1, <3>1, <3>2
  <2>3. Q \in Quorums'
    BY DEF Quorums
  <2> QED
    BY <2>2, <2>3 DEF Never, Safe
<1>6. CASE Fitting(k, t) /\ \A p \in Server : Acker(n, k, p) => Keeps(p, k, t)
  <2>1. CASE \A c \in Server : Wins(c) /\ currentTerm'[c] > t => Has(c, k, t)
    <3>1. \E e \in leaders : e[1] = t
      <4>1. <<t, n>> \in leaders
        BY <1>1 DEF MatchInv, LeadersRecorded
      <4> QED
        BY <4>1
    <3>2. Fitting(k, t)'
      BY <1>2, <1>6, <2>1, <3>1, FittingStays
    <3>3. ASSUME NEW p \in Server, Acker(n, k, p)' PROVE Keeps(p, k, t)'
      <4>1. CASE Acker(n, k, p)
        BY <1>2, <1>6, <4>1, KeepsStays
      <4>2. CASE currentTerm'[p] = t
        <5>1. k \in 1..Len(log'[n]) /\ log'[n][k].term = t
          <6>1. CASE log'[n] = log[n]
            BY <6>1
          <6>2. ASSUME NEW x \in Entry, Appends(n, x)
                PROVE  k \in 1..Len(log'[n]) /\ log'[n][k].term = t
            <7>1. log'[n] = Append(log[n], x)
              BY <1>1, <6>2, PiecesGrown
            <7>2. Len(log'[n]) = Len(log[n]) + 1 /\ log'[n][k] = log[n][k]
              BY <1>1, <7>1, AppendProperties DEF Log
            <7> QED
              BY <1>1, <7>2
          <6> QED
            BY <1>1, <6>1, <6>2, LeaderGoes
        <5>2. AckersHold' /\ HoldersKeep'
          BY VotingNext
        <5>3. Has(p, k, currentTerm[n])'
          BY <3>3, <4>2, <5>1, <5>2 DEF AckersHold
        <5>4. Has(p, k, currentTerm[p])'
          BY <4>2, <5>3 DEF Has
        <5>5. Keeps(p, k, currentTerm[p])'
          BY <1>2, <5>2, <5>4 DEF HoldersKeep
        <5> QED
          BY <4>2, <5>5 DEF Keeps, Has
      <4> QED
        BY <1>4, <3>3, <4>1, <4>2
    <3> QED
      BY <3>2, <3>3 DEF Safe, Fitting, Keeps, Has, Beyond, Fits
  <2>2. ASSUME NEW c \in Server, Wins(c), currentTerm'[c] > t, ~ Has(c, k, t)
        PROVE  Never(n, k)'
    <3>1. /\ <<currentTerm'[c], c>> \in leaders'
          /\ WonByQuorum'
      BY <2>2, VotingNext DEF Wins
    <3> DEFINE e == <<currentTerm'[c], c>>
    <3>2. PICK Q \in Quorums' :
            \A q \in Q : <<q, e[1], e[2]>> \in ballots' /\ e[1] <= currentTerm'[q]
      BY <3>1 DEF WonByQuorum
    <3>3. ASSUME NEW q \in Q PROVE currentTerm'[q] > currentTerm'[n] /\ ~ Acker(n, k, q)'
      <4>1. /\ q \in Server /\ <<q, currentTerm'[c], c>> \in ballots'
            /\ currentTerm'[c] <= currentTerm'[q]
        BY <3>2 DEF Quorums
      <4>2. currentTerm'[q] > t
        BY <1>1, <2>2, <4>1
      <4>3. ASSUME Acker(n, k, q)' PROVE FALSE
        <5>1. Acker(n, k, q)
          BY <1>1, <1>4, <4>1, <4>2, <4>3
        <5>2. Keeps(q, k, t)
          BY <1>6, <4>1, <5>1
        <5> QED
          BY <1>1, <2>2, <4>1, <5>2, WinnerHas DEF VoteInv
      <4> QED
        BY <4>2, <4>3
    <3> QED
      BY <3>3 DEF Never
  <2> QED
    BY <2>1, <2>2 DEF Safe
<1> QED
  BY <1>5, <1>6 DEF Safe

\* A position just appended at is safe, unless a later term is already won.
LEMMA SafeBegins ==
  ASSUME BaseInv, BaseInv', Kinds, [Next]_vars, NEW n \in Server, NEW x \in Entry,
         Appends(n, x), NEW k, k = Len(log[n]) + 1
  PROVE  Safe(n, k)'
<1>1. /\ TypeOK /\ TypeOK' /\ MatchInv /\ RunInv /\ LeaderInv /\ ElectionSafety'
      /\ \A q \in Server : /\ log[q] \in Log /\ Len(log[q]) \in Nat /\ currentTerm[q] \in Nat
                           /\ currentTerm'[q] \in Nat /\ log'[q] \in Log
                           /\ OrderedUpTo(log'[q], currentTerm'[q])
      /\ \A b \in Pieces : IsPiece(b)
  BY BaseFacts, BaseNext DEF BaseInv, Basics
<1> DEFINE l == log[n]
           t == currentTerm'[n]
           f == LogPiece(log'[n])
<1>2. /\ t \in Nat /\ k \in Nat \ {0} /\ l \in Log /\ Len(l) \in Nat /\ k = Len(l) + 1
      /\ x.term = t /\ role'[n] = "leader"
  BY <1>1 DEF Appends
<1>3. log'[n] = Append(l, x) /\ Pieces' \subseteq Pieces \cup {f}
  BY <1>1, PiecesGrown
<1>4. /\ Len(log'[n]) = k /\ log'[n][k] = x /\ k \in 1..Len(log'[n]) /\ log'[n] # log[n]
      /\ HasIn(log'[n], k, t)
  <2>1. Len(log'[n]) = Len(l) + 1 /\ log'[n][Len(l) + 1] = x
    BY <1>2, <1>3, AppendProperties DEF Log
  <2> QED
    BY <1>2, <2>1 DEF HasIn
<1>5. \A p \in Server : Acker(n, k, p)' => p = n
  BY <1>1, <1>2, <1>4, FirstAcker
<1>6. \A q \in Server : currentTerm'[q] >= currentTerm[q]
  BY <1>1, CandidatesStand
<1>7. ASSUME NEW e \in leaders, e[1] > t PROVE Never(n, k)'
  <2>1. PICK Q \in Quorums : \A q \in Q : <<q, e[1], e[2]>> \in ballots /\ e[1] <= currentTerm[q]
    BY VotingFacts DEF WonByQuorum
  <2>2. e[1] \in Nat
    BY <1>1 DEF TypeOK
  <2>3. ASSUME NEW q \in Q PROVE currentTerm'[q] > currentTerm'[n] /\ ~ Acker(n, k, q)'
    <3>1. q \in Server
      BY DEF Quorums
    <3>2. currentTerm'[q] > t
      <4>1. /\ currentTerm[q] \in Nat /\ currentTerm'[q] \in Nat
            /\ currentTerm'[q] >= currentTerm[q]
        BY <1>1, <1>6, <3>1
      <4>2. e[1] <= currentTerm[q]
        BY <2>1
      <4> HIDE DEF t
      <4> QED
        BY <1>2, <1>7, <2>2, <4>1, <4>2
    <3>3. q # n
      BY <1>2, <3>2
    <3> QED
      BY <1>5, <3>1, <3>2, <3>3
  <2>4. Q \in Quorums'
    BY DEF Quorums
  <2> QED
    BY <2>3, <2>4 DEF Never
<1>8. CASE \A e \in leaders : ~ (e[1] > t)
  <2>1. ASSUME NEW b \in Pieces, Beyond(b, k, t) PROVE FALSE
    <3>1. PICK j \in Span(b) : TermAt(b, j) > t \/ (TermAt(b, j) = t /\ j >= k)
      BY <2>1 DEF Beyond
    <3>2. ~ (TermAt(b, j) > t)
      BY <1>1, <1>8 DEF MatchInv, PiecesElected
    <3>3. TermAt(b, j) = x.term
      BY <1>2, <3>1, <3>2
    <3>4. j <= Len(l)
      BY <1>1, <3>3, TermAtEnd
    <3>5. j \in Nat
      BY <1>1, SpanType
    <3> QED
      BY <1>2, <3>1, <3>2, <3>4, <3>5
  <2>2. Fits(f, k, t)
    <3>1. log'[n] \in Log /\ OrderedUpTo(log'[n], t)
      BY <1>1
    <3> HIDE DEF t
    <3> QED
      BY <1>2, <1>4, <3>1, HasFits
  <2>3. \A b \in Pieces' : Beyond(b, k, t) => Fits(b, k, t)
    BY <1>3, <2>1, <2>2
  <2>4. Fitting(k, currentTerm[n])'
    BY <2>3 DEF Fitting, Beyond, Fits
  <2>5. Keeps(n, k, currentTerm[n])'
    <3>1. Has(n, k, currentTerm[n])'
      BY <1>4 DEF Has
    <3> QED
      BY <1>2, <3>1, VotingNext DEF HoldersKeep
  <2> QED
    BY <1>5, <2>4, <2>5 DEF Safe
<1> QED
  BY <1>7, <1>8 DEF Safe

LEMMA LeadersSafeStep ==
  ASSUME BaseInv, BaseInv', Kinds, [Next]_vars, LeadersSafe
  PROVE  LeadersSafe'
<1>1. /\ TypeOK /\ TypeOK' /\ MatchInv /\ RunInv /\ ElectionSafety'
      /\ \A q \in Server : /\ log[q] \in Log /\ Len(log[q]) \in Nat /\ currentTerm[q] \in Nat
                           /\ LogPiece(log[q]) \in Pieces
  BY BaseFacts, BaseNext DEF BaseInv, Basics
<1> SUFFICES ASSUME NEW n \in Server, role'[n] = "leader", NEW k \in 1..Len(log'[n]),
                    log'[n][k].term = currentTerm'[n]
             PROVE  Safe(n, k)'
  BY DEF LeadersSafe
<1>2. CASE /\ role[n] = "leader" /\ currentTerm'[n] = currentTerm[n]
           /\ k \in 1..Len(log[n]) /\ log'[n][k] = log[n][k]
  <2>1. Safe(n, k)
    BY <1>2 DEF LeadersSafe
  <2> QED
    BY <1>2, <2>1, SafeStays
<1>3. ASSUME NEW x \in Entry, Appends(n, x) PROVE Safe(n, k)'
  <2>1. log'[n] = Append(log[n], x)
    BY <1>1, <1>3, PiecesGrown
  <2>2. /\ Len(log'[n]) = Len(log[n]) + 1
        /\ \A j \in 1..Len(log[n]) : log'[n][j] = log[n][j]
    BY <1>1, <2>1, AppendProperties DEF Log
  <2>3. CASE k = Len(log[n]) + 1
    BY <1>3, <2>3, SafeBegins
  <2>4. CASE k # Len(log[n]) + 1
    <3>1. k \in 1..Len(log[n]) /\ log'[n][k] = log[n][k]
      BY <1>1, <2>2, <2>4
    <3>2. x.term = currentTerm'[n]
      BY <1>3 DEF Appends
    <3>3. k \in Span(LogPiece(log[n])) /\ TermAt(LogPiece(log[n]), k) = x.term
      BY <1>1, <3>1, <3>2, WholeLog
    <3>4. role[n] = "leader" /\ currentTerm[n] = x.term
      BY <1>1, <1>3, <3>3, TermAtEnd
    <3> QED
      BY <1>2, <3>1, <3>2, <3>4
  <2> QED
    BY <2>3, <2>4
<1> QED
  BY <1>1, <1>2, <1>3, LeaderGoes

-----------------------------------------------------------------------------
(* Commits.                                                                *)

\* Position k is decided: it has term v for good.
Decided(k, v) == Fitting(k, v) /\ \E Q \in Quorums : \A q \in Q : Keeps(q, k, v)

\* What a node takes for committed is decided.
CommitsSafe ==
  \A p \in Server, k \in Nat \ {0} : k = commitIndex[p] =>
    \E v \in Nat \ {0} : Has(p, k, v) /\ Decided(k, v)

\* So is what a call announces as committed, and the call covers it.
CallsSafe ==
  \A m \in appReqs : m.leaderCommit > 0 =>
    /\ m.leaderCommit <= m.prevIdx + Len(m.entries)
    /\ \E v \in 1..m.term : Decided(m.leaderCommit, v)

LEMMA DecidedStays ==
  ASSUME BaseInv, BaseInv', Kinds, [Next]_vars, NEW k \in Nat \ {0}, NEW v \in Nat \ {0},
         Decided(k, v)
  PROVE  Decided(k, v)'
<1>1. /\ TypeOK /\ TypeOK' /\ MatchInv /\ VoteInv
      /\ \A q \in Server : log[q] \in Log /\ LogPiece(log[q]) \in Pieces
  BY BaseFacts, BaseNext DEF BaseInv, Basics
<1> PICK Q \in Quorums : \A q \in Q : Keeps(q, k, v)
  BY DEF Decided
<1>2. \A q \in Q : q \in Server
  BY DEF Quorums
<1>3. \A R \in Quorums : Q \cap R # {}
  BY MajoritiesMeet DEF Quorums
<1>4. \E e \in leaders : e[1] = v
  <2>1. PICK q \in Q : TRUE
    BY <1>3
  <2>2. k \in 1..Len(log[q]) /\ log[q][k].term = v
    BY <2>1 DEF Keeps, Has, HasIn
  <2>3. LogPiece(log[q]) \in Pieces /\ k \in Span(LogPiece(log[q]))
        /\ TermAt(LogPiece(log[q]), k) = v
    BY <1>1, <1>2, <2>2, WholeLog
  <2> QED
    BY <1>1, <2>3 DEF MatchInv, PiecesElected
<1>5. ASSUME NEW c \in Server, Wins(c), currentTerm'[c] > v PROVE Has(c, k, v)
  <2> DEFINE e == <<currentTerm'[c], c>>
  <2>1. PICK R \in Quorums' : \A q \in R : <<q, e[1], e[2]>> \in ballots'
    BY <1>5, VotingNext DEF Wins, WonByQuorum
  <2>2. R \in Quorums
    BY DEF Quorums
  <2>3. PICK p \in Q \cap R : TRUE
    BY <1>3, <2>2
  <2>4. p \in Server /\ Keeps(p, k, v) /\ <<p, currentTerm'[c], c>> \in ballots'
    BY <1>2, <2>1
  <2> QED
    BY <1>1, <1>5, <2>4, WinnerHas DEF VoteInv
<1>6. Fitting(k, v)'
  BY <1>4, <1>5, FittingStays DEF Decided
<1>7. \A q \in Q : Keeps(q, k, v)'
  BY <1>2, KeepsStays DEF Decided
<1>8. Q \in Quorums'
  BY DEF Quorums
<1> QED
  BY <1>6, <1>7, <1>8 DEF Decided

\* advanceCommitIndex moves the commit position of leader n.
LeaderCommits(n) ==
  /\ role'[n] = "leader"
  /\ commitIndex'[n] \in (commitIndex[n] + 1)..Len(log'[n])
  /\ log'[n][commitIndex'[n]].term = currentTerm'[n]
  /\ Cardinality({p \in Server : matchIndex'[n][p] >= commitIndex'[n]}) >= Majority

\* A follower takes the commit position of call m.
FollowerCommits(m) ==
  /\ Splices(m) /\ m.leaderCommit > commitIndex[m.dst]
  /\ commitIndex'[m.dst] =
       Min({m.leaderCommit, Len(Splice(log[m.dst], m.prevIdx, m.entries))})

\* Only node n may change its commit position, and how.
CommitMoves(n) ==
  /\ \A p \in Server \ {n} : commitIndex'[p] = commitIndex[p]
  /\ \/ commitIndex'[n] = commitIndex[n]
     \/ LeaderCommits(n)
     \/ \E m \in appReqs : m.dst = n /\ FollowerCommits(m)

\* What AdvanceCommitRule says of a new commit position.
Counted(l, t, match, c, new) ==
  \/ new = c
  \/ /\ new \in (c + 1)..Len(l) /\ l[new].term = t
     /\ Cardinality({p \in Server : match[p] >= new}) >= Majority

LEMMA AdvanceMoves ==
  ASSUME TypeOK, TypeOK', NEW n \in Server, role'[n] = "leader", NEW l \in Log, NEW t \in Nat,
         log'[n] = l, currentTerm'[n] = t,
         commitIndex' = [commitIndex EXCEPT ![n] = AdvanceCommit(l, t, matchIndex'[n], @)]
  PROVE  CommitMoves(n)
<1>1. commitIndex \in [Server -> Nat] /\ matchIndex'[n] \in [Server -> Nat]
  BY DEF TypeOK
<1> DEFINE new == AdvanceCommit(l, t, matchIndex'[n], commitIndex[n])
<1>2. commitIndex'[n] = new /\ \A p \in Server \ {n} : commitIndex'[p] = commitIndex[p]
  BY <1>1
<1>3. Counted(l, t, matchIndex'[n], commitIndex[n], new)
  <2>1. PICK match \in [Server -> Nat], c \in Nat : match = matchIndex'[n] /\ c = commitIndex[n]
    BY <1>1
  <2>2. Counted(l, t, match, c, AdvanceCommit(l, t, match, c))
    BY AdvanceCommitRule DEF Counted
  <2> QED
    BY <2>1, <2>2
<1> HIDE DEF new
<1> QED
  BY <1>2, <1>3 DEF Counted, CommitMoves, LeaderCommits

LEMMA CommitSteps ==
  ASSUME NoFaults, BaseInv, BaseInv', [Next]_vars
  PROVE  \E n \in Server : CommitMoves(n)
<1>1. /\ TypeOK /\ TypeOK' /\ DiskCurrent
      /\ log \in [Server -> Log] /\ commitIndex \in [Server -> Nat]
      /\ currentTerm \in [Server -> Nat] /\ role \in [Server -> Role]
      /\ matchIndex \in [Server -> [Server -> Nat]]
      /\ \A q \in Server : log[q] \in Log /\ log'[q] \in Log
                           /\ currentTerm[q] \in Nat /\ currentTerm'[q] \in Nat
  <2>1. /\ TypeOK /\ TypeOK' /\ DiskCurrent
        /\ \A q \in Server : log[q] \in Log /\ log'[q] \in Log
                             /\ currentTerm[q] \in Nat /\ currentTerm'[q] \in Nat
    BY BaseFacts, BaseNext DEF BaseInv, Basics, ElectionInv
  <2>2. commitIndex \in [Server -> Nat] /\ matchIndex \in [Server -> [Server -> Nat]]
    BY <2>1 DEF TypeOK
  <2> QED
    BY <2>1, <2>2, NodeTypes
<1>2. ASSUME UNCHANGED commitIndex PROVE \E n \in Server : CommitMoves(n)
  <2>1. PICK n \in Server : TRUE
    BY RaftLogAssumption
  <2> QED
    BY <1>2, <2>1 DEF CommitMoves
<1>3. ASSUME NEW n \in Server, NEW t \in Nat, BecomeLeader(n, t), currentTerm'[n] = t
      PROVE  CommitMoves(n)
  <2> DEFINE l == Append(log[n], [term |-> t, cmd |-> NoOp])
             mt == [p \in Server |-> IF p = n THEN Len(l) ELSE 0]
  <2>1. /\ role'[n] = "leader" /\ log'[n] = l /\ matchIndex'[n] = mt
        /\ commitIndex' = [commitIndex EXCEPT ![n] = AdvanceCommit(l, t, mt, @)]
    BY <1>1, <1>3 DEF BecomeLeader
  <2>2. l \in Log
    BY <1>1, <2>1
  <2> HIDE DEF l, mt
  <2> QED
    BY <1>1, <1>3, <2>1, <2>2, AdvanceMoves
<1>4. ASSUME NEW n \in Server, ElectionTimeout(n) PROVE \E q \in Server : CommitMoves(q)
  <2>1. currentTerm'[n] = currentTerm[n] + 1 /\ currentTerm[n] + 1 \in Nat
    BY <1>1, <1>4 DEF ElectionTimeout
  <2>2. UNCHANGED commitIndex \/ BecomeLeader(n, currentTerm[n] + 1)
    BY <1>4 DEF ElectionTimeout, logVars
  <2> QED
    BY <1>2, <1>3, <2>1, <2>2
<1>5. ASSUME NEW m \in voteReps, ReceiveVote(m) PROVE \E q \in Server : CommitMoves(q)
  <2>1. m.dst \in Server
    BY <1>1 DEF TypeOK, VoteRep
  <2>2. \/ UNCHANGED commitIndex
        \/ UNCHANGED currentTerm /\ BecomeLeader(m.dst, currentTerm[m.dst])
    BY <1>5 DEF ReceiveVote, logVars
  <2> QED
    BY <1>1, <1>2, <1>3, <2>1, <2>2
<1>6. ASSUME NEW n \in Server, NEW cmd \in Cmd, Start(n, cmd) PROVE CommitMoves(n)
  <2> DEFINE l == Append(log[n], [term |-> currentTerm[n], cmd |-> cmd])
             mt == [matchIndex[n] EXCEPT ![n] = Len(l)]
  <2>1. /\ role'[n] = "leader" /\ log'[n] = l /\ matchIndex'[n] = mt
        /\ currentTerm'[n] = currentTerm[n]
        /\ commitIndex' = [commitIndex EXCEPT ![n] = AdvanceCommit(l, currentTerm[n], mt, @)]
    BY <1>1, <1>6 DEF Start, electionVars
  <2>2. l \in Log
    BY <1>1, <2>1
  <2> HIDE DEF l, mt
  <2> QED
    BY <1>1, <2>1, <2>2, AdvanceMoves
<1>7. ASSUME NEW m \in appReqs, AppendEntries(m) PROVE \E q \in Server : CommitMoves(q)
  <2> DEFINE n == m.dst
             l == Splice(log[n], m.prevIdx, m.entries)
  <2>1. n \in Server /\ m.prevIdx \in Nat /\ Len(log[n]) \in Nat
    <3>1. m \in AppReq
      BY <1>1 DEF TypeOK
    <3> QED
      BY <1>1, <3>1 DEF AppReq, Log
  <2>2. CASE UNCHANGED commitIndex
    BY <1>2, <2>2
  <2>3. CASE /\ m.term >= currentTerm[n] /\ StepDown(n, m.term, m.src)
             /\ ~ (m.prevIdx > Len(log[n])) /\ ~ Clashes(log[n], m.prevIdx, m.prevTerm)
             /\ log' = [log EXCEPT ![n] = l]
             /\ commitIndex' = [commitIndex EXCEPT ![n] =
                  IF m.leaderCommit > @ THEN Min({m.leaderCommit, Len(l)}) ELSE @]
    <3>1. /\ Splices(m)
      <4>1. appReqs' \subseteq appReqs /\ UNCHANGED leaders
        BY <1>7 DEF AppendEntries, AppendReply
      <4>2. m.prevIdx <= Len(log[n])
        BY <2>1, <2>3
      <4> QED
        BY <2>3, <4>1, <4>2 DEF Splices, StepDown
    <3>2. /\ commitIndex'[n] = IF m.leaderCommit > commitIndex[n]
                               THEN Min({m.leaderCommit, Len(l)}) ELSE commitIndex[n]
          /\ \A p \in Server \ {n} : commitIndex'[p] = commitIndex[p]
      BY <1>1, <2>1, <2>3
    <3> QED
      BY <2>1, <3>1, <3>2 DEF CommitMoves, FollowerCommits
  <2> QED
    BY <1>7, <2>2, <2>3 DEF AppendEntries, logVars
<1>8. ASSUME NEW m \in appReps, ReceiveAppend(m) PROVE \E q \in Server : CommitMoves(q)
  <2> DEFINE n  == m.dst
             mt == [matchIndex[n] EXCEPT ![m.src] =
                      Acked(matchIndex[n][m.src], m.prevIdx, m.sent)]
  <2>1. n \in Server
    BY <1>1 DEF TypeOK, AppRep
  <2>2. CASE UNCHANGED commitIndex
    BY <1>2, <2>2
  <2>3. CASE /\ role[n] = "leader" /\ UNCHANGED <<role, currentTerm, log>>
             /\ matchIndex' = [matchIndex EXCEPT ![n] = mt]
             /\ commitIndex' = [commitIndex EXCEPT ![n] =
                  AdvanceCommit(log[n], currentTerm[n], mt, @)]
    <3>1. /\ role'[n] = "leader" /\ log'[n] = log[n] /\ matchIndex'[n] = mt
          /\ currentTerm'[n] = currentTerm[n]
      BY <1>1, <2>1, <2>3
    <3> HIDE DEF mt
    <3> QED
      BY <1>1, <2>1, <2>3, <3>1, AdvanceMoves
  <2> QED
    BY <1>8, <2>2, <2>3 DEF ReceiveAppend, Heeds, logVars
<1>9. ASSUME NEW n \in Server, Make(n) PROVE UNCHANGED commitIndex
  <2>1. Restored(n) = {Snapshot(n)}
    BY <1>1, <1>9 DEF Make, Restored, NoFaults, DiskCurrent
  <2>2. \A s \in Restored(n) : s.commit = commitIndex[n]
    BY <2>1 DEF Snapshot
  <2> QED
    BY <1>1, <1>9, <2>2 DEF Make
<1>10. CASE \/ UNCHANGED vars
            \/ \E m \in voteReqs : RequestVote(m)
            \/ \E q, r \in Server : ReplicateToPeer(q, r)
            \/ \E m \in appReqs \cup appReps : CallFails(m)
            \/ \E q \in Server : Shutdown(q) \/ Crash(q)
  BY <1>2, <1>10 DEF vars, RequestVote, ReplicateToPeer, CallFails, Shutdown, Crash, logVars
<1> QED
  BY <1>2, <1>4, <1>5, <1>6, <1>7, <1>8, <1>9, <1>10 DEF Next

LEMMA CommitInit == Init => LeadersSafe /\ CommitsSafe /\ CallsSafe
BY DEF Init, LeadersSafe, CommitsSafe, CallsSafe

CommitInv == BaseInv /\ LeadersSafe /\ CommitsSafe /\ CallsSafe

\* What is committed is of one of the terms begun so far.
LEMMA CommittedHas ==
  ASSUME CommitInv, NEW p \in Server, NEW k \in Nat \ {0}, k = commitIndex[p]
  PROVE  \E v \in Nat \ {0} : /\ Has(p, k, v) /\ Decided(k, v) /\ v <= currentTerm[p]
                              /\ k \in 1..Len(log[p]) /\ log[p][k].term = v
<1> PICK v \in Nat \ {0} : Has(p, k, v) /\ Decided(k, v)
  BY DEF CommitInv, CommitsSafe
<1>1. OrderedUpTo(log[p], currentTerm[p])
  BY BaseFacts DEF CommitInv, Basics
<1>2. k \in 1..Len(log[p]) /\ log[p][k].term = v
  BY DEF Has, HasIn
<1>3. v <= currentTerm[p]
  BY <1>1, <1>2 DEF OrderedUpTo
<1> QED
  BY <1>2, <1>3

\* No step takes a committed entry out of the log it is in.
LEMMA CommittedStays ==
  ASSUME CommitInv, BaseInv', Kinds, [Next]_vars, NEW p \in Server, NEW k \in Nat \ {0},
         k = commitIndex[p]
  PROVE  \E v \in Nat \ {0} : Has(p, k, v) /\ Has(p, k, v)' /\ Decided(k, v)'
<1> PICK v \in Nat \ {0} : Has(p, k, v) /\ Decided(k, v) /\ v <= currentTerm[p]
  BY CommittedHas
<1>1. BaseInv /\ currentTerm[p] \in Nat /\ currentTerm[p] >= v
  BY BaseFacts DEF CommitInv, Basics
<1>2. Decided(k, v)'
  BY <1>1, DecidedStays
<1>3. Has(p, k, v)'
  BY <1>1, HasStays DEF Decided
<1> QED
  BY <1>2, <1>3

\* What a leader's counting makes it commit is decided.
LeadersDecide ==
  \A n \in Server, k \in Nat \ {0}, v \in Nat \ {0} :
    /\ role[n] = "leader" /\ Has(n, k, v) /\ v = currentTerm[n]
    /\ Cardinality({p \in Server : matchIndex[n][p] >= k}) >= Majority
    => Decided(k, v)

LEMMA LeaderDecides == LeadersSafe => LeadersDecide
<1> SUFFICES ASSUME LeadersSafe, NEW n \in Server, NEW k \in Nat \ {0}, NEW v \in Nat \ {0},
                    role[n] = "leader", Has(n, k, v), v = currentTerm[n],
                    Cardinality({p \in Server : matchIndex[n][p] >= k}) >= Majority
             PROVE  Decided(k, v)
  BY DEF LeadersDecide
<1> DEFINE Q == {p \in Server : matchIndex[n][p] >= k}
<1>1. Q \in Quorums /\ \A q \in Q : q \in Server /\ Acker(n, k, q)
  BY DEF Quorums, Acker
<1>2. Safe(n, k)
  BY DEF LeadersSafe, Has, HasIn
<1> HIDE DEF Q
<1>3. ~ Never(n, k)
  BY <1>1, MajoritiesMeet DEF Never, Quorums
<1> QED
  BY <1>1, <1>2, <1>3 DEF Safe, Decided

LEMMA LeaderDecidesNext == LeadersSafe' => LeadersDecide'
BY LeaderDecides, PTL

\* So is what a follower commits of a call, and the follower has it.
LEMMA FollowerDecides ==
  ASSUME CommitInv, BaseInv', Kinds, [Next]_vars, NEW m \in appReqs, FollowerCommits(m)
  PROVE  /\ m.dst \in Server
         /\ \E k, v \in Nat \ {0} : /\ k = commitIndex'[m.dst] /\ k > commitIndex[m.dst]
                                    /\ Has(m.dst, k, v)' /\ Decided(k, v)'
<1> DEFINE n == m.dst
           l == log[n]
           f == Splice(l, m.prevIdx, m.entries)
           last == m.prevIdx + Len(m.entries)
           k == m.leaderCommit
<1>1. Splices(m) /\ k > commitIndex[n] /\ commitIndex'[n] = Min({k, Len(f)})
  BY DEF FollowerCommits
<1>2. /\ TypeOK /\ TypeOK' /\ BaseInv /\ MatchInv /\ RunInv /\ CallsSafe
      /\ \A q \in Server : log[q] \in Log /\ log'[q] \in Log /\ LogPiece(log'[q]) \in Pieces'
  BY BaseFacts, BaseNext DEF CommitInv, BaseInv, Basics
<1>3. /\ n \in Server /\ IsPiece(m) /\ m.term \in Nat /\ log'[n] = f
  BY <1>1, <1>2, PiecesSpliced
<1>4. k \in Nat /\ commitIndex[n] \in Nat /\ k \in Nat \ {0}
  <2>1. m \in AppReq /\ commitIndex \in [Server -> Nat]
    BY <1>2 DEF TypeOK
  <2>2. k \in Nat /\ commitIndex[n] \in Nat
    BY <1>3, <2>1 DEF AppReq
  <2> QED
    BY <1>1, <2>2
<1>5. k <= last /\ \E v \in 1..m.term : Decided(k, v)
  BY <1>2, <1>4 DEF CallsSafe
<1> PICK v \in 1..m.term : Decided(k, v)
  BY <1>5
<1>6. v \in Nat \ {0} /\ v <= m.term
  BY <1>3
<1>7. Decided(k, v)'
  BY <1>2, <1>4, <1>6, DecidedStays
<1>8. /\ m.prevIdx <= Len(l) /\ ~ Clashes(l, m.prevIdx, m.prevTerm) /\ l \in Log
      /\ EndsWith(m, m.term)
  BY <1>1, <1>2, <1>3 DEF Splices, RunInv, CallsCurrent
<1> PICK kept \in m.prevIdx..Len(l) : FromBoth(f, l, m, kept)
  BY <1>3, <1>8, SpliceTells
<1> HIDE DEF f, l, k
<1>9. last \in 1..Len(f) /\ f[last].term = m.term
  BY <1>8 DEF FromBoth, EndsWith
<1>10. f \in Log /\ Len(f) \in Nat /\ last \in Nat
  <2>1. f \in Log
    BY <1>2, <1>3
  <2> QED
    BY <1>9, <2>1 DEF Log
<1> HIDE DEF last
<1>11. Beyond(LogPiece(f), k, v)
  <2>1. last \in Span(LogPiece(f)) /\ TermAt(LogPiece(f), last) = m.term
    BY <1>9, <1>10, WholeLog
  <2>2. m.term > v \/ (m.term = v /\ last >= k)
    BY <1>3, <1>4, <1>5, <1>6, <1>10
  <2> QED
    BY <2>1, <2>2 DEF Beyond
<1>12. Fits(LogPiece(f), k, v)
  <2>1. LogPiece(f) \in Pieces'
    BY <1>2, <1>3
  <2>2. Fitting(k, v)'
    BY <1>7 DEF Decided
  <2> QED
    BY <1>11, <2>1, <2>2 DEF Fitting, Beyond, Fits
<1>13. k \in 1..Len(f) /\ f[k].term = v
  BY <1>4, <1>6, <1>10, <1>11, <1>12, BeyondHas DEF HasIn
<1>14. commitIndex'[n] = k
  <2>1. k <= Len(f)
    BY <1>13
  <2>2. Min({k, Len(f)}) \in {k, Len(f)} /\ Min({k, Len(f)}) <= k
    BY <1>4, <1>10, LeastNat
  <2>3. Min({k, Len(f)}) <= Len(f) /\ Min({k, Len(f)}) \in {k, Len(f)}
    BY <1>4, <1>10, LeastNat
  <2>4. Min({k, Len(f)}) = k
    BY <1>4, <1>10, <2>1, <2>2, <2>3
  <2> QED
    BY <1>1, <2>4
<1>15. k > commitIndex[n] /\ Has(n, k, v)'
  BY <1>1, <1>3, <1>13 DEF Has, HasIn
<1> QED
  BY <1>3, <1>4, <1>6, <1>7, <1>14, <1>15

\* A step moves at most one commit position, upwards, to what is decided.
LEMMA CommitForward ==
  ASSUME CommitInv, BaseInv', LeadersSafe', Kinds, [Next]_vars, NEW n \in Server, CommitMoves(n)
  PROVE  \/ commitIndex'[n] = commitIndex[n]
         \/ \E k, v \in Nat \ {0} : /\ k = commitIndex'[n] /\ k > commitIndex[n]
                                    /\ Has(n, k, v)' /\ Decided(k, v)'
<1>1. /\ log'[n] \in Log /\ currentTerm'[n] \in Nat /\ commitIndex[n] \in Nat
      /\ OrderedUpTo(log'[n], currentTerm'[n])
  <2>1. TypeOK
    BY BaseFacts DEF CommitInv, Basics
  <2>2. commitIndex[n] \in Nat
    BY <2>1 DEF TypeOK
  <2> QED
    BY <2>2, BaseNext DEF Basics
<1>2. CASE LeaderCommits(n)
  <2> PICK k \in (commitIndex[n] + 1)..Len(log'[n]) : k = commitIndex'[n]
    BY <1>2 DEF LeaderCommits
  <2> DEFINE v == log'[n][k].term
  <2>1. /\ role'[n] = "leader" /\ v = currentTerm'[n]
        /\ Cardinality({p \in Server : matchIndex'[n][p] >= k}) >= Majority
    BY <1>2 DEF LeaderCommits
  <2>2. k \in Nat \ {0} /\ k > commitIndex[n] /\ k \in 1..Len(log'[n])
    BY <1>1 DEF Log
  <2>3. v \in Nat /\ 1 <= v
    BY <1>1, <2>1, <2>2 DEF OrderedUpTo
  <2>4. PICK w \in Nat \ {0} : w = v
    BY <2>3
  <2>5. Has(n, k, w)'
    BY <2>2, <2>4 DEF Has, HasIn
  <2>6. Decided(k, w)'
    BY <2>1, <2>2, <2>4, <2>5, LeaderDecidesNext DEF LeadersDecide
  <2> QED
    BY <2>2, <2>5, <2>6
<1>3. CASE \E m \in appReqs : m.dst = n /\ FollowerCommits(m)
  BY <1>3, FollowerDecides
<1> QED
  BY <1>2, <1>3 DEF CommitMoves

LEMMA CommitStep ==
  ASSUME NoFaults, CommitInv, BaseInv', Kinds, [Next]_vars
  PROVE  CommitInv'
<1>1. BaseInv /\ LeadersSafe /\ CommitsSafe /\ CallsSafe
  BY DEF CommitInv
<1>2. LeadersSafe'
  BY <1>1, LeadersSafeStep
<1>3. CommitsSafe'
  <2> PICK n \in Server : CommitMoves(n)
    BY <1>1, CommitSteps
  <2> SUFFICES ASSUME NEW p \in Server, NEW k \in Nat \ {0}, k = commitIndex'[p]
               PROVE  \E v \in Nat \ {0} : Has(p, k, v)' /\ Decided(k, v)'
    BY DEF CommitsSafe
  <2>1. CASE commitIndex'[p] = commitIndex[p]
    BY <2>1, CommittedStays
  <2>2. CASE commitIndex'[p] # commitIndex[p]
    <3>1. p = n
      BY <2>2 DEF CommitMoves
    <3> QED
      BY <1>2, <2>2, <3>1, CommitForward
  <2> QED
    BY <2>1, <2>2
<1>4. CallsSafe'
  <2> SUFFICES ASSUME NEW m \in appReqs', m.leaderCommit > 0
               PROVE  /\ m.leaderCommit <= m.prevIdx + Len(m.entries)
                      /\ \E v \in 1..m.term : Decided(m.leaderCommit, v)'
    BY DEF CallsSafe
  <2>1. TypeOK
    BY <1>1, BaseFacts DEF Basics
  <2>2. CASE m \in appReqs
    <3>1. m.leaderCommit \in Nat \ {0} /\ m.term \in Nat
      <4>1. m \in AppReq
        BY <2>1, <2>2 DEF TypeOK
      <4>2. m.leaderCommit \in Nat /\ m.term \in Nat
        BY <4>1 DEF AppReq
      <4> QED
        BY <4>2
    <3>2. PICK v \in 1..m.term : Decided(m.leaderCommit, v)
      BY <1>1, <2>2 DEF CallsSafe
    <3>3. v \in Nat \ {0}
      BY <3>1
    <3>4. Decided(m.leaderCommit, v)'
      BY <1>1, <3>1, <3>2, <3>3, DecidedStays
    <3> QED
      BY <1>1, <2>2, <3>4 DEF CallsSafe
  <2>3. ASSUME NEW n \in Server, NEW c \in AppReq, Sends(n, c), m = c
        PROVE  /\ m.leaderCommit <= m.prevIdx + Len(m.entries)
               /\ \E v \in 1..m.term : Decided(m.leaderCommit, v)'
    <3>1. /\ m.term = currentTerm[n] /\ m.prevIdx + Len(m.entries) = Len(log[n])
          /\ m.leaderCommit = commitIndex[n]
      BY <2>3 DEF Sends
    <3>2. m.leaderCommit \in Nat \ {0} /\ m.term \in Nat
      <4>1. m.leaderCommit \in Nat /\ m.term \in Nat
        BY <2>3 DEF AppReq
      <4> QED
        BY <4>1
    <3>3. PICK v \in Nat \ {0} : /\ Decided(m.leaderCommit, v) /\ v <= currentTerm[n]
                                 /\ m.leaderCommit \in 1..Len(log[n])
      BY <3>1, <3>2, CommittedHas
    <3>4. v \in 1..m.term
      BY <3>1, <3>2, <3>3
    <3>5. Decided(m.leaderCommit, v)'
      BY <1>1, <3>2, <3>3, DecidedStays
    <3>6. m.leaderCommit <= Len(log[n])
      BY <3>3
    <3> QED
      BY <3>1, <3>4, <3>5, <3>6
  <2>4. CASE appReqs' \subseteq appReqs
    BY <2>2, <2>4
  <2> QED
    BY <2>2, <2>3, <2>4 DEF Kinds, Quiet, Sends, Appends, Splices
<1> QED
  BY <1>2, <1>3, <1>4 DEF CommitInv

LEMMA CommitAlways == ASSUME NoFaults PROVE Spec => []CommitInv
<1>1. Init => CommitInv
  BY ElectionInit, LeaderInit, MatchInit, AckInit, RunInit, VoteInit, CommitInit
  DEF CommitInv, BaseInv
<1>2. CommitInv /\ (ElectionInv /\ LeaderInv /\ MatchInv)' /\ [Next]_vars => CommitInv'
  <2> SUFFICES ASSUME CommitInv, (ElectionInv /\ LeaderInv /\ MatchInv)', [Next]_vars
               PROVE  CommitInv'
    OBVIOUS
  <2>1. /\ ElectionInv /\ LeaderInv /\ MatchInv /\ AckInv /\ RunInv /\ VoteInv
        /\ ElectionInv' /\ LeaderInv' /\ MatchInv' /\ LeadersRecorded
        /\ TypeOK /\ TypeOK'
    BY DEF CommitInv, BaseInv, ElectionInv, MatchInv
  <2>2. ElectionSafety'
    BY <2>1, SafetyNext
  <2>3. Kinds
    BY <2>1, StepKinds
  <2>4. AckInv'
    BY <2>1, AckStep
  <2>5. RunInv'
    BY <2>1, <2>2, <2>3, RunStep
  <2>6. VoteInv'
    BY <2>1, <2>3, VoteStep
  <2>7. BaseInv'
    BY <2>1, <2>4, <2>5, <2>6 DEF BaseInv
  <2> QED
    BY <2>3, <2>7, CommitStep
<1> QED
  BY <1>1, <1>2, MatchAlways, PTL DEF Spec

-----------------------------------------------------------------------------
(* The theorems.                                                           *)

\* A leader never announces a commit position past the entries it sends with
\* it, so a follower commits nothing it has not just compared: it could
\* otherwise commit an old tail of its own log.
THEOREM AnnouncedIsSent == ASSUME NoFaults PROVE Spec => []SentCoversCommit
<1>1. CommitInv => SentCoversCommit
  <2> SUFFICES ASSUME CommitInv, NEW m \in appReqs
               PROVE  m.leaderCommit <= m.prevIdx + Len(m.entries)
    BY DEF SentCoversCommit
  <2>1. IsPiece(m) /\ m.leaderCommit \in Nat
    <3>1. TypeOK /\ \A b \in Pieces : IsPiece(b)
      BY BaseFacts DEF CommitInv, Basics
    <3>2. m \in AppReq /\ m \in Pieces
      BY <3>1 DEF TypeOK, Pieces
    <3> QED
      BY <3>1, <3>2 DEF AppReq
  <2>2. m.prevIdx \in Nat /\ Len(m.entries) \in Nat
    BY <2>1 DEF IsPiece, Log
  <2>3. CASE m.leaderCommit > 0
    BY <2>3 DEF CommitInv, CallsSafe
  <2>4. CASE m.leaderCommit = 0
    BY <2>2, <2>4
  <2> QED
    BY <2>1, <2>3, <2>4
<1> QED
  BY <1>1, CommitAlways, PTL

\* Logs that have one entry hold the same up to it.
LEMMA SharedPrefix ==
  ASSUME BaseInv, NEW n \in Server, NEW p \in Server, NEW k \in Nat \ {0}, NEW v \in Nat \ {0},
         Has(n, k, v), Has(p, k, v)
  PROVE  /\ k <= Len(log[n]) /\ k <= Len(log[p])
         /\ \A j \in 1..k : log[n][j] = log[p][j]
<1>1. /\ log[n] \in Log /\ log[p] \in Log /\ MatchInv
      /\ LogPiece(log[n]) \in Pieces /\ LogPiece(log[p]) \in Pieces
  BY BaseFacts DEF BaseInv, Basics
<1>2. Agree(LogPiece(log[n]), LogPiece(log[p]))
  BY <1>1 DEF MatchInv, PiecesAgree
<1> QED
  BY <1>1, <1>2, SameUpTo DEF Has

\* A node that leads a term as late as a committed entry has that entry.
LEMMA LeaderHas ==
  ASSUME BaseInv, NEW n \in Server, role[n] = "leader",
         NEW p \in Server, NEW k \in Nat \ {0}, NEW v \in Nat \ {0},
         Has(p, k, v), Decided(k, v), v <= currentTerm[n]
  PROVE  Has(n, k, v)
<1> DEFINE l == log[n]
           t == currentTerm[n]
           e == Len(l)
<1>1. /\ TypeOK /\ MatchInv /\ RunInv /\ l \in Log /\ e \in Nat /\ t \in Nat
      /\ LogPiece(l) \in Pieces /\ LogPiece(log[p]) \in Pieces /\ log[p] \in Log
  BY BaseFacts DEF BaseInv, Basics
<1>2. e > 0 /\ l[e].term = t
  BY <1>1, EndsWithLog DEF RunInv, LeadersOwn
<1>3. CASE v < t
  <2>1. /\ e \in Span(LogPiece(l)) /\ TermAt(LogPiece(l), e) = t
    <3>1. e \in 1..Len(l)
      BY <1>1, <1>2
    <3> HIDE DEF l, e, t
    <3> QED
      BY <1>1, <1>2, <3>1, WholeLog
  <2>2. Beyond(LogPiece(l), k, v)
    BY <1>1, <1>3, <2>1 DEF Beyond
  <2>3. Fits(LogPiece(l), k, v)
    BY <1>1, <2>2 DEF Decided, Fitting
  <2> QED
    BY <1>1, <2>2, <2>3, BeyondHas DEF Has
<1>4. CASE v = t
  <2>1. k \in 1..Len(log[p]) /\ log[p][k].term = v
    BY DEF Has, HasIn
  <2>2. k \in Span(LogPiece(log[p])) /\ TermAt(LogPiece(log[p]), k) = currentTerm[n]
    BY <1>1, <1>4, <2>1, WholeLog
  <2> QED
    BY <1>1, <1>4, <2>2, PiecesKnown DEF Has, HasIn
<1> QED
  BY <1>1, <1>3, <1>4

\* Every leader of the newest term holds everything any node has committed:
\* RequestVote's comparison of logs, the rule of advanceCommitIndex to count
\* only entries of its own term and the promise of a vote keep it so, for any
\* number of nodes, terms and entries and any order and loss of messages.
THEOREM LeadersComplete == ASSUME NoFaults PROVE Spec => []LeaderCompleteness
<1>1. CommitInv => LeaderCompleteness
  <2> SUFFICES ASSUME CommitInv, NEW n \in Server, NEW p \in Server,
                      role[n] = "leader", currentTerm[n] >= currentTerm[p]
               PROVE  IsPrefix(SubSeq(log[p], 1, commitIndex[p]), log[n])
    BY DEF LeaderCompleteness
  <2> DEFINE k == commitIndex[p]
  <2>1. /\ BaseInv /\ log[n] \in Log /\ log[p] \in Log /\ k \in Nat
        /\ Len(log[p]) \in Nat /\ Len(log[n]) \in Nat
        /\ currentTerm[n] \in Nat /\ currentTerm[p] \in Nat
    <3>1. BaseInv /\ Basics
      BY BaseFacts DEF CommitInv
    <3> QED
      BY <3>1 DEF Basics, TypeOK
  <2>2. k <= Len(log[p]) /\ k <= Len(log[n]) /\ \A j \in 1..k : log[p][j] = log[n][j]
    <3>1. CASE k = 0
      BY <2>1, <3>1
    <3>2. CASE k # 0
      <4>1. k \in Nat \ {0}
        BY <2>1, <3>2
      <4> HIDE DEF k
      <4>2. PICK v \in Nat \ {0} : Has(p, k, v) /\ Decided(k, v) /\ v <= currentTerm[p]
        BY <4>1, CommittedHas DEF k
      <4>3. Has(n, k, v)
        BY <2>1, <4>1, <4>2, LeaderHas
      <4> QED
        BY <2>1, <4>1, <4>2, <4>3, SharedPrefix
    <3> QED
      BY <3>1, <3>2
  <2> QED
    BY <2>1, <2>2, PrefixHeld
<1> QED
  BY <1>1, CommitAlways, PTL

-----------------------------------------------------------------------------
(* The cluster implements the replicated log.                              *)

LEMMA PrefixOfPrefix ==
  ASSUME NEW l \in Log, NEW f \in Log, NEW i \in Nat, NEW j \in Nat,
         i <= j, i <= Len(l), j <= Len(f), \A h \in 1..i : l[h] = f[h]
  PROVE  /\ IsPrefix(SubSeq(l, 1, i), SubSeq(f, 1, j))
         /\ SubSeq(SubSeq(f, 1, j), 1, i) = SubSeq(l, 1, i)
         /\ Len(SubSeq(l, 1, i)) = i /\ Len(SubSeq(f, 1, j)) = j
<1> DEFINE g == SubSeq(f, 1, j)
<1>1. \A h \in 1..j : f[h] \in Entry
  BY DEF Log
<1>2. /\ g \in Seq(Entry) /\ Len(g) = j
      /\ \A h \in 1..j : g[h] = f[h]
  <2>1. /\ g \in Seq(Entry) /\ Len(g) = IF 1 <= j THEN j - 1 + 1 ELSE 0
        /\ \A h \in 1..(j - 1 + 1) : g[h] = f[1 + h - 1]
    BY <1>1, SubSeqProperties
  <2> QED
    BY <2>1
<1> HIDE DEF g
<1>3. g \in Log /\ i <= Len(g) /\ \A h \in 1..i : l[h] = g[h]
  BY <1>2 DEF Log
<1>4. SubSeq(l, 1, i) = SubSeq(g, 1, i) /\ Len(SubSeq(l, 1, i)) = i
  BY <1>3, SamePrefix
<1>5. IsPrefix(SubSeq(l, 1, i), g)
  BY <1>3, PrefixHeld
<1> QED
  BY <1>2, <1>4, <1>5 DEF g

\* Some node has committed the most.
LEMMA FurthestExists ==
  ASSUME NEW f \in [Server -> Nat]
  PROVE  \E n \in Server : \A p \in Server : f[p] <= f[n]
<1> DEFINE Topped(U) == \E n \in U : \A p \in U : f[p] <= f[n]
           Bad       == {U \in SUBSET Server : U # {} /\ ~ Topped(U)}
           T         == {Cardinality(U) : U \in Bad}
<1>1. SUFFICES ASSUME Bad # {} PROVE FALSE
  BY RaftLogAssumption
<1>2. \A U \in Bad : IsFiniteSet(U) /\ Cardinality(U) \in Nat
  BY RaftLogAssumption, FS_Subset, FS_CardinalityType
<1>3. T \in SUBSET Nat /\ T # {}
  BY <1>1, <1>2
<1>4. PICK t \in T : \A u \in T : t <= u
  BY <1>3, LeastNat
<1>5. PICK U \in Bad : t = Cardinality(U)
  BY <1>4
<1>6. PICK u \in U : TRUE
  BY <1>5
<1> DEFINE V == U \ {u}
<1>7. t \in Nat /\ Cardinality(V) = t - 1
  BY <1>2, <1>5, <1>6, FS_RemoveElement
<1>8. V \notin Bad
  <2> SUFFICES ASSUME V \in Bad PROVE FALSE
    OBVIOUS
  <2>1. t <= Cardinality(V)
    BY <1>4
  <2> QED
    BY <1>7, <2>1
<1>9. CASE V = {}
  <2>1. U = {u} /\ f[u] \in Nat
    BY <1>5, <1>6, <1>9
  <2>2. Topped(U)
    BY <2>1
  <2> QED
    BY <1>5, <2>2
<1>10. CASE V # {}
  <2>1. PICK n \in V : \A p \in V : f[p] <= f[n]
    BY <1>5, <1>8, <1>10
  <2>2. f[n] \in Nat /\ f[u] \in Nat /\ \A p \in U : f[p] \in Nat
    BY <1>5, <1>6, <2>1
  <2>3. \A p \in U : p = u \/ p \in V
    OBVIOUS
  <2>4. CASE f[u] <= f[n]
    <3>1. \A p \in U : f[p] <= f[n]
      BY <2>1, <2>3, <2>4
    <3> QED
      BY <1>5, <2>1, <3>1
  <2>5. CASE f[n] <= f[u]
    <3>1. \A p \in U : f[p] <= f[u]
      BY <2>1, <2>2, <2>3, <2>5
    <3> QED
      BY <1>5, <1>6, <3>1
  <2> QED
    BY <2>2, <2>4, <2>5
<1> QED
  BY <1>9, <1>10

\* What two nodes have committed, as far as both have.
Comparable ==
  \A n, p \in Server : commitIndex[n] <= commitIndex[p] =>
    /\ commitIndex[n] <= Len(log[n]) /\ commitIndex[p] <= Len(log[p])
    /\ \A j \in 1..commitIndex[n] : log[n][j] = log[p][j]

\* The chosen log is what the node that is ahead has committed.
ChosenAhead ==
  \E c \in Server : /\ \A p \in Server : commitIndex[p] <= commitIndex[c]
                    /\ Chosen = Committed(c)

CommitFacts ==
  /\ commitIndex \in [Server -> Nat]
  /\ \A q \in Server : log[q] \in Log /\ commitIndex[q] \in Nat /\ commitIndex[q] <= Len(log[q])
  /\ Comparable /\ ChosenAhead

LEMMA CommitsComparable ==
  ASSUME CommitInv, NEW n \in Server, NEW p \in Server, commitIndex[n] <= commitIndex[p],
         NEW k \in Nat \ {0}, k = commitIndex[n]
  PROVE  /\ k <= Len(log[n]) /\ k <= Len(log[p])
         /\ \A j \in 1..k : log[n][j] = log[p][j]
<1>1. /\ BaseInv /\ TypeOK
      /\ \A q \in Server : /\ log[q] \in Log /\ Len(log[q]) \in Nat
                           /\ OrderedUpTo(log[q], currentTerm[q])
                           /\ LogPiece(log[q]) \in Pieces
  BY BaseFacts DEF CommitInv, Basics
<1>2. PICK k2 \in Nat \ {0} : k2 = commitIndex[p]
  <2>1. commitIndex[p] \in Nat
    BY <1>1 DEF TypeOK
  <2> QED
    BY <2>1
<1>3. k <= k2
  BY <1>2
<1>4. PICK v \in Nat \ {0} : /\ Has(n, k, v) /\ Decided(k, v)
                             /\ k \in 1..Len(log[n]) /\ log[n][k].term = v
  BY CommittedHas
<1>5. PICK w \in Nat \ {0} : /\ Has(p, k2, w) /\ Decided(k2, w)
                             /\ k2 \in 1..Len(log[p]) /\ log[p][k2].term = w
  BY <1>2, CommittedHas
<1>6. /\ k \in Span(LogPiece(log[n])) /\ TermAt(LogPiece(log[n]), k) = v
      /\ k2 \in Span(LogPiece(log[p])) /\ TermAt(LogPiece(log[p]), k2) = w
  BY <1>1, <1>4, <1>5, WholeLog
<1>7. Has(p, k, v)
  <2>1. CASE w >= v
    <3>1. Beyond(LogPiece(log[p]), k, v)
      BY <1>3, <1>6, <2>1 DEF Beyond
    <3>2. Fits(LogPiece(log[p]), k, v)
      BY <1>1, <1>4, <3>1 DEF Decided, Fitting
    <3> QED
      BY <1>1, <3>1, <3>2, BeyondHas DEF Has
  <2>2. CASE w < v
    <3>1. Beyond(LogPiece(log[n]), k2, w)
      BY <1>6, <2>2 DEF Beyond
    <3>2. Fits(LogPiece(log[n]), k2, w)
      BY <1>1, <1>5, <3>1 DEF Decided, Fitting
    <3>3. k2 \in 1..Len(log[n]) /\ log[n][k2].term = w
      BY <1>1, <3>1, <3>2, BeyondHas DEF HasIn
    <3>4. log[n][k].term <= log[n][k2].term
      BY <1>1, <1>3, <1>4, <3>3 DEF OrderedUpTo
    <3> QED
      BY <1>4, <2>2, <3>3, <3>4
  <2> QED
    BY <2>1, <2>2
<1> QED
  BY <1>1, <1>4, <1>7, SharedPrefix

LEMMA CommitsKnown == CommitInv => CommitFacts
<1> SUFFICES ASSUME CommitInv PROVE CommitFacts
  OBVIOUS
<1>1. /\ commitIndex \in [Server -> Nat]
      /\ \A q \in Server : log[q] \in Log /\ Len(log[q]) \in Nat /\ commitIndex[q] \in Nat
  <2>1. TypeOK /\ Basics
    BY BaseFacts DEF CommitInv, Basics
  <2> QED
    BY <2>1 DEF TypeOK, Basics
<1>2. \A q \in Server : commitIndex[q] <= Len(log[q])
  <2> SUFFICES ASSUME NEW q \in Server PROVE commitIndex[q] <= Len(log[q])
    OBVIOUS
  <2>1. CASE commitIndex[q] = 0
    BY <1>1, <2>1
  <2>2. CASE commitIndex[q] # 0
    <3>1. PICK k \in Nat \ {0} : k = commitIndex[q]
      BY <1>1, <2>2
    <3> QED
      BY <1>1, <3>1, CommitsComparable
  <2> QED
    BY <2>1, <2>2
<1>3. Comparable
  <2> SUFFICES ASSUME NEW n \in Server, NEW p \in Server, commitIndex[n] <= commitIndex[p]
               PROVE  \A j \in 1..commitIndex[n] : log[n][j] = log[p][j]
    BY <1>2 DEF Comparable
  <2>1. CASE commitIndex[n] = 0
    BY <2>1
  <2>2. CASE commitIndex[n] # 0
    <3>1. PICK k \in Nat \ {0} : k = commitIndex[n]
      BY <1>1, <2>2
    <3>2. \A j \in 1..k : log[n][j] = log[p][j]
      BY <3>1, CommitsComparable
    <3> QED
      BY <3>1, <3>2
  <2> QED
    BY <2>1, <2>2
<1>4. ChosenAhead
  <2>1. \E n \in Server : \A p \in Server : commitIndex[p] <= commitIndex[n]
    BY <1>1, FurthestExists
  <2> QED
    BY <2>1 DEF ChosenAhead, Chosen
<1> QED
  BY <1>1, <1>2, <1>3, <1>4 DEF CommitFacts

LEMMA CommitsKnownNext == CommitInv' => CommitFacts'
BY CommitsKnown, PTL

\* A step leaves a log as it is up to an entry that stays.
LEMMA KeptUpTo ==
  ASSUME BaseInv, BaseInv', Kinds, NEW p \in Server, NEW k \in Nat \ {0}, NEW v \in Nat \ {0},
         Has(p, k, v), Has(p, k, v)'
  PROVE  \A j \in 1..k : log'[p][j] = log[p][j]
<1>1. /\ TypeOK /\ MatchInv /\ log[p] \in Log /\ Len(log[p]) \in Nat
      /\ LogPiece(log[p]) \in Pieces /\ k \in 1..Len(log[p])
      /\ \A b \in Pieces : IsPiece(b)
  BY BaseFacts DEF BaseInv, Basics, Has, HasIn
<1>2. CASE UNCHANGED log
  BY <1>2
<1>3. ASSUME NEW n \in Server, NEW x \in Entry, Appends(n, x)
      PROVE  \A j \in 1..k : log'[p][j] = log[p][j]
  <2>1. log \in [Server -> Log] /\ log' = [log EXCEPT ![n] = Append(log[n], x)]
    BY <1>1, <1>3 DEF Appends, TypeOK, Log
  <2>2. CASE p # n
    BY <2>1, <2>2
  <2>3. CASE p = n
    <3>1. log'[p] = Append(log[p], x)
      BY <2>1, <2>3
    <3>2. \A j \in 1..k : j \in 1..Len(log[p])
      BY <1>1
    <3> QED
      BY <1>1, <3>1, <3>2, AppendProperties DEF Log
  <2> QED
    BY <2>2, <2>3
<1>4. ASSUME NEW m \in appReqs, Splices(m)
      PROVE  \A j \in 1..k : log'[p][j] = log[p][j]
  <2>1. /\ log \in [Server -> Log]
        /\ log' = [log EXCEPT ![m.dst] = Splice(@, m.prevIdx, m.entries)]
    BY <1>1, <1>4 DEF Splices, TypeOK, Log
  <2>2. CASE p # m.dst
    BY <2>1, <2>2
  <2>3. CASE p = m.dst
    <3> DEFINE l == log[p]
               f == Splice(l, m.prevIdx, m.entries)
    <3>1. log'[p] = f /\ f \in Log
      <4>1. log'[p] = f
        BY <2>1, <2>3
      <4>2. log'[p] \in Log
        BY BaseNext DEF Basics
      <4> QED
        BY <4>1, <4>2
    <3>2. /\ IsPiece(m) /\ m.prevIdx <= Len(l) /\ ~ Clashes(l, m.prevIdx, m.prevTerm)
          /\ Agree(m, LogPiece(l)) /\ Agree(LogPiece(l), LogPiece(l)) /\ IsPiece(LogPiece(l))
      <4>1. m \in Pieces
        BY DEF Pieces
      <4> QED
        BY <1>1, <1>4, <2>3, <4>1, AgreeSelf DEF Splices, MatchInv, PiecesAgree
    <3>3. Agree(LogPiece(f), LogPiece(l))
      BY <1>1, <3>2, SpliceAgrees
    <3>4. HasIn(f, k, v) /\ HasIn(l, k, v)
      BY <3>1 DEF Has, HasIn
    <3> HIDE DEF l, f
    <3>5. \A j \in 1..k : f[j] = l[j]
      BY <1>1, <3>1, <3>3, <3>4, SameUpTo DEF l
    <3> QED
      BY <3>1, <3>5 DEF l
  <2> QED
    BY <2>2, <2>3
<1> QED
  BY <1>2, <1>3, <1>4 DEF Kinds, Quiet, Sends

\* What one step does to what the nodes have committed.
StepFacts(n) ==
  /\ \A p \in Server \ {n} : commitIndex'[p] = commitIndex[p]
  /\ \A p \in Server : /\ commitIndex[p] <= commitIndex'[p]
                       /\ \A j \in 1..commitIndex[p] : log'[p][j] = log[p][j]

LEMMA CommitsGrow ==
  ASSUME NoFaults, CommitInv, CommitInv', Kinds, [Next]_vars
  PROVE  \E n \in Server : StepFacts(n)
<1>1. BaseInv /\ BaseInv' /\ LeadersSafe' /\ CommitFacts /\ CommitFacts'
  BY CommitsKnown, CommitsKnownNext DEF CommitInv
<1>2. PICK n \in Server : CommitMoves(n)
  BY <1>1, CommitSteps
<1>3. \A q \in Server : commitIndex[q] \in Nat /\ commitIndex'[q] \in Nat
  BY <1>1 DEF CommitFacts
<1>4. \A p \in Server \ {n} : commitIndex'[p] = commitIndex[p]
  BY <1>2 DEF CommitMoves
<1>5. commitIndex[n] <= commitIndex'[n]
  <2>1. CASE commitIndex'[n] = commitIndex[n]
    BY <1>3, <2>1
  <2>2. CASE \E k \in Nat \ {0} : k = commitIndex'[n] /\ k > commitIndex[n]
    BY <1>3, <2>2
  <2> QED
    BY <1>1, <1>2, <2>1, <2>2, CommitForward
<1>6. ASSUME NEW p \in Server PROVE commitIndex[p] <= commitIndex'[p]
  BY <1>3, <1>4, <1>5
<1>7. ASSUME NEW p \in Server PROVE \A j \in 1..commitIndex[p] : log'[p][j] = log[p][j]
  <2>1. CASE commitIndex[p] = 0
    BY <2>1
  <2>2. CASE commitIndex[p] # 0
    <3>1. PICK k \in Nat \ {0} : k = commitIndex[p]
      BY <1>3, <2>2
    <3>2. PICK v \in Nat \ {0} : Has(p, k, v) /\ Has(p, k, v)'
      BY <1>1, <3>1, CommittedStays
    <3>3. \A j \in 1..k : log'[p][j] = log[p][j]
      BY <1>1, <3>2, KeptUpTo
    <3> QED
      BY <3>1, <3>3
  <2> QED
    BY <2>1, <2>2
<1> QED
  BY <1>4, <1>6, <1>7 DEF StepFacts

LEMMA LearnStep ==
  ASSUME CommitFacts, CommitFacts', NEW n \in Server, StepFacts(n)
  PROVE  RL!Learn(n)
<1> PICK c \in Server : /\ \A p \in Server : commitIndex[p] <= commitIndex[c]
                        /\ Chosen = Committed(c)
  BY DEF CommitFacts, ChosenAhead
<1> PICK d \in Server : /\ \A p \in Server : commitIndex'[p] <= commitIndex'[d]
                        /\ Chosen' = SubSeq(log'[d], 1, commitIndex'[d])
  BY DEF CommitFacts, ChosenAhead, Committed
<1>1. \A q \in Server : /\ log[q] \in Log /\ log'[q] \in Log
                        /\ commitIndex[q] \in Nat /\ commitIndex'[q] \in Nat
                        /\ Len(log[q]) \in Nat /\ Len(log'[q]) \in Nat
                        /\ commitIndex[q] <= Len(log[q]) /\ commitIndex'[q] <= Len(log'[q])
                        /\ commitIndex[q] <= commitIndex'[q]
                        /\ commitIndex[q] <= Len(log'[q])
                        /\ \A j \in 1..commitIndex[q] : log'[q][j] = log[q][j]
  <2>1. \A q \in Server : Len(log[q]) \in Nat /\ Len(log'[q]) \in Nat
    BY DEF CommitFacts, Log
  <2> QED
    BY <2>1 DEF CommitFacts, StepFacts
<1>2. \A p \in Server : \A j \in 1..commitIndex'[p] : log'[p][j] = log'[d][j]
  BY DEF CommitFacts, Comparable
<1>3. \A p \in Server : \A j \in 1..commitIndex[p] : log[p][j] = log[c][j]
  BY DEF CommitFacts, Comparable
<1> DEFINE k == commitIndex'[n]
<1>4. IsPrefix(Chosen, Chosen')
  <2>1. commitIndex[c] <= commitIndex'[d]
    BY <1>1
  <2>2. \A j \in 1..commitIndex[c] : log[c][j] = log'[d][j]
    <3> SUFFICES ASSUME NEW j \in 1..commitIndex[c] PROVE log[c][j] = log'[d][j]
      OBVIOUS
    <3>1. log'[c][j] = log[c][j]
      BY <1>1
    <3>2. j \in 1..commitIndex'[c]
      <4>1. /\ commitIndex[c] \in Nat /\ commitIndex'[c] \in Nat
            /\ commitIndex[c] <= commitIndex'[c]
        BY <1>1
      <4> QED
        BY <4>1
    <3>3. log'[c][j] = log'[d][j]
      BY <1>2, <3>2
    <3> QED
      BY <3>1, <3>3
  <2> QED
    BY <1>1, <2>1, <2>2, PrefixOfPrefix DEF Committed
<1>5. /\ k \in Nat /\ k <= commitIndex'[d] /\ Len(Chosen') = commitIndex'[d]
      /\ SubSeq(Chosen', 1, k) = SubSeq(log'[n], 1, k)
  BY <1>1, <1>2, PrefixOfPrefix
<1>6. \A p \in Server : /\ Len(SubSeq(log[p], 1, commitIndex[p])) = commitIndex[p]
                        /\ SubSeq(log[p], 1, commitIndex[p]) = SubSeq(log'[p], 1, commitIndex[p])
                        /\ IsPrefix(SubSeq(log[p], 1, commitIndex[p]),
                                    SubSeq(log'[p], 1, commitIndex'[p]))
  <2> SUFFICES ASSUME NEW p \in Server
               PROVE  /\ Len(SubSeq(log[p], 1, commitIndex[p])) = commitIndex[p]
                      /\ SubSeq(log[p], 1, commitIndex[p]) = SubSeq(log'[p], 1, commitIndex[p])
                      /\ IsPrefix(SubSeq(log[p], 1, commitIndex[p]),
                                  SubSeq(log'[p], 1, commitIndex'[p]))
    OBVIOUS
  <2>1. \A j \in 1..commitIndex[p] : log[p][j] = log'[p][j]
    BY <1>1
  <2>2. PICK i \in Nat, j \in Nat : /\ i = commitIndex[p] /\ j = commitIndex'[p] /\ i <= j
                                     /\ i <= Len(log[p]) /\ i <= Len(log'[p]) /\ j <= Len(log'[p])
    BY <1>1
  <2>3. log[p] \in Log /\ log'[p] \in Log /\ \A h \in 1..i : log[p][h] = log'[p][h]
    BY <1>1, <2>1, <2>2
  <2>4. SubSeq(log[p], 1, i) = SubSeq(log'[p], 1, i) /\ Len(SubSeq(log[p], 1, i)) = i
    BY <2>2, <2>3, SamePrefix
  <2>5. IsPrefix(SubSeq(log[p], 1, i), SubSeq(log'[p], 1, j))
    BY <2>2, <2>3, PrefixOfPrefix
  <2> QED
    BY <2>2, <2>4, <2>5
<1>7. k \in commitIndex[n]..commitIndex'[d]
  BY <1>1, <1>5
<1>8. [p \in Server |-> Committed(p)]'
      = [[p \in Server |-> Committed(p)] EXCEPT ![n] = SubSeq(Chosen', 1, k)]
  <2>1. \A p \in Server \ {n} : SubSeq(log'[p], 1, commitIndex'[p])
                               = SubSeq(log[p], 1, commitIndex[p])
    BY <1>6 DEF StepFacts
  <2> QED
    BY <1>5, <2>1 DEF Committed
<1>9. Chosen' # Chosen => k = Len(Chosen')
  <2> SUFFICES ASSUME k # commitIndex'[d] PROVE Chosen' = Chosen
    BY <1>5
  <2>1. commitIndex'[d] = commitIndex[d]
    BY DEF StepFacts
  <2>2. commitIndex[c] = commitIndex[d]
    <3>1. commitIndex[c] <= commitIndex'[c] /\ commitIndex'[c] <= commitIndex'[d]
      BY <1>1
    <3>2. commitIndex[d] <= commitIndex[c]
      OBVIOUS
    <3>3. commitIndex[c] \in Nat /\ commitIndex[d] \in Nat /\ commitIndex'[c] \in Nat
      BY <1>1
    <3> QED
      BY <2>1, <3>1, <3>2, <3>3
  <2>3. SubSeq(log[d], 1, commitIndex[d]) = SubSeq(log[c], 1, commitIndex[d])
    BY <1>1, <1>3, <2>2, SamePrefix
  <2> QED
    BY <1>6, <2>1, <2>2, <2>3 DEF Committed
<1>10. \A s, t : RL!IsPrefix(s, t) <=> IsPrefix(s, t)
  BY DEF RL!IsPrefix, IsPrefix
<1>11. RL!IsPrefix(Chosen, Chosen')
  BY <1>4, <1>10
<1>12. RL!IsPrefix(Committed(n), SubSeq(log'[n], 1, commitIndex'[n]))
  BY <1>6, <1>10 DEF Committed
<1>13. [p \in Server |-> Committed(p)][n] = Committed(n) /\ Len(Committed(n)) = commitIndex[n]
  BY <1>6 DEF Committed
<1>14. [p \in Server |-> Committed(p)]'[n] = SubSeq(log'[n], 1, commitIndex'[n])
  BY DEF Committed
<1>15. k \in Len([p \in Server |-> Committed(p)][n])..Len(Chosen')
  BY <1>5, <1>7, <1>13
<1> HIDE DEF k
<1> QED
  BY <1>8, <1>9, <1>11, <1>12, <1>13, <1>14, <1>15 DEF RL!Learn

\* Every step of a cluster is a step of the replicated log of ReplicatedLog:
\* no two nodes commit different entries at one position, and none takes back
\* an entry it has committed, whatever leaders come and go and whatever is
\* delayed, lost, repeated or reordered.
THEOREM ClusterIsReplicatedLog == ASSUME NoFaults PROVE Spec => ReplicatedLogSpec
<1>1. Init => RL!Init
  <2> SUFFICES ASSUME Init PROVE RL!Init
    OBVIOUS
  <2>1. /\ commitIndex \in [Server -> Nat]
        /\ \A p \in Server : log[p] = <<>> /\ commitIndex[p] = 0
    BY DEF Init
  <2>2. \A p \in Server : Committed(p) = <<>>
    BY <2>1 DEF Committed
  <2>3. Chosen = <<>>
    BY <2>1, <2>2, FurthestExists DEF Chosen
  <2> QED
    BY <2>2, <2>3 DEF RL!Init
<1>2. CommitInv /\ CommitInv' /\ [Next]_vars => RL!Next
  <2> SUFFICES ASSUME CommitInv, CommitInv', [Next]_vars PROVE RL!Next
    OBVIOUS
  <2>1. /\ ElectionInv /\ LeaderInv /\ LeaderInv' /\ LeadersRecorded
    BY DEF CommitInv, BaseInv, MatchInv
  <2>2. Kinds
    BY <2>1, StepKinds
  <2>3. PICK n \in Server : StepFacts(n)
    BY <2>2, CommitsGrow
  <2>4. RL!Learn(n)
    BY <2>3, CommitsKnown, CommitsKnownNext, LearnStep
  <2> QED
    BY <2>4 DEF RL!Next
<1> QED
  BY <1>1, <1>2, CommitAlways, PTL DEF Spec, ReplicatedLogSpec, RL!Spec

-----------------------------------------------------------------------------
(* Repairing a follower's log.                                             *)

\* What a rejection says of the log of the leader it answers, as long as that
\* leads: it was asked about a position, and what it reports lies before it.
\* The conflicting term has ended there in the leader's log, so that what the
\* leader appends meanwhile is not of that term.
RejectTrue(r) ==
  ~ r.success /\ Leads(r.dst, r.round) /\ r.term <= r.round =>
    /\ 1 <= r.prevIdx /\ r.conflictIdx <= r.prevIdx
    /\ r.conflictTerm # r.round
    /\ \A k \in 1..Len(log[r.dst]) : log[r.dst][k].term = r.conflictTerm => k < r.prevIdx

RejectsTrue == \A r \in appReps : RejectTrue(r)

\* The leader backs off behind what the rejection reports.
LEMMA BacktrackBehind ==
  ASSUME NEW l \in Log, NEW idx \in Nat, NEW term, NEW prev \in Nat \ {0}, idx <= prev,
         \A k \in 1..Len(l) : l[k].term = term => k < prev
  PROVE  Backtrack(l, idx, term) <= prev
<1> DEFINE own == {k \in 1..Len(l) : l[k].term = term}
<1>1. Len(l) \in Nat
  BY DEF Log
<1>2. Backtrack(l, idx, term) =
        IF term # NoTerm /\ own # {} THEN Max(own) + 1 ELSE Max({1, idx})
  BY DEF Backtrack
<1>3. Max({1, idx}) <= prev
  BY GreaterOfTwo
<1>4. own \in SUBSET Nat /\ \A k \in own : k <= Len(l) /\ k < prev
  BY <1>1
<1> HIDE DEF own
<1>5. CASE own # {}
  <2>1. Max(own) \in own
    BY <1>1, <1>4, <1>5, GreatestNat
  <2>2. Max(own) \in Nat /\ Max(own) < prev
    BY <1>4, <2>1
  <2>3. Max(own) + 1 <= prev
    BY <2>2
  <2> QED
    BY <1>2, <1>3, <2>3
<1> QED
  BY <1>2, <1>3, <1>5

\* The leader's log may have grown by entries of its own term since.
LEMMA RejectKept ==
  ASSUME BaseInv, Kinds, NEW r \in appReps, RejectTrue(r)
  PROVE  RejectTrue(r)'
<1> DEFINE n == r.dst
<1>1. /\ n \in Server /\ Basics /\ <<r.round, n>> \in leaders
      /\ r.prevIdx \in Nat /\ r.round \in Nat
  <2>1. Basics /\ ReplyTrue(r)
    BY BaseFacts DEF BaseInv, AckInv, RepliesTrue
  <2>2. r \in AppRep
    BY <2>1 DEF Basics, TypeOK
  <2> QED
    BY <2>1, <2>2 DEF AppRep, ReplyTrue
<1>2. SUFFICES ASSUME ~ r.success, Leads(n, r.round)', r.term <= r.round
               PROVE  /\ 1 <= r.prevIdx /\ r.conflictIdx <= r.prevIdx
                      /\ r.conflictTerm # r.round
                      /\ \A k \in 1..Len(log'[n]) :
                           log'[n][k].term = r.conflictTerm => k < r.prevIdx
  BY DEF RejectTrue
<1>3. role'[n] = "leader" /\ currentTerm'[n] = r.round
  BY <1>2 DEF Leads
<1>4. CASE role[n] = "leader" /\ currentTerm[n] = currentTerm'[n] /\ log'[n] = log[n]
  BY <1>2, <1>3, <1>4 DEF RejectTrue, Leads
<1>5. CASE Quiet
  BY <1>1, <1>3, <1>4, <1>5 DEF Quiet, Calm
<1>6. CASE \E p \in Server, m \in AppReq : Sends(p, m)
  BY <1>3, <1>4, <1>6 DEF Sends
<1>7. ASSUME NEW m \in appReqs, Splices(m)
      PROVE  role[n] = "leader" /\ currentTerm[n] = currentTerm'[n] /\ log'[n] = log[n]
  <2>1. /\ role'[m.dst] = "follower"
        /\ \A q \in Server \ {m.dst} : /\ log'[q] = log[q] /\ role'[q] = role[q]
                                       /\ currentTerm'[q] = currentTerm[q]
    BY <1>1, <1>7, PiecesSpliced DEF Basics
  <2> QED
    BY <1>1, <1>3, <2>1
<1>8. ASSUME NEW p \in Server, NEW x \in Entry, Appends(p, x)
      PROVE  /\ 1 <= r.prevIdx /\ r.conflictIdx <= r.prevIdx
             /\ r.conflictTerm # r.round
             /\ \A k \in 1..Len(log'[n]) :
                  log'[n][k].term = r.conflictTerm => k < r.prevIdx
  <2>1. /\ log'[p] = Append(log[p], x) /\ \A q \in Server \ {p} : log'[q] = log[q]
    BY <1>1, <1>8, PiecesGrown DEF Basics
  <2>2. \A q \in Server \ {p} : currentTerm'[q] = currentTerm[q] /\ role'[q] = role[q]
    BY <1>8 DEF Appends
  <2>3. CASE p # n
    BY <1>1, <1>3, <1>4, <2>1, <2>2, <2>3
  <2>4. CASE p = n
    <3>1. role[n] = "leader" /\ currentTerm'[n] = currentTerm[n] /\ x.term = r.round
      BY <1>1, <1>3, <1>8, <2>4 DEF Appends, Wins
    <3>2. /\ 1 <= r.prevIdx /\ r.conflictIdx <= r.prevIdx /\ r.conflictTerm # r.round
          /\ \A k \in 1..Len(log[n]) : log[n][k].term = r.conflictTerm => k < r.prevIdx
      BY <1>2, <1>3, <3>1 DEF RejectTrue, Leads
    <3>3. /\ Len(Append(log[n], x)) = Len(log[n]) + 1 /\ Len(log[n]) \in Nat
          /\ Append(log[n], x)[Len(log[n]) + 1] = x
          /\ \A k \in 1..Len(log[n]) : Append(log[n], x)[k] = log[n][k]
      <4>1. log[n] \in Seq(Entry) /\ Len(log[n]) \in Nat
        BY <1>1 DEF Basics, Log
      <4> QED
        BY <4>1, AppendProperties
    <3>4. ASSUME NEW k \in 1..Len(log'[n]), log'[n][k].term = r.conflictTerm
          PROVE  k < r.prevIdx
      <4>1. k \in 1..Len(log[n]) \/ k = Len(log[n]) + 1
        BY <2>1, <2>4, <3>3, <3>4
      <4> QED
        BY <2>1, <2>4, <3>1, <3>2, <3>3, <3>4, <4>1
    <3> QED
      BY <3>2, <3>4
  <2> QED
    BY <2>3, <2>4
<1> QED
  BY <1>4, <1>5, <1>6, <1>7, <1>8 DEF Kinds

\* Where a follower's term at the position before the batch is another than
\* the leader's, the leader has no entry of that term from there on: the term
\* runs through from its first entry in every log, so the leader would have it
\* at that position too.
LEMMA ClashEnds ==
  ASSUME BaseInv, NEW m \in appReqs, Leads(m.src, m.term),
         Clashes(log[m.dst], m.prevIdx, m.prevTerm)
  PROVE  LET ct == log[m.dst][m.prevIdx].term
         IN  /\ m.prevIdx \in 1..Len(log[m.dst])
             /\ ct # m.term
             /\ \A k \in 1..Len(log[m.src]) : log[m.src][k].term = ct => k < m.prevIdx
<1> DEFINE n    == m.dst
           q    == m.src
           l    == log[n]
           g    == log[q]
           prev == m.prevIdx
           ct   == l[prev].term
<1>1. /\ Basics /\ n \in Server /\ q \in Server /\ m \in Pieces /\ IsPiece(m)
      /\ CallTrue(m) /\ RunInv
  <2>1. Basics /\ CallTrue(m) /\ RunInv
    BY BaseFacts DEF BaseInv, AckInv, CallsTrue
  <2>2. m \in AppReq /\ m \in Pieces
    BY <2>1 DEF Basics, TypeOK, Pieces
  <2> QED
    BY <2>1, <2>2 DEF AppReq, Basics
<1>2. /\ l \in Log /\ g \in Log /\ Len(l) \in Nat /\ Len(g) \in Nat
      /\ LogPiece(l) \in Pieces /\ LogPiece(g) \in Pieces
  BY <1>1 DEF Basics
<1>3. prev \in 1..Len(l) /\ ct # m.prevTerm
  BY DEF Clashes
<1>4. Part(m, LogPiece(g)) /\ EndsWith(LogPiece(g), m.term)
  BY <1>1 DEF CallTrue, RunInv, LeadersOwn, Leads
<1>5. OneRun(LogPiece(l), LogPiece(g))
  BY <1>1, <1>2 DEF RunInv, PiecesOneRun
<1> HIDE DEF l, g
<1>6. prev \in Span(m) /\ TermAt(m, prev) = m.prevTerm
  BY <1>1, <1>2, <1>3, SpanType DEF TermAt, IsPiece
<1>7. prev \in 1..Len(g) /\ g[prev].term = m.prevTerm
  BY <1>2, <1>4, <1>6, WholeLog DEF Part, Same
<1>8. Len(g) \in 1..Len(g) /\ g[Len(g)].term = m.term
  BY <1>2, <1>4, EndsWithLog
<1>9. ASSUME NEW k \in 1..Len(g), g[k].term = ct, ~ (k < prev)
      PROVE  FALSE
  <2>1. /\ prev \in Span(LogPiece(l)) /\ TermAt(LogPiece(l), prev) = ct
        /\ k \in Span(LogPiece(g)) /\ TermAt(LogPiece(g), k) = ct
        /\ prev \in Span(LogPiece(g)) /\ TermAt(LogPiece(g), prev) = g[prev].term
    BY <1>2, <1>3, <1>7, <1>9, WholeLog
  <2>2. prev <= k /\ prev <= prev
    BY <1>2, <1>3, <1>9
  <2>3. g[prev].term = ct
    BY <1>5, <2>1, <2>2 DEF OneRun
  <2> QED
    BY <1>3, <1>7, <2>3
<1>10. ct # m.term
  <2>1. Len(g) < prev <=> FALSE
    BY <1>2, <1>7
  <2> QED
    BY <1>8, <1>9, <2>1
<1> QED
  BY <1>3, <1>9, <1>10 DEF l, g

\* A new rejection says the truth.
LEMMA RejectNew ==
  ASSUME BaseInv, NEW m \in appReqs, AppendEntries(m), NEW r \in appReps', r \notin appReps
  PROVE  RejectTrue(r)'
<1> DEFINE n == m.dst
<1>1. Basics /\ n \in Server /\ m.src \in Server /\ m.term \in Nat /\ m.prevIdx \in Nat
      /\ currentTerm[n] \in Nat /\ log[n] \in Log /\ Len(log[n]) \in Nat
  <2>1. Basics
    BY BaseFacts
  <2>2. m \in AppReq
    BY <2>1 DEF Basics, TypeOK
  <2> QED
    BY <2>1, <2>2 DEF AppReq, Basics
<1>2. SUFFICES ASSUME ~ r.success, Leads(r.dst, r.round)', r.term <= r.round
               PROVE  /\ 1 <= r.prevIdx /\ r.conflictIdx <= r.prevIdx
                      /\ r.conflictTerm # r.round
                      /\ \A k \in 1..Len(log'[r.dst]) :
                           log'[r.dst][k].term = r.conflictTerm => k < r.prevIdx
  BY DEF RejectTrue
<1>3. ASSUME NEW t, NEW s, NEW i, NEW ct, AppendReply(m, t, s, i, ct)
      PROVE  /\ r.dst = m.src /\ r.term = t /\ r.round = m.term /\ r.prevIdx = m.prevIdx
             /\ r.success = s /\ r.conflictIdx = i /\ r.conflictTerm = ct
  BY <1>3 DEF AppendReply
<1>4. CASE /\ m.term < currentTerm[n]
           /\ AppendReply(m, currentTerm[n], FALSE, 1, NoTerm)
  <2>1. AppendReply(m, currentTerm[n], FALSE, 1, NoTerm) /\ m.term < currentTerm[n]
    BY <1>4
  <2>2. r.term = currentTerm[n] /\ r.round = m.term
    BY <1>3, <2>1
  <2> QED
    BY <1>1, <1>2, <2>1, <2>2
<1>5. CASE /\ StepDown(n, m.term, m.src) /\ UNCHANGED logVars
           /\ \/ /\ m.prevIdx > Len(log[n])
                 /\ AppendReply(m, m.term, FALSE, Len(log[n]) + 1, NoTerm)
              \/ /\ Clashes(log[n], m.prevIdx, m.prevTerm)
                 /\ AppendReply(m, m.term, FALSE, FirstOfTerm(log[n], m.prevIdx),
                                log[n][m.prevIdx].term)
  <2>1. r.dst = m.src /\ r.round = m.term /\ r.prevIdx = m.prevIdx
    BY <1>3, <1>5
  <2>2. /\ role' = [role EXCEPT ![n] = "follower"]
        /\ currentTerm' = [currentTerm EXCEPT ![n] = m.term] /\ UNCHANGED log
    BY <1>5 DEF StepDown, logVars
  <2>3. role'[m.src] = "leader" /\ currentTerm'[m.src] = m.term
    BY <1>2, <2>1 DEF Leads
  <2>4. m.src # n /\ Leads(m.src, m.term)
    BY <1>1, <2>2, <2>3 DEF Basics, TypeOK, Leads
  <2>5. CASE /\ m.prevIdx > Len(log[n])
             /\ AppendReply(m, m.term, FALSE, Len(log[n]) + 1, NoTerm)
    <3>1. r.conflictIdx = Len(log[n]) + 1 /\ r.conflictTerm = NoTerm
      BY <1>3, <2>5
    <3>2. /\ 1 <= m.prevIdx /\ Len(log[n]) + 1 <= m.prevIdx /\ NoTerm # m.term
      BY <1>1, <2>5 DEF NoTerm
    <3>3. \A k \in 1..Len(log[m.src]) : log[m.src][k].term # NoTerm
      <4>1. log[m.src] \in Seq(Entry)
        BY <1>1 DEF Basics, Log
      <4> QED
        BY <4>1, EntryOfLog DEF NoTerm
    <3> QED
      BY <2>1, <2>2, <3>1, <3>2, <3>3
  <2>6. CASE /\ Clashes(log[n], m.prevIdx, m.prevTerm)
             /\ AppendReply(m, m.term, FALSE, FirstOfTerm(log[n], m.prevIdx),
                            log[n][m.prevIdx].term)
    <3>1. /\ r.conflictIdx = FirstOfTerm(log[n], m.prevIdx)
          /\ r.conflictTerm = log[n][m.prevIdx].term
      BY <1>3, <2>6
    <3>2. /\ m.prevIdx \in 1..Len(log[n]) /\ log[n][m.prevIdx].term # m.term
          /\ \A k \in 1..Len(log[m.src]) :
               log[m.src][k].term = log[n][m.prevIdx].term => k < m.prevIdx
      BY <2>4, <2>6, ClashEnds
    <3>3. FirstOfTerm(log[n], m.prevIdx) \in 1..m.prevIdx
      BY <1>1, <3>2, FirstOfTermBounds
    <3>4. FirstOfTerm(log[n], m.prevIdx) <= m.prevIdx /\ 1 <= m.prevIdx
      BY <1>1, <3>2, <3>3
    <3> QED
      BY <2>1, <2>2, <3>1, <3>2, <3>4
  <2> QED
    BY <1>5, <2>5, <2>6
<1>6. CASE AppendReply(m, m.term, TRUE, 1, NoTerm)
  BY <1>2, <1>3, <1>6
<1> QED
  BY <1>4, <1>5, <1>6 DEF AppendEntries

LEMMA RejectStep ==
  ASSUME BaseInv, Kinds, RejectsTrue, [Next]_vars
  PROVE  RejectsTrue'
<1> SUFFICES ASSUME NEW r \in appReps' PROVE RejectTrue(r)'
  BY DEF RejectsTrue
<1>1. CASE r \in appReps
  BY <1>1, RejectKept DEF RejectsTrue
<1>2. CASE r \notin appReps
  <2>1. PICK m \in appReqs : AppendEntries(m)
    BY <1>2 DEF Next, vars, appRPCs, ElectionTimeout, RequestVote, ReceiveVote, Start,
       ReplicateToPeer, ReceiveAppend, CallFails, Shutdown, Crash, Make
  <2> QED
    BY <1>2, <2>1, RejectNew
<1> QED
  BY <1>1, <1>2

\* A rejection that its leader still heeds makes the leader try a position
\* before the one just tried, whatever it has appended since and however late
\* the rejection comes: the repair of a follower's log comes to an end.
THEOREM RepairAlwaysProgresses == ASSUME NoFaults PROVE Spec => []RepairMakesProgress
<1>1. Init => RejectsTrue
  BY DEF Init, RejectsTrue
<1>2. CommitInv /\ (ElectionInv /\ LeaderInv /\ MatchInv)' /\ RejectsTrue /\ [Next]_vars
        => RejectsTrue'
  <2> SUFFICES ASSUME CommitInv, (ElectionInv /\ LeaderInv /\ MatchInv)', RejectsTrue,
                      [Next]_vars
               PROVE  RejectsTrue'
    OBVIOUS
  <2>1. /\ BaseInv /\ ElectionInv /\ LeaderInv /\ LeaderInv' /\ LeadersRecorded
    BY DEF CommitInv, BaseInv, MatchInv
  <2>2. Kinds
    BY <2>1, StepKinds
  <2> QED
    BY <2>1, <2>2, RejectStep
<1>3. CommitInv /\ RejectsTrue => RepairMakesProgress
  <2> SUFFICES ASSUME CommitInv, RejectsTrue, NEW m \in appReps,
                      role[m.dst] = "leader", currentTerm[m.dst] = m.round,
                      m.term <= currentTerm[m.dst], ~ m.success
               PROVE  Backtrack(log[m.dst], m.conflictIdx, m.conflictTerm) <= m.prevIdx
    BY DEF RepairMakesProgress
  <2>1. Basics
    BY BaseFacts DEF CommitInv
  <2>2. m \in AppRep
    BY <2>1 DEF Basics, TypeOK
  <2>3. m.dst \in Server /\ m.conflictIdx \in Nat /\ m.prevIdx \in Nat
    BY <2>2 DEF AppRep
  <2>4. /\ 1 <= m.prevIdx /\ m.conflictIdx <= m.prevIdx
        /\ \A k \in 1..Len(log[m.dst]) :
             log[m.dst][k].term = m.conflictTerm => k < m.prevIdx
    BY DEF RejectsTrue, RejectTrue, Leads
  <2>5. log[m.dst] \in Log /\ m.prevIdx \in Nat \ {0}
    BY <2>1, <2>3, <2>4 DEF Basics
  <2> QED
    BY <2>3, <2>4, <2>5, BacktrackBehind
<1> QED
  BY <1>1, <1>2, <1>3, CommitAlways, MatchAlways, PTL DEF Spec
=============================================================================
