--------------------------- MODULE Pipeline_proofs ---------------------------
(***************************************************************************)
(* Proofs about Pipeline, for every pair of documents and all options: no  *)
(* span is lost between the stages, a change names one span, the changes   *)
(* are in order and the summary counts them, and there are none when both  *)
(* documents have the same traces.  Together they make a comparison what   *)
(* Comparison promises in one step.                                        *)
(*                                                                         *)
(* The invariants of the two matchers come from TraceMatch_proofs and      *)
(* SpanMatch_proofs; Documents, TracesMatching and SpansMatching add what  *)
(* the stages hand to one another, and Comparing what Compare of           *)
(* internal/diff has reported of it.  Prepared and Silent are what a       *)
(* comparison of the same traces keeps besides.  Passed and Answering are  *)
(* what the contract needs to know of the calls that have returned.        *)
(***************************************************************************)
EXTENDS Pipeline, FiniteSetTheorems, TLAPS

TraceProofs == INSTANCE TraceMatch_proofs WITH
    Key <- Semantic, BaseTrace <- Places, CandTrace <- Places, Catalog <- TraceMatcher!Shape,
    paired <- pairedTraces, added <- addedTraces, removed <- removedTraces, status <- traceStatus

\* The traces SpanMatch may be given.
Structures ==
    {t \in Seq([key : Semantic, parent : {Root, External} \cup Nat, start : Nat]) :
        \A i \in DOMAIN t : t[i].parent \in {Root, External} \cup 1..(i - 1)}

SpanProofs == INSTANCE SpanMatch_proofs WITH
    Traces <- Structures, paired <- pairedSpans, added <- addedSpans, removed <- removedSpans,
    status <- spanStatus

-----------------------------------------------------------------------------
(* Finite sets in order *)

StrictOrder(set, order) ==
    /\ \A x \in set : <<x, x>> \notin order
    /\ \A x, y, z \in set : <<x, y>> \in order /\ <<y, z>> \in order => <<x, z>> \in order
    /\ \A x, y \in set : x # y => <<x, y>> \in order \/ <<y, x>> \in order

Rank(set, order, x) == Cardinality({y \in set : <<y, x>> \in order})

\* Later members have more predecessors.
LEMMA RankMonotone ==
    ASSUME NEW set, IsFiniteSet(set), NEW order, StrictOrder(set, order),
           NEW x \in set, NEW y \in set, <<x, y>> \in order
    PROVE  /\ Rank(set, order, x) \in Nat /\ Rank(set, order, y) \in Nat
           /\ Rank(set, order, x) < Rank(set, order, y)
<1> DEFINE below(z) == {w \in set : <<w, z>> \in order}
<1>1. IsFiniteSet(below(x)) /\ IsFiniteSet(below(y))
  BY FS_Subset
<1>2. below(x) \subseteq below(y) /\ x \in below(y) /\ x \notin below(x)
  BY DEF StrictOrder
<1>3. Cardinality(below(x)) \in Nat /\ Cardinality(below(y)) \in Nat
  BY <1>1, FS_CardinalityType
<1>4. /\ Cardinality(below(x)) <= Cardinality(below(y))
      /\ Cardinality(below(x)) # Cardinality(below(y))
  BY <1>1, <1>2, FS_Subset
<1>5. Cardinality(below(x)) < Cardinality(below(y))
  BY <1>3, <1>4
<1> QED BY <1>3, <1>5 DEF Rank

\* A member is known by the number of its predecessors, which takes every value
\* below the size of the set.
LEMMA RankBijective ==
    ASSUME NEW set, IsFiniteSet(set), NEW order, StrictOrder(set, order)
    PROVE  /\ Cardinality(set) \in Nat
           /\ \A x \in set : Rank(set, order, x) \in 0..(Cardinality(set) - 1)
           /\ \A x, y \in set : Rank(set, order, x) = Rank(set, order, y) => x = y
           /\ \A n \in 0..(Cardinality(set) - 1) : \E x \in set : Rank(set, order, x) = n
<1> DEFINE size == Cardinality(set)
           f == [x \in set |-> Rank(set, order, x)]
<1>1. size \in Nat
  BY FS_CardinalityType
<1>2. ASSUME NEW x \in set PROVE Rank(set, order, x) \in 0..(size - 1)
  <2> DEFINE below == {w \in set : <<w, x>> \in order}
  <2>1. below \subseteq set /\ x \notin below
    BY DEF StrictOrder
  <2>2. IsFiniteSet(below) /\ Cardinality(below) <= size /\ Cardinality(below) # size
    BY <2>1, FS_Subset
  <2>3. Cardinality(below) \in Nat
    BY <2>2, FS_CardinalityType
  <2> QED BY <1>1, <2>2, <2>3 DEF Rank
<1>3. ASSUME NEW x \in set, NEW y \in set, Rank(set, order, x) = Rank(set, order, y) PROVE x = y
  <2>1. ~(<<x, y>> \in order) /\ ~(<<y, x>> \in order)
    BY <1>3, RankMonotone
  <2> QED BY <2>1 DEF StrictOrder
<1>4. f \in Injection(set, 0..(size - 1))
  BY <1>2, <1>3 DEF Injection, IsInjective
<1>5. 0 \in Int /\ size - 1 \in Int
  BY <1>1
<1>6. IsFiniteSet(0..(size - 1)) /\ Cardinality(0..(size - 1)) = size
  BY <1>1, <1>5, FS_Interval
<1>7. f \in Surjection(set, 0..(size - 1))
  BY <1>4, <1>6, FS_Injection
<1>8. \A n \in 0..(size - 1) : \E x \in set : f[x] = n
  BY <1>7 DEF Surjection
<1> QED BY <1>1, <1>2, <1>3, <1>8

\* A list of a set has each of its members once, after its predecessors.
LEMMA ListedFacts ==
    ASSUME NEW set, IsFiniteSet(set), NEW order, StrictOrder(set, order)
    PROVE  LET list == Listed(set, order)
           IN  /\ Cardinality(set) \in Nat /\ DOMAIN list = 1..Cardinality(set)
               /\ \A n \in DOMAIN list :
                    list[n] \in set /\ Rank(set, order, list[n]) = n - 1
               /\ \A m, n \in DOMAIN list : list[m] = list[n] => m = n
               /\ \A x \in set : \E n \in DOMAIN list : list[n] = x
<1> DEFINE size == Cardinality(set)
           list == Listed(set, order)
<1>1. size \in Nat /\ DOMAIN list = 1..size
  BY RankBijective DEF Listed
<1>2. ASSUME NEW n \in 1..size PROVE list[n] \in set /\ Rank(set, order, list[n]) = n - 1
  <2>1. list[n] = CHOOSE x \in set : Rank(set, order, x) = n - 1
    BY DEF Listed, Rank
  <2>2. n - 1 \in 0..(size - 1)
    BY <1>1
  <2>3. \E x \in set : Rank(set, order, x) = n - 1
    BY <2>2, RankBijective
  <2> QED BY <2>1, <2>3
<1>3. ASSUME NEW x \in set PROVE \E n \in 1..size : list[n] = x
  <2>1. Rank(set, order, x) \in 0..(size - 1)
    BY RankBijective
  <2> DEFINE n == Rank(set, order, x) + 1
  <2>2. n \in 1..size /\ n - 1 = Rank(set, order, x)
    BY <1>1, <2>1
  <2>3. list[n] \in set /\ Rank(set, order, list[n]) = Rank(set, order, x)
    BY <1>2, <2>2
  <2>4. list[n] = x
    BY <2>3, RankBijective
  <2> QED BY <2>2, <2>4
<1>4. ASSUME NEW m \in 1..size, NEW n \in 1..size, list[m] = list[n] PROVE m = n
  <2>1. m - 1 = n - 1
    BY <1>2, <1>4
  <2> QED BY <1>1, <2>1
<1> QED BY <1>1, <1>2, <1>3, <1>4

-----------------------------------------------------------------------------
(* Normalized snapshots *)

\* What the later stages use of a snapshot that Snapshot returns.
Normalized(snapshot) ==
    /\ \E k \in 0..MaxTraces : DOMAIN snapshot = 1..k
    /\ \A n \in DOMAIN snapshot :
         /\ \E k \in 1..MaxCount : DOMAIN snapshot[n] = 1..k
         /\ \A i \in DOMAIN snapshot[n] :
              /\ snapshot[n][i].semantic \in Semantic
              /\ snapshot[n][i].start \in Nat
              /\ snapshot[n][i].duration \in Nat
              /\ snapshot[n][i].parent \in {Root, External} \cup 1..(i - 1)
              /\ snapshot[n][i].occurrence = Occurrence(snapshot, <<n, i>>)

\* The traces of a document, without the dropped ones, in their order.
LEMMA OrderedFacts ==
    ASSUME NEW r \in Requests, NEW document \in {r.baseline, r.candidate} \ {Broken},
           \A n \in DOMAIN document : document[n] # Malformed
    PROVE  /\ \E k \in 0..MaxTraces : DOMAIN Ordered(document) = 1..k
           /\ \A n \in DOMAIN Ordered(document) :
                NormalizedTrace(Ordered(document)[n]) /\ Ordered(document)[n] # <<>>
<1> DEFINE kept == Kept(document)
           list == Listed(kept, ByEncoding(document))
<1>1. /\ Len(document) \in 0..MaxTraces /\ DOMAIN document = 1..Len(document)
      /\ \A n \in kept : /\ n \in 1..Len(document) /\ document[n] # <<>>
                         /\ NormalizedTrace(document[n]) /\ Encoding(document[n]) \in Int
  BY RequestAssumption DEF Kept
<1>2. MaxTraces \in Nat /\ Len(document) \in Nat
  BY <1>1, PipelineAssumption
<1>3. IsFiniteSet(1..Len(document)) /\ Cardinality(1..Len(document)) = Len(document)
  BY <1>2, FS_Interval
<1>4. IsFiniteSet(kept) /\ Cardinality(kept) \in Nat /\ Cardinality(kept) <= Len(document)
  BY <1>1, <1>3, FS_Subset, FS_CardinalityType
<1>5. StrictOrder(kept, ByEncoding(document))
  <2>1. kept \subseteq Int /\ \A n \in kept : Encoding(document[n]) \in Int
    BY <1>1
  <2>2. \A x, y \in kept : <<x, y>> \in ByEncoding(document) <=>
          \/ Encoding(document[x]) < Encoding(document[y])
          \/ Encoding(document[x]) = Encoding(document[y]) /\ x < y
    BY DEF ByEncoding
  <2> QED BY <2>1, <2>2 DEF StrictOrder
<1>6. DOMAIN list = 1..Cardinality(kept) /\ \A n \in DOMAIN list : list[n] \in kept
  BY <1>4, <1>5, ListedFacts
<1>7. /\ DOMAIN Ordered(document) = DOMAIN list
      /\ \A n \in DOMAIN list : Ordered(document)[n] = document[list[n]]
  BY DEF Ordered
<1>8. Cardinality(kept) \in 0..MaxTraces
  BY <1>1, <1>2, <1>4
<1> QED BY <1>1, <1>6, <1>7, <1>8

\* A span that has been numbered is otherwise as it was.
LEMMA NumberedFields ==
    \A span, o : /\ Numbered(span, o).semantic = span.semantic
                 /\ Numbered(span, o).start = span.start
                 /\ Numbered(span, o).duration = span.duration
                 /\ Numbered(span, o).parent = span.parent
                 /\ Numbered(span, o).occurrence = o
BY DEF Numbered

\* What normalization returns for a document that it accepts.
LEMMA SnapshotNormalized ==
    ASSUME NEW r \in Requests, NEW document \in {r.baseline, r.candidate} \ {Broken},
           \A n \in DOMAIN document : document[n] # Malformed
    PROVE  Normalized(Snapshot(document))
<1> DEFINE sorted == Ordered(document)
           result == Snapshot(document)
<1>1. /\ DOMAIN result = DOMAIN sorted
      /\ \A n \in DOMAIN sorted : DOMAIN result[n] = DOMAIN sorted[n]
      /\ \A n \in DOMAIN sorted : \A i \in DOMAIN sorted[n] :
           result[n][i] = Numbered(sorted[n][i], Occurrence(sorted, <<n, i>>))
  BY DEF Snapshot
<1>2. ASSUME NEW n \in DOMAIN sorted
      PROVE  /\ \E k \in 1..MaxCount : DOMAIN sorted[n] = 1..k
             /\ \A i \in DOMAIN sorted[n] :
                  /\ sorted[n][i] \in NormalizedSpan
                  /\ sorted[n][i].parent \in {Root, External} \cup 1..(i - 1)
  <2> DEFINE t == sorted[n]
  <2>1. NormalizedTrace(t) /\ t # <<>>
    BY OrderedFacts
  <2>2. t \in Seq(NormalizedSpan) /\ Len(t) <= MaxCount
    BY <2>1 DEF NormalizedTrace
  <2>3. Len(t) \in Nat /\ DOMAIN t = 1..Len(t) /\ Len(t) # 0
    BY <2>1, <2>2
  <2>4. Len(t) \in 1..MaxCount
    BY <2>2, <2>3, PipelineAssumption
  <2>5. \A i \in DOMAIN t : t[i] \in NormalizedSpan
    BY <2>2
  <2>6. \A i \in DOMAIN t : t[i].parent \in {Root, External} \cup 1..(i - 1)
    BY <2>1 DEF NormalizedTrace
  <2> QED BY <2>3, <2>4, <2>5, <2>6
<1>3. ASSUME NEW n \in DOMAIN sorted, NEW i \in DOMAIN sorted[n]
      PROVE  /\ result[n][i].semantic = sorted[n][i].semantic
             /\ result[n][i].start = sorted[n][i].start
             /\ result[n][i].duration = sorted[n][i].duration
             /\ result[n][i].parent = sorted[n][i].parent
             /\ result[n][i].occurrence = Occurrence(sorted, <<n, i>>)
  <2>1. result[n][i] = Numbered(sorted[n][i], Occurrence(sorted, <<n, i>>))
    BY <1>1
  <2> QED BY <2>1, NumberedFields
<1>4. Positions(result) = Positions(sorted)
  BY <1>1 DEF Positions
<1>5. \A p \in Positions(sorted) : SpanAt(result, p).semantic = SpanAt(sorted, p).semantic
  BY <1>3 DEF Positions, SpanAt
<1>6. \A p \in Positions(sorted) : Occurrence(result, p) = Occurrence(sorted, p)
  BY <1>4, <1>5 DEF Occurrence
<1>7. \A n \in DOMAIN sorted : \A i \in DOMAIN sorted[n] : <<n, i>> \in Positions(sorted)
  BY DEF Positions
<1>8. \E k \in 0..MaxTraces : DOMAIN sorted = 1..k
  BY OrderedFacts
<1>9. \A n \in DOMAIN sorted : \A i \in DOMAIN sorted[n] :
        /\ result[n][i].semantic \in Semantic
        /\ result[n][i].start \in Nat /\ result[n][i].duration \in Nat
        /\ result[n][i].parent \in {Root, External} \cup 1..(i - 1)
        /\ result[n][i].occurrence = Occurrence(result, <<n, i>>)
  BY <1>2, <1>3, <1>6, <1>7 DEF NormalizedSpan
<1> QED BY <1>1, <1>2, <1>8, <1>9 DEF Normalized

\* The places of the spans of a snapshot.
LEMMA PositionFacts ==
    ASSUME NEW snapshot, Normalized(snapshot)
    PROVE  /\ IsFiniteSet(Positions(snapshot))
           /\ \A p \in Positions(snapshot) :
                p \in Nat \X Nat /\ p[1] \in DOMAIN snapshot /\ p[2] \in DOMAIN snapshot[p[1]]
           /\ \A n \in DOMAIN snapshot : \A i \in DOMAIN snapshot[n] :
                <<n, i>> \in Positions(snapshot)
<1>1. PICK k \in 0..MaxTraces : DOMAIN snapshot = 1..k
  BY DEF Normalized
<1>2. k \in Nat /\ IsFiniteSet(1..k) /\ 1..k \subseteq Nat /\ MaxCount \in Nat
  BY <1>1, PipelineAssumption, FS_Interval
<1>3. IsFiniteSet(1..MaxCount) /\ 1..MaxCount \subseteq Nat
  BY <1>2, FS_Interval
<1>4. \A n \in DOMAIN snapshot : DOMAIN snapshot[n] \subseteq 1..MaxCount
  BY <1>2 DEF Normalized
<1>5. \A p \in Positions(snapshot) :
        /\ p \in (1..k) \X (1..MaxCount)
        /\ p[1] \in DOMAIN snapshot /\ p[2] \in DOMAIN snapshot[p[1]]
  BY <1>1, <1>4 DEF Positions
<1>6. IsFiniteSet((1..k) \X (1..MaxCount))
  BY <1>2, <1>3, FS_Product
<1>7. IsFiniteSet(Positions(snapshot))
  BY <1>5, <1>6, FS_Subset
<1> QED BY <1>2, <1>3, <1>5, <1>7 DEF Positions

\* Places are ordered.
LEMMA EarlierOrder ==
    ASSUME NEW places, places \subseteq Nat \X Nat
    PROVE  StrictOrder(places, ByPlace(places))
<1>1. \A p \in places : p[1] \in Nat /\ p[2] \in Nat /\ p = <<p[1], p[2]>>
  OBVIOUS
<1>2. \A p, q \in places : <<p, q>> \in ByPlace(places) <=> Earlier(p, q)
  BY DEF ByPlace
<1>3. \A p, q, u \in places : /\ ~Earlier(p, p)
                              /\ Earlier(p, q) /\ Earlier(q, u) => Earlier(p, u)
                              /\ p # q => Earlier(p, q) \/ Earlier(q, p)
  BY <1>1 DEF Earlier
<1> QED BY <1>2, <1>3 DEF StrictOrder

\* Key and occurrence name one span of a snapshot.
LEMMA OccurrenceNames ==
    ASSUME NEW snapshot, Normalized(snapshot), NEW p \in Positions(snapshot),
           NEW q \in Positions(snapshot),
           SpanAt(snapshot, p).semantic[1] = SpanAt(snapshot, q).semantic[1],
           SpanAt(snapshot, p).occurrence = SpanAt(snapshot, q).occurrence
    PROVE  p = q
<1> DEFINE key == SpanAt(snapshot, p).semantic[1]
           same == {u \in Positions(snapshot) : SpanAt(snapshot, u).semantic[1] = key}
<1>1. same \subseteq Nat \X Nat /\ IsFiniteSet(same) /\ p \in same /\ q \in same
  BY PositionFacts, FS_Subset
<1>2. StrictOrder(same, ByPlace(same))
  BY <1>1, EarlierOrder
<1>3. ASSUME NEW u \in same PROVE SpanAt(snapshot, u).occurrence = Rank(same, ByPlace(same), u)
  <2>1. u = <<u[1], u[2]>> /\ u[1] \in DOMAIN snapshot /\ u[2] \in DOMAIN snapshot[u[1]]
    BY PositionFacts
  <2>2. SpanAt(snapshot, u).occurrence = Occurrence(snapshot, u)
    BY <2>1 DEF Normalized, SpanAt
  <2>3. {w \in Positions(snapshot) :
           /\ Earlier(w, u)
           /\ SpanAt(snapshot, w).semantic[1] = SpanAt(snapshot, u).semantic[1]}
          = {w \in same : <<w, u>> \in ByPlace(same)}
    BY DEF ByPlace
  <2> QED BY <2>2, <2>3 DEF Occurrence, Rank
<1>4. Rank(same, ByPlace(same), p) = Rank(same, ByPlace(same), q)
  BY <1>1, <1>3
<1> QED BY <1>1, <1>2, <1>4, RankBijective

\* Occurrences are natural numbers.
LEMMA OccurrenceType ==
    ASSUME NEW snapshot, Normalized(snapshot), NEW p \in Positions(snapshot)
    PROVE  SpanAt(snapshot, p).occurrence \in Nat
<1>1. p = <<p[1], p[2]>> /\ p[1] \in DOMAIN snapshot /\ p[2] \in DOMAIN snapshot[p[1]]
  BY PositionFacts
<1>2. SpanAt(snapshot, p).occurrence = Occurrence(snapshot, p)
  BY <1>1 DEF Normalized, SpanAt
<1> DEFINE earlier == {q \in Positions(snapshot) :
        /\ Earlier(q, p)
        /\ SpanAt(snapshot, q).semantic[1] = SpanAt(snapshot, p).semantic[1]}
<1>3. IsFiniteSet(earlier)
  BY PositionFacts, FS_Subset
<1>4. Cardinality(earlier) \in Nat
  BY <1>3, FS_CardinalityType
<1> QED BY <1>2, <1>4 DEF Occurrence

-----------------------------------------------------------------------------
(* The matchers of Pipeline are those the other proofs are about *)

\* Each instance has its own names of the standard operators on finite sets.
LEMMA SameCardinality ==
    \A S : /\ TraceMatcher!Cardinality(S) = Cardinality(S)
           /\ TraceProofs!Cardinality(S) = Cardinality(S)
           /\ SpanMatcher!Cardinality(S) = Cardinality(S)
           /\ SpanProofs!Cardinality(S) = Cardinality(S)
           /\ Differ!Cardinality(S) = Cardinality(S)
<1> TAKE S
<1> QED BY DEF Cardinality, TraceMatcher!Cardinality, TraceProofs!Cardinality,
           SpanMatcher!Cardinality, SpanProofs!Cardinality, Differ!Cardinality

\* The Catalog of TraceMatch, the Traces of SpanMatch: neither is in their steps.
LEMMA SameTraceMatcher ==
    /\ TraceMatcher!Next <=> TraceProofs!Next
    /\ TraceMatcher!Token = TraceProofs!Token
    /\ TraceMatcher!Shape = TraceProofs!Shape
    /\ TraceMatcher!NoSpans = TraceProofs!NoSpans
    /\ \A names, snapshot : TraceMatcher!GroupKeys(names, snapshot)
         = TraceProofs!GroupKeys(names, snapshot)
<1>1. TraceMatcher!Token = TraceProofs!Token
  BY DEF TraceMatcher!Token, TraceProofs!Token, TraceMatcher!TopToken, TraceProofs!TopToken,
         TraceMatcher!ChildToken, TraceProofs!ChildToken
<1>2. TraceMatcher!Shape = TraceProofs!Shape /\ TraceMatcher!NoSpans = TraceProofs!NoSpans
  BY <1>1 DEF TraceMatcher!Shape, TraceProofs!Shape, TraceMatcher!NoSpans, TraceProofs!NoSpans
<1>3. \A shape : TraceMatcher!GroupKey(shape) = TraceProofs!GroupKey(shape)
  BY DEF TraceMatcher!GroupKey, TraceProofs!GroupKey, TraceMatcher!HasRoot, TraceProofs!HasRoot,
         TraceMatcher!TopKeys, TraceProofs!TopKeys, TraceMatcher!TopToken, TraceProofs!TopToken
<1>4. \A names, snapshot : TraceMatcher!Described(names, snapshot)
        = TraceProofs!Described(names, snapshot)
  BY <1>2 DEF TraceMatcher!Described, TraceProofs!Described
<1>5. \A key : /\ TraceMatcher!BaseGroup(key) = TraceProofs!BaseGroup(key)
               /\ TraceMatcher!CandGroup(key) = TraceProofs!CandGroup(key)
  BY <1>3, <1>4 DEF TraceMatcher!BaseGroup, TraceProofs!BaseGroup, TraceMatcher!CandGroup,
         TraceProofs!CandGroup, TraceMatcher!GroupOf, TraceProofs!GroupOf
<1>6. \A s, t : TraceMatcher!Overlap(s, t) = TraceProofs!Overlap(s, t)
  <2>1. \A s : TraceMatcher!Copies(s) = TraceProofs!Copies(s)
    BY <1>1 DEF TraceMatcher!Copies, TraceProofs!Copies
  <2> TAKE s, t
  <2>2. TraceMatcher!Copies(s) \cap TraceMatcher!Copies(t)
          = TraceProofs!Copies(s) \cap TraceProofs!Copies(t)
    BY <2>1
  <2> QED BY <2>2, SameCardinality DEF TraceMatcher!Overlap, TraceProofs!Overlap
<1>7. \A b, c, how : TraceMatcher!Pair(b, c, how) = TraceProofs!Pair(b, c, how)
  BY <1>6 DEF TraceMatcher!Pair, TraceProofs!Pair
<1>8. \A key : TraceMatcher!ExactPairs(key) = TraceProofs!ExactPairs(key)
  BY <1>5 DEF TraceMatcher!ExactPairs, TraceProofs!ExactPairs, TraceMatcher!SameStructure,
         TraceProofs!SameStructure
<1>9. TraceMatcher!MutualBest = TraceProofs!MutualBest
  BY <1>6 DEF TraceMatcher!MutualBest, TraceProofs!MutualBest, TraceMatcher!UniqueBest,
         TraceProofs!UniqueBest
<1>10. TraceMatcher!Next <=> TraceProofs!Next
  BY <1>5, <1>7, <1>8, <1>9 DEF TraceMatcher!Next, TraceProofs!Next, 
         TraceMatcher!OneSidedGroup, TraceProofs!OneSidedGroup, TraceMatcher!ExactPass,
         TraceProofs!ExactPass, TraceMatcher!OverlapRound, TraceProofs!OverlapRound,
         TraceMatcher!Leftovers, TraceProofs!Leftovers, TraceMatcher!Ambiguous,
         TraceProofs!Ambiguous, TraceMatcher!Return, TraceProofs!Return,
         TraceMatcher!inputs, TraceProofs!inputs
<1>11. \A names, snapshot : TraceMatcher!GroupKeys(names, snapshot)
         = TraceProofs!GroupKeys(names, snapshot)
  BY <1>3, <1>4 DEF TraceMatcher!GroupKeys, TraceProofs!GroupKeys
<1> QED BY <1>1, <1>2, <1>10, <1>11

\* Likewise for spans.
LEMMA SameSpanMatcher == SpanMatcher!Next <=> SpanProofs!Next
<1>1. /\ SpanMatcher!UnusedBase = SpanProofs!UnusedBase
      /\ SpanMatcher!UnusedCand = SpanProofs!UnusedCand
  BY DEF SpanMatcher!UnusedBase, SpanProofs!UnusedBase, SpanMatcher!UnusedCand,
       SpanProofs!UnusedCand
<1>2. SpanMatcher!TopLevel = SpanProofs!TopLevel
  BY DEF SpanMatcher!TopLevel, SpanProofs!TopLevel
<1>3. \A i : /\ SpanMatcher!BaseContext(i) = SpanProofs!BaseContext(i)
             /\ SpanMatcher!CandContext(i) = SpanProofs!CandContext(i)
  BY <1>2 DEF SpanMatcher!BaseContext, SpanProofs!BaseContext, SpanMatcher!CandContext,
         SpanProofs!CandContext
<1>4. \A g : /\ SpanMatcher!AwareBase(g) = SpanProofs!AwareBase(g)
             /\ SpanMatcher!AwareCand(g) = SpanProofs!AwareCand(g)
             /\ SpanMatcher!KeyBase(g) = SpanProofs!KeyBase(g)
             /\ SpanMatcher!KeyCand(g) = SpanProofs!KeyCand(g)
  BY <1>1, <1>3 DEF SpanMatcher!AwareBase, SpanProofs!AwareBase, SpanMatcher!AwareCand,
         SpanProofs!AwareCand, SpanMatcher!KeyBase, SpanProofs!KeyBase, SpanMatcher!KeyCand,
         SpanProofs!KeyCand
<1>5. /\ SpanMatcher!AwareGroups = SpanProofs!AwareGroups
      /\ SpanMatcher!KeyGroups = SpanProofs!KeyGroups
  BY <1>2, <1>4 DEF SpanMatcher!AwareGroups, SpanProofs!AwareGroups, SpanMatcher!KeyGroups,
         SpanProofs!KeyGroups
<1>6. \A B, C : SpanMatcher!SameStart(B, C) = SpanProofs!SameStart(B, C)
  BY DEF SpanMatcher!SameStart, SpanProofs!SameStart, SpanMatcher!AtStart, SpanProofs!AtStart
<1>7. \A B, C : /\ SpanMatcher!RestBase(B, C) = SpanProofs!RestBase(B, C)
                /\ SpanMatcher!RestCand(B, C) = SpanProofs!RestCand(B, C)
  BY <1>6 DEF SpanMatcher!RestBase, SpanProofs!RestBase, SpanMatcher!RestCand, SpanProofs!RestCand
<1>8. \A B, C : SpanMatcher!Unresolved(B, C) <=> SpanProofs!Unresolved(B, C)
  BY <1>7 DEF SpanMatcher!Unresolved, SpanProofs!Unresolved, SpanMatcher!DuplicateStart,
         SpanProofs!DuplicateStart
<1>9. \A t, group, x : SpanMatcher!Place(t, group, x) = SpanProofs!Place(t, group, x)
  <2> TAKE t, group, x
  <2> DEFINE earlier == {y \in group : t[y].start < t[x].start}
  <2>1. SpanMatcher!Place(t, group, x) = Cardinality(earlier)
    BY SameCardinality DEF SpanMatcher!Place
  <2>2. SpanProofs!Place(t, group, x) = Cardinality(earlier)
    BY SameCardinality DEF SpanProofs!Place
  <2> QED BY <2>1, <2>2
<1>10. \A B, C : SpanMatcher!GroupPairs(B, C) = SpanProofs!GroupPairs(B, C)
  BY <1>6, <1>7, <1>9 DEF SpanMatcher!GroupPairs, SpanProofs!GroupPairs, SpanMatcher!InOrder,
         SpanProofs!InOrder
<1>11. \A pairs, how : SpanMatcher!Evidence(pairs, how) = SpanProofs!Evidence(pairs, how)
  BY DEF SpanMatcher!Evidence, SpanProofs!Evidence
<1>12. SpanMatcher!AwarePass <=> SpanProofs!AwarePass
  BY <1>4, <1>5, <1>8, <1>10, <1>11 DEF SpanMatcher!AwarePass, SpanProofs!AwarePass,
         SpanMatcher!inputs, SpanProofs!inputs
<1>13. SpanMatcher!FallbackPass <=> SpanProofs!FallbackPass
  BY <1>4, <1>5, <1>8, <1>10, <1>11 DEF SpanMatcher!FallbackPass, SpanProofs!FallbackPass,
         SpanMatcher!inputs, SpanProofs!inputs
<1>14. SpanMatcher!Ambiguous <=> SpanProofs!Ambiguous
  BY <1>4, <1>5, <1>8 DEF SpanMatcher!Ambiguous, SpanProofs!Ambiguous,
         SpanMatcher!inputs, SpanProofs!inputs
<1>15. SpanMatcher!Leftovers <=> SpanProofs!Leftovers
  BY <1>1 DEF SpanMatcher!Leftovers, SpanProofs!Leftovers,
         SpanMatcher!inputs, SpanProofs!inputs
<1> QED BY <1>12, <1>13, <1>14, <1>15 DEF SpanMatcher!Next, SpanProofs!Next

\* The assumptions of the matchers hold of what Pipeline gives them.
LEMMA MatcherAssumptions ==
    /\ TraceProofs!SpanShapeAssumption /\ TraceProofs!TraceMatchAssumption
    /\ SpanProofs!SpanMatchAssumption
<1>1. MaxTraces \in Int /\ IsFiniteSet(Places)
  BY PipelineAssumption, FS_Interval DEF Places
<1>2. TraceProofs!IsFiniteSet(Places) /\ TraceProofs!IsFiniteSet(Semantic)
  BY <1>1, PipelineAssumption DEF IsFiniteSet, TraceProofs!IsFiniteSet
<1>3. TraceProofs!SpanShapeAssumption
  BY <1>2, PipelineAssumption DEF TraceProofs!SpanShapeAssumption
<1>4. TraceProofs!TraceMatchAssumption
  BY <1>2, SameTraceMatcher DEF TraceProofs!TraceMatchAssumption
<1>5. SpanProofs!SpanMatchAssumption
  <2>1. \A t \in Structures : SpanProofs!NormalizedTrace(t)
    BY DEF Structures, SpanProofs!NormalizedTrace
  <2> QED BY <2>1, PipelineAssumption DEF SpanProofs!SpanMatchAssumption
<1> QED BY <1>3, <1>4, <1>5

\* So their steps keep their invariants here.
LEMMA TraceStep == ASSUME TraceProofs!IInv, TraceProofs!Next \/ UNCHANGED TraceProofs!vars
                   PROVE  TraceProofs!IInv'
<1>1. TraceProofs!SpanShapeAssumption /\ TraceProofs!TraceMatchAssumption
  BY MatcherAssumptions
<1> QED BY <1>1, TraceProofs!InvariantStep

\* The same for the steps of SpanMatch.
LEMMA SpanStep == ASSUME SpanProofs!IInv, SpanProofs!Next \/ UNCHANGED SpanProofs!vars
                  PROVE  SpanProofs!IInv'
<1>1. SpanProofs!SpanMatchAssumption
  BY MatcherAssumptions
<1> QED BY <1>1, SpanProofs!InvariantStep

-----------------------------------------------------------------------------
(* What the matchers see of a normalized snapshot *)

\* The snapshot's traces are described, and no other.
LEMMA ShapesFacts ==
    ASSUME NEW snapshot, Normalized(snapshot)
    PROVE  /\ DOMAIN snapshot \subseteq Places
           /\ Shapes(snapshot) \in [Places -> TraceMatcher!Shape \cup {TraceMatcher!NoSpans}]
           /\ \A n \in Places : Shapes(snapshot)[n] # TraceMatcher!NoSpans <=> n \in DOMAIN snapshot
<1> DEFINE tokened(n, token) == {i \in DOMAIN snapshot[n] : TokenOf(snapshot[n], i) = token}
           bag(n) == [token \in TraceMatcher!Token |-> Cardinality(tokened(n, token))]
<1>1. DOMAIN snapshot \subseteq Places
  <2>1. PICK k \in 0..MaxTraces : DOMAIN snapshot = 1..k
    BY DEF Normalized
  <2>2. MaxTraces \in Nat
    BY PipelineAssumption
  <2> QED BY <2>1, <2>2 DEF Places
<1>2. ASSUME NEW n \in DOMAIN snapshot
      PROVE  bag(n) \in TraceMatcher!Shape /\ bag(n) # TraceMatcher!NoSpans
  <2>1. PICK k \in 1..MaxCount : DOMAIN snapshot[n] = 1..k
    BY DEF Normalized
  <2>2. MaxCount \in Nat /\ k \in Nat /\ k >= 1
    BY <2>1, PipelineAssumption
  <2>3. IsFiniteSet(1..k) /\ Cardinality(1..k) = k
    BY <2>2, FS_Interval
  <2>4. ASSUME NEW token
        PROVE  IsFiniteSet(tokened(n, token)) /\ Cardinality(tokened(n, token)) \in 0..MaxCount
    <3>1. tokened(n, token) \subseteq 1..k
      BY <2>1
    <3>2. IsFiniteSet(tokened(n, token)) /\ Cardinality(tokened(n, token)) <= k
      BY <2>3, <3>1, FS_Subset
    <3>3. Cardinality(tokened(n, token)) \in Nat
      BY <3>2, FS_CardinalityType
    <3> QED BY <2>1, <2>2, <3>2, <3>3
  <2>5. bag(n) \in TraceMatcher!Shape
    BY <2>4 DEF TraceMatcher!Shape
  <2> DEFINE first == TokenOf(snapshot[n], 1)
  <2>6. 1 \in DOMAIN snapshot[n]
    BY <2>1, <2>2
  <2>7. snapshot[n][1].semantic \in Semantic /\ snapshot[n][1].parent \in {Root, External}
    <3>1. /\ snapshot[n][1].semantic \in Semantic
          /\ snapshot[n][1].parent \in {Root, External} \cup 1..(1 - 1)
      BY <2>6 DEF Normalized
    <3>2. 1..(1 - 1) = {}
      OBVIOUS
    <3> QED BY <3>1, <3>2
  <2>8. first \in TraceMatcher!Token
    <3> DEFINE s == snapshot[n][1].semantic
               kinds == {"root", "external"}
    <3>1. ASSUME NEW kind \in kinds PROVE TraceMatcher!TopToken(s, kind) \in TraceMatcher!Token
      <4>1. <<s, kind>> \in Semantic \X kinds
        BY <2>7
      <4>2. TraceMatcher!TopToken(<<s, kind>>[1], <<s, kind>>[2]) \in TraceMatcher!Token
        BY <4>1 DEF TraceMatcher!Token
      <4> QED BY <4>2
    <3>2. CASE snapshot[n][1].parent = Root
      BY <3>1, <3>2 DEF TokenOf
    <3>3. CASE snapshot[n][1].parent = External
      BY <3>1, <3>3, PipelineAssumption DEF TokenOf
    <3> QED BY <2>7, <3>2, <3>3
  <2>9. tokened(n, first) # {}
    BY <2>6
  <2>10. Cardinality(tokened(n, first)) # 0
    BY <2>4, <2>9, FS_EmptySet
  <2>11. bag(n)[first] # TraceMatcher!NoSpans[first]
    BY <2>8, <2>10 DEF TraceMatcher!NoSpans
  <2> QED BY <2>5, <2>11
<1>3. \A n \in Places :
        Shapes(snapshot)[n] = IF n \notin DOMAIN snapshot THEN TraceMatcher!NoSpans ELSE bag(n)
  BY DEF Shapes
<1>4. \A n \in Places : /\ Shapes(snapshot)[n] \in TraceMatcher!Shape \cup {TraceMatcher!NoSpans}
                        /\ Shapes(snapshot)[n] # TraceMatcher!NoSpans <=> n \in DOMAIN snapshot
  BY <1>2, <1>3
<1>5. DOMAIN Shapes(snapshot) = Places /\ Shapes(snapshot) = [n \in Places |-> Shapes(snapshot)[n]]
  BY DEF Shapes
<1> QED BY <1>1, <1>4, <1>5

\* A trace of the snapshot is one that the span matcher may be given.
LEMMA StructureFacts ==
    ASSUME NEW snapshot, Normalized(snapshot), NEW n \in DOMAIN snapshot
    PROVE  /\ Structure(snapshot[n]) \in Structures
           /\ DOMAIN Structure(snapshot[n]) = DOMAIN snapshot[n]
           /\ \A i \in DOMAIN snapshot[n] :
                Structure(snapshot[n])[i].key = SpanAt(snapshot, <<n, i>>).semantic
<1> DEFINE t == Structure(snapshot[n])
           R == [key : Semantic, parent : {Root, External} \cup Nat, start : Nat]
<1>1. PICK k \in 1..MaxCount : DOMAIN snapshot[n] = 1..k
  BY DEF Normalized
<1>2. k \in Nat /\ k >= 1
  BY <1>1, PipelineAssumption
<1>3. DOMAIN t = 1..k /\ \A i \in 1..k : t[i] = [key |-> snapshot[n][i].semantic,
                          parent |-> snapshot[n][i].parent, start |-> snapshot[n][i].start]
  BY <1>1 DEF Structure
<1>4. ASSUME NEW i \in 1..k
      PROVE  /\ t[i] \in R /\ t[i].parent \in {Root, External} \cup 1..(i - 1)
             /\ t[i].key = SpanAt(snapshot, <<n, i>>).semantic
  <2>1. /\ snapshot[n][i].semantic \in Semantic /\ snapshot[n][i].start \in Nat
        /\ snapshot[n][i].parent \in {Root, External} \cup 1..(i - 1)
    BY <1>1 DEF Normalized
  <2>2. 1..(i - 1) \subseteq Nat
    BY <1>2
  <2> QED BY <1>3, <2>1, <2>2 DEF SpanAt
<1>5. t \in [1..k -> R]
  <2>1. t = [i \in 1..k |-> t[i]]
    BY <1>1 DEF Structure
  <2> QED BY <1>4, <2>1
<1>6. t \in Seq(R)
  <2>1. \A S, f : f \in [1..k -> S] => f \in Seq(S)
    BY <1>2
  <2> QED BY <1>5, <2>1
<1> QED BY <1>1, <1>3, <1>4, <1>6 DEF Structures

-----------------------------------------------------------------------------
(* The inductive invariant: documents, traces, spans *)

Preparing == {"parse baseline", "parse candidate", "redact baseline", "redact candidate",
              "normalize baseline", "normalize candidate"}

\* What has been parsed is not broken; what is normalized is well formed.
Documents ==
    /\ request \in Requests
    /\ at \in Preparing \cup {"match traces", "match spans", "compare traces", "done", "failed"}
    /\ at \notin {"parse baseline", "failed"} => request.baseline # Broken
    /\ at \notin {"parse baseline", "parse candidate", "failed"} => request.candidate # Broken
    /\ Normalized(before) /\ Normalized(after)

\* Traces has not started, or works on the shapes of the two snapshots.
Unstarted ==
    /\ at \in Preparing \cup {"match traces", "failed"}
    /\ left = {} /\ right = {}
    /\ pairedTraces = {} /\ addedTraces = {} /\ removedTraces = {} /\ traceStatus = "groups"

TracesMatching ==
    /\ at \in Preparing => baseline = <<>>
    /\ baseline = <<>> => Unstarted
    /\ baseline # <<>> => /\ baseline = Shapes(before) /\ candidate = Shapes(after)
                          /\ TraceProofs!IInv
    /\ at \in {"match spans", "compare traces", "done"} => traceStatus = "done"

\* The result pairs spans of two snapshots one-to-one, within one operation.
PairsMatch(result, first, second) ==
    /\ DOMAIN result = {"paired", "added", "removed"}
    /\ result.paired \subseteq [base : Positions(first), cand : Positions(second)]
    /\ \A p, q \in result.paired : p.base = q.base <=> p.cand = q.cand
    /\ \A p \in result.paired : SpanAt(first, p.base).semantic = SpanAt(second, p.cand).semantic

PairedBases(result) == {p.base : p \in result.paired}
PairedCands(result) == {p.cand : p \in result.paired}

\* The result is that for some of the pairs of traces.
ResultFor(result, pairs, first, second) ==
    /\ \A p \in result.paired : \E q \in pairs : q.base = p.base[1] /\ q.cand = p.cand[1]
    /\ result.removed = SpansOf(first, {q.base : q \in pairs}) \ PairedBases(result)
    /\ result.added = SpansOf(second, {q.cand : q \in pairs}) \ PairedCands(result)

\* The result has every span of the two snapshots.
Complete(result, first, second) ==
    /\ result.removed = Positions(first) \ PairedBases(result)
    /\ result.added = Positions(second) \ PairedCands(result)

SpansMatching ==
    /\ at \in Preparing \cup {"match traces"} =>
         rest = {} /\ current = NoPair /\ found = [paired |-> {}, added |-> {}, removed |-> {}]
    /\ at = "match spans" =>
         /\ rest \subseteq pairedTraces
         /\ PairsMatch(found, before, after)
         /\ ResultFor(found, pairedTraces \ (rest \cup {current}), before, after)
         /\ current # NoPair =>
              /\ current \in pairedTraces \ rest
              /\ base = Structure(before[current.base]) /\ cand = Structure(after[current.cand])
              /\ SpanProofs!IInv
    /\ at \in {"compare traces", "done"} =>
         PairsMatch(found, before, after) /\ Complete(found, before, after)

MInv == Documents /\ TracesMatching /\ SpansMatching

\* The calls and what each step does to them.
LEMMA PrepareFacts ==
    ASSUME Prepare
    PROVE  /\ at \in Preparing /\ at' \in Preparing \cup {"match traces"}
           /\ at' # "parse baseline"
           /\ at = "parse baseline" => request.baseline # Broken
           /\ at = "parse candidate" => request.candidate # Broken
           /\ at' = "parse candidate" <=> at = "parse baseline"
           /\ at = "normalize baseline" => ~Unfit(request.baseline)
           /\ at = "normalize candidate" => ~Unfit(request.candidate)
<1>1. PICK n \in 1..6 : at = Calls[n] /\ ~Fails(at) /\ at' = Calls[n + 1]
  BY DEF Prepare
<1>2. n = 1 \/ n = 2 \/ n = 3 \/ n = 4 \/ n = 5 \/ n = 6
  OBVIOUS
<1>3. \/ at = "parse baseline" /\ at' = "parse candidate"
      \/ at = "parse candidate" /\ at' = "redact baseline"
      \/ at = "redact baseline" /\ at' = "redact candidate"
      \/ at = "redact candidate" /\ at' = "normalize baseline"
      \/ at = "normalize baseline" /\ at' = "normalize candidate"
      \/ at = "normalize candidate" /\ at' = "match traces"
  <2>1. /\ Calls[1] = "parse baseline" /\ Calls[2] = "parse candidate"
        /\ Calls[3] = "redact baseline" /\ Calls[4] = "redact candidate"
        /\ Calls[5] = "normalize baseline" /\ Calls[6] = "normalize candidate"
        /\ Calls[7] = "match traces"
    BY DEF Calls
  <2>2. 1 + 1 = 2 /\ 2 + 1 = 3 /\ 3 + 1 = 4 /\ 4 + 1 = 5 /\ 5 + 1 = 6 /\ 6 + 1 = 7
    OBVIOUS
  <2> QED BY <1>1, <1>2, <2>1, <2>2
<1> QED BY <1>1, <1>3 DEF Fails, Preparing

\* A step keeps the documents well formed.
LEMMA DocumentsStep == ASSUME MInv, [Next]_vars PROVE Documents'
<1> USE DEF Documents
<1>1. ASSUME Prepare PROVE Documents'
  <2>1. /\ request' = request /\ at' \in Preparing \cup {"match traces"}
        /\ at' # "parse baseline" /\ at # "failed"
    BY <1>1, PrepareFacts DEF Prepare, Preparing
  <2>2. /\ at' \notin {"parse baseline", "failed"} => request.baseline # Broken
        /\ at' \notin {"parse baseline", "parse candidate", "failed"} => request.candidate # Broken
    BY <1>1, <2>1, PrepareFacts DEF MInv
  <2>3. Normalized(before')
    <3>1. CASE at = "normalize baseline"
      <4>1. /\ request.baseline # Broken
            /\ \A n \in DOMAIN request.baseline : request.baseline[n] # Malformed
        BY <1>1, <3>1, PrepareFacts DEF MInv, Unfit
      <4>2. Normalized(Snapshot(request.baseline))
        BY <4>1, SnapshotNormalized DEF MInv
      <4> QED BY <1>1, <3>1, <4>2 DEF Prepare
    <3>2. CASE at # "normalize baseline"
      BY <1>1, <3>2 DEF Prepare, MInv
    <3> QED BY <3>1, <3>2
  <2>4. Normalized(after')
    <3>1. CASE at = "normalize candidate"
      <4>1. /\ request.candidate # Broken
            /\ \A n \in DOMAIN request.candidate : request.candidate[n] # Malformed
        BY <1>1, <3>1, PrepareFacts DEF MInv, Unfit
      <4>2. Normalized(Snapshot(request.candidate))
        BY <4>1, SnapshotNormalized DEF MInv
      <4> QED BY <1>1, <3>1, <4>2 DEF Prepare
    <3>2. CASE at # "normalize candidate"
      BY <1>1, <3>2 DEF Prepare, MInv
    <3> QED BY <3>1, <3>2
  <2>5. Normalized(before)' /\ Normalized(after)'
    BY <2>3, <2>4
  <2> QED BY <2>1, <2>2, <2>5 DEF MInv
<1>2. ASSUME UNCHANGED <<request, snapshots>>, at' = "failed" PROVE Documents'
  BY <1>2 DEF MInv, snapshots
<1>3. ASSUME UNCHANGED <<request, snapshots>>, at \notin Preparing \cup {"failed"} \/ at' = at,
             at' \in {at, "match spans", "compare traces", "done"}
      PROVE  Documents'
  <2>1. (Normalized(before) /\ Normalized(after))'
    BY <1>3 DEF MInv, snapshots
  <2> QED BY <1>3, <2>1 DEF MInv, Preparing
<1>4. ASSUME CallFails \/ TracesAmbiguous \/ SpansAmbiguous \/ OptionsRejected PROVE Documents'
  BY <1>2, <1>4 DEF CallFails, TracesAmbiguous, SpansAmbiguous, OptionsRejected, Fail
<1>5. ASSUME DescribeTraces \/ MatchTraces \/ MatchSpans \/ CollectSpans \/ CompareMatches
             \/ (\E p \in rest : PairTraces(p)) \/ UNCHANGED vars
      PROVE  Documents'
  BY <1>3, <1>5 DEF DescribeTraces, MatchTraces, MatchSpans, CollectSpans, CompareMatches,
         PairTraces, vars
<1>6. ASSUME TracesMatched \/ SpansMatched \/ Return PROVE Documents'
  BY <1>3, <1>6 DEF TracesMatched, SpansMatched, Return, Preparing
<1> QED BY <1>1, <1>4, <1>5, <1>6 DEF Next

\* Nothing changes what Traces works on or has returned.
LEMMA TracesUntouched ==
    ASSUME MInv, UNCHANGED <<snapshots, traceVars>>,
           at' \in {at, "match spans", "compare traces", "done", "failed"},
           at' \in {"match spans", "compare traces", "done"} => traceStatus = "done"
    PROVE  TracesMatching'
<1>1. UNCHANGED <<before, after>> /\ UNCHANGED TraceProofs!vars
  BY DEF snapshots, traceVars, TraceProofs!vars
<1>2. baseline # <<>> => TraceProofs!IInv'
  BY <1>1, TraceStep DEF MInv, TracesMatching
<1>3. baseline' = baseline /\ candidate' = candidate /\ traceStatus' = traceStatus
      /\ left' = left /\ right' = right /\ pairedTraces' = pairedTraces
      /\ addedTraces' = addedTraces /\ removedTraces' = removedTraces
  BY DEF traceVars
<1>4. Shapes(before)' = Shapes(before) /\ Shapes(after)' = Shapes(after)
  BY <1>1 DEF Shapes, TokenOf
<1>5. baseline = <<>> => traceStatus # "done"
  BY DEF MInv, TracesMatching, Unstarted
<1>6. at' \in Preparing => baseline' = <<>>
  BY <1>3 DEF MInv, TracesMatching, Preparing
<1>7. baseline' = <<>> => Unstarted'
  BY <1>3, <1>5 DEF MInv, TracesMatching, Unstarted
<1> QED BY <1>1, <1>2, <1>3, <1>4, <1>6, <1>7 DEF MInv, TracesMatching

\* The traces are described: Traces starts.
LEMMA TracesStarted == ASSUME MInv, DescribeTraces PROVE TracesMatching'
<1>1. /\ at = "match traces" /\ at' = at /\ before' = before /\ after' = after
      /\ baseline' = Shapes(before) /\ candidate' = Shapes(after)
      /\ todo' = TraceProofs!GroupKeys(Places, Shapes(before))
           \cup TraceProofs!GroupKeys(Places, Shapes(after))
      /\ left' = left /\ right' = right /\ pairedTraces' = pairedTraces
      /\ addedTraces' = addedTraces
      /\ removedTraces' = removedTraces /\ traceStatus' = traceStatus /\ baseline = <<>>
  BY SameTraceMatcher DEF DescribeTraces, snapshots
<1>2. Unstarted
  BY <1>1 DEF MInv, TracesMatching
<1>3. /\ Shapes(before) \in [Places -> TraceMatcher!Shape \cup {TraceProofs!NoSpans}]
      /\ Shapes(after) \in [Places -> TraceMatcher!Shape \cup {TraceProofs!NoSpans}]
  BY ShapesFacts, SameTraceMatcher DEF MInv, Documents
<1>4. TraceProofs!Init'
  <2>1. baseline' \in [Places -> TraceMatcher!Shape \cup {TraceProofs!NoSpans}]
        /\ candidate' \in [Places -> TraceMatcher!Shape \cup {TraceProofs!NoSpans}]
    BY <1>1, <1>3
  <2>2. todo' = TraceProofs!GroupKeys(Places, baseline')
          \cup TraceProofs!GroupKeys(Places, candidate')
    BY <1>1
  <2> QED BY <1>1, <1>2, <2>1, <2>2 DEF TraceProofs!Init, Unstarted
<1>5. TraceProofs!IInv'
  <2>1. TraceProofs!SpanShapeAssumption /\ TraceProofs!TraceMatchAssumption
    BY MatcherAssumptions
  <2> QED BY <1>4, <2>1, TraceProofs!Started
<1>6. baseline' # <<>>
  <2>1. 1 \in Places
    BY PipelineAssumption DEF Places
  <2>2. DOMAIN baseline' = Places
    BY <1>1 DEF Shapes
  <2> QED BY <2>1, <2>2
<1> QED BY <1>1, <1>5, <1>6 DEF TracesMatching, Preparing

\* A step of any stage keeps what is known of the traces.
LEMMA TracesStep == ASSUME MInv, [Next]_vars PROVE TracesMatching'
<1>1. CASE Prepare
  <2>1. at' \in Preparing \cup {"match traces"} /\ at \in Preparing
    BY <1>1, PrepareFacts
  <2>2. UNCHANGED traceVars
    BY <1>1 DEF Prepare
  <2> QED BY <2>1, <2>2 DEF MInv, TracesMatching, Unstarted, traceVars, Preparing
<1>2. CASE DescribeTraces
  BY <1>2, TracesStarted
<1>3. CASE MatchTraces
  <2>1. /\ at = "match traces" /\ at' = at /\ baseline # <<>> /\ before' = before /\ after' = after
        /\ TraceProofs!Next
    BY <1>3, SameTraceMatcher DEF MatchTraces, snapshots
  <2>2. TraceProofs!IInv /\ baseline = Shapes(before) /\ candidate = Shapes(after)
    BY <2>1 DEF MInv, TracesMatching
  <2>3. TraceProofs!IInv'
    BY <2>1, <2>2, TraceStep
  <2>4. baseline' = baseline /\ candidate' = candidate
    BY <2>1 DEF TraceProofs!Next, TraceProofs!OneSidedGroup, TraceProofs!ExactPass,
           TraceProofs!OverlapRound, TraceProofs!Leftovers, TraceProofs!Ambiguous,
           TraceProofs!Return, TraceProofs!inputs
  <2> QED BY <2>1, <2>2, <2>3, <2>4 DEF TracesMatching, Preparing
<1>4. CASE CallFails \/ TracesAmbiguous \/ SpansAmbiguous \/ OptionsRejected
  BY <1>4, TracesUntouched DEF CallFails, TracesAmbiguous, SpansAmbiguous, OptionsRejected, Fail
<1>5. CASE TracesMatched
  BY <1>5, TracesUntouched DEF TracesMatched
<1>6. CASE \/ MatchSpans \/ CollectSpans \/ CompareMatches
           \/ \E p \in rest : PairTraces(p)
           \/ UNCHANGED vars
  BY <1>6, TracesUntouched DEF MatchSpans, CollectSpans, CompareMatches, PairTraces, vars, MInv,
       TracesMatching
<1>7. CASE SpansMatched \/ Return
  BY <1>7, TracesUntouched DEF SpansMatched, Return, MInv, TracesMatching
<1> QED BY <1>1, <1>2, <1>3, <1>4, <1>5, <1>6, <1>7 DEF Next

-----------------------------------------------------------------------------
(* The spans of the pairs of traces *)

\* The pairs of traces are of traces, and none is NoPair.
LEMMA PairTyped ==
    ASSUME TraceProofs!IInv
    PROVE  /\ NoPair \notin pairedTraces
           /\ \A p \in pairedTraces : p.base \in Places /\ p.cand \in Places
<1>1. TraceProofs!SpanShapeAssumption /\ TraceProofs!TraceMatchAssumption
  BY MatcherAssumptions
<1>2. ASSUME NEW p \in pairedTraces
      PROVE  p \in [base : Places, cand : Places, how : {"exact", "overlap"}, overlap : Nat]
  <2>1. PICK b \in Places, c \in Places, how \in {"exact", "overlap"} :
               p = TraceProofs!Pair(b, c, how)
    BY DEF TraceProofs!IInv, TraceProofs!TypeOK
  <2>2. TraceProofs!Overlap(baseline[b], candidate[c]) \in Nat
    BY <1>1, TraceProofs!OverlapBounds
  <2> QED BY <2>1, <2>2 DEF TraceProofs!Pair
<1> QED BY <1>2, PipelineAssumption DEF Places

\* When Traces has returned, the traces of each snapshot are in one pair or left over.
LEMMA TracesReturned ==
    ASSUME MInv, traceStatus = "done"
    PROVE  /\ TraceProofs!IInv
           /\ DOMAIN before = {p.base : p \in pairedTraces} \cup removedTraces
           /\ DOMAIN after = {p.cand : p \in pairedTraces} \cup addedTraces
           /\ {p.base : p \in pairedTraces} \cap removedTraces = {}
           /\ {p.cand : p \in pairedTraces} \cap addedTraces = {}
           /\ \A p, q \in pairedTraces : p.base = q.base => p = q
           /\ \A p, q \in pairedTraces : p.cand = q.cand => p = q
<1>1. TraceProofs!IInv /\ baseline = Shapes(before) /\ candidate = Shapes(after)
  BY DEF MInv, TracesMatching, Unstarted
<1>2. /\ TraceProofs!EachTraceOnce /\ TraceProofs!CurrentGroup /\ TraceProofs!OneEvidence
  BY <1>1 DEF TraceProofs!IInv
<1>3. left = {} /\ right = {} /\ todo = {}
  BY <1>2 DEF TraceProofs!CurrentGroup
<1>4. TraceProofs!WaitingBase = {} /\ TraceProofs!WaitingCand = {}
  BY <1>3 DEF TraceProofs!WaitingBase, TraceProofs!WaitingCand
<1>5. TraceProofs!Described(Places, baseline) = DOMAIN before
      /\ TraceProofs!Described(Places, candidate) = DOMAIN after
  BY <1>1, ShapesFacts, SameTraceMatcher DEF TraceProofs!Described, MInv, Documents
<1>6. /\ DOMAIN before = TraceProofs!PairedBase \cup removedTraces
      /\ DOMAIN after = TraceProofs!PairedCand \cup addedTraces
      /\ TraceProofs!PairedBase \cap removedTraces = {}
      /\ TraceProofs!PairedCand \cap addedTraces = {}
      /\ \A p, q \in pairedTraces : p.base = q.base <=> p.cand = q.cand
  BY <1>2, <1>3, <1>4, <1>5 DEF TraceProofs!EachTraceOnce, TraceProofs!Partition4
<1> QED BY <1>1, <1>2, <1>6 DEF TraceProofs!PairedBase, TraceProofs!PairedCand,
             TraceProofs!OneEvidence

\* pairSpans starts on a pair of traces.
LEMMA SpansStarted == ASSUME MInv, NEW p \in rest, PairTraces(p) PROVE SpansMatching'
<1>1. /\ at = "match spans" /\ at' = at /\ current = NoPair /\ rest' = rest \ {p} /\ current' = p
      /\ found' = found /\ before' = before /\ after' = after /\ pairedTraces' = pairedTraces
      /\ base' = Structure(before[p.base]) /\ cand' = Structure(after[p.cand])
  BY DEF PairTraces, snapshots, traceVars
<1>2. /\ rest \subseteq pairedTraces /\ PairsMatch(found, before, after)
      /\ ResultFor(found, pairedTraces \ (rest \cup {current}), before, after)
      /\ traceStatus = "done"
  BY <1>1 DEF MInv, SpansMatching, TracesMatching
<1>3. NoPair \notin pairedTraces
  BY <1>2, TracesReturned, PairTyped
<1>4. p.base \in DOMAIN before /\ p.cand \in DOMAIN after
  BY <1>2, TracesReturned
<1>5. base' \in Structures /\ cand' \in Structures
  BY <1>1, <1>4, StructureFacts DEF MInv, Documents
<1>6. SpanProofs!Init'
  BY <1>5 DEF SpanProofs!Init, PairTraces
<1>7. SpanProofs!IInv'
  <2>1. SpanProofs!SpanMatchAssumption
    BY MatcherAssumptions
  <2> QED BY <1>6, <2>1, SpanProofs!Started
<1>8. pairedTraces' \ (rest' \cup {current'}) = pairedTraces \ (rest \cup {current})
  BY <1>1, <1>2, <1>3
<1>9. /\ PairsMatch(found', before', after')
      /\ ResultFor(found', pairedTraces' \ (rest' \cup {current'}), before', after')
  BY <1>1, <1>2, <1>8
<1> QED BY <1>1, <1>2, <1>7, <1>9 DEF SpansMatching, Preparing

\* What pairSpans has found for a pair of traces is appended to the result.
LEMMA SpansCollected == ASSUME MInv, CollectSpans PROVE SpansMatching'
<1> DEFINE b == current.base
           c == current.cand
           pairs == pairedTraces \ (rest \cup {current})
           new == {[base |-> <<b, p.base>>, cand |-> <<c, p.cand>>] : p \in pairedSpans}
<1>1. /\ at = "match spans" /\ at' = at /\ current # NoPair /\ spanStatus = "done"
      /\ current' = NoPair
      /\ rest' = rest /\ before' = before /\ after' = after /\ pairedTraces' = pairedTraces
      /\ found' = [paired |-> found.paired \cup new, added |-> found.added \cup ({c} \X addedSpans),
                   removed |-> found.removed \cup ({b} \X removedSpans)]
  BY DEF CollectSpans, snapshots, traceVars
<1>2. /\ rest \subseteq pairedTraces /\ current \in pairedTraces \ rest /\ traceStatus = "done"
      /\ PairsMatch(found, before, after) /\ ResultFor(found, pairs, before, after)
      /\ base = Structure(before[b]) /\ cand = Structure(after[c]) /\ SpanProofs!IInv
  BY <1>1 DEF MInv, SpansMatching, TracesMatching
<1>3. /\ NoPair \notin pairedTraces /\ b \in DOMAIN before /\ c \in DOMAIN after
      /\ \A q \in pairs : q.base # b /\ q.cand # c
  BY <1>2, TracesReturned, PairTyped
<1>4. Normalized(before) /\ Normalized(after)
  BY DEF MInv, Documents
<1>5. /\ DOMAIN base = DOMAIN before[b] /\ DOMAIN cand = DOMAIN after[c]
      /\ \A i \in DOMAIN base : base[i].key = SpanAt(before, <<b, i>>).semantic
      /\ \A i \in DOMAIN cand : cand[i].key = SpanAt(after, <<c, i>>).semantic
  BY <1>2, <1>3, <1>4, StructureFacts
<1>6. /\ \A p \in pairedSpans : p.base \in DOMAIN base /\ p.cand \in DOMAIN cand
      /\ \A p, q \in pairedSpans : p.base = q.base <=> p.cand = q.cand
      /\ \A p \in pairedSpans : base[p.base].key = cand[p.cand].key
      /\ removedSpans = DOMAIN base \ {p.base : p \in pairedSpans}
      /\ addedSpans = DOMAIN cand \ {p.cand : p \in pairedSpans}
  BY <1>1, <1>2 DEF SpanProofs!IInv, SpanProofs!TypeOK, SpanProofs!SpansOnce
<1>7. /\ \A i \in DOMAIN base : <<b, i>> \in Positions(before)
      /\ \A i \in DOMAIN cand : <<c, i>> \in Positions(after)
  BY <1>3, <1>4, <1>5, PositionFacts
<1>8. ASSUME NEW d \in new
      PROVE  \E p \in pairedSpans : d = [base |-> <<b, p.base>>, cand |-> <<c, p.cand>>]
  OBVIOUS
<1>9. ASSUME NEW p \in pairedSpans
       PROVE  \E d \in new : d.base = <<b, p.base>> /\ d.cand = <<c, p.cand>>
  <2>1. [base |-> <<b, p.base>>, cand |-> <<c, p.cand>>] \in new
    OBVIOUS
  <2> QED BY <2>1
<1>10. found'.paired = found.paired \cup new
  BY <1>1
<1>11. new \subseteq [base : Positions(before), cand : Positions(after)]
  BY <1>6, <1>7, <1>8
<1>12. \A d \in new : d.base[1] = b /\ d.cand[1] = c
  BY <1>8
<1>13. \A d, e \in new : d.base = e.base <=> d.cand = e.cand
  BY <1>6, <1>8
<1>14. \A d \in new : SpanAt(before, d.base).semantic = SpanAt(after, d.cand).semantic
  BY <1>5, <1>6, <1>8
<1>15. \A p \in found.paired : p.base[1] # b /\ p.cand[1] # c
  BY <1>2, <1>3 DEF ResultFor
<1>16. PairsMatch(found', before, after)
  <2>1. \A p, q \in found.paired \cup new : p.base = q.base <=> p.cand = q.cand
    BY <1>2, <1>12, <1>13, <1>15 DEF PairsMatch
  <2>2. \A p \in found.paired \cup new :
          SpanAt(before, p.base).semantic = SpanAt(after, p.cand).semantic
    BY <1>2, <1>14 DEF PairsMatch
  <2>3. found.paired \cup new \subseteq [base : Positions(before), cand : Positions(after)]
    BY <1>2, <1>11 DEF PairsMatch
  <2> QED BY <1>1, <2>1, <2>2, <2>3 DEF PairsMatch
<1>17. pairedTraces' \ (rest' \cup {current'}) = pairs \cup {current}
  BY <1>1, <1>2, <1>3
<1>18. \A p \in found'.paired : \E q \in pairs \cup {current} :
         q.base = p.base[1] /\ q.cand = p.cand[1]
  BY <1>1, <1>2, <1>12 DEF ResultFor
<1>19. found'.removed = SpansOf(before, {q.base : q \in pairs \cup {current}}) \ PairedBases(found')
  <2>1. found'.removed = (SpansOf(before, {q.base : q \in pairs}) \ PairedBases(found))
          \cup ({b} \X removedSpans)
    BY <1>1, <1>2 DEF ResultFor
  <2>2. PairedBases(found') = PairedBases(found) \cup {<<b, p.base>> : p \in pairedSpans}
    <3> HIDE DEF new
    <3> QED BY <1>8, <1>9, <1>10 DEF PairedBases
  <2>3. SpansOf(before, {q.base : q \in pairs \cup {current}})
          = SpansOf(before, {q.base : q \in pairs}) \cup ({b} \X DOMAIN base)
    BY <1>3, <1>4, <1>5, <1>7, PositionFacts DEF SpansOf
  <2>4. \A p \in SpansOf(before, {q.base : q \in pairs}) : p[1] # b
    BY <1>3 DEF SpansOf
  <2>5. \A p \in PairedBases(found) : p[1] # b
    BY <1>15 DEF PairedBases
  <2> QED BY <1>6, <2>1, <2>2, <2>3, <2>4, <2>5
<1>20. found'.added = SpansOf(after, {q.cand : q \in pairs \cup {current}}) \ PairedCands(found')
  <2>1. found'.added = (SpansOf(after, {q.cand : q \in pairs}) \ PairedCands(found))
          \cup ({c} \X addedSpans)
    BY <1>1, <1>2 DEF ResultFor
  <2>2. PairedCands(found') = PairedCands(found) \cup {<<c, p.cand>> : p \in pairedSpans}
    <3> HIDE DEF new
    <3> QED BY <1>8, <1>9, <1>10 DEF PairedCands
  <2>3. SpansOf(after, {q.cand : q \in pairs \cup {current}})
          = SpansOf(after, {q.cand : q \in pairs}) \cup ({c} \X DOMAIN cand)
    BY <1>3, <1>4, <1>5, <1>7, PositionFacts DEF SpansOf
  <2>4. \A p \in SpansOf(after, {q.cand : q \in pairs}) : p[1] # c
    BY <1>3 DEF SpansOf
  <2>5. \A p \in PairedCands(found) : p[1] # c
    BY <1>15 DEF PairedCands
  <2> QED BY <1>6, <2>1, <2>2, <2>3, <2>4, <2>5
<1>21. ResultFor(found', pairs \cup {current}, before, after)
  BY <1>18, <1>19, <1>20 DEF ResultFor
<1> QED BY <1>1, <1>2, <1>16, <1>17, <1>21 DEF SpansMatching, Preparing

\* The spans of the traces without a counterpart complete the result.
LEMMA SpansCompleted == ASSUME MInv, SpansMatched PROVE SpansMatching'
<1> DEFINE bases == {q.base : q \in pairedTraces}
           cands == {q.cand : q \in pairedTraces}
<1>1. /\ at = "match spans" /\ at' = "compare traces" /\ current = NoPair /\ rest = {}
      /\ before' = before /\ after' = after /\ found' = WithUnmatched
  BY DEF SpansMatched, snapshots
<1>2. /\ traceStatus = "done" /\ PairsMatch(found, before, after)
      /\ ResultFor(found, pairedTraces \ (rest \cup {current}), before, after)
  BY <1>1 DEF MInv, SpansMatching, TracesMatching
<1>3. /\ DOMAIN before = bases \cup removedTraces /\ bases \cap removedTraces = {}
      /\ DOMAIN after = cands \cup addedTraces /\ cands \cap addedTraces = {}
      /\ NoPair \notin pairedTraces
  BY <1>2, TracesReturned, PairTyped
<1>4. pairedTraces \ (rest \cup {current}) = pairedTraces
  BY <1>1, <1>3
<1>5. Normalized(before) /\ Normalized(after)
  BY DEF MInv, Documents
<1>6. /\ found'.paired = found.paired /\ DOMAIN found' = {"paired", "added", "removed"}
      /\ found'.added = found.added \cup SpansOf(after, addedTraces)
      /\ found'.removed = found.removed \cup SpansOf(before, removedTraces)
  BY <1>1, <1>2 DEF WithUnmatched, PairsMatch
<1>7. PairsMatch(found', before, after)
  BY <1>2, <1>6 DEF PairsMatch
<1>8. found'.removed = Positions(before) \ PairedBases(found')
  <2>1. found'.removed = (SpansOf(before, bases) \ PairedBases(found))
          \cup SpansOf(before, removedTraces)
    BY <1>2, <1>4, <1>6 DEF ResultFor
  <2>2. Positions(before) = SpansOf(before, bases) \cup SpansOf(before, removedTraces)
    BY <1>3, <1>5, PositionFacts DEF SpansOf
  <2>3. \A p \in PairedBases(found) : p[1] \in bases
    BY <1>2, <1>4 DEF ResultFor, PairedBases
  <2>4. PairedBases(found') = PairedBases(found)
    BY <1>6 DEF PairedBases
  <2>5. \A p \in SpansOf(before, removedTraces) : p[1] \in removedTraces
    BY DEF SpansOf
  <2> QED BY <1>3, <2>1, <2>2, <2>3, <2>4, <2>5
<1>9. found'.added = Positions(after) \ PairedCands(found')
  <2>1. found'.added = (SpansOf(after, cands) \ PairedCands(found)) \cup SpansOf(after, addedTraces)
    BY <1>2, <1>4, <1>6 DEF ResultFor
  <2>2. Positions(after) = SpansOf(after, cands) \cup SpansOf(after, addedTraces)
    BY <1>3, <1>5, PositionFacts DEF SpansOf
  <2>3. \A p \in PairedCands(found) : p[1] \in cands
    BY <1>2, <1>4 DEF ResultFor, PairedCands
  <2>4. PairedCands(found') = PairedCands(found)
    BY <1>6 DEF PairedCands
  <2>5. \A p \in SpansOf(after, addedTraces) : p[1] \in addedTraces
    BY DEF SpansOf
  <2> QED BY <1>3, <2>1, <2>2, <2>3, <2>4, <2>5
<1>10. Complete(found', before, after)
  BY <1>8, <1>9 DEF Complete
<1> QED BY <1>1, <1>7, <1>10 DEF SpansMatching, Preparing

\* A step of any stage keeps what is known of the spans.
LEMMA SpansStep == ASSUME MInv, [Next]_vars PROVE SpansMatching'
<1>1. CASE Prepare
  BY <1>1, PrepareFacts DEF Prepare, pairVars, MInv, SpansMatching, Preparing
<1>2. CASE DescribeTraces \/ MatchTraces
  BY <1>2 DEF DescribeTraces, MatchTraces, pairVars, MInv, SpansMatching, Preparing
<1>3. CASE CallFails \/ TracesAmbiguous \/ SpansAmbiguous \/ OptionsRejected
  BY <1>3 DEF CallFails, TracesAmbiguous, SpansAmbiguous, OptionsRejected, Fail, SpansMatching,
         Preparing
<1>4. CASE TracesMatched
  <2>1. /\ at = "match traces" /\ at' = "match spans" /\ rest' = pairedTraces /\ current' = current
        /\ found' = found /\ pairedTraces' = pairedTraces
    BY <1>4 DEF TracesMatched, traceVars
  <2>2. found' = [paired |-> {}, added |-> {}, removed |-> {}] /\ current' = NoPair
    BY <2>1 DEF MInv, SpansMatching
  <2>3. PairsMatch(found', before', after')
    BY <2>2 DEF PairsMatch
  <2>4. pairedTraces' \ (rest' \cup {current'}) = {}
    BY <2>1
  <2>5. ResultFor(found', {}, before', after')
    BY <2>2 DEF ResultFor, SpansOf, PairedBases, PairedCands
  <2> QED BY <2>1, <2>2, <2>3, <2>4, <2>5 DEF SpansMatching, Preparing
<1>5. CASE \E p \in rest : PairTraces(p)
  BY <1>5, SpansStarted
<1>6. CASE MatchSpans
  <2>1. /\ at = "match spans" /\ at' = at /\ current # NoPair /\ SpanProofs!Next
        /\ rest' = rest /\ current' = current /\ found' = found /\ pairedTraces' = pairedTraces
        /\ before' = before /\ after' = after
    BY <1>6, SameSpanMatcher DEF MatchSpans, pairVars, snapshots, traceVars
  <2>2. SpanProofs!IInv'
    BY <2>1, SpanStep DEF MInv, SpansMatching
  <2>3. base' = base /\ cand' = cand
    BY <2>1 DEF SpanProofs!Next, SpanProofs!AwarePass, SpanProofs!FallbackPass,
           SpanProofs!Leftovers, SpanProofs!Ambiguous, SpanProofs!inputs
  <2>4. Structure(before[current.base])' = Structure(before[current.base])
        /\ Structure(after[current.cand])' = Structure(after[current.cand])
    BY <2>1
  <2> QED BY <2>1, <2>2, <2>3, <2>4 DEF MInv, SpansMatching, Preparing
<1>7. CASE CollectSpans
  BY <1>7, SpansCollected
<1>8. CASE SpansMatched
  BY <1>8, SpansCompleted
<1>9. CASE CompareMatches \/ Return
  <2>1. /\ at = "compare traces" /\ at' \in {"compare traces", "done"}
        /\ found' = found /\ before' = before /\ after' = after
    BY <1>9 DEF CompareMatches, Return, pairVars, snapshots
  <2> QED BY <2>1 DEF MInv, SpansMatching, Preparing
<1>10. CASE UNCHANGED vars
  <2>1. /\ at' = at /\ rest' = rest /\ current' = current /\ found' = found
        /\ pairedTraces' = pairedTraces /\ before' = before /\ after' = after
        /\ base' = base /\ cand' = cand /\ UNCHANGED SpanProofs!vars
    BY <1>10 DEF vars, pairVars, snapshots, traceVars, spanVars, SpanProofs!vars
  <2>2. SpanProofs!IInv => SpanProofs!IInv'
    BY <2>1, SpanStep
  <2>3. Structure(before[current.base])' = Structure(before[current.base])
        /\ Structure(after[current.cand])' = Structure(after[current.cand])
    BY <2>1
  <2> QED BY <2>1, <2>2, <2>3 DEF MInv, SpansMatching, Preparing
<1> QED BY <1>1, <1>2, <1>3, <1>4, <1>5, <1>6, <1>7, <1>8, <1>9, <1>10 DEF Next

\* MInv holds in every state a comparison reaches.
THEOREM MatchingInvariance == Spec => []MInv
<1>1. Init => MInv
  <2> SUFFICES ASSUME Init PROVE MInv
    OBVIOUS
  <2>1. Normalized(before) /\ Normalized(after)
    <3>1. 1..0 = {} /\ 0 \in 0..MaxTraces
      BY PipelineAssumption
    <3>2. before = <<>> /\ after = <<>>
      BY DEF Init
    <3>3. \A s \in Seq(Nat) : DOMAIN s = 1..Len(s)
      OBVIOUS
    <3>4. <<>> \in Seq(Nat) /\ Len(<<>>) = 0
      OBVIOUS
    <3> QED BY <3>1, <3>2, <3>3, <3>4 DEF Normalized
  <2>2. Documents
    BY <2>1 DEF Init, Documents, Preparing
  <2>3. TracesMatching
    BY DEF Init, TracesMatching, Unstarted, Preparing
  <2>4. SpansMatching
    BY DEF Init, SpansMatching, Preparing
  <2> QED BY <2>2, <2>3, <2>4 DEF MInv
<1>2. MInv /\ [Next]_vars => MInv'
  BY DocumentsStep, TracesStep, SpansStep DEF MInv
<1> QED BY <1>1, <1>2, PTL DEF Spec

\* Between the stages of a comparison no span is lost or told of twice.
THEOREM NoSpanLost == Spec => []SpansAccounted
<1>1. MInv => SpansAccounted
  BY DEF MInv, SpansMatching, PairsMatch, Complete, PairedBases, PairedCands, SpansAccounted
<1> QED BY <1>1, MatchingInvariance, PTL

-----------------------------------------------------------------------------
(* The lists of matched spans *)

Name(span) == <<span.key, span.occurrence>>
Names(list) == {Name(list[n]) : n \in DOMAIN list}
Distinct(list) == \A m, n \in DOMAIN list : Name(list[m]) = Name(list[n]) => m = n

\* The spans of a snapshot as the diff sees them.
Seen(snapshot) == {Visible(SpanAt(snapshot, p)) : p \in Positions(snapshot)}

MatchesNamed(result, first, second) ==
    /\ result.added \in Seq(Seen(second)) /\ Distinct(result.added)
    /\ result.removed \in Seq(Seen(first)) /\ Distinct(result.removed)
    /\ result.paired \in Seq([base : Seen(first), cand : Seen(second)])
    /\ \A m, n \in DOMAIN result.paired :
         Name(result.paired[m].base) = Name(result.paired[n].base) => m = n

\* A seen span is named by its key and its occurrence.
LEMMA SeenFacts ==
    ASSUME NEW snapshot, Normalized(snapshot)
    PROVE  /\ \A p \in Positions(snapshot) :
                Name(Visible(SpanAt(snapshot, p)))
                  = <<SpanAt(snapshot, p).semantic[1], SpanAt(snapshot, p).occurrence>>
           /\ \A p, q \in Positions(snapshot) :
                Name(Visible(SpanAt(snapshot, p))) = Name(Visible(SpanAt(snapshot, q))) => p = q
           /\ \A s \in Seen(snapshot) :
                s.key \in Key /\ s.occurrence \in Nat /\ s.duration \in Nat
<1>1. \A span : /\ Visible(span).key = span.semantic[1]
                /\ Visible(span).occurrence = span.occurrence
                /\ Visible(span).duration = span.duration
                /\ Name(Visible(span)) = <<span.semantic[1], span.occurrence>>
  BY DEF Visible, Name
<1>2. ASSUME NEW p \in Positions(snapshot)
      PROVE  /\ SpanAt(snapshot, p).semantic[1] \in Key
             /\ SpanAt(snapshot, p).occurrence \in Nat /\ SpanAt(snapshot, p).duration \in Nat
  <2>1. p[1] \in DOMAIN snapshot /\ p[2] \in DOMAIN snapshot[p[1]]
    BY PositionFacts
  <2>2. SpanAt(snapshot, p).semantic \in Semantic /\ SpanAt(snapshot, p).duration \in Nat
    BY <2>1 DEF Normalized, SpanAt
  <2> QED BY <2>2, OccurrenceType, PipelineAssumption
<1>3. ASSUME NEW p \in Positions(snapshot), NEW q \in Positions(snapshot),
             Name(Visible(SpanAt(snapshot, p))) = Name(Visible(SpanAt(snapshot, q)))
      PROVE  p = q
  <2>1. <<SpanAt(snapshot, p).semantic[1], SpanAt(snapshot, p).occurrence>>
          = <<SpanAt(snapshot, q).semantic[1], SpanAt(snapshot, q).occurrence>>
    BY <1>1, <1>3
  <2>2. \A a, b, c, d : <<a, b>> = <<c, d>> => a = c /\ b = d
    OBVIOUS
  <2>3. /\ SpanAt(snapshot, p).semantic[1] = SpanAt(snapshot, q).semantic[1]
        /\ SpanAt(snapshot, p).occurrence = SpanAt(snapshot, q).occurrence
    BY ONLY <2>1, <2>2
  <2> QED BY <2>3, OccurrenceNames
<1>4. \A s \in Seen(snapshot) : s.key \in Key /\ s.occurrence \in Nat /\ s.duration \in Nat
  BY <1>1, <1>2 DEF Seen
<1> QED BY <1>1, <1>3, <1>4

\* ListOf lists spans under names of their own.
LEMMA ListOfFacts ==
    ASSUME NEW snapshot, Normalized(snapshot), NEW places \in SUBSET Positions(snapshot)
    PROVE  ListOf(places, snapshot) \in Seq(Seen(snapshot)) /\ Distinct(ListOf(places, snapshot))
<1> DEFINE list == Listed(places, ByPlace(places))
           result == ListOf(places, snapshot)
<1>1. IsFiniteSet(places) /\ StrictOrder(places, ByPlace(places))
  BY PositionFacts, EarlierOrder, FS_Subset
<1>2. /\ Cardinality(places) \in Nat /\ DOMAIN list = 1..Cardinality(places)
      /\ \A n \in DOMAIN list : list[n] \in places
      /\ \A m, n \in DOMAIN list : list[m] = list[n] => m = n
  BY <1>1, ListedFacts
<1>3. result = [n \in DOMAIN list |-> Visible(SpanAt(snapshot, list[n]))]
  BY DEF ListOf
<1> HIDE DEF list, result
<1>4. \A n \in DOMAIN list : result[n] = Visible(SpanAt(snapshot, list[n]))
        /\ result[n] \in Seen(snapshot)
  BY <1>2, <1>3 DEF Seen
<1>5. result \in [1..Cardinality(places) -> Seen(snapshot)]
  BY <1>2, <1>3, <1>4
<1>6. result \in Seq(Seen(snapshot))
  <2>1. \A S, f : f \in [1..Cardinality(places) -> S] => f \in Seq(S)
    BY <1>2
  <2> QED BY <1>5, <2>1
<1>7. Distinct(result)
  <2> SUFFICES ASSUME NEW m \in DOMAIN result, NEW n \in DOMAIN result,
                        Name(result[m]) = Name(result[n])
               PROVE  m = n
    BY DEF Distinct
  <2>1. m \in DOMAIN list /\ n \in DOMAIN list
    BY <1>3
  <2>2. list[m] \in Positions(snapshot) /\ list[n] \in Positions(snapshot)
    BY <1>2, <2>1
  <2>3. list[m] = list[n]
    BY <1>4, <2>1, <2>2, SeenFacts
  <2> QED BY <1>2, <2>1, <2>3
<1> QED BY <1>6, <1>7 DEF result

\* Pairs of spans have an order, that of their baseline spans.
LEMMA PairsOrdered ==
    ASSUME Normalized(before), Normalized(after), NEW pairs,
           pairs \subseteq [base : Positions(before), cand : Positions(after)],
           \A p, q \in pairs : p.base = q.base <=> p.cand = q.cand
    PROVE  /\ IsFiniteSet(pairs) /\ StrictOrder(pairs, ByBase(pairs))
           /\ \A p, q \in pairs : p.base = q.base => p = q
<1>1. \A p, q \in pairs : p.base = q.base => p = q
  OBVIOUS
<1>2. IsFiniteSet(pairs)
  <2> DEFINE bases == {p.base : p \in pairs}
             f == [b \in bases |-> CHOOSE p \in pairs : p.base = b]
  <2>1. bases \subseteq Positions(before) /\ IsFiniteSet(bases)
    BY PositionFacts, FS_Subset
  <2>2. \A b \in bases : f[b] \in pairs /\ f[b].base = b
    OBVIOUS
  <2>3. \A p \in pairs : p.base \in bases /\ f[p.base] = p
    BY <1>1, <2>2
  <2>4. f \in Surjection(bases, pairs)
    BY <2>2, <2>3 DEF Surjection
  <2> QED BY <2>1, <2>4, FS_Surjection
<1>3. StrictOrder(pairs, ByBase(pairs))
  <2>1. \A p \in pairs : p.base \in Nat \X Nat
    BY PositionFacts
  <2>2. \A p \in pairs : p.base[1] \in Nat /\ p.base[2] \in Nat /\ p.base = <<p.base[1], p.base[2]>>
    BY <2>1
  <2>3. \A p, q \in pairs : <<p, q>> \in ByBase(pairs) <=> Earlier(p.base, q.base)
    BY DEF ByBase
  <2>4. \A p, q, u \in pairs : /\ ~Earlier(p.base, p.base)
                               /\ Earlier(p.base, q.base) /\ Earlier(q.base, u.base)
                                    => Earlier(p.base, u.base)
                               /\ p.base # q.base
                                    => Earlier(p.base, q.base) \/ Earlier(q.base, p.base)
    BY <2>2 DEF Earlier
  <2> QED BY <1>1, <2>3, <2>4 DEF StrictOrder
<1> QED BY <1>1, <1>2, <1>3

\* And ListOfPairs lists pairs under the names of their baseline spans.
LEMMA ListOfPairsFacts ==
    ASSUME Normalized(before), Normalized(after), NEW pairs,
           pairs \subseteq [base : Positions(before), cand : Positions(after)],
           \A p, q \in pairs : p.base = q.base <=> p.cand = q.cand
    PROVE  /\ ListOfPairs(pairs) \in Seq([base : Seen(before), cand : Seen(after)])
           /\ \A m, n \in DOMAIN ListOfPairs(pairs) :
                Name(ListOfPairs(pairs)[m].base) = Name(ListOfPairs(pairs)[n].base) => m = n
<1> DEFINE list == Listed(pairs, ByBase(pairs))
           result == ListOfPairs(pairs)
           R == [base : Seen(before), cand : Seen(after)]
<1>1. /\ \A p, q \in pairs : p.base = q.base => p = q
      /\ IsFiniteSet(pairs) /\ StrictOrder(pairs, ByBase(pairs))
  BY PairsOrdered
<1>4. /\ Cardinality(pairs) \in Nat /\ DOMAIN list = 1..Cardinality(pairs)
      /\ \A n \in DOMAIN list : list[n] \in pairs
      /\ \A m, n \in DOMAIN list : list[m] = list[n] => m = n
  BY <1>1, ListedFacts
<1>5. result = [n \in DOMAIN list |-> [base |-> Visible(SpanAt(before, list[n].base)),
                                       cand |-> Visible(SpanAt(after, list[n].cand))]]
  BY DEF ListOfPairs
<1> HIDE DEF list, result
<1>6. \A n \in DOMAIN list : list[n].base \in Positions(before) /\ list[n].cand \in Positions(after)
  BY <1>4
<1>7. \A n \in DOMAIN list : result[n].base = Visible(SpanAt(before, list[n].base))
        /\ result[n] \in R
  BY <1>5, <1>6 DEF Seen
<1>8. result \in [1..Cardinality(pairs) -> R]
  BY <1>4, <1>5, <1>7
<1>9. result \in Seq(R)
  <2>1. \A S, f : f \in [1..Cardinality(pairs) -> S] => f \in Seq(S)
    BY <1>4
  <2> QED BY <1>8, <2>1
<1>10. ASSUME NEW m \in DOMAIN result, NEW n \in DOMAIN result,
                Name(result[m].base) = Name(result[n].base)
       PROVE  m = n
  <2>1. m \in DOMAIN list /\ n \in DOMAIN list
    BY <1>5
  <2>2. list[m].base = list[n].base
    BY <1>6, <1>7, <1>10, <2>1, SeenFacts
  <2>3. list[m] = list[n]
    BY <1>1, <1>4, <2>1, <2>2
  <2> QED BY <1>4, <2>1, <2>3
<1> QED BY <1>9, <1>10 DEF result

-----------------------------------------------------------------------------
(* Lists of changes *)

Kinds == {"added", "removed", "changed"}
Fields == {"", "status", "error.type", "duration"}
Record == [kind : Kinds, field : Fields, key : Key, occurrence : Nat]

Once(list) == \A m, n \in DOMAIN list : list[m] = list[n] => m = n

\* A list after another, with nothing in common.
LEMMA AppendFacts ==
    ASSUME NEW R, NEW s \in Seq(R), NEW t \in Seq(R)
    PROVE  /\ s \o t \in Seq(R)
           /\ ToSet(s \o t) = ToSet(s) \cup ToSet(t)
           /\ Once(s) /\ Once(t) /\ ToSet(s) \cap ToSet(t) = {} => Once(s \o t)
<1>1. /\ s \o t \in Seq(R) /\ Len(s) \in Nat /\ Len(t) \in Nat
      /\ DOMAIN s = 1..Len(s) /\ DOMAIN t = 1..Len(t) /\ DOMAIN (s \o t) = 1..(Len(s) + Len(t))
      /\ \A n \in 1..(Len(s) + Len(t)) : (s \o t)[n] = IF n <= Len(s) THEN s[n] ELSE t[n - Len(s)]
  OBVIOUS
<1> DEFINE u == s \o t
<1>2. \A n \in DOMAIN s : n \in DOMAIN u /\ u[n] = s[n]
  BY <1>1
<1>3. \A n \in DOMAIN t : n + Len(s) \in DOMAIN u /\ u[n + Len(s)] = t[n]
  BY <1>1
<1>4. \A n \in DOMAIN u : \/ n \in DOMAIN s /\ u[n] = s[n]
                          \/ n - Len(s) \in DOMAIN t /\ u[n] = t[n - Len(s)] /\ n \notin DOMAIN s
  BY <1>1
<1>5. DOMAIN u \subseteq Int /\ Len(s) \in Int
  BY <1>1
<1>6. u \in Seq(R)
  BY <1>1
<1> HIDE DEF u
<1>7. ToSet(u) = ToSet(s) \cup ToSet(t)
  BY <1>2, <1>3, <1>4 DEF ToSet
<1>8. ASSUME Once(s), Once(t), ToSet(s) \cap ToSet(t) = {}, NEW m \in DOMAIN u, NEW n \in DOMAIN u,
               u[m] = u[n]
      PROVE  m = n
  <2>1. \A k \in DOMAIN s : s[k] \in ToSet(s)
    BY DEF ToSet
  <2>2. \A k \in DOMAIN t : t[k] \in ToSet(t)
    BY DEF ToSet
  <2>3. CASE m \in DOMAIN s /\ n \in DOMAIN s
    BY <1>2, <1>8, <2>3 DEF Once
  <2>4. CASE m \notin DOMAIN s /\ n \notin DOMAIN s
    <3>1. m - Len(s) = n - Len(s)
      BY <1>4, <1>8, <2>4 DEF Once
    <3> QED BY <1>5, <3>1
  <2> QED BY <1>4, <1>8, <2>1, <2>2, <2>3, <2>4
<1>9. Once(s) /\ Once(t) /\ ToSet(s) \cap ToSet(t) = {} => Once(u)
  BY <1>8 DEF Once
<1> QED BY <1>6, <1>7, <1>9 DEF u

\* At most one change, which Changed returns.
LEMMA ChangedFacts ==
    ASSUME NEW p, p.base.key \in Key, p.base.occurrence \in Nat,
           NEW field \in Fields, NEW holds \in BOOLEAN
    PROVE  LET list == Differ!Changed(p, field, holds)
           IN  /\ list \in Seq(Record) /\ Once(list)
               /\ ToSet(list) = IF holds THEN {Differ!Change("changed", field, p.base)} ELSE {}
<1> DEFINE c == Differ!Change("changed", field, p.base)
<1>1. c \in Record
  BY DEF Differ!Change, Record, Kinds
<1> HIDE DEF c
<1>2. \A x : <<x>> \in Seq({x}) /\ DOMAIN <<x>> = {1} /\ <<x>>[1] = x
  OBVIOUS
<1>3. <<c>> \in Seq(Record) /\ Once(<<c>>) /\ ToSet(<<c>>) = {c}
  BY <1>1, <1>2 DEF Once, ToSet
<1>4. <<>> \in Seq(Record) /\ DOMAIN <<>> = {}
  <2>1. \A s \in Seq(Record) : DOMAIN s = 1..Len(s)
    OBVIOUS
  <2>2. <<>> \in Seq(Record) /\ Len(<<>>) = 0
    OBVIOUS
  <2>3. 1..0 = {}
    OBVIOUS
  <2> QED BY <2>1, <2>2, <2>3
<1>5. Once(<<>>) /\ ToSet(<<>>) = {}
  BY <1>4 DEF Once, ToSet
<1> QED BY <1>3, <1>4, <1>5 DEF Differ!Changed, c

\* The changes of a pair: each about another field of its baseline span.
LEMMA PairChangesFacts ==
    ASSUME NEW p, p.base.key \in Key, p.base.occurrence \in Nat
    PROVE  /\ Differ!PairChanges(p) \in Seq(Record) /\ Once(Differ!PairChanges(p))
           /\ \A c \in ToSet(Differ!PairChanges(p)) :
                c.kind = "changed" /\ c.field # "" /\ Name(c) = Name(p.base)
<1> DEFINE status == Differ!Changed(p, "status", Differ!StatusChanged(p))
           error == Differ!Changed(p, "error.type", Differ!ErrorTypeChanged(p))
           duration == Differ!Changed(p, "duration",
                          Differ!DurationChanged(p.base.duration, p.cand.duration))
           change(f) == Differ!Change("changed", f, p.base)
<1>1. status \in Seq(Record) /\ Once(status) /\ ToSet(status) \subseteq {change("status")}
  <2>1. Differ!StatusChanged(p) \in BOOLEAN
    BY DEF Differ!StatusChanged
  <2> QED BY <2>1, ChangedFacts DEF Fields
<1>2. error \in Seq(Record) /\ Once(error) /\ ToSet(error) \subseteq {change("error.type")}
  <2>1. Differ!ErrorTypeChanged(p) \in BOOLEAN
    BY DEF Differ!ErrorTypeChanged
  <2> QED BY <2>1, ChangedFacts DEF Fields
<1>3. duration \in Seq(Record) /\ Once(duration) /\ ToSet(duration) \subseteq {change("duration")}
  <2>1. Differ!DurationChanged(p.base.duration, p.cand.duration) \in BOOLEAN
    BY DEF Differ!DurationChanged, Differ!Slower
  <2> QED BY <2>1, ChangedFacts DEF Fields
<1>4. \A f \in Fields : change(f).kind = "changed" /\ change(f).field = f
        /\ Name(change(f)) = Name(p.base)
  BY DEF Differ!Change, Name
<1>5. Differ!PairChanges(p) = (status \o error) \o duration
  BY DEF Differ!PairChanges
<1>6. /\ change("status") # change("error.type") /\ change("status") # change("duration")
      /\ change("error.type") # change("duration")
  BY <1>4 DEF Fields
<1> HIDE DEF status, error, duration, change
<1>7. /\ status \o error \in Seq(Record) /\ Once(status \o error)
      /\ ToSet(status \o error) \subseteq {change("status"), change("error.type")}
  BY <1>1, <1>2, <1>6, AppendFacts
<1> DEFINE both == status \o error
<1> HIDE DEF both
<1>8. ToSet(both) \cap ToSet(duration) = {}
  BY <1>3, <1>6, <1>7 DEF both
<1>9. both \in Seq(Record) /\ Once(both)
  BY <1>7 DEF both
<1>10. /\ both \o duration \in Seq(Record) /\ Once(both \o duration)
       /\ ToSet(both \o duration) = ToSet(both) \cup ToSet(duration)
  BY <1>3, <1>8, <1>9, AppendFacts
<1>11. \A c \in ToSet(both \o duration) : \E f \in Fields \ {""} : c = change(f)
  BY <1>3, <1>7, <1>10 DEF both, Fields
<1>12. Differ!PairChanges(p) = both \o duration
  BY <1>5 DEF both
<1>13. \A c \in ToSet(both \o duration) : c.kind = "changed" /\ c.field # ""
         /\ Name(c) = Name(p.base)
  <2> SUFFICES ASSUME NEW c \in ToSet(both \o duration)
               PROVE  c.kind = "changed" /\ c.field # "" /\ Name(c) = Name(p.base)
    OBVIOUS
  <2>1. PICK f \in Fields \ {""} : c = change(f)
    BY <1>11
  <2> QED BY <1>4, <2>1
<1> QED BY <1>10, <1>12, <1>13

\* Compare sorts by four numbers, the first first.
LEMMA LessFacts ==
    ASSUME NEW c \in Record, NEW d \in Record
    PROVE  /\ Differ!KindRank(c.kind) \in Nat /\ Label(c.key) \in Nat
           /\ c.occurrence \in Nat /\ Differ!FieldRank(c.field) \in Nat
           /\ Differ!LessChange(c, d) <=>
                \/ Differ!KindRank(c.kind) < Differ!KindRank(d.kind)
                \/ /\ Differ!KindRank(c.kind) = Differ!KindRank(d.kind)
                   /\ \/ Label(c.key) < Label(d.key)
                      \/ /\ Label(c.key) = Label(d.key)
                         /\ \/ c.occurrence < d.occurrence
                            \/ /\ c.occurrence = d.occurrence
                               /\ Differ!FieldRank(c.field) < Differ!FieldRank(d.field)
<1>1. /\ Differ!KindRank(c.kind) \in Nat /\ Label(c.key) \in Nat /\ c.occurrence \in Nat
      /\ Differ!FieldRank(c.field) \in Nat
  BY PipelineAssumption DEF Record, Kinds, Fields, Differ!KindRank, Differ!FieldRank
<1> DEFINE rank(x) == <<Differ!KindRank(x.kind), Label(x.key), x.occurrence,
             Differ!FieldRank(x.field)>>
<1>2. Differ!LessChange(c, d) <=>
        \E n \in 1..4 : rank(c)[n] < rank(d)[n] /\ \A k \in 1..(n - 1) : rank(c)[k] = rank(d)[k]
  BY DEF Differ!LessChange
<1>3. \A x : /\ rank(x)[1] = Differ!KindRank(x.kind) /\ rank(x)[2] = Label(x.key)
             /\ rank(x)[3] = x.occurrence /\ rank(x)[4] = Differ!FieldRank(x.field)
  OBVIOUS
<1> HIDE DEF rank
<1>4. /\ 1..4 = {1, 2, 3, 4} /\ 1..(1 - 1) = {} /\ 1..(2 - 1) = {1} /\ 1..(3 - 1) = {1, 2}
      /\ 1..(4 - 1) = {1, 2, 3}
  OBVIOUS
<1>5. Differ!LessChange(c, d) <=>
        \/ rank(c)[1] < rank(d)[1]
        \/ rank(c)[2] < rank(d)[2] /\ rank(c)[1] = rank(d)[1]
        \/ rank(c)[3] < rank(d)[3] /\ rank(c)[1] = rank(d)[1] /\ rank(c)[2] = rank(d)[2]
        \/ rank(c)[4] < rank(d)[4] /\ rank(c)[1] = rank(d)[1] /\ rank(c)[2] = rank(d)[2]
             /\ rank(c)[3] = rank(d)[3]
  BY <1>2, <1>4
<1> QED BY <1>1, <1>3, <1>5

\* So a change compares as its four numbers do.
LEMMA LessOrder ==
    /\ \A c \in Record : ~Differ!LessChange(c, c)
    /\ \A c, d \in Record : Differ!LessChange(c, d) => ~Differ!LessChange(d, c)
    /\ \A c, d, e \in Record :
         Differ!LessChange(c, d) /\ Differ!LessChange(d, e) => Differ!LessChange(c, e)
    /\ \A c, d, e \in Record :
         Differ!LessChange(c, e) => Differ!LessChange(c, d) \/ Differ!LessChange(d, e)
    /\ \A c, d \in Record : ~Differ!LessChange(c, d) /\ ~Differ!LessChange(d, c) =>
         /\ Differ!KindRank(c.kind) = Differ!KindRank(d.kind) /\ Label(c.key) = Label(d.key)
         /\ c.occurrence = d.occurrence /\ Differ!FieldRank(c.field) = Differ!FieldRank(d.field)
<1> SUFFICES ASSUME NEW c \in Record, NEW d \in Record, NEW e \in Record
             PROVE  /\ ~Differ!LessChange(c, c)
                    /\ Differ!LessChange(c, d) => ~Differ!LessChange(d, c)
                    /\ Differ!LessChange(c, d) /\ Differ!LessChange(d, e) => Differ!LessChange(c, e)
                    /\ Differ!LessChange(c, e) => Differ!LessChange(c, d) \/ Differ!LessChange(d, e)
                    /\ ~Differ!LessChange(c, d) /\ ~Differ!LessChange(d, c) =>
                         /\ Differ!KindRank(c.kind) = Differ!KindRank(d.kind)
                         /\ Label(c.key) = Label(d.key) /\ c.occurrence = d.occurrence
                         /\ Differ!FieldRank(c.field) = Differ!FieldRank(d.field)
  OBVIOUS
<1> QED BY LessFacts

\* The places of a list in the order in which a stable sort leaves them.
Precedes(list, i, j) ==
    \/ Differ!LessChange(list[i], list[j])
    \/ ~Differ!LessChange(list[j], list[i]) /\ i < j

ByChange(places, list) == {r \in places \X places : Precedes(list, r[1], r[2])}

\* What the order relates.
LEMMA ByChangeFacts ==
    ASSUME NEW places, NEW list, NEW i \in places, NEW j \in places
    PROVE  <<i, j>> \in ByChange(places, list) <=> Precedes(list, i, j)
BY DEF ByChange

\* What Sorted returns: the same changes in order.
LEMMA SortedFacts ==
    ASSUME NEW list \in Seq(Record)
    PROVE  LET sorted == Differ!Sorted(list)
           IN  /\ sorted \in Seq(Record) /\ ToSet(sorted) = ToSet(list)
               /\ Once(list) => Once(sorted)
               /\ \A m, n \in DOMAIN sorted : m < n => ~Differ!LessChange(sorted[n], sorted[m])
<1> DEFINE size == Len(list)
           less(i, j) == Differ!LessChange(list[i], list[j])
           order == ByChange(DOMAIN list, list)
           origin(n) == CHOOSE i \in DOMAIN list : Differ!Place(list, i) = n
           sorted == Differ!Sorted(list)
<1>1. /\ size \in Nat /\ DOMAIN list = 1..size /\ DOMAIN list \subseteq Int
      /\ \A i \in DOMAIN list : list[i] \in Record
  OBVIOUS
<1>2. IsFiniteSet(DOMAIN list) /\ Cardinality(DOMAIN list) = size
  <2>1. 1 \in Int /\ size \in Int /\ size - 1 + 1 = size /\ (1 > size => size = 0)
    BY <1>1
  <2> QED BY <1>1, <2>1, FS_Interval
<1>3. /\ \A i \in DOMAIN list : ~less(i, i)
      /\ \A i, j \in DOMAIN list : less(i, j) => ~less(j, i)
      /\ \A i, j, k \in DOMAIN list : less(i, j) /\ less(j, k) => less(i, k)
      /\ \A i, j, k \in DOMAIN list : less(i, k) => less(i, j) \/ less(j, k)
  BY <1>1, LessOrder
<1> HIDE DEF less
<1>4. \A i, j \in DOMAIN list : <<i, j>> \in order <=> less(i, j) \/ (~less(j, i) /\ i < j)
  <2>1. \A i, j \in DOMAIN list : <<i, j>> \in order <=> Precedes(list, i, j)
    BY ByChangeFacts
  <2> QED BY <2>1 DEF Precedes, less
<1> HIDE DEF order
<1>5. StrictOrder(DOMAIN list, order)
  BY <1>1, <1>3, <1>4 DEF StrictOrder
<1>6. ASSUME NEW i \in DOMAIN list PROVE Differ!Place(list, i) = Rank(DOMAIN list, order, i) + 1
  <2> DEFINE below == {j \in DOMAIN list : <<j, i>> \in order}
             upto == {j \in DOMAIN list :
                        \/ Differ!LessChange(list[j], list[i])
                        \/ ~Differ!LessChange(list[i], list[j]) /\ j <= i}
  <2>1. upto = below \cup {i} /\ i \notin below
    BY <1>1, <1>3, <1>4 DEF less
  <2>2. IsFiniteSet(below)
    BY <1>2, FS_Subset
  <2>3. Cardinality(upto) = Cardinality(below) + 1
    BY <2>1, <2>2, FS_AddElement
  <2>4. Differ!Place(list, i) = Cardinality(upto)
    BY SameCardinality DEF Differ!Place
  <2>5. Rank(DOMAIN list, order, i) = Cardinality(below)
    BY DEF Rank
  <2> QED BY <2>3, <2>4, <2>5
<1>7. \A n \in 1..size : origin(n) \in DOMAIN list /\ Rank(DOMAIN list, order, origin(n)) = n - 1
  <2> SUFFICES ASSUME NEW n \in 1..size
               PROVE  origin(n) \in DOMAIN list /\ Rank(DOMAIN list, order, origin(n)) = n - 1
    OBVIOUS
  <2>1. n - 1 \in 0..(size - 1)
    BY <1>1
  <2>2. \E i \in DOMAIN list : Rank(DOMAIN list, order, i) = n - 1
    BY <1>2, <1>5, <2>1, RankBijective
  <2>3. \E i \in DOMAIN list : Differ!Place(list, i) = n
    BY <1>6, <2>2
  <2>4. origin(n) \in DOMAIN list /\ Differ!Place(list, origin(n)) = n
    BY <2>3
  <2>5. Rank(DOMAIN list, order, origin(n)) \in Int
    BY <1>2, <1>5, <2>4, RankBijective
  <2>6. Rank(DOMAIN list, order, origin(n)) + 1 = n
    BY <1>6, <2>4
  <2> QED BY <2>4, <2>5, <2>6
<1>8. DOMAIN sorted = 1..size /\ \A n \in 1..size : sorted[n] = list[origin(n)]
  BY <1>1 DEF Differ!Sorted
<1> HIDE DEF origin, sorted
<1>9. sorted \in Seq(Record)
  <2>1. sorted = [n \in 1..size |-> sorted[n]]
    BY <1>1 DEF sorted, Differ!Sorted
  <2>2. sorted \in [1..size -> Record]
    BY <1>1, <1>7, <1>8, <2>1
  <2>3. \A S, f : f \in [1..size -> S] => f \in Seq(S)
    BY <1>1
  <2> QED BY <2>2, <2>3
<1>10. \A i \in DOMAIN list : \E n \in 1..size : origin(n) = i
  <2> SUFFICES ASSUME NEW i \in DOMAIN list PROVE \E n \in 1..size : origin(n) = i
    OBVIOUS
  <2> DEFINE n == Rank(DOMAIN list, order, i) + 1
  <2>1. Rank(DOMAIN list, order, i) \in 0..(size - 1)
    BY <1>2, <1>5, RankBijective
  <2>2. n \in 1..size /\ n - 1 = Rank(DOMAIN list, order, i)
    BY <1>1, <2>1
  <2>3. /\ origin(n) \in DOMAIN list
        /\ Rank(DOMAIN list, order, origin(n)) = Rank(DOMAIN list, order, i)
    BY <1>7, <2>2
  <2>4. origin(n) = i
    BY <1>2, <1>5, <2>3, RankBijective
  <2> QED BY <2>2, <2>4
<1>11. \A m, n \in 1..size : origin(m) = origin(n) => m = n
  <2> SUFFICES ASSUME NEW m \in 1..size, NEW n \in 1..size, origin(m) = origin(n) PROVE m = n
    OBVIOUS
  <2>1. m - 1 = n - 1
    BY <1>7
  <2> QED BY <1>1, <2>1
<1>12. ToSet(sorted) = ToSet(list)
  BY <1>7, <1>8, <1>10 DEF ToSet
<1>13. Once(list) => Once(sorted)
  BY <1>7, <1>8, <1>11 DEF Once
<1>14. ASSUME NEW m \in 1..size, NEW n \in 1..size, m < n PROVE ~less(origin(n), origin(m))
  <2>1. origin(m) \in DOMAIN list /\ origin(n) \in DOMAIN list /\ origin(m) # origin(n)
    BY <1>1, <1>7, <1>11, <1>14
  <2>2. CASE <<origin(n), origin(m)>> \in order
    <3>1. Rank(DOMAIN list, order, origin(n)) < Rank(DOMAIN list, order, origin(m))
      BY <1>2, <1>5, <2>1, <2>2, RankMonotone
    <3>2. n - 1 < m - 1
      BY <1>7, <3>1
    <3> QED BY <1>1, <1>14, <3>2
  <2> QED BY <1>3, <1>4, <2>1, <2>2
<1> QED BY <1>8, <1>9, <1>12, <1>13, <1>14 DEF less, sorted

\* The names of distinct list elements are as many as the list is long.
LEMMA NamesCounted ==
    ASSUME NEW R, NEW list \in Seq(R), Distinct(list)
    PROVE  IsFiniteSet(Names(list)) /\ Cardinality(Names(list)) = Len(list)
<1> DEFINE f == [n \in 1..Len(list) |-> Name(list[n])]
<1>1. Len(list) \in Nat /\ DOMAIN list = 1..Len(list)
  OBVIOUS
<1>2. IsFiniteSet(1..Len(list)) /\ Cardinality(1..Len(list)) = Len(list)
  <2>1. /\ 1 \in Int /\ Len(list) \in Int /\ Len(list) - 1 + 1 = Len(list)
        /\ (1 > Len(list) => Len(list) = 0)
    BY <1>1
  <2> QED BY <2>1, FS_Interval
<1>3. f \in Bijection(1..Len(list), Names(list))
  <2>1. \A n \in 1..Len(list) : f[n] = Name(list[n]) /\ f[n] \in Names(list)
    BY <1>1 DEF Names
  <2>2. \A x \in Names(list) : \E n \in 1..Len(list) : f[n] = x
    BY <1>1, <2>1 DEF Names
  <2>3. \A m, n \in 1..Len(list) : f[m] = f[n] => m = n
    BY <1>1, <2>1 DEF Distinct
  <2> QED BY <2>1, <2>2, <2>3 DEF Bijection, Injection, Surjection, IsInjective
<1> QED BY <1>2, <1>3, FS_Bijection DEF ExistsBijection

-----------------------------------------------------------------------------
(* The inductive invariant: changes *)

Pair(n) == matches.paired[n]

\* The pairs before a place in which something has changed, and their names.
ChangedBefore(n) == {m \in DOMAIN matches.paired : m < n /\ Differ!PairChanges(Pair(m)) # <<>>}
ChangedNames(n) == {Name(Pair(m).base) : m \in ChangedBefore(n)}

\* What is to be reported of the unmatched spans and of the pairs before a place.
Reports(c, n) ==
    \/ \E span \in ToSet(matches.added) : c = Differ!Change("added", "", span)
    \/ \E span \in ToSet(matches.removed) : c = Differ!Change("removed", "", span)
    \/ \E m \in ChangedBefore(n) : c \in ToSet(Differ!PairChanges(Pair(m)))

Reporting ==
    /\ changes \in Seq(Record) /\ Once(changes)
    /\ \A c \in Record : c \in ToSet(changes) <=> Reports(c, next)
    /\ next \in 1..(Len(matches.paired) + 1)
    /\ IsFiniteSet(ChangedNames(next)) /\ changedSpans = Cardinality(ChangedNames(next))

Comparing ==
    /\ at \notin {"compare traces", "done", "failed"} => diffStage = "options"
    /\ at = "failed" => diffStage \in {"options", "rejected"}
    /\ at = "done" => diffStage = "done"
    /\ at \in {"compare traces", "done"} => MatchesNamed(matches, before, after)
    /\ diffStage = "options" => changes = <<>> /\ next = 1 /\ changedSpans = 0
    /\ diffStage \in {"pairs", "done"} => Reporting
    /\ diffStage = "done" =>
         /\ next = Len(matches.paired) + 1
         /\ \A m, n \in DOMAIN changes : m < n => ~Differ!LessChange(changes[n], changes[m])

\* The matched spans are listed under their names.
LEMMA MatchesListed == ASSUME MInv, SpansMatched PROVE MatchesNamed(matches', before, after)
<1> DEFINE all == WithUnmatched
<1>1. /\ found' = all /\ before' = before /\ after' = after /\ at' = "compare traces"
      /\ matches' = [paired |-> ListOfPairs(all.paired), added |-> ListOf(all.added, after),
                     removed |-> ListOf(all.removed, before)]
  BY DEF SpansMatched, snapshots
<1>2. PairsMatch(all, before, after) /\ Complete(all, before, after)
  <2>1. PairsMatch(found', before', after') /\ Complete(found', before', after')
    BY <1>1, SpansCompleted DEF SpansMatching
  <2> QED BY <1>1, <2>1
<1>3. Normalized(before) /\ Normalized(after)
  BY DEF MInv, Documents
<1> HIDE DEF all
<1>4. /\ all.removed \in SUBSET Positions(before) /\ all.added \in SUBSET Positions(after)
      /\ all.paired \subseteq [base : Positions(before), cand : Positions(after)]
      /\ \A p, q \in all.paired : p.base = q.base <=> p.cand = q.cand
  BY <1>2 DEF PairsMatch, Complete
<1>5. ListOf(all.added, after) \in Seq(Seen(after)) /\ Distinct(ListOf(all.added, after))
  BY <1>3, <1>4, ListOfFacts
<1>6. ListOf(all.removed, before) \in Seq(Seen(before)) /\ Distinct(ListOf(all.removed, before))
  BY <1>3, <1>4, ListOfFacts
<1>7. /\ ListOfPairs(all.paired) \in Seq([base : Seen(before), cand : Seen(after)])
      /\ \A m, n \in DOMAIN ListOfPairs(all.paired) :
           Name(ListOfPairs(all.paired)[m].base) = Name(ListOfPairs(all.paired)[n].base) => m = n
  BY <1>3, <1>4, ListOfPairsFacts
<1>8. /\ matches'.paired = ListOfPairs(all.paired) /\ matches'.added = ListOf(all.added, after)
      /\ matches'.removed = ListOf(all.removed, before)
  BY <1>1
<1> QED BY <1>5, <1>6, <1>7, <1>8 DEF MatchesNamed

\* The spans of matches have a key and an occurrence.
LEMMA MatchesTyped ==
    ASSUME MInv, MatchesNamed(matches, before, after)
    PROVE  /\ Len(matches.paired) \in Nat /\ DOMAIN matches.paired = 1..Len(matches.paired)
           /\ \A n \in DOMAIN matches.paired :
                Pair(n).base \in Seen(before) /\ Pair(n).base.key \in Key
                  /\ Pair(n).base.occurrence \in Nat
           /\ \A s \in ToSet(matches.added) : s \in Seen(after) /\ s.key \in Key
                /\ s.occurrence \in Nat
           /\ \A s \in ToSet(matches.removed) : s \in Seen(before) /\ s.key \in Key
                /\ s.occurrence \in Nat
<1>1. Normalized(before) /\ Normalized(after)
  BY DEF MInv, Documents
<1>2. \A S, s : s \in Seq(S)
        => Len(s) \in Nat /\ DOMAIN s = 1..Len(s) /\ \A n \in DOMAIN s : s[n] \in S
  OBVIOUS
<1>3. \A n \in DOMAIN matches.paired : Pair(n).base \in Seen(before)
  <2>1. \A n \in DOMAIN matches.paired : Pair(n) \in [base : Seen(before), cand : Seen(after)]
    BY <1>2 DEF MatchesNamed, Pair
  <2> QED BY <2>1
<1>4. /\ \A s \in ToSet(matches.added) : s \in Seen(after)
      /\ \A s \in ToSet(matches.removed) : s \in Seen(before)
  BY <1>2 DEF MatchesNamed, ToSet
<1>5. Len(matches.paired) \in Nat /\ DOMAIN matches.paired = 1..Len(matches.paired)
  BY <1>2 DEF MatchesNamed
<1> QED BY <1>1, <1>3, <1>4, <1>5, SeenFacts

\* The added and the removed spans are listed.
LEMMA UnmatchedListed ==
    ASSUME MInv, MatchesNamed(matches, before, after), next = 1, changedSpans = 0,
           Differ!ListUnmatched
    PROVE  Reporting'
<1> DEFINE added == [n \in DOMAIN matches.added |-> Differ!Change("added", "", matches.added[n])]
           removed == [n \in DOMAIN matches.removed |->
                         Differ!Change("removed", "", matches.removed[n])]
<1>1. /\ changes' = added \o removed /\ matches' = matches /\ next' = next
      /\ changedSpans' = changedSpans
      /\ absolute' = absolute /\ relative' = relative
  BY DEF Differ!ListUnmatched, Differ!inputs
<1>2. \A span : /\ Differ!Change("added", "", span).kind = "added"
                /\ Name(Differ!Change("added", "", span)) = Name(span)
                /\ Differ!Change("removed", "", span).kind = "removed"
                /\ Name(Differ!Change("removed", "", span)) = Name(span)
  BY DEF Differ!Change, Name
<1>3. /\ DOMAIN added = DOMAIN matches.added /\ DOMAIN removed = DOMAIN matches.removed
      /\ \A n \in DOMAIN added : added[n] = Differ!Change("added", "", matches.added[n])
      /\ \A n \in DOMAIN removed : removed[n] = Differ!Change("removed", "", matches.removed[n])
  OBVIOUS
<1>4. /\ Len(matches.added) \in Nat /\ DOMAIN matches.added = 1..Len(matches.added)
      /\ Len(matches.removed) \in Nat /\ DOMAIN matches.removed = 1..Len(matches.removed)
  BY DEF MatchesNamed
<1>5. \A s, kind : s.key \in Key /\ s.occurrence \in Nat /\ kind \in Kinds
        => Differ!Change(kind, "", s) \in Record
  BY DEF Differ!Change, Record, Fields
<1>6. /\ \A n \in DOMAIN matches.added : added[n] \in Record
      /\ \A n \in DOMAIN matches.removed : removed[n] \in Record
  BY <1>5, MatchesTyped DEF ToSet, Kinds
<1>7. \A S, f, k : k \in Nat /\ f \in [1..k -> S] => f \in Seq(S)
  OBVIOUS
<1>8. added \in Seq(Record) /\ removed \in Seq(Record)
  <2>1. /\ added \in [1..Len(matches.added) -> Record]
        /\ removed \in [1..Len(matches.removed) -> Record]
    BY <1>4, <1>6
  <2> QED BY <1>4, <1>7, <2>1
<1> HIDE DEF added, removed
<1>9. Once(added) /\ Once(removed)
  <2>1. ASSUME NEW n \in DOMAIN added PROVE Name(added[n]) = Name(matches.added[n])
    <3>1. added[n] = Differ!Change("added", "", matches.added[n])
      BY <1>3
    <3> QED BY <1>2, <3>1
  <2>2. ASSUME NEW n \in DOMAIN removed PROVE Name(removed[n]) = Name(matches.removed[n])
    <3>1. removed[n] = Differ!Change("removed", "", matches.removed[n])
      BY <1>3
    <3> QED BY <1>2, <3>1
  <2>3. ASSUME NEW m \in DOMAIN added, NEW n \in DOMAIN added, added[m] = added[n] PROVE m = n
    <3>1. Name(matches.added[m]) = Name(matches.added[n])
      BY <2>1, <2>3
    <3> QED BY <1>3, <3>1 DEF MatchesNamed, Distinct
  <2>4. ASSUME NEW m \in DOMAIN removed, NEW n \in DOMAIN removed, removed[m] = removed[n]
        PROVE  m = n
    <3>1. Name(matches.removed[m]) = Name(matches.removed[n])
      BY <2>2, <2>4
    <3> QED BY <1>3, <3>1 DEF MatchesNamed, Distinct
  <2> QED BY <2>3, <2>4 DEF Once
<1>10. /\ \A c : c \in ToSet(added)
                  <=> \E s \in ToSet(matches.added) : c = Differ!Change("added", "", s)
       /\ \A c : c \in ToSet(removed)
                  <=> \E s \in ToSet(matches.removed) : c = Differ!Change("removed", "", s)
  <2>1. \A c : c \in ToSet(added)
                <=> \E s \in ToSet(matches.added) : c = Differ!Change("added", "", s)
    BY <1>3 DEF ToSet
  <2>2. \A c : c \in ToSet(removed)
                <=> \E s \in ToSet(matches.removed) : c = Differ!Change("removed", "", s)
    BY <1>3 DEF ToSet
  <2> QED BY <2>1, <2>2
<1>11. ToSet(added) \cap ToSet(removed) = {}
  <2>1. ASSUME NEW c \in ToSet(added) PROVE c.kind = "added"
    <3>1. PICK s \in ToSet(matches.added) : c = Differ!Change("added", "", s)
      BY <1>10
    <3> QED BY <1>2, <3>1
  <2>2. ASSUME NEW c \in ToSet(removed) PROVE c.kind = "removed"
    <3>1. PICK s \in ToSet(matches.removed) : c = Differ!Change("removed", "", s)
      BY <1>10
    <3> QED BY <1>2, <3>1
  <2> QED BY <2>1, <2>2
<1>12. /\ changes' \in Seq(Record) /\ Once(changes')
       /\ ToSet(changes') = ToSet(added) \cup ToSet(removed)
  BY <1>1, <1>8, <1>9, <1>11, AppendFacts
<1>13. ChangedBefore(next)' = {}
  BY <1>1, MatchesTyped DEF ChangedBefore
<1>14. ChangedNames(next)' = {}
  BY <1>13 DEF ChangedNames
<1>15. \A c \in Record : c \in ToSet(changes') <=> Reports(c, next)'
  BY <1>1, <1>10, <1>12, <1>13 DEF Reports
<1>16. next' \in 1..(Len(matches'.paired) + 1)
  BY <1>1, MatchesTyped
<1>17. IsFiniteSet({}) /\ Cardinality({}) = 0
  BY FS_EmptySet
<1> QED BY <1>1, <1>12, <1>14, <1>15, <1>16, <1>17 DEF Reporting

\* A pair is compared.
LEMMA PairCompared ==
    ASSUME MInv, MatchesNamed(matches, before, after), Reporting, Differ!ComparePair
    PROVE  Reporting'
<1> DEFINE new == Differ!PairChanges(Pair(next))
           name == Name(Pair(next).base)
<1>1. /\ next <= Len(matches.paired) /\ changes' = changes \o new /\ next' = next + 1
      /\ changedSpans' = changedSpans + (IF new = <<>> THEN 0 ELSE 1)
      /\ matches' = matches /\ absolute' = absolute /\ relative' = relative
  BY DEF Differ!ComparePair, Differ!inputs, Pair
<1>2. next \in DOMAIN matches.paired /\ DOMAIN matches.paired \subseteq Int
  BY <1>1, MatchesTyped DEF Reporting
<1>3. /\ new \in Seq(Record) /\ Once(new)
      /\ \A c \in ToSet(new) : c.kind = "changed" /\ Name(c) = name
  BY <1>2, MatchesTyped, PairChangesFacts
<1>4. /\ changes \in Seq(Record) /\ Once(changes) /\ next \in 1..(Len(matches.paired) + 1)
      /\ \A c \in Record : c \in ToSet(changes) <=> Reports(c, next)
  BY DEF Reporting
<1>5. /\ next' \in 1..(Len(matches'.paired) + 1) /\ next \in Int
  BY <1>1, <1>2, <1>4, MatchesTyped
<1>6. \A m \in DOMAIN matches.paired : m < next' <=> m < next \/ m = next
  BY <1>1, <1>2, <1>5
<1>7. \A m \in DOMAIN matches.paired : Differ!PairChanges(Pair(m))' = Differ!PairChanges(Pair(m))
  BY <1>1 DEF Pair, Differ!PairChanges, Differ!Changed, Differ!DurationChanged,
         Differ!StatusChanged, Differ!ErrorTypeChanged
<1>8. ChangedBefore(next)' = ChangedBefore(next) \cup (IF new = <<>> THEN {} ELSE {next})
  BY <1>1, <1>2, <1>6, <1>7 DEF ChangedBefore
<1>9. next \notin ChangedBefore(next) /\ name \notin ChangedNames(next)
  BY <1>1, <1>2 DEF ChangedBefore, ChangedNames, MatchesNamed, Pair
<1>10. ChangedNames(next)' = ChangedNames(next) \cup (IF new = <<>> THEN {} ELSE {name})
  BY <1>1, <1>8 DEF ChangedNames, Pair
<1>11. ToSet(changes) \cap ToSet(new) = {}
  <2> SUFFICES ASSUME NEW c \in ToSet(changes), c \in ToSet(new) PROVE FALSE
    OBVIOUS
  <2>1. c \in Record
    BY <1>4 DEF ToSet
  <2>2. c.kind = "changed" /\ Name(c) = name
    BY <1>3
  <2>3. PICK m \in ChangedBefore(next) : c \in ToSet(Differ!PairChanges(Pair(m)))
    <3>1. \A kind, span : Differ!Change(kind, "", span).kind = kind
      BY DEF Differ!Change
    <3> QED BY <1>4, <2>1, <2>2, <3>1 DEF Reports
  <2>4. Name(c) = Name(Pair(m).base)
    BY <2>3, MatchesTyped, PairChangesFacts DEF ChangedBefore
  <2> QED BY <1>9, <2>2, <2>3, <2>4 DEF ChangedNames
<1>12. /\ changes' \in Seq(Record) /\ Once(changes')
       /\ ToSet(changes') = ToSet(changes) \cup ToSet(new)
  BY <1>1, <1>3, <1>4, <1>11, AppendFacts
<1>13. new = <<>> => ToSet(new) = {}
  BY <1>3 DEF ToSet
<1>14. \A c \in Record : c \in ToSet(changes') <=> Reports(c, next)'
  BY <1>1, <1>4, <1>7, <1>8, <1>12, <1>13 DEF Reports, ChangedBefore
<1>15. IsFiniteSet(ChangedNames(next)') /\ changedSpans' = Cardinality(ChangedNames(next)')
  <2>1. IsFiniteSet(ChangedNames(next)) /\ changedSpans = Cardinality(ChangedNames(next))
    BY DEF Reporting
  <2> HIDE DEF new, name
  <2>2. CASE new = <<>>
    <3>1. ChangedNames(next)' = ChangedNames(next)
      BY <1>10, <2>2
    <3>2. changedSpans' = changedSpans
      BY <1>1, <2>1, <2>2, FS_CardinalityType
    <3> QED BY <2>1, <3>1, <3>2
  <2>3. CASE new # <<>>
    <3>1. ChangedNames(next)' = ChangedNames(next) \cup {name}
      BY <1>10, <2>3
    <3>2. changedSpans' = changedSpans + 1
      BY <1>1, <2>3
    <3> QED BY <1>9, <2>1, <3>1, <3>2, FS_AddElement
  <2> QED BY <2>2, <2>3
<1> QED BY <1>5, <1>12, <1>14, <1>15 DEF Reporting

\* The changes are sorted.
LEMMA ChangesSorted ==
    ASSUME Reporting, Differ!SortChanges
    PROVE  /\ Reporting' /\ next' = Len(matches'.paired) + 1
           /\ \A m, n \in DOMAIN changes' : m < n => ~Differ!LessChange(changes'[n], changes'[m])
<1>1. /\ next > Len(matches.paired) /\ changes' = Differ!Sorted(changes) /\ next' = next
      /\ changedSpans' = changedSpans /\ matches' = matches /\ absolute' = absolute
      /\ relative' = relative
  BY DEF Differ!SortChanges, Differ!inputs
<1>2. /\ changes \in Seq(Record) /\ Once(changes) /\ next \in 1..(Len(matches.paired) + 1)
      /\ \A c \in Record : c \in ToSet(changes) <=> Reports(c, next)
      /\ IsFiniteSet(ChangedNames(next)) /\ changedSpans = Cardinality(ChangedNames(next))
  BY DEF Reporting
<1>3. /\ changes' \in Seq(Record) /\ ToSet(changes') = ToSet(changes) /\ Once(changes')
      /\ \A m, n \in DOMAIN changes' : m < n => ~Differ!LessChange(changes'[n], changes'[m])
  BY <1>1, <1>2, SortedFacts
<1>4. next' = Len(matches'.paired) + 1
  BY <1>1, <1>2
<1>5. \A m : Differ!PairChanges(Pair(m))' = Differ!PairChanges(Pair(m))
  BY <1>1 DEF Pair, Differ!PairChanges, Differ!Changed, Differ!DurationChanged,
         Differ!StatusChanged, Differ!ErrorTypeChanged
<1>6. ChangedBefore(next)' = ChangedBefore(next)
  BY <1>1, <1>5 DEF ChangedBefore
<1>7. ChangedNames(next)' = ChangedNames(next)
  BY <1>1, <1>6 DEF ChangedNames, Pair
<1>8. \A c : Reports(c, next)' <=> Reports(c, next)
  BY <1>1, <1>5, <1>6 DEF Reports
<1> QED BY <1>1, <1>2, <1>3, <1>4, <1>7, <1>8 DEF Reporting

\* The changes stay what they are while nothing they depend on is changed.
LEMMA ReportingKept ==
    ASSUME Reporting, UNCHANGED diffVars
    PROVE  Reporting'
<1>1. /\ changes' = changes /\ next' = next /\ changedSpans' = changedSpans /\ matches' = matches
      /\ absolute' = absolute /\ relative' = relative
  BY DEF diffVars
<1>2. \A m : Differ!PairChanges(Pair(m))' = Differ!PairChanges(Pair(m))
  BY <1>1 DEF Pair, Differ!PairChanges, Differ!Changed, Differ!DurationChanged,
         Differ!StatusChanged, Differ!ErrorTypeChanged
<1>3. ChangedBefore(next)' = ChangedBefore(next)
  BY <1>1, <1>2 DEF ChangedBefore
<1>4. ChangedNames(next)' = ChangedNames(next)
  BY <1>1, <1>3 DEF ChangedNames, Pair
<1>5. \A c : Reports(c, next)' <=> Reports(c, next)
  BY <1>1, <1>2, <1>3 DEF Reports
<1> QED BY <1>1, <1>4, <1>5 DEF Reporting

\* A step of any stage keeps what is known of the comparison of spans.
LEMMA ComparingStep == ASSUME MInv, Comparing, [Next]_vars PROVE Comparing'
<1> USE DEF Comparing
<1>1. ASSUME UNCHANGED diffVars, UNCHANGED snapshots,
               at' \notin {"compare traces", "done", "failed"},
             at \notin {"compare traces", "done", "failed"}
      PROVE  Comparing'
  BY <1>1 DEF diffVars
<1>2. CASE CallFails \/ TracesAmbiguous \/ SpansAmbiguous
  <2>1. /\ at \notin {"compare traces", "done", "failed"} /\ at' = "failed" /\ UNCHANGED diffVars
    BY <1>2 DEF CallFails, Fails, TracesAmbiguous, SpansAmbiguous, Fail
  <2> QED BY <2>1 DEF diffVars
<1>3. CASE OptionsRejected
  <2>1. at' = "failed" /\ diffStage = "rejected" /\ UNCHANGED diffVars
    BY <1>3 DEF OptionsRejected, Fail
  <2> QED BY <2>1 DEF diffVars
<1>4. CASE Prepare
  <2>1. /\ at \notin {"compare traces", "done", "failed"}
        /\ at' \notin {"compare traces", "done", "failed"}
        /\ UNCHANGED diffVars
    BY <1>4, PrepareFacts DEF Prepare, Preparing
  <2> QED BY <2>1 DEF diffVars
<1>5. CASE \/ DescribeTraces \/ MatchTraces \/ TracesMatched \/ \E p \in rest : PairTraces(p)
           \/ MatchSpans \/ CollectSpans
  <2>1. /\ at \notin {"compare traces", "done", "failed"}
        /\ at' \notin {"compare traces", "done", "failed"}
        /\ UNCHANGED diffVars
    BY <1>5 DEF DescribeTraces, MatchTraces, TracesMatched, PairTraces, MatchSpans, CollectSpans
  <2> QED BY <2>1 DEF diffVars
<1>6. CASE SpansMatched
  <2>1. /\ at = "match spans" /\ at' = "compare traces" /\ before' = before /\ after' = after
        /\ changes' = changes /\ next' = next /\ changedSpans' = changedSpans
        /\ diffStage' = diffStage
    BY <1>6 DEF SpansMatched, snapshots
  <2>2. MatchesNamed(matches', before', after')
    BY <1>6, <2>1, MatchesListed
  <2> QED BY <2>1, <2>2
<1>7. CASE CompareMatches
  <2>1. /\ at = "compare traces" /\ at' = at /\ before' = before /\ after' = after
        /\ MatchesNamed(matches, before, after)
    BY <1>7 DEF CompareMatches, snapshots
  <2>2. matches' = matches
    BY <1>7 DEF CompareMatches, Differ!Next, Differ!RejectOptions, Differ!ListUnmatched,
           Differ!ComparePair, Differ!SortChanges, Differ!inputs
  <2>3. CASE Differ!RejectOptions
    BY <2>1, <2>2, <2>3 DEF Differ!RejectOptions
  <2>4. CASE Differ!ListUnmatched
    <3>1. diffStage = "options" /\ diffStage' = "pairs"
      BY <2>4 DEF Differ!ListUnmatched
    <3>2. Reporting'
      BY <2>1, <2>4, <3>1, UnmatchedListed
    <3> QED BY <2>1, <2>2, <3>1, <3>2
  <2>5. CASE Differ!ComparePair
    <3>1. diffStage = "pairs" /\ diffStage' = "pairs"
      BY <2>5 DEF Differ!ComparePair
    <3>2. Reporting'
      BY <2>1, <2>5, <3>1, PairCompared
    <3> QED BY <2>1, <2>2, <3>1, <3>2
  <2>6. CASE Differ!SortChanges
    <3>1. diffStage = "pairs" /\ diffStage' = "done"
      BY <2>6 DEF Differ!SortChanges
    <3> QED BY <2>1, <2>2, <2>6, <3>1, ChangesSorted
  <2> QED BY <1>7, <2>3, <2>4, <2>5, <2>6 DEF CompareMatches, Differ!Next
<1>8. CASE Return
  <2>1. /\ at = "compare traces" /\ diffStage = "done" /\ at' = "done" /\ UNCHANGED diffVars
        /\ before' = before /\ after' = after
    BY <1>8 DEF Return, snapshots
  <2> QED BY <2>1, ReportingKept DEF diffVars
<1>9. CASE UNCHANGED vars
  <2>1. at' = at /\ before' = before /\ after' = after /\ UNCHANGED diffVars
    BY <1>9 DEF vars, snapshots
  <2> QED BY <2>1, ReportingKept DEF diffVars
<1> QED BY <1>2, <1>3, <1>4, <1>5, <1>6, <1>7, <1>8, <1>9 DEF Next

\* Both parts of the inductive invariant hold in every state a comparison reaches.
THEOREM ComparisonInvariance == Spec => [](MInv /\ Comparing)
<1>1. Init => Comparing
  BY DEF Init, Comparing
<1>2. MInv /\ Comparing /\ [Next]_vars => Comparing'
  BY ComparingStep
<1> QED BY <1>1, <1>2, MatchingInvariance, PTL DEF Spec

\* What the list says when Compare has returned.
LEMMA ReportedFacts ==
    ASSUME MInv, Comparing, diffStage = "done"
    PROVE  /\ at = "done" \/ at = "compare traces"
           /\ MatchesNamed(matches, before, after) /\ Reporting
           /\ ChangedBefore(next) = {m \in DOMAIN matches.paired :
                Differ!PairChanges(Pair(m)) # <<>>}
<1>1. at \in {"done", "compare traces"} /\ MatchesNamed(matches, before, after) /\ Reporting
      /\ next = Len(matches.paired) + 1
  BY DEF Comparing, MInv, Documents, Preparing
<1>2. Len(matches.paired) \in Nat /\ DOMAIN matches.paired = 1..Len(matches.paired)
  BY <1>1, MatchesTyped
<1>3. ASSUME NEW m \in DOMAIN matches.paired PROVE m < next
  <2>1. m \in 1..Len(matches.paired)
    BY <1>2
  <2>2. \A k \in Nat : m \in 1..k => m < k + 1
    OBVIOUS
  <2> QED BY <1>1, <1>2, <2>1, <2>2
<1> QED BY <1>1, <1>3 DEF ChangedBefore

\* A change in the list is about a span that is listed under its name.
LEMMA ChangeOrigin ==
    ASSUME MInv, Comparing, diffStage = "done", NEW n \in DOMAIN changes
    PROVE  /\ changes[n] \in Record
           /\ \/ /\ changes[n].kind = "added" /\ changes[n].field = ""
                 /\ \E s \in ToSet(matches.added) : Name(changes[n]) = Name(s)
              \/ /\ changes[n].kind = "removed" /\ changes[n].field = ""
                 /\ \E s \in ToSet(matches.removed) : Name(changes[n]) = Name(s)
              \/ /\ changes[n].kind = "changed" /\ changes[n].field # ""
                 /\ \E m \in ChangedBefore(next) : Name(changes[n]) = Name(Pair(m).base)
<1> DEFINE c == changes[n]
<1>1. c \in Record /\ c \in ToSet(changes) /\ Reports(c, next)
  <2>1. changes \in Seq(Record) /\ \A d \in Record : d \in ToSet(changes) <=> Reports(d, next)
    BY ReportedFacts DEF Reporting
  <2>2. c \in Record
    BY <2>1
  <2>3. c \in ToSet(changes)
    BY DEF ToSet
  <2> QED BY <2>1, <2>2, <2>3
<1>2. \A s : /\ Differ!Change("added", "", s).kind = "added"
             /\ Differ!Change("added", "", s).field = ""
             /\ Name(Differ!Change("added", "", s)) = Name(s)
             /\ Differ!Change("removed", "", s).kind = "removed"
             /\ Differ!Change("removed", "", s).field = ""
             /\ Name(Differ!Change("removed", "", s)) = Name(s)
  BY DEF Differ!Change, Name
<1> HIDE DEF c
<1>3. CASE \E s \in ToSet(matches.added) : c = Differ!Change("added", "", s)
  BY <1>1, <1>2, <1>3 DEF c
<1>4. CASE \E s \in ToSet(matches.removed) : c = Differ!Change("removed", "", s)
  BY <1>1, <1>2, <1>4 DEF c
<1>5. CASE \E m \in ChangedBefore(next) : c \in ToSet(Differ!PairChanges(Pair(m)))
  <2>1. PICK m \in ChangedBefore(next) : c \in ToSet(Differ!PairChanges(Pair(m)))
    BY <1>5
  <2>2. Pair(m).base.key \in Key /\ Pair(m).base.occurrence \in Nat
    BY <2>1, ReportedFacts, MatchesTyped DEF ChangedBefore
  <2>3. c.kind = "changed" /\ c.field # "" /\ Name(c) = Name(Pair(m).base)
    BY <2>1, <2>2, PairChangesFacts
  <2> QED BY <1>1, <2>1, <2>3 DEF c
<1> QED BY <1>1, <1>3, <1>4, <1>5 DEF Reports

\* A change names one span: by key and occurrence, in the snapshot it is about.
THEOREM ChangesNamed == Spec => []ChangesNameSpans
<1>1. MInv /\ Comparing => ChangesNameSpans
  <2> SUFFICES ASSUME MInv, Comparing, at = "done", NEW n \in DOMAIN changes,
                      NEW snapshot, snapshot = IF changes[n].kind = "added" THEN after ELSE before
               PROVE  /\ Cardinality({p \in Positions(snapshot) :
                           /\ SpanAt(snapshot, p).semantic[1] = changes[n].key
                           /\ SpanAt(snapshot, p).occurrence = changes[n].occurrence}) = 1
                      /\ \A m \in DOMAIN changes : changes[m] = changes[n] => m = n
    BY DEF ChangesNameSpans
  <2> DEFINE named == {p \in Positions(snapshot) :
                         /\ SpanAt(snapshot, p).semantic[1] = changes[n].key
                         /\ SpanAt(snapshot, p).occurrence = changes[n].occurrence}
  <2>1. diffStage = "done"
    BY DEF Comparing
  <2>2. Normalized(before) /\ Normalized(after)
    BY DEF MInv, Documents
  <2>3. \E s \in Seen(snapshot) : Name(changes[n]) = Name(s)
    <3>1. /\ \A s \in ToSet(matches.added) : s \in Seen(after)
          /\ \A s \in ToSet(matches.removed) : s \in Seen(before)
          /\ \A m \in ChangedBefore(next) : Pair(m).base \in Seen(before)
      BY <2>1, ReportedFacts, MatchesTyped DEF ChangedBefore
    <3>2. CASE changes[n].kind = "added"
      BY <2>1, <3>1, <3>2, ChangeOrigin
    <3>3. CASE changes[n].kind # "added"
      BY <2>1, <3>1, <3>3, ChangeOrigin
    <3> QED BY <3>2, <3>3
  <2>4. PICK p \in Positions(snapshot) : Name(changes[n]) = Name(Visible(SpanAt(snapshot, p)))
    BY <2>3 DEF Seen
  <2>5. Normalized(snapshot)
    BY <2>2
  <2>6. named = {p}
    <3>1. \A q \in Positions(snapshot) :
            /\ Name(Visible(SpanAt(snapshot, q)))
                 = <<SpanAt(snapshot, q).semantic[1], SpanAt(snapshot, q).occurrence>>
            /\ Name(Visible(SpanAt(snapshot, q))) = Name(Visible(SpanAt(snapshot, p))) => q = p
      BY <2>5, SeenFacts
    <3>2. Name(changes[n]) = <<changes[n].key, changes[n].occurrence>>
      BY DEF Name
    <3>3. \A a, b, c, d : <<a, b>> = <<c, d>> <=> a = c /\ b = d
      OBVIOUS
    <3>4. \A q \in Positions(snapshot) : q \in named <=> q = p
      BY <2>4, <3>1, <3>2, <3>3
    <3> QED BY <3>4
  <2>7. Cardinality(named) = 1
    BY <2>6, FS_Singleton
  <2>8. \A m \in DOMAIN changes : changes[m] = changes[n] => m = n
    BY <2>1, ReportedFacts DEF Reporting, Once
  <2> QED BY <2>7, <2>8
<1> QED BY <1>1, ComparisonInvariance, PTL

\* Of two changes the one that is listed first is less, or they are twins.
THEOREM FindingsOrdered == Spec => []OrderDetermined
<1>1. MInv /\ Comparing => OrderDetermined
  <2> SUFFICES ASSUME MInv, Comparing, diffStage = "done", NEW m \in DOMAIN changes,
                        NEW n \in DOMAIN changes, m < n
               PROVE  /\ ~Differ!LessChange(changes[n], changes[m])
                      /\ \/ Differ!LessChange(changes[m], changes[n])
                         \/ Differ!Twins(changes[m], changes[n])
    BY DEF OrderDetermined, Differ!OrderDetermined
  <2> DEFINE c == changes[m]
             d == changes[n]
  <2>1. ~Differ!LessChange(d, c)
    BY DEF Comparing
  <2>2. c # d
    <3>1. changes \in Seq(Record) /\ Once(changes)
      BY ReportedFacts DEF Reporting
    <3>2. m # n
      BY <3>1
    <3> QED BY <3>1, <3>2 DEF Once
  <2>3. c \in Record /\ (c.kind = "changed" <=> c.field # "")
    BY ChangeOrigin
  <2>4. d \in Record /\ (d.kind = "changed" <=> d.field # "")
    BY ChangeOrigin
  <2> HIDE DEF c, d
  <2>5. ASSUME ~Differ!LessChange(c, d) PROVE Differ!Twins(c, d)
    <3>1. /\ Differ!KindRank(c.kind) = Differ!KindRank(d.kind) /\ Label(c.key) = Label(d.key)
          /\ c.occurrence = d.occurrence /\ Differ!FieldRank(c.field) = Differ!FieldRank(d.field)
      BY <2>1, <2>3, <2>4, <2>5, LessOrder
    <3>2. c.kind \in Kinds /\ d.kind \in Kinds /\ c.field \in Fields /\ d.field \in Fields
      BY <2>3, <2>4 DEF Record
    <3>3. c.kind = d.kind
      BY <3>1, <3>2 DEF Kinds, Differ!KindRank
    <3>4. c.field = d.field
      <4>1. \A f, g \in Fields \ {""} : Differ!FieldRank(f) = Differ!FieldRank(g) => f = g
        <5>1. /\ Differ!FieldRank("status") = 0 /\ Differ!FieldRank("error.type") = 1
              /\ Differ!FieldRank("duration") = 2
          BY DEF Differ!FieldRank
        <5>2. \A f \in Fields \ {""} : f = "status" \/ f = "error.type" \/ f = "duration"
          BY DEF Fields
        <5>3. 0 # 1 /\ 0 # 2 /\ 1 # 2
          OBVIOUS
        <5> QED BY <5>1, <5>2, <5>3
      <4>2. CASE c.field # ""
        <5>1. d.field # ""
          BY <2>3, <2>4, <3>3, <4>2
        <5> QED BY <3>1, <3>2, <4>1, <4>2, <5>1
      <4>3. CASE c.field = ""
        <5>1. d.field = ""
          BY <2>3, <2>4, <3>3, <4>3
        <5> QED BY <4>3, <5>1
      <4> QED BY <4>2, <4>3
    <3>5. c.key # d.key
      <4>1. \A e \in Record : e = [kind |-> e.kind, field |-> e.field, key |-> e.key,
                                   occurrence |-> e.occurrence]
        BY DEF Record
      <4> QED BY <2>2, <2>3, <2>4, <3>1, <3>3, <3>4, <4>1
    <3> QED BY <3>1, <3>5 DEF Differ!Twins
  <2> QED BY <2>1, <2>5 DEF c, d
<1> QED BY <1>1, ComparisonInvariance, PTL

\* The three numbers of the summary are those of the spans in the list.
THEOREM SummaryAgrees == Spec => []CountsAgree
<1>1. ASSUME MInv, Comparing, diffStage = "done"
      PROVE  /\ Differ!ChangedOf("added") = Names(matches.added)
             /\ Differ!ChangedOf("removed") = Names(matches.removed)
             /\ Differ!ChangedOf("changed") = ChangedNames(next)
  <2>1. \A kind : \A x : x \in Differ!ChangedOf(kind)
          <=> \E n \in DOMAIN changes : changes[n].kind = kind /\ x = Name(changes[n])
    BY DEF Differ!ChangedOf, Name
  <2>2. /\ Names(matches.added) = {Name(s) : s \in ToSet(matches.added)}
        /\ Names(matches.removed) = {Name(s) : s \in ToSet(matches.removed)}
    BY DEF Names, ToSet
  <2>3. /\ \A c \in Record : c \in ToSet(changes) <=> Reports(c, next)
        /\ \A c : c \in ToSet(changes) <=> \E n \in DOMAIN changes : c = changes[n]
    BY <1>1, ReportedFacts DEF Reporting, ToSet
  <2>4. /\ \A x \in Differ!ChangedOf("added") : x \in Names(matches.added)
        /\ \A x \in Differ!ChangedOf("removed") : x \in Names(matches.removed)
        /\ \A x \in Differ!ChangedOf("changed") : x \in ChangedNames(next)
    <3>1. ASSUME NEW n \in DOMAIN changes, changes[n].kind = "added"
          PROVE  Name(changes[n]) \in Names(matches.added)
      BY <1>1, <2>2, <3>1, ChangeOrigin
    <3>2. ASSUME NEW n \in DOMAIN changes, changes[n].kind = "removed"
          PROVE  Name(changes[n]) \in Names(matches.removed)
      BY <1>1, <2>2, <3>2, ChangeOrigin
    <3>3. ASSUME NEW n \in DOMAIN changes, changes[n].kind = "changed"
          PROVE  Name(changes[n]) \in ChangedNames(next)
      BY <1>1, <3>3, ChangeOrigin DEF ChangedNames
    <3> QED BY <2>1, <3>1, <3>2, <3>3
  <2>5. ASSUME NEW s \in ToSet(matches.added) PROVE Name(s) \in Differ!ChangedOf("added")
    <3> DEFINE c == Differ!Change("added", "", s)
    <3>1. c \in Record /\ c.kind = "added" /\ Name(c) = Name(s)
      BY <1>1, ReportedFacts, MatchesTyped DEF Differ!Change, Record, Kinds, Fields, Name
    <3>2. Reports(c, next)
      BY DEF Reports
    <3> HIDE DEF c
    <3> QED BY <2>1, <2>3, <3>1, <3>2
  <2>6. ASSUME NEW s \in ToSet(matches.removed) PROVE Name(s) \in Differ!ChangedOf("removed")
    <3> DEFINE c == Differ!Change("removed", "", s)
    <3>1. c \in Record /\ c.kind = "removed" /\ Name(c) = Name(s)
      BY <1>1, ReportedFacts, MatchesTyped DEF Differ!Change, Record, Kinds, Fields, Name
    <3>2. Reports(c, next)
      BY DEF Reports
    <3> HIDE DEF c
    <3> QED BY <2>1, <2>3, <3>1, <3>2
  <2>7. ASSUME NEW m \in ChangedBefore(next)
        PROVE  Name(Pair(m).base) \in Differ!ChangedOf("changed")
    <3>1. /\ Pair(m).base.key \in Key /\ Pair(m).base.occurrence \in Nat
          /\ Differ!PairChanges(Pair(m)) # <<>>
      BY <1>1, ReportedFacts, MatchesTyped DEF ChangedBefore
    <3>2. /\ Differ!PairChanges(Pair(m)) \in Seq(Record)
          /\ \A c \in ToSet(Differ!PairChanges(Pair(m))) : c.kind = "changed"
               /\ Name(c) = Name(Pair(m).base)
      BY <3>1, PairChangesFacts
    <3>3. \A R, s : s \in Seq(R) /\ s # <<>> => 1 \in DOMAIN s /\ s[1] \in R
      OBVIOUS
    <3>4. PICK c \in Record : c \in ToSet(Differ!PairChanges(Pair(m)))
      BY <3>1, <3>2, <3>3 DEF ToSet
    <3>5. Reports(c, next)
      BY <3>4 DEF Reports
    <3> QED BY <2>1, <2>3, <3>2, <3>4, <3>5
  <2> QED BY <2>2, <2>4, <2>5, <2>6, <2>7 DEF ChangedNames
<1>2. MInv /\ Comparing => CountsAgree
  <2> SUFFICES ASSUME MInv, Comparing, diffStage = "done"
               PROVE  /\ Cardinality(Differ!ChangedOf("added")) = Len(matches.added)
                      /\ Cardinality(Differ!ChangedOf("removed")) = Len(matches.removed)
                      /\ Cardinality(Differ!ChangedOf("changed")) = changedSpans
    BY SameCardinality DEF CountsAgree, Differ!CountsAgree
  <2>1. MatchesNamed(matches, before, after) /\ Reporting
    BY ReportedFacts
  <2>2. /\ Cardinality(Names(matches.added)) = Len(matches.added)
        /\ Cardinality(Names(matches.removed)) = Len(matches.removed)
    BY <2>1, NamesCounted DEF MatchesNamed
  <2> QED BY <1>1, <2>1, <2>2 DEF Reporting
<1> QED BY <1>2, ComparisonInvariance, PTL

-----------------------------------------------------------------------------
(* The same traces make the same snapshot *)

\* A bijection that keeps the order takes one list to the other.
LEMMA ListedAlike ==
    ASSUME NEW set, IsFiniteSet(set), NEW order, StrictOrder(set, order),
           NEW other, IsFiniteSet(other), NEW otherOrder, StrictOrder(other, otherOrder),
           NEW f \in Bijection(set, other),
           \A x, y \in set : <<x, y>> \in order => <<f[x], f[y]>> \in otherOrder
    PROVE  /\ DOMAIN Listed(other, otherOrder) = DOMAIN Listed(set, order)
           /\ \A n \in DOMAIN Listed(set, order) :
                /\ Listed(set, order)[n] \in set
                /\ Listed(other, otherOrder)[n] = f[Listed(set, order)[n]]
<1>1. /\ f \in [set -> other] /\ \A x, y \in set : f[x] = f[y] => x = y
      /\ \A z \in other : \E x \in set : f[x] = z
  BY DEF Bijection, Injection, IsInjective, Surjection
<1>2. Cardinality(other) = Cardinality(set)
  BY FS_Bijection DEF ExistsBijection
<1>3. ASSUME NEW x \in set PROVE Rank(other, otherOrder, f[x]) = Rank(set, order, x)
  <2> DEFINE below == {y \in set : <<y, x>> \in order}
             image == {z \in other : <<z, f[x]>> \in otherOrder}
             g == [y \in below |-> f[y]]
  <2>1. ASSUME NEW y \in set, <<f[y], f[x]>> \in otherOrder PROVE <<y, x>> \in order
    <3>1. f[x] \in other /\ f[y] \in other
      BY <1>1
    <3>2. ~(<<f[x], f[y]>> \in otherOrder) /\ y # x
      BY <2>1, <3>1 DEF StrictOrder
    <3> QED BY <3>2 DEF StrictOrder
  <2>2. \A y \in below : y \in set /\ f[y] \in image
    BY <1>1
  <2>3. \A z \in image : \E y \in below : f[y] = z
    BY <1>1, <2>1
  <2> HIDE DEF below, image
  <2>4. g \in Bijection(below, image)
    BY <1>1, <2>2, <2>3 DEF Bijection, Injection, IsInjective, Surjection
  <2>5. IsFiniteSet(below)
    BY FS_Subset DEF below
  <2>6. Cardinality(image) = Cardinality(below)
    BY <2>4, <2>5, FS_Bijection DEF ExistsBijection
  <2> QED BY <2>6 DEF Rank, below, image
<1>4. DOMAIN Listed(other, otherOrder) = DOMAIN Listed(set, order)
  BY <1>2 DEF Listed
<1>5. ASSUME NEW n \in DOMAIN Listed(set, order)
      PROVE  /\ Listed(set, order)[n] \in set
             /\ Listed(other, otherOrder)[n] = f[Listed(set, order)[n]]
  <2>1. /\ Listed(set, order)[n] \in set /\ Rank(set, order, Listed(set, order)[n]) = n - 1
        /\ Listed(other, otherOrder)[n] \in other
        /\ Rank(other, otherOrder, Listed(other, otherOrder)[n]) = n - 1
    BY <1>4, ListedFacts
  <2>2. Rank(other, otherOrder, f[Listed(set, order)[n]]) = n - 1
    BY <1>3, <2>1
  <2> QED BY <1>1, <2>1, <2>2, RankBijective
<1> QED BY <1>4, <1>5

\* The places of a trace in a document.
Copies(document, t) == {n \in DOMAIN document : document[n] = t}

\* A document's traces can be sorted, and traces with one encoding are the same.
Sorts(document) ==
    /\ IsFiniteSet(DOMAIN document) /\ DOMAIN document \subseteq Nat
    /\ \A n \in Kept(document) : Encoding(document[n]) \in Int

\* Documents with the same traces are the same when sorted.
LEMMA OrderedAlike ==
    ASSUME NEW d, NEW e, Sorts(d), Sorts(e),
           \A t : t # <<>> => Cardinality(Copies(d, t)) = Cardinality(Copies(e, t)),
           \A m, n \in Kept(d) : Encoding(d[m]) = Encoding(d[n]) => d[m] = d[n]
    PROVE  Ordered(d) = Ordered(e)
<1> DEFINE K == Kept(d)
           L == Kept(e)
           oK == ByEncoding(d)
           oL == ByEncoding(e)
<1>1. /\ IsFiniteSet(K) /\ K \subseteq Nat /\ \A n \in K : Encoding(d[n]) \in Int
      /\ IsFiniteSet(L) /\ L \subseteq Nat /\ \A n \in L : Encoding(e[n]) \in Int
  BY FS_Subset DEF Kept, Sorts
<1>2. /\ \A x, y \in K : <<x, y>> \in oK <=> \/ Encoding(d[x]) < Encoding(d[y])
                                             \/ Encoding(d[x]) = Encoding(d[y]) /\ x < y
      /\ \A x, y \in L : <<x, y>> \in oL <=> \/ Encoding(e[x]) < Encoding(e[y])
                                             \/ Encoding(e[x]) = Encoding(e[y]) /\ x < y
  BY DEF ByEncoding
<1>3. StrictOrder(K, oK) /\ StrictOrder(L, oL)
  BY <1>1, <1>2 DEF StrictOrder
<1>4. ASSUME NEW t, t # <<>>
      PROVE  /\ IsFiniteSet(Copies(d, t)) /\ Copies(d, t) \subseteq K
             /\ IsFiniteSet(Copies(e, t)) /\ Copies(e, t) \subseteq L
             /\ StrictOrder(Copies(d, t), oK) /\ StrictOrder(Copies(e, t), oL)
  <2>1. Copies(d, t) \subseteq K /\ Copies(e, t) \subseteq L
    BY <1>4 DEF Copies, Kept
  <2> HIDE DEF K, L, oK, oL
  <2>2. StrictOrder(Copies(d, t), oK)
    BY <1>3, <2>1 DEF StrictOrder
  <2>3. StrictOrder(Copies(e, t), oL)
    BY <1>3, <2>1 DEF StrictOrder
  <2> QED BY <1>1, <2>1, <2>2, <2>3, FS_Subset
<1>5. \A n \in K : d[n] # <<>> /\ n \in Copies(d, d[n])
  BY DEF Kept, Copies
<1> DEFINE f == [n \in K |-> CHOOSE x \in Copies(e, d[n]) :
                   Rank(Copies(e, d[n]), oL, x) = Rank(Copies(d, d[n]), oK, n)]
<1> HIDE DEF K, L, oK, oL
<1>6. ASSUME NEW n \in K
      PROVE  /\ f[n] \in Copies(e, d[n]) /\ f[n] \in L /\ e[f[n]] = d[n]
             /\ Rank(Copies(e, d[n]), oL, f[n]) = Rank(Copies(d, d[n]), oK, n)
  <2>1. /\ Cardinality(Copies(e, d[n])) = Cardinality(Copies(d, d[n]))
        /\ Rank(Copies(d, d[n]), oK, n) \in 0..(Cardinality(Copies(d, d[n])) - 1)
    BY <1>4, <1>5, RankBijective
  <2>2. \E x \in Copies(e, d[n]) : Rank(Copies(e, d[n]), oL, x) = Rank(Copies(d, d[n]), oK, n)
    BY <1>4, <1>5, <2>1, RankBijective
  <2>3. f[n] \in Copies(e, d[n])
        /\ Rank(Copies(e, d[n]), oL, f[n]) = Rank(Copies(d, d[n]), oK, n)
    BY <2>2
  <2> QED BY <1>4, <1>5, <2>3 DEF Copies
<1>7. f = [n \in K |-> f[n]]
  OBVIOUS
<1> HIDE DEF f
<1>8. ASSUME NEW m \in K, NEW n \in K, f[m] = f[n] PROVE m = n
  <2>1. d[m] = d[n]
    BY <1>6, <1>8
  <2>2. m \in Copies(d, d[n]) /\ Rank(Copies(d, d[n]), oK, m) = Rank(Copies(d, d[n]), oK, n)
    BY <1>5, <1>6, <1>8, <2>1
  <2> QED BY <1>4, <1>5, <2>2, RankBijective
<1>9. ASSUME NEW x \in L PROVE \E n \in K : f[n] = x
  <2> DEFINE t == e[x]
  <2>1. t # <<>> /\ x \in Copies(e, t)
    BY DEF L, Kept, Copies
  <2> HIDE DEF t
  <2>2. Rank(Copies(e, t), oL, x) \in 0..(Cardinality(Copies(d, t)) - 1)
    BY <1>4, <2>1, RankBijective
  <2>3. PICK n \in Copies(d, t) : Rank(Copies(d, t), oK, n) = Rank(Copies(e, t), oL, x)
    BY <1>4, <2>1, <2>2, RankBijective
  <2>4. n \in K /\ d[n] = t
    BY <1>4, <2>1, <2>3 DEF Copies
  <2>5. f[n] \in Copies(e, t) /\ Rank(Copies(e, t), oL, f[n]) = Rank(Copies(e, t), oL, x)
    BY <1>6, <2>3, <2>4
  <2>6. f[n] = x
    BY <1>4, <2>1, <2>5, RankBijective
  <2> QED BY <2>4, <2>6
<1>10. f \in Bijection(K, L)
  BY <1>6, <1>7, <1>8, <1>9 DEF Bijection, Injection, IsInjective, Surjection
<1>11. ASSUME NEW m \in K, NEW n \in K, <<m, n>> \in oK PROVE <<f[m], f[n]>> \in oL
  <2>1. /\ f[m] \in L /\ f[n] \in L /\ e[f[m]] = d[m] /\ e[f[n]] = d[n]
        /\ Encoding(d[m]) \in Int /\ Encoding(d[n]) \in Int
    BY <1>1, <1>6
  <2>2. CASE Encoding(d[m]) < Encoding(d[n])
    BY <1>2, <2>1, <2>2
  <2>3. CASE ~(Encoding(d[m]) < Encoding(d[n]))
    <3>1. d[m] = d[n]
      BY <1>2, <1>11, <2>3 DEF K
    <3> DEFINE t == d[n]
    <3>2. t # <<>> /\ m \in Copies(d, t) /\ n \in Copies(d, t) /\ f[m] \in Copies(e, t)
          /\ f[n] \in Copies(e, t) /\ Rank(Copies(e, t), oL, f[m]) = Rank(Copies(d, t), oK, m)
          /\ Rank(Copies(e, t), oL, f[n]) = Rank(Copies(d, t), oK, n)
      BY <1>5, <1>6, <3>1
    <3> HIDE DEF t
    <3>3. /\ Rank(Copies(d, t), oK, m) < Rank(Copies(d, t), oK, n)
          /\ Rank(Copies(d, t), oK, m) \in Nat /\ Rank(Copies(d, t), oK, n) \in Nat
      BY <1>4, <1>11, <3>2, RankMonotone
    <3>4. f[m] # f[n]
      BY <3>2, <3>3
    <3>5. ~(<<f[n], f[m]>> \in oL)
      <4> SUFFICES ASSUME <<f[n], f[m]>> \in oL PROVE FALSE
        OBVIOUS
      <4>1. Rank(Copies(e, t), oL, f[n]) < Rank(Copies(e, t), oL, f[m])
        BY <1>4, <3>2, RankMonotone
      <4> QED BY <3>2, <3>3, <4>1
    <3> QED BY <1>3, <2>1, <3>4, <3>5 DEF StrictOrder
  <2> QED BY <2>2, <2>3
<1>12. /\ DOMAIN Listed(L, oL) = DOMAIN Listed(K, oK)
       /\ \A n \in DOMAIN Listed(K, oK) :
            Listed(K, oK)[n] \in K /\ Listed(L, oL)[n] = f[Listed(K, oK)[n]]
  <2>1. \A x, y \in K : <<x, y>> \in oK => <<f[x], f[y]>> \in oL
    BY <1>11
  <2>2. IsFiniteSet(K) /\ IsFiniteSet(L)
    BY <1>1
  <2> QED BY ONLY <1>3, <1>10, <2>1, <2>2, ListedAlike
<1>13. /\ Ordered(d) = [n \in DOMAIN Listed(K, oK) |-> d[Listed(K, oK)[n]]]
       /\ Ordered(e) = [n \in DOMAIN Listed(L, oL) |-> e[Listed(L, oL)[n]]]
  BY DEF Ordered, K, L, oK, oL
<1>14. \A n \in DOMAIN Listed(K, oK) : d[Listed(K, oK)[n]] = e[Listed(L, oL)[n]]
  BY <1>6, <1>12
<1> QED BY <1>12, <1>13, <1>14

\* When both documents have been normalized, their snapshots are the same.
LEMMA SnapshotAlike ==
    ASSUME request \in Requests, SameTraces, ~Unfit(request.baseline), ~Unfit(request.candidate)
    PROVE  Snapshot(request.baseline) = Snapshot(request.candidate)
<1> DEFINE d == request.baseline
           e == request.candidate
<1>1. d # Broken /\ e # Broken
  BY DEF SameTraces
<1>2. ASSUME NEW document \in {d, e}
      PROVE  /\ Sorts(document)
             /\ \A n \in Kept(document) : document[n] \in Sortable(request)
  <2>1. /\ Len(document) \in 0..MaxTraces /\ DOMAIN document = 1..Len(document)
        /\ \A n \in Kept(document) : Encoding(document[n]) \in Int /\ document[n] # Malformed
    BY <1>1, RequestAssumption DEF Unfit, Kept
  <2>2. Len(document) \in Nat
    BY <2>1, PipelineAssumption
  <2>3. IsFiniteSet(DOMAIN document) /\ DOMAIN document \subseteq Nat
    BY <2>1, <2>2, FS_Interval
  <2>4. \A n \in Kept(document) : document[n] \in ToSet(document) \ {Malformed, <<>>}
    BY <2>1 DEF Kept, ToSet
  <2>5. ToSet(document) \ {Malformed, <<>>} \subseteq Sortable(request)
    BY <1>1 DEF Sortable
  <2> QED BY <2>1, <2>3, <2>4, <2>5 DEF Sorts
<1>3. \A m, n \in Kept(d) : Encoding(d[m]) = Encoding(d[n]) => d[m] = d[n]
  BY <1>2, EncodingAssumption
<1>4. ASSUME NEW t, t # <<>>
      PROVE  Cardinality(Copies(d, t)) = Cardinality(Copies(e, t))
  <2>1. CASE t \in ToSet(d) \cup ToSet(e)
    BY <1>4, <2>1 DEF SameTraces, Copies
  <2>2. CASE t \notin ToSet(d) \cup ToSet(e)
    <3>1. Copies(d, t) = {} /\ Copies(e, t) = {}
      BY <2>2 DEF Copies, ToSet
    <3> QED BY <3>1
  <2> QED BY <2>1, <2>2
<1>5. Ordered(d) = Ordered(e)
  BY <1>2, <1>3, <1>4, OrderedAlike
<1> QED BY <1>5 DEF Snapshot

-----------------------------------------------------------------------------
(* A comparison of the same traces *)

\* The snapshots are those of the documents, and so the same.
Prepared ==
    /\ at = "normalize candidate" =>
         before = Snapshot(request.baseline) /\ ~Unfit(request.baseline)
    /\ SameTraces /\ at \in {"match traces", "match spans", "compare traces", "done"} =>
         before = after

\* Every step keeps Prepared.
LEMMA PreparedStep == ASSUME MInv, Prepared, [Next]_vars PROVE Prepared'
<1>1. request' = request
  BY DEF Next, CallFails, TracesAmbiguous, SpansAmbiguous, OptionsRejected, Fail, Prepare,
         DescribeTraces, MatchTraces, TracesMatched, PairTraces, MatchSpans, CollectSpans,
         SpansMatched, CompareMatches, Return, vars
<1>2. (SameTraces' <=> SameTraces) /\ (Unfit(request.baseline)' <=> Unfit(request.baseline))
  BY <1>1 DEF SameTraces, Unfit
<1>3. CASE Prepare
  <2>1. /\ at' = "normalize candidate" => at = "normalize baseline"
        /\ at' = "match traces" => at = "normalize candidate"
        /\ at' \in Preparing \cup {"match traces"}
    <3>1. PICK n \in 1..6 : at = Calls[n] /\ at' = Calls[n + 1]
      BY <1>3 DEF Prepare
    <3>2. n = 1 \/ n = 2 \/ n = 3 \/ n = 4 \/ n = 5 \/ n = 6
      OBVIOUS
    <3>3. /\ Calls[1] = "parse baseline" /\ Calls[2] = "parse candidate"
          /\ Calls[3] = "redact baseline" /\ Calls[4] = "redact candidate"
          /\ Calls[5] = "normalize baseline" /\ Calls[6] = "normalize candidate"
          /\ Calls[7] = "match traces"
      BY DEF Calls
    <3>4. 1 + 1 = 2 /\ 2 + 1 = 3 /\ 3 + 1 = 4 /\ 4 + 1 = 5 /\ 5 + 1 = 6 /\ 6 + 1 = 7
      OBVIOUS
    <3> QED BY <3>1, <3>2, <3>3, <3>4 DEF Preparing
  <2>2. ASSUME at' = "normalize candidate"
        PROVE  before' = Snapshot(request.baseline) /\ ~Unfit(request.baseline)
    <3>1. at = "normalize baseline"
      BY <2>1, <2>2
    <3> QED BY <1>3, <3>1, PrepareFacts DEF Prepare
  <2>3. ASSUME at' = "match traces", SameTraces PROVE before' = after'
    <3>1. at = "normalize candidate" /\ ~Unfit(request.candidate)
      BY <1>3, <2>1, <2>3, PrepareFacts
    <3>2. before = Snapshot(request.baseline) /\ ~Unfit(request.baseline)
      BY <3>1 DEF Prepared
    <3>3. before' = before /\ after' = Snapshot(request.candidate)
      BY <1>3, <3>1 DEF Prepare
    <3>4. Snapshot(request.baseline) = Snapshot(request.candidate)
      BY <2>3, <3>1, <3>2, SnapshotAlike DEF MInv, Documents
    <3> QED BY <3>2, <3>3, <3>4
  <2>4. Snapshot(request.baseline)' = Snapshot(request.baseline)
    BY <1>1 DEF Snapshot, Ordered, Kept, ByEncoding
  <2> QED BY <1>2, <2>1, <2>2, <2>3, <2>4 DEF Prepared, Preparing
<1>4. CASE CallFails \/ TracesAmbiguous \/ SpansAmbiguous \/ OptionsRejected
  BY <1>4 DEF CallFails, TracesAmbiguous, SpansAmbiguous, OptionsRejected, Fail, Prepared
<1>5. CASE \/ DescribeTraces \/ MatchTraces \/ TracesMatched \/ \E p \in rest : PairTraces(p)
           \/ MatchSpans \/ CollectSpans \/ SpansMatched \/ CompareMatches \/ Return
  <2>1. /\ at \in {"match traces", "match spans", "compare traces", "done"}
        /\ at' \in {"match traces", "match spans", "compare traces", "done"}
        /\ before' = before /\ after' = after
    BY <1>5 DEF DescribeTraces, MatchTraces, TracesMatched, PairTraces, MatchSpans, CollectSpans,
         SpansMatched, CompareMatches, Return, snapshots
  <2> QED BY <1>2, <2>1 DEF Prepared
<1>6. CASE UNCHANGED vars
  <2>1. at' = at /\ before' = before /\ after' = after
    BY <1>6 DEF vars, snapshots
  <2>2. Snapshot(request.baseline)' = Snapshot(request.baseline)
    BY <1>1 DEF Snapshot, Ordered, Kept, ByEncoding
  <2> QED BY <1>2, <2>1, <2>2 DEF Prepared
<1> QED BY <1>3, <1>4, <1>5, <1>6 DEF Next

\* Each stage pairs what it is given with itself, or refuses for a reason.
Silent ==
    /\ current = NoPair => spanStatus = "done"
    /\ SameTraces =>
        /\ at = "match spans" =>
             /\ found.added = {} /\ found.removed = {}
             /\ \A p \in found.paired : p.base = p.cand
             /\ current # NoPair => current.base = current.cand /\ SpanProofs!Itself
        /\ at \in {"compare traces", "done"} =>
             /\ DOMAIN matches.added = {} /\ DOMAIN matches.removed = {}
             /\ \A n \in DOMAIN matches.paired : Pair(n).base = Pair(n).cand
        /\ at # "failed" => failure = ""
        /\ failure = "match traces" => RepeatedShape
        /\ failure = "match spans" => SiblingTwins

\* What Traces returns for a snapshot and itself.
LEMMA TracesOfItself ==
    ASSUME MInv, before = after, traceStatus \in {"done", "ambiguous"}
    PROVE  /\ traceStatus = "done" =>
                /\ removedTraces = {} /\ addedTraces = {}
                /\ \A p \in pairedTraces : p.base = p.cand /\ p.base \in DOMAIN before
           /\ traceStatus = "ambiguous" => RepeatedShape
<1>1. TraceProofs!IInv /\ baseline = Shapes(before) /\ candidate = Shapes(after)
  BY DEF MInv, TracesMatching, Unstarted
<1>2. TraceProofs!SpanShapeAssumption /\ TraceProofs!TraceMatchAssumption
  BY MatcherAssumptions
<1>3. TraceProofs!Described(Places, baseline) = DOMAIN before
  BY <1>1, ShapesFacts, SameTraceMatcher DEF TraceProofs!Described, MInv, Documents
<1>4. baseline = candidate
  BY <1>1
<1>5. /\ traceStatus = "done" =>
           removedTraces = {} /\ addedTraces = {} /\ \A p \in pairedTraces : p.base = p.cand
      /\ traceStatus = "ambiguous" =>
           \E m, n \in TraceProofs!Described(Places, baseline) :
             m # n /\ baseline[m] = baseline[n]
  BY <1>1, <1>2, <1>4, TraceProofs!ItselfReturned
<1>6. traceStatus = "done" => \A p \in pairedTraces : p.base \in DOMAIN before
  BY TracesReturned
<1> QED BY <1>3, <1>5, <1>6 DEF RepeatedShape

\* And Spans for a trace and itself.
LEMMA SpansOfItself ==
    ASSUME MInv, Prepared, Silent, SameTraces, at = "match spans", current # NoPair
    PROVE  /\ base = cand /\ SpanProofs!IInv /\ SpanProofs!Itself
           /\ current.base = current.cand
           /\ spanStatus = "done" => removedSpans = {} /\ addedSpans = {}
           /\ spanStatus = "ambiguous" => SiblingTwins
<1>1. /\ before = after /\ current.base = current.cand /\ SpanProofs!Itself
      /\ base = Structure(before[current.base]) /\ cand = Structure(after[current.cand])
      /\ SpanProofs!IInv /\ current \in pairedTraces /\ traceStatus = "done"
  BY DEF Prepared, Silent, MInv, SpansMatching, TracesMatching
<1>2. base = cand
  BY <1>1
<1>3. SpanProofs!SpanMatchAssumption
  BY MatcherAssumptions
<1>4. /\ spanStatus = "done" => removedSpans = {} /\ addedSpans = {}
      /\ spanStatus = "ambiguous" => SpanProofs!Twins(base)
  BY <1>1, <1>2, <1>3, SpanProofs!ItselfReturned
<1>5. ASSUME SpanProofs!Twins(base) PROVE SiblingTwins
  <2> DEFINE n == current.base
  <2>1. n \in DOMAIN before /\ Normalized(before)
    BY <1>1, TracesOfItself DEF MInv, Documents
  <2>2. PICK x, y \in DOMAIN base : /\ x # y
                                    /\ base[x].key = base[y].key /\ base[x].start = base[y].start
    BY <1>5 DEF SpanProofs!Twins
  <2>3. /\ DOMAIN base = DOMAIN before[n]
        /\ \A i \in DOMAIN base : /\ base[i].key = SpanAt(before, <<n, i>>).semantic
                                  /\ base[i].start = SpanAt(before, <<n, i>>).start
                                  /\ <<n, i>> \in Positions(before)
    <3>1. DOMAIN base = DOMAIN before[n]
      BY <1>1, <2>1, StructureFacts
    <3>2. ASSUME NEW i \in DOMAIN base PROVE base[i].start = SpanAt(before, <<n, i>>).start
      BY <1>1, <3>1 DEF Structure, SpanAt
    <3>3. ASSUME NEW i \in DOMAIN base PROVE base[i].key = SpanAt(before, <<n, i>>).semantic
      BY <1>1, <2>1, <3>1, StructureFacts
    <3>4. ASSUME NEW i \in DOMAIN base PROVE <<n, i>> \in Positions(before)
      BY <2>1, <3>1, PositionFacts
    <3> HIDE DEF n
    <3> QED BY <3>1, <3>2, <3>3, <3>4
  <2> DEFINE p == <<n, x>>
             q == <<n, y>>
  <2>4. /\ p \in Positions(before) /\ q \in Positions(before) /\ p # q /\ p[1] = q[1]
        /\ SpanAt(before, p).semantic = SpanAt(before, q).semantic
        /\ SpanAt(before, p).start = SpanAt(before, q).start
    BY <2>2, <2>3
  <2> HIDE DEF p, q
  <2> QED BY <2>4 DEF SiblingTwins
<1> QED BY <1>1, <1>2, <1>4, <1>5

\* The list of nothing is empty, and that of equal places is of equal spans.
LEMMA EqualLists ==
    ASSUME Normalized(before), before = after, NEW pairs,
           pairs \subseteq [base : Positions(before), cand : Positions(after)],
           \A p \in pairs : p.base = p.cand
    PROVE  /\ DOMAIN ListOf({}, before) = {} /\ DOMAIN ListOf({}, after) = {}
           /\ \A n \in DOMAIN ListOfPairs(pairs) :
                ListOfPairs(pairs)[n].base = ListOfPairs(pairs)[n].cand
<1>1. \A snapshot : DOMAIN ListOf({}, snapshot) = {}
  <2>1. DOMAIN Listed({}, ByPlace({})) = 1..0
    BY FS_EmptySet DEF Listed
  <2>2. 1..0 = {}
    OBVIOUS
  <2> QED BY <2>1, <2>2 DEF ListOf
<1> DEFINE list == Listed(pairs, ByBase(pairs))
<1>2. IsFiniteSet(pairs)
  <2> DEFINE f == [p \in pairs |-> p.base]
  <2>1. f \in Injection(pairs, Positions(before))
    BY DEF Injection, IsInjective
  <2> QED BY <2>1, PositionFacts, FS_Injection
<1>3. StrictOrder(pairs, ByBase(pairs))
  <2>1. \A p \in pairs : p.base[1] \in Nat /\ p.base[2] \in Nat /\ p.base = <<p.base[1], p.base[2]>>
    BY PositionFacts
  <2>2. \A p, q \in pairs : <<p, q>> \in ByBase(pairs) <=> Earlier(p.base, q.base)
    BY DEF ByBase
  <2>3. \A p, q, u \in pairs : /\ ~Earlier(p.base, p.base)
                               /\ Earlier(p.base, q.base) /\ Earlier(q.base, u.base)
                                    => Earlier(p.base, u.base)
                               /\ p.base # q.base
                                    => Earlier(p.base, q.base) \/ Earlier(q.base, p.base)
    BY <2>1 DEF Earlier
  <2>4. \A p, q \in pairs : p.base = q.base => p = q
    OBVIOUS
  <2> QED BY <2>2, <2>3, <2>4 DEF StrictOrder
<1>4. \A n \in DOMAIN list : list[n] \in pairs
  BY <1>2, <1>3, ListedFacts
<1>5. ListOfPairs(pairs) = [n \in DOMAIN list |-> [base |-> Visible(SpanAt(before, list[n].base)),
                                                   cand |-> Visible(SpanAt(after, list[n].cand))]]
  BY DEF ListOfPairs
<1> HIDE DEF list
<1>6. \A n \in DOMAIN list : list[n].base = list[n].cand
  BY <1>4
<1>7. \A n \in DOMAIN list :
        /\ ListOfPairs(pairs)[n].base = Visible(SpanAt(before, list[n].base))
        /\ ListOfPairs(pairs)[n].cand = Visible(SpanAt(after, list[n].cand))
  BY <1>5
<1> QED BY <1>1, <1>5, <1>6, <1>7


\* The documents of a comparison never change.
LEMMA SameTracesKept == ASSUME request' = request PROVE SameTraces' <=> SameTraces
BY DEF SameTraces

\* A call that fails has one of the two reasons.
LEMMA SilentFailure ==
    ASSUME MInv, Prepared, Silent,
           CallFails \/ TracesAmbiguous \/ SpansAmbiguous \/ OptionsRejected
    PROVE  Silent'
<1>1. /\ at' = "failed" /\ failure' = at /\ request' = request
      /\ before' = before /\ baseline' = baseline
      /\ current' = current /\ spanStatus' = spanStatus
  BY DEF CallFails, TracesAmbiguous, SpansAmbiguous, OptionsRejected, Fail, snapshots, traceVars,
         spanVars, pairVars
<1>2. /\ SameTraces' <=> SameTraces
      /\ RepeatedShape' <=> RepeatedShape
      /\ SiblingTwins' <=> SiblingTwins
  BY <1>1 DEF SameTraces, RepeatedShape, SiblingTwins, Positions, SpanAt
<1>3. ASSUME SameTraces, at = "match traces" PROVE RepeatedShape
  <2>1. traceStatus = "ambiguous"
    BY <1>3 DEF CallFails, Fails, TracesAmbiguous, SpansAmbiguous, OptionsRejected
  <2>2. before = after
    BY <1>3 DEF Prepared
  <2> QED BY <2>1, <2>2, TracesOfItself
<1>4. ASSUME SameTraces, at = "match spans" PROVE SiblingTwins
  <2>1. spanStatus = "ambiguous"
    BY <1>4 DEF CallFails, Fails, TracesAmbiguous, SpansAmbiguous, OptionsRejected
  <2>2. current # NoPair
    BY <2>1 DEF Silent
  <2> QED BY <1>4, <2>1, <2>2, SpansOfItself
<1> QED BY <1>1, <1>2, <1>3, <1>4 DEF Silent

\* Within Spans: a pair is taken up, worked on and appended to the result.
LEMMA SilentSpans ==
    ASSUME MInv, Prepared, Silent,
           (\E p \in rest : PairTraces(p)) \/ MatchSpans \/ CollectSpans
    PROVE  Silent'
<1>1. /\ at = "match spans" /\ at' = at /\ request' = request /\ failure' = failure
  BY DEF PairTraces, MatchSpans, CollectSpans
<1>2. SameTraces' <=> SameTraces
  BY <1>1, SameTracesKept
<1>3. ASSUME SameTraces
      PROVE  /\ before = after /\ failure = "" /\ traceStatus = "done"
             /\ found.added = {} /\ found.removed = {} /\ \A p \in found.paired : p.base = p.cand
  BY <1>1, <1>3 DEF Prepared, Silent, MInv, TracesMatching
<1>4. CASE \E p \in rest : PairTraces(p)
  <2>1. PICK p \in rest : PairTraces(p)
    BY <1>4
  <2>2. /\ current' = p /\ found' = found /\ pairedSpans' = {} /\ p \in pairedTraces
        /\ traceStatus = "done"
    BY <1>1, <2>1 DEF PairTraces, MInv, SpansMatching, TracesMatching
  <2>3. current' # NoPair
    BY <2>2, TracesReturned, PairTyped
  <2>4. SpanProofs!Itself'
    BY <2>2 DEF SpanProofs!Itself
  <2>5. SameTraces => p.base = p.cand
    BY <1>3, <2>2, TracesOfItself
  <2> QED BY <1>1, <1>2, <1>3, <2>2, <2>3, <2>4, <2>5 DEF Silent
<1>5. CASE MatchSpans
  <2>1. current # NoPair /\ current' = current /\ found' = found /\ SpanProofs!Next
    BY <1>5, SameSpanMatcher DEF MatchSpans, pairVars
  <2>2. SpanProofs!TypeOK
    BY <1>1, <2>1 DEF MInv, SpansMatching, SpanProofs!IInv
  <2>3. SpanProofs!SpanMatchAssumption
    BY MatcherAssumptions
  <2>4. SpanProofs!Itself => SpanProofs!Itself'
    BY <2>1, <2>2, <2>3, SpanProofs!ItselfStep
  <2> QED BY <1>1, <1>2, <1>3, <2>1, <2>4 DEF Silent
<1>6. CASE CollectSpans
  <2>1. /\ current # NoPair /\ current' = NoPair /\ spanStatus = "done" /\ spanStatus' = "done"
        /\ found' = [paired  |-> found.paired \cup {[base |-> <<current.base, p.base>>,
                                     cand |-> <<current.cand, p.cand>>] : p \in pairedSpans},
                     added   |-> found.added \cup ({current.cand} \X addedSpans),
                     removed |-> found.removed \cup ({current.base} \X removedSpans)]
    BY <1>6 DEF CollectSpans, spanVars
  <2>2. ASSUME SameTraces
        PROVE  /\ found'.added = {} /\ found'.removed = {}
               /\ \A p \in found'.paired : p.base = p.cand
    <3>1. /\ current.base = current.cand /\ removedSpans = {} /\ addedSpans = {}
          /\ \A p \in pairedSpans : p.base = p.cand
      BY <1>1, <2>1, <2>2, SpansOfItself DEF SpanProofs!Itself
    <3>2. /\ found'.added = found.added \cup ({current.cand} \X addedSpans)
          /\ found'.removed = found.removed \cup ({current.base} \X removedSpans)
          /\ found'.paired = found.paired \cup {[base |-> <<current.base, p.base>>,
                                 cand |-> <<current.cand, p.cand>>] : p \in pairedSpans}
      BY <2>1
    <3>3. \A x : {x} \X {} = {}
      OBVIOUS
    <3>4. \A p \in pairedSpans : <<current.base, p.base>> = <<current.cand, p.cand>>
      BY <3>1
    <3>5. found.added = {} /\ found.removed = {} /\ \A p \in found.paired : p.base = p.cand
      BY <1>3, <2>2
    <3>6. found'.added = {} /\ found'.removed = {}
      BY <3>1, <3>2, <3>3, <3>5
    <3>7. ASSUME NEW p \in found'.paired PROVE p.base = p.cand
      BY <3>2, <3>4, <3>5
    <3> QED BY <3>6, <3>7
  <2> QED BY <1>1, <1>2, <1>3, <2>1, <2>2 DEF Silent
<1> QED BY <1>4, <1>5, <1>6

\* Spans returns: there is nothing but the pairs.
LEMMA SilentMatches == ASSUME MInv, Prepared, Silent, SpansMatched PROVE Silent'
<1> DEFINE all == WithUnmatched
<1>1. /\ at = "match spans" /\ at' = "compare traces" /\ request' = request /\ failure' = failure
      /\ current' = current /\ spanStatus' = spanStatus
      /\ matches' = [paired |-> ListOfPairs(all.paired), added |-> ListOf(all.added, after),
                     removed |-> ListOf(all.removed, before)]
  BY DEF SpansMatched, spanVars
<1>2. SameTraces' <=> SameTraces
  BY <1>1, SameTracesKept
<1>3. ASSUME SameTraces
      PROVE  /\ DOMAIN matches'.added = {} /\ DOMAIN matches'.removed = {}
             /\ \A n \in DOMAIN matches'.paired : Pair(n)'.base = Pair(n)'.cand
             /\ failure = ""
  <2>1. /\ before = after /\ failure = "" /\ traceStatus = "done"
        /\ found.added = {} /\ found.removed = {} /\ \A p \in found.paired : p.base = p.cand
        /\ PairsMatch(found, before, after) /\ Normalized(before)
    BY <1>1, <1>3 DEF Prepared, Silent, MInv, TracesMatching, SpansMatching, Documents
  <2>2. addedTraces = {} /\ removedTraces = {}
    BY <2>1, TracesOfItself
  <2>3. SpansOf(after, addedTraces) = {} /\ SpansOf(before, removedTraces) = {}
    BY <2>2 DEF SpansOf
  <2>4. all.paired = found.paired /\ all.added = {} /\ all.removed = {}
    BY <2>1, <2>3 DEF WithUnmatched, PairsMatch
  <2>5. found.paired \subseteq [base : Positions(before), cand : Positions(after)]
    BY <2>1 DEF PairsMatch
  <2> HIDE DEF all
  <2>6. /\ DOMAIN ListOf(all.added, after) = {} /\ DOMAIN ListOf(all.removed, before) = {}
        /\ \A n \in DOMAIN ListOfPairs(all.paired) :
             ListOfPairs(all.paired)[n].base = ListOfPairs(all.paired)[n].cand
    BY <2>1, <2>4, <2>5, EqualLists
  <2>7. /\ matches'.paired = ListOfPairs(all.paired)
        /\ matches'.added = ListOf(all.added, after)
        /\ matches'.removed = ListOf(all.removed, before)
    BY <1>1
  <2>8. \A n : Pair(n)' = ListOfPairs(all.paired)[n]
    BY <2>7 DEF Pair
  <2> QED BY <2>1, <2>6, <2>7, <2>8
<1> QED BY <1>1, <1>2, <1>3 DEF Silent

\* Every step keeps Silent.
LEMMA SilentStep == ASSUME MInv, Prepared, Silent, [Next]_vars PROVE Silent'
<1>1. CASE CallFails \/ TracesAmbiguous \/ SpansAmbiguous \/ OptionsRejected
  BY <1>1, SilentFailure
<1>2. CASE (\E p \in rest : PairTraces(p)) \/ MatchSpans \/ CollectSpans
  BY <1>2, SilentSpans
<1>3. CASE SpansMatched
  BY <1>3, SilentMatches
<1>4. CASE Prepare \/ DescribeTraces \/ MatchTraces
  <2>1. /\ at \in Preparing \cup {"match traces"} /\ at' \in Preparing \cup {"match traces"}
        /\ request' = request /\ failure' = failure
        /\ current' = current /\ spanStatus' = spanStatus
    BY <1>4, PrepareFacts DEF Prepare, DescribeTraces, MatchTraces, spanVars, pairVars
  <2>2. SameTraces' <=> SameTraces
    BY <2>1, SameTracesKept
  <2> QED BY <2>1, <2>2 DEF Silent, Preparing
<1>5. CASE TracesMatched
  <2>1. /\ at = "match traces" /\ at' = "match spans" /\ request' = request /\ failure' = failure
        /\ current' = current /\ spanStatus' = spanStatus /\ found' = found
    BY <1>5 DEF TracesMatched, spanVars
  <2>2. current = NoPair /\ found = [paired |-> {}, added |-> {}, removed |-> {}]
    <3>1. SpansMatching
      BY DEF MInv
    <3> QED BY <2>1, <3>1 DEF SpansMatching
  <2>4. found'.paired = {} /\ found'.added = {} /\ found'.removed = {}
    BY <2>1, <2>2
  <2>3. SameTraces' <=> SameTraces
    BY <2>1, SameTracesKept
  <2> QED BY <2>1, <2>2, <2>3, <2>4 DEF Silent
<1>6. CASE CompareMatches \/ Return
  <2>1. /\ at = "compare traces" /\ at' \in {"compare traces", "done"}
        /\ request' = request /\ failure' = failure
        /\ current' = current /\ spanStatus' = spanStatus
    BY <1>6 DEF CompareMatches, Return, spanVars, pairVars
  <2>2. matches' = matches
    BY <1>6 DEF CompareMatches, Return, diffVars, Differ!Next, Differ!RejectOptions,
           Differ!ListUnmatched, Differ!ComparePair, Differ!SortChanges, Differ!inputs
  <2>3. SameTraces' <=> SameTraces
    BY <2>1, SameTracesKept
  <2>4. \A n : Pair(n)' = Pair(n)
    BY <2>2 DEF Pair
  <2> QED BY <2>1, <2>2, <2>3, <2>4 DEF Silent
<1>7. CASE UNCHANGED vars
  <2>1. /\ at' = at /\ request' = request /\ failure' = failure /\ before' = before
        /\ baseline' = baseline /\ matches' = matches /\ found' = found
        /\ current' = current /\ spanStatus' = spanStatus
        /\ base' = base /\ cand' = cand /\ pairedSpans' = pairedSpans
    BY <1>7 DEF vars, snapshots, traceVars, spanVars, pairVars, diffVars
  <2>2. /\ SameTraces' <=> SameTraces
        /\ RepeatedShape' <=> RepeatedShape
        /\ SiblingTwins' <=> SiblingTwins
        /\ SpanProofs!Itself' <=> SpanProofs!Itself
    BY <2>1 DEF SameTraces, RepeatedShape, SiblingTwins, Positions, SpanAt, SpanProofs!Itself
  <2>3. \A n : Pair(n)' = Pair(n)
    BY <2>1 DEF Pair
  <2> QED BY <2>1, <2>2, <2>3 DEF Silent
<1> QED BY <1>1, <1>2, <1>3, <1>4, <1>5, <1>6, <1>7 DEF Next

\* A span has not changed with respect to itself, even when no increase is too small.
LEMMA NoPairChanges ==
    ASSUME NEW p, p.base = p.cand, p.base.duration \in Nat
    PROVE  Differ!PairChanges(p) = <<>>
<1>1. ~(p.cand.duration > p.base.duration)
  OBVIOUS
<1>2. /\ ~Differ!StatusChanged(p) /\ ~Differ!ErrorTypeChanged(p)
      /\ ~Differ!DurationChanged(p.base.duration, p.cand.duration)
  BY <1>1 DEF Differ!StatusChanged, Differ!ErrorTypeChanged, Differ!DurationChanged, Differ!Slower
<1>3. \A field : Differ!Changed(p, field, FALSE) = <<>>
  BY DEF Differ!Changed
<1>4. <<>> \o <<>> = <<>>
  OBVIOUS
<1>5. Differ!PairChanges(p) = <<>> \o <<>> \o <<>>
  BY <1>2, <1>3 DEF Differ!PairChanges, Differ!Changed
<1> QED BY <1>4, <1>5

\* A comparison of the same traces, whatever their order and the thresholds, has no
\* changes, and is refused in matching for twins only.
THEOREM SameBehaviour == Spec => []SameBehaviourSilent
<1>1. Init => Prepared /\ Silent
  BY DEF Init, Prepared, Silent
<1>2. MInv /\ Comparing /\ Prepared /\ Silent /\ [Next]_vars => (Prepared /\ Silent)'
  BY PreparedStep, SilentStep
<1>3. MInv /\ Comparing /\ Prepared /\ Silent => SameBehaviourSilent
  <2> SUFFICES ASSUME MInv, Comparing, Silent, SameTraces, at = "done"
               PROVE  changes = <<>>
    BY DEF SameBehaviourSilent, Silent
  <2>1. /\ diffStage = "done"
        /\ DOMAIN matches.added = {} /\ DOMAIN matches.removed = {}
        /\ \A n \in DOMAIN matches.paired : Pair(n).base = Pair(n).cand
    BY DEF Comparing, Silent
  <2>2. MatchesNamed(matches, before, after) /\ Reporting
    BY <2>1, ReportedFacts
  <2>3. ToSet(matches.added) = {} /\ ToSet(matches.removed) = {}
    BY <2>1 DEF ToSet
  <2>4. \A n \in DOMAIN matches.paired : Pair(n).base.duration \in Nat
    BY <2>2, MatchesTyped, SeenFacts DEF MInv, Documents
  <2>5. ChangedBefore(next) = {}
    BY <2>1, <2>4, NoPairChanges DEF ChangedBefore
  <2>6. \A c \in Record : c \notin ToSet(changes)
    BY <2>2, <2>3, <2>5 DEF Reporting, Reports
  <2>7. changes \in Seq(Record)
    BY <2>2 DEF Reporting
  <2>8. \A R, s : s \in Seq(R) /\ s # <<>> => 1 \in DOMAIN s /\ s[1] \in R
    OBVIOUS
  <2> QED BY <2>6, <2>7, <2>8 DEF ToSet
<1> QED BY <1>1, <1>2, <1>3, ComparisonInvariance, PTL DEF Spec

-----------------------------------------------------------------------------
(* The contract: what a trace starts with *)

\* The contract speaks of snapshots in Pipeline's terms.
LEMMA ContractTerms ==
    /\ \A snapshot : Contract!Spans(snapshot) = Positions(snapshot)
    /\ \A snapshot, p : Contract!Span(snapshot, p) = SpanAt(snapshot, p)
    /\ \A document : Contract!Unfit(document) <=> Unfit(document)
    /\ \A S : Contract!Cardinality(S) = Cardinality(S)
<1>1. /\ \A snapshot : Contract!Spans(snapshot) = Positions(snapshot)
      /\ \A snapshot, p : Contract!Span(snapshot, p) = SpanAt(snapshot, p)
      /\ \A document : Contract!Unfit(document) <=> Unfit(document)
  BY DEF Contract!Spans, Positions, Contract!Span, SpanAt, Contract!Unfit, Unfit
<1>2. \A S : Contract!Cardinality(S) = Cardinality(S)
  BY DEF Contract!Cardinality, Cardinality
<1> QED BY <1>1, <1>2

\* The spans with a top-level token are those with its parent and its operation.
LEMMA TopsCounted ==
    ASSUME NEW snapshot, Normalized(snapshot), NEW n \in DOMAIN snapshot, NEW k \in Semantic,
           NEW above, NEW kind,
           \/ above = Root /\ kind = "root"
           \/ above = External /\ kind = "external"
    PROVE  Shapes(snapshot)[n][TraceProofs!TopToken(k, kind)] = Contract!Tops(snapshot[n], above)[k]
<1> DEFINE token == TraceMatcher!TopToken(k, kind)
           spans == {i \in DOMAIN snapshot[n] : snapshot[n][i].parent = above
                                                /\ snapshot[n][i].semantic = k}
<1>1. n \in Places
  BY ShapesFacts
<1>2. token \in TraceMatcher!Token /\ TraceProofs!TopToken(k, kind) = token
  <2>1. kind \in {"root", "external"}
    OBVIOUS
  <2>2. <<k, kind>> \in Semantic \X {"root", "external"}
    BY <2>1
  <2>3. TraceMatcher!TopToken(<<k, kind>>[1], <<k, kind>>[2]) \in TraceMatcher!Token
    BY <2>2 DEF TraceMatcher!Token
  <2> QED BY <2>3 DEF TraceMatcher!TopToken, TraceProofs!TopToken
<1>3. ASSUME NEW i \in DOMAIN snapshot[n]
      PROVE  TokenOf(snapshot[n], i) = token
               <=> snapshot[n][i].parent = above /\ snapshot[n][i].semantic = k
  <2>1. /\ Root # External
        /\ \A s, m : TraceMatcher!TopToken(s, m).kind = m /\ TraceMatcher!TopToken(s, m).key = s
        /\ \A s, p : TraceMatcher!ChildToken(s, p).kind = "span"
    BY PipelineAssumption DEF TraceMatcher!TopToken, TraceMatcher!ChildToken
  <2>2. CASE snapshot[n][i].parent = Root
    <3>1. TokenOf(snapshot[n], i) = TraceMatcher!TopToken(snapshot[n][i].semantic, "root")
      BY <2>1, <2>2 DEF TokenOf
    <3> QED BY <2>1, <2>2, <3>1
  <2>3. CASE snapshot[n][i].parent = External
    <3>1. TokenOf(snapshot[n], i) = TraceMatcher!TopToken(snapshot[n][i].semantic, "external")
      BY <2>1, <2>3 DEF TokenOf
    <3> QED BY <2>1, <2>3, <3>1
  <2>4. CASE snapshot[n][i].parent \notin {Root, External}
    <3>1. TokenOf(snapshot[n], i).kind = "span"
      BY <2>1, <2>4 DEF TokenOf
    <3> QED BY <2>1, <2>4, <3>1
  <2> QED BY <2>2, <2>3, <2>4
<1>4. Shapes(snapshot)[n][token]
        = Cardinality({i \in DOMAIN snapshot[n] : TokenOf(snapshot[n], i) = token})
  <2> HIDE DEF token
  <2> QED BY <1>1, <1>2 DEF Shapes
<1>5. {i \in DOMAIN snapshot[n] : TokenOf(snapshot[n], i) = token} = spans
  BY <1>3
<1>6. Contract!Tops(snapshot[n], above)[k] = Contract!Cardinality(spans)
  BY DEF Contract!Tops
<1> HIDE DEF token, spans
<1> QED BY <1>2, <1>4, <1>5, <1>6, ContractTerms

\* The bag of operations a trace starts with is the key of its group.
LEMMA OperationsGrouped ==
    ASSUME NEW snapshot, Normalized(snapshot), NEW n \in DOMAIN snapshot
    PROVE  Contract!Operations(snapshot[n]) = TraceProofs!GroupKey(Shapes(snapshot)[n])
<1> DEFINE shape == Shapes(snapshot)[n]
           roots(k) == {i \in DOMAIN snapshot[n] : snapshot[n][i].parent = Root
                                                   /\ snapshot[n][i].semantic = k}
<1>1. TraceProofs!TopKeys(shape, "root") = Contract!Tops(snapshot[n], Root)
  <2>1. \A k \in Semantic : shape[TraceProofs!TopToken(k, "root")]
                              = Contract!Tops(snapshot[n], Root)[k]
    BY TopsCounted
  <2>2. Contract!Tops(snapshot[n], Root)
          = [k \in Semantic |-> Contract!Tops(snapshot[n], Root)[k]]
    BY DEF Contract!Tops
  <2> HIDE DEF shape
  <2> QED BY <2>1, <2>2 DEF TraceProofs!TopKeys
<1>2. TraceProofs!TopKeys(shape, "external") = Contract!Tops(snapshot[n], External)
  <2>1. \A k \in Semantic : shape[TraceProofs!TopToken(k, "external")]
                              = Contract!Tops(snapshot[n], External)[k]
    BY TopsCounted
  <2>2. Contract!Tops(snapshot[n], External)
          = [k \in Semantic |-> Contract!Tops(snapshot[n], External)[k]]
    BY DEF Contract!Tops
  <2> HIDE DEF shape
  <2> QED BY <2>1, <2>2 DEF TraceProofs!TopKeys
<1>3. \A k \in Semantic : /\ shape[TraceProofs!TopToken(k, "root")] = Cardinality(roots(k))
                          /\ IsFiniteSet(roots(k))
  <2> TAKE k \in Semantic
  <2>1. PICK m \in 1..MaxCount : DOMAIN snapshot[n] = 1..m
    BY DEF Normalized
  <2>2. m \in Int
    BY PipelineAssumption
  <2>3. IsFiniteSet(1..m)
    BY <2>2, FS_Interval
  <2>7. roots(k) \subseteq 1..m
    BY <2>1
  <2>4. IsFiniteSet(roots(k))
    BY <2>3, <2>7, FS_Subset
  <2>5. shape[TraceProofs!TopToken(k, "root")] = Contract!Tops(snapshot[n], Root)[k]
    BY TopsCounted
  <2>6. Contract!Tops(snapshot[n], Root)[k] = Contract!Cardinality(roots(k))
    BY DEF Contract!Tops
  <2> HIDE DEF roots, shape
  <2> QED BY <2>4, <2>5, <2>6, ContractTerms
<1>4. TraceProofs!HasRoot(shape) <=> \E i \in DOMAIN snapshot[n] : snapshot[n][i].parent = Root
  <2>1. ASSUME NEW i \in DOMAIN snapshot[n], snapshot[n][i].parent = Root
        PROVE  TraceProofs!HasRoot(shape)
    <3> DEFINE k == snapshot[n][i].semantic
    <3>1. k \in Semantic /\ i \in roots(k)
      BY <2>1 DEF Normalized
    <3> HIDE DEF k, roots, shape
    <3>2. IsFiniteSet(roots(k)) /\ Cardinality(roots(k)) \in Nat /\ Cardinality(roots(k)) # 0
      BY <1>3, <3>1, FS_CardinalityType, FS_EmptySet
    <3>3. shape[TraceProofs!TopToken(k, "root")] > 0
      BY <1>3, <3>1, <3>2
    <3> QED BY <3>1, <3>3 DEF TraceProofs!HasRoot
  <2>2. ASSUME TraceProofs!HasRoot(shape)
        PROVE  \E i \in DOMAIN snapshot[n] : snapshot[n][i].parent = Root
    <3>1. PICK k \in Semantic : shape[TraceProofs!TopToken(k, "root")] > 0
      BY <2>2 DEF TraceProofs!HasRoot
    <3> HIDE DEF shape
    <3>2. Cardinality(roots(k)) > 0
      BY <1>3, <3>1
    <3>3. roots(k) # {}
      <4>1. Cardinality({}) = 0
        BY FS_EmptySet
      <4> HIDE DEF roots
      <4> QED BY <3>2, <4>1
    <3> QED BY <3>3
  <2> QED BY <2>1, <2>2
<1> HIDE DEF shape
<1>5. TraceProofs!GroupKey(shape) = Contract!Operations(snapshot[n])
  BY <1>1, <1>2, <1>4 DEF TraceProofs!GroupKey, Contract!Operations
<1> QED BY <1>5 DEF shape

\* Two traces that start with the same operations have one in common at the top.
LEMMA SameStart ==
    ASSUME NEW snapshot, Normalized(snapshot), NEW n \in DOMAIN snapshot,
           NEW other, Normalized(other), NEW m \in DOMAIN other,
           Contract!Operations(snapshot[n]) = Contract!Operations(other[m])
    PROVE  \E i \in DOMAIN snapshot[n], j \in DOMAIN other[m] :
              snapshot[n][i].semantic = other[m][j].semantic
<1> DEFINE spans(t, parent, k) == {i \in DOMAIN t : t[i].parent = parent /\ t[i].semantic = k}
<1>1. \A t, parent : \A k \in Semantic :
        Contract!Tops(t, parent)[k] = Cardinality(spans(t, parent, k))
  <2> TAKE t, parent
  <2> TAKE k \in Semantic
  <2>1. Contract!Tops(t, parent)[k] = Contract!Cardinality(spans(t, parent, k))
    BY DEF Contract!Tops
  <2> HIDE DEF spans
  <2> QED BY <2>1, ContractTerms
<1>2. \E i \in DOMAIN snapshot[n] :
        /\ snapshot[n][i].semantic \in Semantic
        /\ Contract!Operations(snapshot[n]) = Contract!Tops(snapshot[n], snapshot[n][i].parent)
  <2>1. 1 \in DOMAIN snapshot[n] /\ snapshot[n][1].parent \in {Root, External}
    <3>1. PICK k \in 1..MaxCount : DOMAIN snapshot[n] = 1..k
      BY DEF Normalized
    <3>2. 1 \in DOMAIN snapshot[n]
      BY <3>1, PipelineAssumption
    <3>3. snapshot[n][1].parent \in {Root, External} \cup 1..(1 - 1)
      BY <3>2 DEF Normalized
    <3>4. 1..(1 - 1) = {}
      OBVIOUS
    <3> QED BY <3>2, <3>3, <3>4
  <2>2. CASE \E i \in DOMAIN snapshot[n] : snapshot[n][i].parent = Root
    BY <2>2 DEF Contract!Operations, Normalized
  <2>3. CASE ~\E i \in DOMAIN snapshot[n] : snapshot[n][i].parent = Root
    BY <2>1, <2>3 DEF Contract!Operations, Normalized
  <2> QED BY <2>2, <2>3
<1>3. PICK i \in DOMAIN snapshot[n] :
        /\ snapshot[n][i].semantic \in Semantic
        /\ Contract!Operations(snapshot[n]) = Contract!Tops(snapshot[n], snapshot[n][i].parent)
  BY <1>2
<1> DEFINE k == snapshot[n][i].semantic
           kind == snapshot[n][i].parent
<1>4. IsFiniteSet(spans(snapshot[n], kind, k)) /\ i \in spans(snapshot[n], kind, k)
  <2>1. PICK last \in 1..MaxCount : DOMAIN snapshot[n] = 1..last
    BY DEF Normalized
  <2>2. IsFiniteSet(1..last) /\ spans(snapshot[n], kind, k) \subseteq 1..last
    BY <2>1, PipelineAssumption, FS_Interval
  <2> QED BY <2>2, FS_Subset
<1>5. Cardinality(spans(snapshot[n], kind, k)) # 0
  BY <1>4, FS_EmptySet
<1>6. \E parent : Contract!Operations(other[m]) = Contract!Tops(other[m], parent)
  BY DEF Contract!Operations
<1>7. PICK parent : Contract!Operations(other[m]) = Contract!Tops(other[m], parent)
  BY <1>6
<1>8. Cardinality(spans(other[m], parent, k)) # 0
  <2>1. Contract!Tops(other[m], parent)[k] = Contract!Tops(snapshot[n], kind)[k]
    BY <1>3, <1>7
  <2>2. /\ Contract!Tops(other[m], parent)[k] = Cardinality(spans(other[m], parent, k))
        /\ Contract!Tops(snapshot[n], kind)[k] = Cardinality(spans(snapshot[n], kind, k))
    <3> HIDE DEF spans
    <3> QED BY <1>1, <1>3
  <2> HIDE DEF spans, k, kind
  <2> QED BY <1>5, <2>1, <2>2
<1>9. spans(other[m], parent, k) # {}
  <2>1. Cardinality({}) = 0
    BY FS_EmptySet
  <2> HIDE DEF spans
  <2> QED BY <1>8, <2>1
<1> QED BY <1>9

-----------------------------------------------------------------------------
(* The contract: what has passed, and what the pairs leave over *)

Matched == {"match traces", "match spans", "compare traces", "done"}

\* Every call that is over had no reason to fail, and worked on the request.
Passed ==
    /\ at # "failed" => failure = ""
    /\ at \notin {"parse baseline", "parse candidate", "redact baseline", "failed"} => request.keys
    /\ at \in {"normalize candidate"} \cup Matched =>
         ~Unfit(request.baseline) /\ before = Snapshot(request.baseline)
    /\ at \in Matched => ~Unfit(request.candidate) /\ after = Snapshot(request.candidate)
    /\ relative = request.relative /\ absolute = request.absolute
    /\ diffStage = "rejected" <=> diffStage # "options" /\ Invalid \in {relative, absolute}
    /\ current = NoPair => spanStatus = "done"

\* Between the traces of each pair spans are paired, and no operation is both
\* removed and added.
Faithful(result, pairs, first, second) ==
    \A q \in pairs :
        /\ \E p \in result.paired : p.base[1] = q.base /\ p.cand[1] = q.cand
        /\ \A r \in result.removed, a \in result.added :
             r[1] = q.base /\ a[1] = q.cand
               => SpanAt(first, r).semantic # SpanAt(second, a).semantic

Answering ==
    /\ at = "match spans" => Faithful(found, pairedTraces \ (rest \cup {current}), before, after)
    /\ at \in {"compare traces", "done"} =>
         /\ Faithful(found, pairedTraces, before, after)
         /\ \A p \in found.paired :
              \E q \in pairedTraces : q.base = p.base[1] /\ q.cand = p.cand[1]
         /\ matches.paired = ListOfPairs(found.paired)
         /\ matches.added = ListOf(found.added, after)
         /\ matches.removed = ListOf(found.removed, before)

\* No step changes the request.
LEMMA RequestKept == ASSUME [Next]_vars PROVE request' = request
BY DEF Next, CallFails, TracesAmbiguous, SpansAmbiguous, OptionsRejected, Fail, Prepare,
       DescribeTraces, MatchTraces, TracesMatched, PairTraces, MatchSpans, CollectSpans,
       SpansMatched, CompareMatches, Return, vars

\* What is said of a document is the same as long as the request is.
LEMMA DocumentsKept ==
    ASSUME request' = request
    PROVE  /\ Unfit(request.baseline)' <=> Unfit(request.baseline)
           /\ Unfit(request.candidate)' <=> Unfit(request.candidate)
           /\ Snapshot(request.baseline)' = Snapshot(request.baseline)
           /\ Snapshot(request.candidate)' = Snapshot(request.candidate)
BY DEF Unfit, Snapshot, Ordered, Kept, ByEncoding

\* The call that a preparing call is followed by.
LEMMA PrepareOrder ==
    ASSUME Prepare
    PROVE  /\ ~Fails(at)
           /\ \/ at = "parse baseline" /\ at' = "parse candidate"
              \/ at = "parse candidate" /\ at' = "redact baseline"
              \/ at = "redact baseline" /\ at' = "redact candidate"
              \/ at = "redact candidate" /\ at' = "normalize baseline"
              \/ at = "normalize baseline" /\ at' = "normalize candidate"
              \/ at = "normalize candidate" /\ at' = "match traces"
<1>1. PICK n \in 1..6 : at = Calls[n] /\ ~Fails(at) /\ at' = Calls[n + 1]
  BY DEF Prepare
<1>2. n = 1 \/ n = 2 \/ n = 3 \/ n = 4 \/ n = 5 \/ n = 6
  OBVIOUS
<1>3. /\ Calls[1] = "parse baseline" /\ Calls[2] = "parse candidate"
      /\ Calls[3] = "redact baseline" /\ Calls[4] = "redact candidate"
      /\ Calls[5] = "normalize baseline" /\ Calls[6] = "normalize candidate"
      /\ Calls[7] = "match traces"
  BY DEF Calls
<1>4. 1 + 1 = 2 /\ 2 + 1 = 3 /\ 3 + 1 = 4 /\ 4 + 1 = 5 /\ 5 + 1 = 6 /\ 6 + 1 = 7
  OBVIOUS
<1> QED BY <1>1, <1>2, <1>3, <1>4

\* Every step keeps Passed.
LEMMA PassedStep == ASSUME MInv, Comparing, Passed, [Next]_vars PROVE Passed'
<1>1. /\ request' = request
      /\ Unfit(request.baseline)' <=> Unfit(request.baseline)
      /\ Unfit(request.candidate)' <=> Unfit(request.candidate)
      /\ Snapshot(request.baseline)' = Snapshot(request.baseline)
      /\ Snapshot(request.candidate)' = Snapshot(request.candidate)
  BY RequestKept, DocumentsKept
<1>2. CASE Prepare
  <2>1. /\ ~Fails(at) /\ UNCHANGED <<failure, current, spanStatus, diffVars>>
        /\ before' = IF at = "normalize baseline" THEN Snapshot(request.baseline) ELSE before
        /\ after' = IF at = "normalize candidate" THEN Snapshot(request.candidate) ELSE after
    BY <1>2, PrepareOrder DEF Prepare, spanVars, pairVars
  <2>2. /\ UNCHANGED <<failure, current, spanStatus, diffStage, relative, absolute>>
        /\ at # "failed" /\ at' # "failed"
    BY <1>2, <2>1, PrepareOrder DEF diffVars
  <2>3. at = "redact baseline" => request.keys
    BY <2>1 DEF Fails
  <2>4. /\ at = "normalize baseline" => ~Unfit(request.baseline)
        /\ at = "normalize candidate" => ~Unfit(request.candidate)
    BY <2>1 DEF Fails
  <2>5. at' \notin {"parse baseline", "parse candidate", "redact baseline", "failed"}
          => request.keys
    BY <1>2, <2>3, PrepareOrder DEF Passed
  <2>6. at' \in {"normalize candidate"} \cup Matched =>
          ~Unfit(request.baseline) /\ before' = Snapshot(request.baseline)
    BY <1>2, <2>1, <2>4, PrepareOrder DEF Passed, Matched
  <2>7. at' \in Matched => ~Unfit(request.candidate) /\ after' = Snapshot(request.candidate)
    BY <1>2, <2>1, <2>4, PrepareOrder DEF Passed, Matched
  <2> QED BY <1>1, <2>2, <2>5, <2>6, <2>7 DEF Passed
<1>3. CASE CallFails \/ TracesAmbiguous \/ SpansAmbiguous \/ OptionsRejected
  <2>1. at' = "failed" /\ UNCHANGED <<current, spanStatus, diffStage, relative, absolute>>
    BY <1>3 DEF CallFails, TracesAmbiguous, SpansAmbiguous, OptionsRejected, Fail, spanVars,
           pairVars, diffVars
  <2> QED BY <1>1, <2>1 DEF Passed, Matched
<1>4. CASE DescribeTraces \/ MatchTraces \/ TracesMatched
  <2>1. /\ at \in Matched /\ at' \in Matched
        /\ UNCHANGED <<failure, before, after, current, spanStatus, diffStage, relative, absolute>>
    BY <1>4 DEF DescribeTraces, MatchTraces, TracesMatched, Matched, snapshots, spanVars,
           pairVars, diffVars
  <2> QED BY <1>1, <2>1 DEF Passed, Matched
<1>5. CASE (\E p \in rest : PairTraces(p)) \/ MatchSpans \/ CollectSpans \/ SpansMatched
  <2>1. /\ at \in Matched /\ at' \in Matched
        /\ UNCHANGED <<failure, before, after, diffStage, relative, absolute>>
    BY <1>5 DEF PairTraces, MatchSpans, CollectSpans, SpansMatched, Matched, snapshots, diffVars
  <2>2. current' = NoPair => spanStatus' = "done"
    <3>1. CASE \E p \in rest : PairTraces(p)
      <4>1. PICK p \in rest : PairTraces(p)
        BY <3>1
      <4>2. p \in pairedTraces /\ traceStatus = "done" /\ current' = p
        BY <4>1 DEF PairTraces, MInv, SpansMatching, TracesMatching
      <4> QED BY <4>2, TracesReturned, PairTyped
    <3>2. CASE MatchSpans
      BY <3>2 DEF MatchSpans, pairVars
    <3>3. CASE CollectSpans
      BY <3>3 DEF CollectSpans, spanVars
    <3>4. CASE SpansMatched
      BY <3>4 DEF SpansMatched, spanVars, Passed
    <3> QED BY <1>5, <3>1, <3>2, <3>3, <3>4
  <2> QED BY <1>1, <2>1, <2>2 DEF Passed, Matched
<1>6. CASE CompareMatches
  <2>1. /\ at \in Matched /\ at' \in Matched
        /\ UNCHANGED <<failure, before, after, current, spanStatus>>
    BY <1>6 DEF CompareMatches, Matched, snapshots, spanVars, pairVars
  <2>2. /\ UNCHANGED <<relative, absolute>>
        /\ diffStage' = "rejected" <=> diffStage' # "options" /\ Invalid \in {relative, absolute}
    BY <1>6 DEF CompareMatches, Differ!Next, Differ!RejectOptions, Differ!ListUnmatched,
           Differ!ComparePair, Differ!SortChanges, Differ!inputs, Passed
  <2> QED BY <1>1, <2>1, <2>2 DEF Passed, Matched
<1>7. CASE Return \/ UNCHANGED vars
  <2>1. /\ UNCHANGED <<failure, before, after, current, spanStatus, diffStage, relative, absolute>>
        /\ at' = at \/ (at \in Matched /\ at' \in Matched)
    BY <1>7 DEF Return, vars, Matched, snapshots, spanVars, pairVars, diffVars
  <2> QED BY <1>1, <2>1 DEF Passed, Matched
<1> QED BY <1>2, <1>3, <1>4, <1>5, <1>6, <1>7 DEF Next


\* What pairSpans returns for one pair of traces: a span of each is paired, and no
\* operation is left over on both sides.
LEMMA CurrentFaithful ==
    ASSUME MInv, at = "match spans", current # NoPair, spanStatus = "done"
    PROVE  /\ \E p \in pairedSpans : TRUE
           /\ \A i \in removedSpans, j \in addedSpans :
                SpanAt(before, <<current.base, i>>).semantic
                  # SpanAt(after, <<current.cand, j>>).semantic
<1> DEFINE b == current.base
           c == current.cand
<1>1. /\ current \in pairedTraces /\ traceStatus = "done" /\ SpanProofs!IInv
      /\ base = Structure(before[b]) /\ cand = Structure(after[c])
      /\ Normalized(before) /\ Normalized(after)
  BY DEF MInv, SpansMatching, TracesMatching, Documents
<1>2. /\ TraceProofs!IInv /\ b \in DOMAIN before /\ c \in DOMAIN after
      /\ baseline = Shapes(before) /\ candidate = Shapes(after)
  BY <1>1, TracesReturned DEF MInv, TracesMatching, Unstarted
<1>3. TraceProofs!GroupKey(baseline[b]) = TraceProofs!GroupKey(candidate[c])
  BY <1>1, <1>2 DEF TraceProofs!IInv, TraceProofs!EachTraceOnce
<1>4. Contract!Operations(before[b]) = Contract!Operations(after[c])
  BY <1>1, <1>2, <1>3, OperationsGrouped
<1>5. PICK i \in DOMAIN before[b], j \in DOMAIN after[c] :
        before[b][i].semantic = after[c][j].semantic
  <2> HIDE DEF b, c
  <2>1. /\ Normalized(before) /\ b \in DOMAIN before
        /\ Normalized(after) /\ c \in DOMAIN after
        /\ Contract!Operations(before[b]) = Contract!Operations(after[c])
    BY <1>1, <1>2, <1>4
  <2> QED BY ONLY <2>1, SameStart
<1>6. /\ DOMAIN base = DOMAIN before[b] /\ DOMAIN cand = DOMAIN after[c]
      /\ \A k \in DOMAIN base : base[k].key = SpanAt(before, <<b, k>>).semantic
      /\ \A k \in DOMAIN cand : cand[k].key = SpanAt(after, <<c, k>>).semantic
  BY <1>1, <1>2, StructureFacts
<1>7. /\ removedSpans = DOMAIN base \ {p.base : p \in pairedSpans}
      /\ addedSpans = DOMAIN cand \ {p.cand : p \in pairedSpans}
      /\ \A k \in removedSpans, m \in addedSpans : base[k].key # cand[m].key
  BY <1>1 DEF SpanProofs!IInv, SpanProofs!SpansOnce, SpanProofs!NoFalseReplacement
<1>8. base[i].key = cand[j].key
  BY <1>5, <1>6 DEF SpanAt
<1>9. \E p \in pairedSpans : TRUE
  BY <1>5, <1>6, <1>7, <1>8
<1>10. \A k \in removedSpans, m \in addedSpans :
         SpanAt(before, <<b, k>>).semantic # SpanAt(after, <<c, m>>).semantic
  <2> HIDE DEF b, c
  <2>1. ASSUME NEW k \in removedSpans, NEW m \in addedSpans
        PROVE  SpanAt(before, <<b, k>>).semantic # SpanAt(after, <<c, m>>).semantic
    <3>1. k \in DOMAIN base /\ m \in DOMAIN cand /\ base[k].key # cand[m].key
      BY <1>7
    <3>2. /\ base[k].key = SpanAt(before, <<b, k>>).semantic
          /\ cand[m].key = SpanAt(after, <<c, m>>).semantic
      BY <1>6, <3>1
    <3> QED BY <3>1, <3>2
  <2> QED BY <2>1
<1> QED BY <1>9, <1>10

\* What it found is appended to the result.
LEMMA FaithfulCollected == ASSUME MInv, Answering, CollectSpans PROVE Answering'
<1> DEFINE b == current.base
           c == current.cand
           pairs == pairedTraces \ (rest \cup {current})
           new == {[base |-> <<b, p.base>>, cand |-> <<c, p.cand>>] : p \in pairedSpans}
<1>1. /\ at = "match spans" /\ at' = at /\ current # NoPair /\ spanStatus = "done"
      /\ current' = NoPair
      /\ rest' = rest /\ before' = before /\ after' = after /\ pairedTraces' = pairedTraces
      /\ found'.paired = found.paired \cup new
      /\ found'.added = found.added \cup ({c} \X addedSpans)
      /\ found'.removed = found.removed \cup ({b} \X removedSpans)
  BY DEF CollectSpans, snapshots, traceVars
<1>2. /\ rest \subseteq pairedTraces /\ current \in pairedTraces \ rest /\ traceStatus = "done"
      /\ ResultFor(found, pairs, before, after)
  BY <1>1 DEF MInv, SpansMatching, TracesMatching
<1>3. Faithful(found, pairs, before, after)
  BY <1>1 DEF Answering
<1>4. NoPair \notin pairedTraces /\ \A q \in pairs : q.base # b /\ q.cand # c
  BY <1>2, TracesReturned, PairTyped
<1>5. pairedTraces \ (rest' \cup {current'}) = pairs \cup {current}
  BY <1>1, <1>2, <1>4
<1>6. \A r \in found.removed : \E q \in pairs : q.base = r[1]
  BY <1>2 DEF ResultFor, SpansOf
<1>7. ASSUME NEW q \in pairs
      PROVE  /\ \E p \in found'.paired : p.base[1] = q.base /\ p.cand[1] = q.cand
             /\ \A r \in found'.removed, a \in found'.added :
                  r[1] = q.base /\ a[1] = q.cand
                    => SpanAt(before, r).semantic # SpanAt(after, a).semantic
  <2>1. \E p \in found'.paired : p.base[1] = q.base /\ p.cand[1] = q.cand
    BY <1>1, <1>3, <1>7 DEF Faithful
  <2>2. ASSUME NEW r \in found'.removed, NEW a \in found'.added, r[1] = q.base, a[1] = q.cand
        PROVE  SpanAt(before, r).semantic # SpanAt(after, a).semantic
    <3>1. r[1] # b /\ a[1] # c
      BY <1>4, <1>7, <2>2
    <3>2. r \in found.removed /\ a \in found.added
      BY <1>1, <2>2, <3>1
    <3> QED BY <1>3, <1>7, <2>2, <3>2 DEF Faithful
  <2> QED BY <2>1, <2>2
<1>8. \E p \in found'.paired : p.base[1] = b /\ p.cand[1] = c
  <2>1. PICK p \in pairedSpans : TRUE
    BY <1>1, CurrentFaithful
  <2>2. [base |-> <<b, p.base>>, cand |-> <<c, p.cand>>] \in found'.paired
    BY <1>1
  <2> QED BY <2>2
<1>9. ASSUME NEW r \in found'.removed, NEW a \in found'.added, r[1] = b, a[1] = c
      PROVE  SpanAt(before, r).semantic # SpanAt(after, a).semantic
  <2>1. \A a1 \in found.added : \E q \in pairs : q.cand = a1[1]
    BY <1>2 DEF ResultFor, SpansOf
  <2>2. r \in {b} \X removedSpans /\ a \in {c} \X addedSpans
    <3>1. r \notin found.removed
      BY <1>4, <1>6, <1>9
    <3>2. a \notin found.added
      BY <1>4, <1>9, <2>1
    <3> HIDE DEF b, c
    <3> QED BY <1>1, <1>9, <3>1, <3>2
  <2>3. /\ r[2] \in removedSpans /\ r = <<b, r[2]>>
        /\ a[2] \in addedSpans /\ a = <<c, a[2]>>
    BY <2>2
  <2>4. SpanAt(before, <<b, r[2]>>).semantic # SpanAt(after, <<c, a[2]>>).semantic
    BY <1>1, <2>3, CurrentFaithful
  <2> QED BY <2>3, <2>4
<1>10. Faithful(found', pairs \cup {current}, before, after)
  <2> HIDE DEF new, pairs
  <2> QED BY <1>7, <1>8, <1>9 DEF Faithful
<1>11. Faithful(found', pairedTraces' \ (rest' \cup {current'}), before', after')
  BY <1>1, <1>5, <1>10
<1> QED BY <1>1, <1>11 DEF Answering

\* The spans of unmatched traces are completed; they are of no pair.
LEMMA FaithfulCompleted == ASSUME MInv, Answering, SpansMatched PROVE Answering'
<1>1. /\ at = "match spans" /\ at' = "compare traces" /\ current = NoPair /\ rest = {}
      /\ UNCHANGED <<before, after, pairedTraces>> /\ found' = WithUnmatched
      /\ matches'.paired = ListOfPairs(WithUnmatched.paired)
      /\ matches'.added = ListOf(WithUnmatched.added, after)
      /\ matches'.removed = ListOf(WithUnmatched.removed, before)
  BY DEF SpansMatched, snapshots, traceVars
<1>2. /\ traceStatus = "done" /\ PairsMatch(found, before, after)
      /\ ResultFor(found, pairedTraces \ (rest \cup {current}), before, after)
      /\ Faithful(found, pairedTraces \ (rest \cup {current}), before, after)
  BY <1>1 DEF MInv, SpansMatching, TracesMatching, Answering
<1>3. /\ {p.base : p \in pairedTraces} \cap removedTraces = {}
      /\ {p.cand : p \in pairedTraces} \cap addedTraces = {}
      /\ NoPair \notin pairedTraces
  BY <1>2, TracesReturned, PairTyped
<1>4. pairedTraces \ (rest \cup {current}) = pairedTraces
  BY <1>1, <1>3
<1>5. /\ WithUnmatched.paired = found.paired
      /\ WithUnmatched.added = found.added \cup SpansOf(after, addedTraces)
      /\ WithUnmatched.removed = found.removed \cup SpansOf(before, removedTraces)
  BY <1>2 DEF WithUnmatched, PairsMatch
<1>6. Faithful(found', pairedTraces, before, after)
  <2> SUFFICES ASSUME NEW q \in pairedTraces
               PROVE  /\ \E p \in found'.paired : p.base[1] = q.base /\ p.cand[1] = q.cand
                      /\ \A r \in found'.removed, a \in found'.added :
                           r[1] = q.base /\ a[1] = q.cand
                             => SpanAt(before, r).semantic # SpanAt(after, a).semantic
    BY DEF Faithful
  <2>1. \E p \in found'.paired : p.base[1] = q.base /\ p.cand[1] = q.cand
    BY <1>1, <1>2, <1>4, <1>5 DEF Faithful
  <2>2. ASSUME NEW r \in found'.removed, NEW a \in found'.added, r[1] = q.base, a[1] = q.cand
        PROVE  SpanAt(before, r).semantic # SpanAt(after, a).semantic
    <3>1. r[1] \notin removedTraces /\ a[1] \notin addedTraces
      BY <1>3, <2>2
    <3>2. r \in found.removed /\ a \in found.added
      BY <1>1, <1>5, <2>2, <3>1 DEF SpansOf
    <3> QED BY <1>2, <1>4, <2>2, <3>2 DEF Faithful
  <2> QED BY <2>1, <2>2
<1>7. \A p \in found'.paired : \E q \in pairedTraces : q.base = p.base[1] /\ q.cand = p.cand[1]
  BY <1>1, <1>2, <1>4, <1>5 DEF ResultFor
<1>8. /\ matches'.paired = ListOfPairs(found.paired)'
      /\ matches'.added = ListOf(found'.added, after')
      /\ matches'.removed = ListOf(found'.removed, before')
  <2>1. ListOfPairs(found.paired)' = ListOfPairs(WithUnmatched.paired)
    BY <1>1 DEF ListOfPairs
  <2> QED BY <1>1, <2>1
<1> QED BY <1>1, <1>6, <1>7, <1>8 DEF Answering

\* Every step keeps Answering.
LEMMA AnsweringStep == ASSUME MInv, Answering, [Next]_vars PROVE Answering'
<1>1. CASE CallFails \/ TracesAmbiguous \/ SpansAmbiguous \/ OptionsRejected
  <2>1. at' = "failed"
    BY <1>1 DEF CallFails, TracesAmbiguous, SpansAmbiguous, OptionsRejected, Fail
  <2> QED BY <2>1 DEF Answering
<1>2. CASE Prepare \/ DescribeTraces \/ MatchTraces
  <2>1. at' \notin {"match spans", "compare traces", "done"}
    BY <1>2, PrepareOrder DEF DescribeTraces, MatchTraces
  <2> QED BY <2>1 DEF Answering
<1>3. CASE TracesMatched
  <2>1. at' = "match spans" /\ rest' = pairedTraces /\ pairedTraces' = pairedTraces
    BY <1>3 DEF TracesMatched, traceVars
  <2>2. (pairedTraces \ (rest \cup {current}))' = {}
    BY <2>1
  <2> QED BY <2>1, <2>2 DEF Answering, Faithful
<1>4. CASE \E p \in rest : PairTraces(p)
  <2>1. PICK p \in rest : PairTraces(p)
    BY <1>4
  <2>2. /\ at = "match spans" /\ at' = at /\ current = NoPair /\ rest' = rest \ {p}
        /\ current' = p /\ UNCHANGED <<before, after, found, pairedTraces>>
    BY <2>1 DEF PairTraces, snapshots, traceVars
  <2>3. rest \subseteq pairedTraces /\ NoPair \notin pairedTraces
    <3>1. rest \subseteq pairedTraces /\ traceStatus = "done"
      BY <2>2 DEF MInv, SpansMatching, TracesMatching
    <3> QED BY <3>1, TracesReturned, PairTyped
  <2>4. pairedTraces' \ (rest' \cup {current'}) = pairedTraces \ (rest \cup {current})
    BY <2>2, <2>3
  <2>5. Faithful(found', pairedTraces' \ (rest' \cup {current'}), before', after')
    BY <2>2, <2>4 DEF Answering
  <2> QED BY <2>2, <2>5 DEF Answering
<1>5. CASE MatchSpans \/ CompareMatches \/ Return \/ UNCHANGED vars
  <2>1. /\ at' = at \/ (at = "compare traces" /\ at' = "done")
        /\ UNCHANGED <<before, after, found, pairedTraces, rest, current>>
    BY <1>5 DEF MatchSpans, CompareMatches, Return, vars, snapshots, traceVars, pairVars
  <2>2. at \in {"compare traces", "done"} => matches' = matches
    BY <1>5 DEF MatchSpans, CompareMatches, Return, vars, diffVars, Differ!Next,
           Differ!RejectOptions, Differ!ListUnmatched, Differ!ComparePair, Differ!SortChanges,
           Differ!inputs
  <2>3. /\ ListOfPairs(found.paired)' = ListOfPairs(found.paired)
        /\ Faithful(found, pairedTraces, before, after)'
             <=> Faithful(found, pairedTraces, before, after)
    BY <2>1 DEF ListOfPairs, Faithful
  <2>4. Faithful(found, pairedTraces \ (rest \cup {current}), before, after)'
          <=> Faithful(found, pairedTraces \ (rest \cup {current}), before, after)
    <3>1. pairedTraces' \ (rest' \cup {current'}) = pairedTraces \ (rest \cup {current})
      BY <2>1
    <3>2. /\ found' = found /\ before' = before /\ after' = after
      BY <2>1
    <3> QED BY <3>1, <3>2
  <2> QED BY <2>1, <2>2, <2>3, <2>4 DEF Answering
<1> QED BY <1>1, <1>2, <1>3, <1>4, <1>5, FaithfulCollected, FaithfulCompleted DEF Next

-----------------------------------------------------------------------------
(* The contract: a refusal has a reason *)

\* Traces refuses two snapshots only when one has rivals in the other.
LEMMA TracesRefused ==
    ASSUME MInv, traceStatus = "ambiguous"
    PROVE  Contract!Rivals(before, after) \/ Contract!Rivals(after, before)
<1>1. /\ TraceProofs!IInv /\ baseline = Shapes(before) /\ candidate = Shapes(after)
      /\ Normalized(before) /\ Normalized(after)
  BY DEF MInv, Documents, TracesMatching, Unstarted
<1>2. TraceProofs!SpanShapeAssumption /\ TraceProofs!TraceMatchAssumption
  BY MatcherAssumptions
<1>3. TraceProofs!Outcome.kind = "ambiguous"
  BY DEF TraceProofs!Outcome
<1>4. ~TraceProofs!Verdict!TieFree
  BY <1>1, <1>2, <1>3, TraceProofs!ReturnsPairing DEF TraceProofs!Verdict!RefusalJustified
<1>5. /\ TraceProofs!Verdict!Bases = DOMAIN before /\ TraceProofs!Verdict!Cands = DOMAIN after
  BY <1>1, ShapesFacts, SameTraceMatcher
     DEF TraceProofs!Verdict!Bases, TraceProofs!Verdict!Cands
<1>6. \A b \in DOMAIN before, c \in DOMAIN after :
        TraceProofs!Verdict!Comparable(b, c)
          => Contract!Operations(before[b]) = Contract!Operations(after[c])
  <2> TAKE b \in DOMAIN before, c \in DOMAIN after
  <2>1. Contract!Operations(before[b]) = TraceProofs!GroupKey(baseline[b])
    BY <1>1, OperationsGrouped
  <2>2. Contract!Operations(after[c]) = TraceProofs!GroupKey(candidate[c])
    BY <1>1, OperationsGrouped
  <2> QED BY <2>1, <2>2 DEF TraceProofs!Verdict!Comparable
<1>7. \/ \E b \in DOMAIN before, c, d \in DOMAIN after :
           c # d /\ TraceProofs!Verdict!Comparable(b, c) /\ TraceProofs!Verdict!Comparable(b, d)
      \/ \E c \in DOMAIN after, b, d \in DOMAIN before :
           b # d /\ TraceProofs!Verdict!Comparable(b, c) /\ TraceProofs!Verdict!Comparable(d, c)
  BY <1>4, <1>5 DEF TraceProofs!Verdict!TieFree
<1>8. CASE \E b \in DOMAIN before, c, d \in DOMAIN after :
             /\ c # d
             /\ TraceProofs!Verdict!Comparable(b, c) /\ TraceProofs!Verdict!Comparable(b, d)
  <2>1. PICK b \in DOMAIN before, c \in DOMAIN after, d \in DOMAIN after :
          /\ c # d
          /\ TraceProofs!Verdict!Comparable(b, c) /\ TraceProofs!Verdict!Comparable(b, d)
    BY <1>8
  <2>2. /\ Contract!Operations(after[c]) = Contract!Operations(before[b])
        /\ Contract!Operations(after[d]) = Contract!Operations(before[b])
    BY <1>6, <2>1
  <2> QED BY <2>1, <2>2 DEF Contract!Rivals
<1>9. CASE \E c \in DOMAIN after, b, d \in DOMAIN before :
             /\ b # d
             /\ TraceProofs!Verdict!Comparable(b, c) /\ TraceProofs!Verdict!Comparable(d, c)
  <2>1. PICK c \in DOMAIN after, b \in DOMAIN before, d \in DOMAIN before :
          /\ b # d
          /\ TraceProofs!Verdict!Comparable(b, c) /\ TraceProofs!Verdict!Comparable(d, c)
    BY <1>9
  <2>2. /\ Contract!Operations(before[b]) = Contract!Operations(after[c])
        /\ Contract!Operations(before[d]) = Contract!Operations(after[c])
    BY <1>6, <2>1
  <2> QED BY <2>1, <2>2 DEF Contract!Rivals
<1> QED BY <1>7, <1>8, <1>9

\* Two spans of a structure that have a key and a rank are twins of the snapshot.
LEMMA TwinsSeen ==
    ASSUME NEW snapshot, Normalized(snapshot), NEW n \in DOMAIN snapshot,
           SpanProofs!Twins(Structure(snapshot[n]))
    PROVE  Contract!Twins(snapshot)
<1> DEFINE t == Structure(snapshot[n])
<1>1. PICK x, y \in DOMAIN t : x # y /\ t[x].key = t[y].key /\ t[x].start = t[y].start
  BY DEF SpanProofs!Twins
<1>2. DOMAIN t = DOMAIN snapshot[n]
  BY StructureFacts
<1>3. ASSUME NEW i \in DOMAIN t
      PROVE  /\ t[i].key = SpanAt(snapshot, <<n, i>>).semantic
             /\ t[i].start = SpanAt(snapshot, <<n, i>>).start
             /\ <<n, i>> \in Positions(snapshot)
  <2>1. t[i].key = SpanAt(snapshot, <<n, i>>).semantic
    BY <1>2, StructureFacts
  <2>2. t[i].start = SpanAt(snapshot, <<n, i>>).start
    BY <1>2 DEF Structure, SpanAt
  <2>3. <<n, i>> \in Positions(snapshot)
    BY <1>2, PositionFacts
  <2> QED BY <2>1, <2>2, <2>3
<1> DEFINE p == <<n, x>>
           q == <<n, y>>
<1>4. /\ p \in Positions(snapshot) /\ q \in Positions(snapshot) /\ p # q /\ p[1] = q[1]
      /\ SpanAt(snapshot, p).semantic = SpanAt(snapshot, q).semantic
      /\ SpanAt(snapshot, p).start = SpanAt(snapshot, q).start
  BY <1>1, <1>3
<1> HIDE DEF p, q, t
<1>5. /\ p \in Contract!Spans(snapshot) /\ q \in Contract!Spans(snapshot)
      /\ Contract!Span(snapshot, p).semantic = Contract!Span(snapshot, q).semantic
      /\ Contract!Span(snapshot, p).start = Contract!Span(snapshot, q).start
  BY <1>4, ContractTerms
<1> QED BY <1>4, <1>5 DEF Contract!Twins

\* Spans refuses only when a trace has twins.
LEMMA SpansRefused ==
    ASSUME MInv, Passed, at = "match spans", spanStatus = "ambiguous"
    PROVE  Contract!Twins(before) \/ Contract!Twins(after)
<1>1. current # NoPair
  BY DEF Passed
<1>2. /\ current \in pairedTraces /\ traceStatus = "done" /\ SpanProofs!IInv
      /\ base = Structure(before[current.base]) /\ cand = Structure(after[current.cand])
      /\ Normalized(before) /\ Normalized(after)
  BY <1>1 DEF MInv, SpansMatching, TracesMatching, Documents
<1>3. current.base \in DOMAIN before /\ current.cand \in DOMAIN after
  BY <1>2, TracesReturned
<1>4. SpanProofs!Twins(base) \/ SpanProofs!Twins(cand)
  BY <1>2 DEF SpanProofs!IInv, SpanProofs!AmbiguityNeedsTwins
<1> QED BY <1>2, <1>3, <1>4, TwinsSeen


\* What a reason is, call by call.
LEMMA ReasonFacts ==
    /\ Contract!Reason("parse baseline") <=> request.baseline = Broken
    /\ Contract!Reason("parse candidate") <=> request.candidate = Broken
    /\ Contract!Reason("redact baseline") <=> ~request.keys
    /\ Contract!Reason("redact candidate") <=> ~request.keys
    /\ Contract!Reason("normalize baseline") <=> Unfit(request.baseline)
    /\ Contract!Reason("normalize candidate") <=> Unfit(request.candidate)
    /\ Contract!Reason("match traces") <=>
         \/ Contract!Rivals(Snapshot(request.baseline), Snapshot(request.candidate))
         \/ Contract!Rivals(Snapshot(request.candidate), Snapshot(request.baseline))
    /\ Contract!Reason("match spans") <=>
         \/ Contract!Twins(Snapshot(request.baseline))
         \/ Contract!Twins(Snapshot(request.candidate))
    /\ Contract!Reason("compare traces") <=> Invalid \in {request.relative, request.absolute}
BY ContractTerms DEF Contract!Reason

\* The calls of the contract in their order.
LEMMA CallsInOrder ==
    /\ DOMAIN Contract!Calls = 1..9
    /\ Contract!Calls[1] = "parse baseline" /\ Contract!Calls[2] = "parse candidate"
    /\ Contract!Calls[3] = "redact baseline" /\ Contract!Calls[4] = "redact candidate"
    /\ Contract!Calls[5] = "normalize baseline" /\ Contract!Calls[6] = "normalize candidate"
    /\ Contract!Calls[7] = "match traces" /\ Contract!Calls[8] = "match spans"
    /\ Contract!Calls[9] = "compare traces"
BY DEF Contract!Calls

\* Where a call stands.
LEMMA CallPlaces ==
    /\ \A n \in 1..9 :
         \/ n = 1 /\ Contract!Calls[n] = "parse baseline"
         \/ n = 2 /\ Contract!Calls[n] = "parse candidate"
         \/ n = 3 /\ Contract!Calls[n] = "redact baseline"
         \/ n = 4 /\ Contract!Calls[n] = "redact candidate"
         \/ n = 5 /\ Contract!Calls[n] = "normalize baseline"
         \/ n = 6 /\ Contract!Calls[n] = "normalize candidate"
         \/ n = 7 /\ Contract!Calls[n] = "match traces"
         \/ n = 8 /\ Contract!Calls[n] = "match spans"
         \/ n = 9 /\ Contract!Calls[n] = "compare traces"
    /\ \A call \in {"parse baseline", "parse candidate", "redact baseline", "redact candidate",
                   "normalize baseline", "normalize candidate", "match traces", "match spans",
                   "compare traces"} :
         \E n \in 1..9 : Contract!Calls[n] = call
<1>1. \A n \in 1..9 : \/ n = 1 \/ n = 2 \/ n = 3 \/ n = 4 \/ n = 5 \/ n = 6 \/ n = 7 \/ n = 8
                       \/ n = 9
  OBVIOUS
<1>2. {1, 2, 3, 4, 5, 6, 7, 8, 9} \subseteq 1..9
  OBVIOUS
<1> QED BY <1>1, <1>2, CallsInOrder

\* A call that is over had no reason to refuse; matching may have found its way.
LEMMA OverWithoutReason ==
    ASSUME MInv, Passed, at # "failed"
    PROVE  /\ at # "parse baseline" => ~Contract!Reason("parse baseline")
           /\ at \notin {"parse baseline", "parse candidate"} =>
                ~Contract!Reason("parse candidate")
           /\ at \notin {"parse baseline", "parse candidate", "redact baseline"} =>
                ~Contract!Reason("redact baseline") /\ ~Contract!Reason("redact candidate")
           /\ at \in {"normalize candidate"} \cup Matched =>
                ~Contract!Reason("normalize baseline")
           /\ at \in Matched => ~Contract!Reason("normalize candidate")
BY ReasonFacts DEF MInv, Documents, Passed

\* So no call before the n-th has a reason when Compare is in the n-th.
LEMMA EarlierPassed ==
    ASSUME MInv, Passed, NEW n \in 1..9, at = Contract!Calls[n],
           NEW m \in 1..(n - 1), Contract!Calls[m] \notin Contract!Matching
    PROVE  ~Contract!Reason(Contract!Calls[m])
<1>1. /\ m \in {1, 2, 3, 4, 5, 6, 7, 8}
      /\ n \notin 1..m
  OBVIOUS
<1>2. m \notin {7, 8}
  BY CallsInOrder DEF Contract!Matching
<1>3. /\ at # "failed"
      /\ \/ n = 1 /\ at = "parse baseline"
         \/ n = 2 /\ at = "parse candidate"
         \/ n = 3 /\ at = "redact baseline"
         \/ n = 4 /\ at = "redact candidate"
         \/ n = 5 /\ at = "normalize baseline"
         \/ n = 6 /\ at = "normalize candidate"
         \/ n = 7 /\ at = "match traces"
         \/ n = 8 /\ at = "match spans"
         \/ n = 9 /\ at = "compare traces"
  BY CallPlaces
<1>4. CASE m = 1
  <2>1. n # 1
    BY ONLY <1>1, <1>4
  <2>2. at # "parse baseline"
    BY ONLY <1>3, <2>1
  <2> QED BY <1>3, <1>4, <2>2, CallsInOrder, OverWithoutReason
<1>5. CASE m = 2
  <2>1. n # 1 /\ n # 2
    BY ONLY <1>1, <1>5
  <2>2. at \notin {"parse baseline", "parse candidate"}
    BY ONLY <1>3, <2>1
  <2> QED BY <1>3, <1>5, <2>2, CallsInOrder, OverWithoutReason
<1>6. CASE m \in {3, 4}
  <2>1. n # 1 /\ n # 2 /\ n # 3
    BY ONLY <1>1, <1>6
  <2>2. at \notin {"parse baseline", "parse candidate", "redact baseline"}
    BY ONLY <1>3, <2>1
  <2> QED BY <1>3, <1>6, <2>2, CallsInOrder, OverWithoutReason
<1>7. CASE m = 5
  <2>1. n # 1 /\ n # 2 /\ n # 3 /\ n # 4 /\ n # 5
    BY ONLY <1>1, <1>7
  <2>2. at \in {"normalize candidate"} \cup Matched
    BY ONLY <1>3, <2>1 DEF Matched
  <2> QED BY <1>3, <1>7, <2>2, CallsInOrder, OverWithoutReason
<1>8. CASE m = 6
  <2>1. n # 1 /\ n # 2 /\ n # 3 /\ n # 4 /\ n # 5 /\ n # 6
    BY ONLY <1>1, <1>8
  <2>2. at \in Matched
    BY ONLY <1>3, <2>1 DEF Matched
  <2> QED BY <1>3, <1>8, <2>2, CallsInOrder, OverWithoutReason
<1> QED BY <1>1, <1>2, <1>4, <1>5, <1>6, <1>7, <1>8

\* Before Compare returns its caller sees nothing.
LEMMA NothingSeen == ASSUME Passed, at \notin {"done", "failed"} PROVE Outcome = Contract!Pending
BY DEF Passed, Outcome, Contract!Pending

\* The call that fails has a reason.
LEMMA FailedWithReason ==
    ASSUME MInv, Comparing, Passed,
           CallFails \/ TracesAmbiguous \/ SpansAmbiguous \/ OptionsRejected
    PROVE  \E n \in 1..9 : at = Contract!Calls[n] /\ Contract!Reason(Contract!Calls[n])
<1>1. CASE CallFails
  <2>1. \/ at = "parse baseline" /\ request.baseline = Broken
        \/ at = "parse candidate" /\ request.candidate = Broken
        \/ at = "redact baseline" /\ ~request.keys
        \/ at = "redact candidate" /\ ~request.keys
        \/ at = "normalize baseline" /\ Unfit(request.baseline)
        \/ at = "normalize candidate" /\ Unfit(request.candidate)
    BY <1>1 DEF CallFails, Fails
  <2>2. Contract!Reason(at)
    BY <2>1, ReasonFacts
  <2>3. at \in {"parse baseline", "parse candidate", "redact baseline", "redact candidate",
               "normalize baseline", "normalize candidate"}
    BY <2>1
  <2>4. PICK n \in 1..9 : Contract!Calls[n] = at
    BY <2>3, CallPlaces
  <2> QED BY <2>2, <2>4
<1>2. CASE TracesAmbiguous
  <2>1. at = "match traces" /\ traceStatus = "ambiguous"
    BY <1>2 DEF TracesAmbiguous
  <2>2. before = Snapshot(request.baseline) /\ after = Snapshot(request.candidate)
    BY <2>1 DEF Passed, Matched
  <2>3. Contract!Reason("match traces")
    BY <2>1, <2>2, TracesRefused, ReasonFacts
  <2> QED BY <2>1, <2>3, CallPlaces
<1>3. CASE SpansAmbiguous
  <2>1. at = "match spans" /\ spanStatus = "ambiguous"
    BY <1>3 DEF SpansAmbiguous
  <2>2. before = Snapshot(request.baseline) /\ after = Snapshot(request.candidate)
    BY <2>1 DEF Passed, Matched
  <2>3. Contract!Reason("match spans")
    BY <2>1, <2>2, SpansRefused, ReasonFacts
  <2> QED BY <2>1, <2>3, CallPlaces
<1>4. CASE OptionsRejected
  <2>1. at = "compare traces" /\ diffStage = "rejected"
    BY <1>4 DEF OptionsRejected
  <2>2. Invalid \in {request.relative, request.absolute}
    BY <2>1 DEF Passed
  <2> QED BY <2>1, <2>2, ReasonFacts, CallPlaces
<1> QED BY <1>1, <1>2, <1>3, <1>4

\* A failure is a refusal of the contract.
LEMMA Refused ==
    ASSUME MInv, Comparing, Passed,
           CallFails \/ TracesAmbiguous \/ SpansAmbiguous \/ OptionsRejected
    PROVE  Contract!Refuse
<1>1. at' = "failed" /\ failure' = at /\ request' = request
  BY DEF CallFails, TracesAmbiguous, SpansAmbiguous, OptionsRejected, Fail
<1>2. PICK n \in 1..9 : at = Contract!Calls[n] /\ Contract!Reason(Contract!Calls[n])
  BY FailedWithReason
<1>3. \A m \in 1..(n - 1) :
        Contract!Calls[m] \notin Contract!Matching => ~Contract!Reason(Contract!Calls[m])
  BY <1>2, EarlierPassed
<1>4. Outcome = Contract!Pending
  <2>1. at \notin {"done", "failed"}
    BY <1>2, CallPlaces
  <2> QED BY <2>1, NothingSeen
<1>5. Outcome' = Contract!Refusal(Contract!Calls[n])
  <2>1. Outcome' = Contract!Refusal(at)
    BY <1>1 DEF Outcome, Contract!Refusal
  <2> QED BY <1>2, <2>1
<1> QED BY <1>1, <1>2, <1>3, <1>4, <1>5, CallsInOrder DEF Contract!Refuse

-----------------------------------------------------------------------------
(* The contract: the pairing *)

\* Traces are paired one-to-one, and so are their spans.
LEMMA PairingOneToOne ==
    ASSUME MInv, Answering, at \in {"compare traces", "done"}
    PROVE  Contract!OneToOne(before, after, found.paired)
<1>1. /\ PairsMatch(found, before, after) /\ traceStatus = "done"
      /\ \A p \in found.paired :
           \E q \in pairedTraces : q.base = p.base[1] /\ q.cand = p.cand[1]
  BY DEF MInv, SpansMatching, TracesMatching, Answering
<1>2. /\ \A p, q \in pairedTraces : p.base = q.base => p = q
      /\ \A p, q \in pairedTraces : p.cand = q.cand => p = q
  BY <1>1, TracesReturned
<1>3. ASSUME NEW p \in found.paired, NEW q \in found.paired
      PROVE  /\ p.base = q.base <=> p.cand = q.cand
             /\ p.base[1] = q.base[1] <=> p.cand[1] = q.cand[1]
  <2>1. PICK s \in pairedTraces : s.base = p.base[1] /\ s.cand = p.cand[1]
    BY <1>1
  <2>2. PICK t \in pairedTraces : t.base = q.base[1] /\ t.cand = q.cand[1]
    BY <1>1
  <2>3. p.base[1] = q.base[1] <=> p.cand[1] = q.cand[1]
    BY <1>2, <2>1, <2>2
  <2> QED BY <1>1, <2>3 DEF PairsMatch
<1>4. found.paired \subseteq [base : Contract!Spans(before), cand : Contract!Spans(after)]
  BY <1>1, ContractTerms DEF PairsMatch
<1>5. \A p \in found.paired :
        Contract!Span(before, p.base).semantic = Contract!Span(after, p.cand).semantic
  BY <1>1, ContractTerms DEF PairsMatch
<1> QED BY <1>3, <1>4, <1>5 DEF Contract!OneToOne

\* What is both removed and added has not just moved.
LEMMA PairingReplacesNothing ==
    ASSUME MInv, Answering, at \in {"compare traces", "done"}
    PROVE  Contract!NothingReplaced(before, after, found.paired)
<1>1. /\ PairsMatch(found, before, after) /\ Complete(found, before, after)
      /\ traceStatus = "done" /\ Faithful(found, pairedTraces, before, after)
      /\ \A p \in found.paired :
           \E q \in pairedTraces : q.base = p.base[1] /\ q.cand = p.cand[1]
      /\ Normalized(before) /\ Normalized(after)
  BY DEF MInv, Documents, SpansMatching, TracesMatching, Answering
<1>2. /\ Contract!Removed(before, found.paired) = found.removed
      /\ Contract!Added(after, found.paired) = found.added
  BY <1>1, ContractTerms
     DEF Contract!Removed, Contract!Added, Complete, PairedBases, PairedCands
<1>3. ASSUME NEW r \in found.removed, NEW a \in found.added, NEW p \in found.paired,
             p.base[1] = r[1], p.cand[1] = a[1]
      PROVE  Contract!Span(before, r).semantic # Contract!Span(after, a).semantic
  <2>1. PICK q \in pairedTraces : q.base = p.base[1] /\ q.cand = p.cand[1]
    BY <1>1
  <2>2. \A s \in found.removed, t \in found.added :
          s[1] = q.base /\ t[1] = q.cand => SpanAt(before, s).semantic # SpanAt(after, t).semantic
    BY <1>1 DEF Faithful
  <2>3. SpanAt(before, r).semantic # SpanAt(after, a).semantic
    BY ONLY <1>3, <2>1, <2>2
  <2> QED BY <2>3, ContractTerms
<1>4. ASSUME NEW r \in found.removed, NEW a \in found.added,
             Contract!Operations(before[r[1]]) = Contract!Operations(after[a[1]])
      PROVE  \E p \in found.paired : p.base[1] = r[1] \/ p.cand[1] = a[1]
  <2> DEFINE b == r[1]
             c == a[1]
  <2>1. b \in DOMAIN before /\ c \in DOMAIN after
    BY <1>1, PositionFacts DEF Complete
  <2>2. CASE \E q \in pairedTraces : q.base = b \/ q.cand = c
    <3>1. PICK q \in pairedTraces : q.base = b \/ q.cand = c
      BY <2>2
    <3>2. PICK p \in found.paired : p.base[1] = q.base /\ p.cand[1] = q.cand
      BY <1>1 DEF Faithful
    <3> QED BY <3>1, <3>2
  <2>3. CASE \A q \in pairedTraces : q.base # b /\ q.cand # c
    <3>1. /\ TraceProofs!IInv /\ baseline = Shapes(before) /\ candidate = Shapes(after)
      BY <1>1, TracesReturned DEF MInv, TracesMatching, Unstarted
    <3>2. TraceProofs!SpanShapeAssumption /\ TraceProofs!TraceMatchAssumption
      BY MatcherAssumptions
    <3>3. TraceProofs!Verdict!NoBlockingPair(pairedTraces)
      BY <1>1, <3>1, <3>2, TraceProofs!ReturnsStable DEF TraceProofs!Verdict!StablePairing
    <3>4. b \in TraceProofs!Verdict!Bases /\ c \in TraceProofs!Verdict!Cands
      <4> HIDE DEF b, c
      <4> QED BY <1>1, <2>1, <3>1, ShapesFacts, SameTraceMatcher
              DEF TraceProofs!Verdict!Bases, TraceProofs!Verdict!Cands
    <3>5. TraceProofs!Verdict!Comparable(b, c)
      <4>1. Contract!Operations(before[b]) = TraceProofs!GroupKey(baseline[b])
        BY <1>1, <2>1, <3>1, OperationsGrouped
      <4>2. Contract!Operations(after[c]) = TraceProofs!GroupKey(candidate[c])
        BY <1>1, <2>1, <3>1, OperationsGrouped
      <4> QED BY <1>4, <4>1, <4>2 DEF TraceProofs!Verdict!Comparable
    <3> HIDE DEF b, c
    <3>6. /\ TraceProofs!Verdict!BaseTempted(pairedTraces, b, c)
          /\ TraceProofs!Verdict!CandTempted(pairedTraces, b, c)
      BY <2>3 DEF TraceProofs!Verdict!BaseTempted, TraceProofs!Verdict!CandTempted
    <3>7. \E q \in pairedTraces : q.base = b /\ q.cand = c
      BY <3>3, <3>4, <3>5, <3>6 DEF TraceProofs!Verdict!NoBlockingPair
    <3> QED BY <2>3, <3>7
  <2> QED BY <2>2, <2>3
<1> QED BY <1>2, <1>3, <1>4 DEF Contract!NothingReplaced

-----------------------------------------------------------------------------
(* The contract: the lists of matching and the changes of a pair are complete *)

\* ListOf leaves no span out.
LEMMA ListOfWhole ==
    ASSUME NEW snapshot, Normalized(snapshot), NEW places \in SUBSET Positions(snapshot)
    PROVE  ToSet(ListOf(places, snapshot)) = {Visible(SpanAt(snapshot, p)) : p \in places}
<1> DEFINE list == Listed(places, ByPlace(places))
           result == ListOf(places, snapshot)
<1>1. IsFiniteSet(places) /\ StrictOrder(places, ByPlace(places))
  BY PositionFacts, EarlierOrder, FS_Subset
<1>2. /\ \A n \in DOMAIN list : list[n] \in places
      /\ \A p \in places : \E n \in DOMAIN list : list[n] = p
  BY <1>1, ListedFacts
<1>3. result = [n \in DOMAIN list |-> Visible(SpanAt(snapshot, list[n]))]
  BY DEF ListOf
<1> HIDE DEF list, result
<1>4. ToSet(result) = {Visible(SpanAt(snapshot, list[n])) : n \in DOMAIN list}
  BY <1>3 DEF ToSet
<1>5. ToSet(result) = {Visible(SpanAt(snapshot, p)) : p \in places}
  BY <1>2, <1>4
<1> QED BY <1>5 DEF result

\* Nor ListOfPairs a pair.
LEMMA ListOfPairsWhole ==
    ASSUME Normalized(before), Normalized(after), NEW pairs,
           pairs \subseteq [base : Positions(before), cand : Positions(after)],
           \A p, q \in pairs : p.base = q.base <=> p.cand = q.cand
    PROVE  /\ \A n \in DOMAIN ListOfPairs(pairs) :
                \E p \in pairs : ListOfPairs(pairs)[n]
                  = [base |-> Visible(SpanAt(before, p.base)),
                     cand |-> Visible(SpanAt(after, p.cand))]
           /\ \A p \in pairs :
                \E n \in DOMAIN ListOfPairs(pairs) : ListOfPairs(pairs)[n]
                  = [base |-> Visible(SpanAt(before, p.base)),
                     cand |-> Visible(SpanAt(after, p.cand))]
<1> DEFINE list == Listed(pairs, ByBase(pairs))
           result == ListOfPairs(pairs)
           seen(p) == [base |-> Visible(SpanAt(before, p.base)),
                       cand |-> Visible(SpanAt(after, p.cand))]
<1>1. IsFiniteSet(pairs) /\ StrictOrder(pairs, ByBase(pairs))
  BY PairsOrdered
<1>2. /\ \A n \in DOMAIN list : list[n] \in pairs
      /\ \A p \in pairs : \E n \in DOMAIN list : list[n] = p
  BY <1>1, ListedFacts
<1>3. result = [n \in DOMAIN list |-> seen(list[n])]
  BY DEF ListOfPairs
<1> HIDE DEF list, result, seen
<1>4. DOMAIN result = DOMAIN list /\ \A n \in DOMAIN list : result[n] = seen(list[n])
  BY <1>3
<1>5. /\ \A n \in DOMAIN result : \E p \in pairs : result[n] = seen(p)
      /\ \A p \in pairs : \E n \in DOMAIN result : result[n] = seen(p)
  BY <1>2, <1>4
<1> QED BY <1>5 DEF result, seen

\* The fields in which Compare finds that the spans of a pair differ.
ChangedFields(p) ==
    {field \in {"status", "error.type", "duration"} :
        \/ field = "status" /\ Differ!StatusChanged(p)
        \/ field = "error.type" /\ Differ!ErrorTypeChanged(p)
        \/ field = "duration" /\ Differ!DurationChanged(p.base.duration, p.cand.duration)}

\* It has a change for each of them.
LEMMA PairChangesWhole ==
    ASSUME NEW p, p.base.key \in Key, p.base.occurrence \in Nat
    PROVE  /\ ToSet(Differ!PairChanges(p))
                = {Differ!Change("changed", field, p.base) : field \in ChangedFields(p)}
           /\ Differ!PairChanges(p) = <<>> <=> ChangedFields(p) = {}
<1> DEFINE status == Differ!Changed(p, "status", Differ!StatusChanged(p))
           error == Differ!Changed(p, "error.type", Differ!ErrorTypeChanged(p))
           duration == Differ!Changed(p, "duration",
                          Differ!DurationChanged(p.base.duration, p.cand.duration))
           change(f) == Differ!Change("changed", f, p.base)
<1>1. /\ status \in Seq(Record)
      /\ ToSet(status) = IF Differ!StatusChanged(p) THEN {change("status")} ELSE {}
  <2>1. Differ!StatusChanged(p) \in BOOLEAN
    BY DEF Differ!StatusChanged
  <2> QED BY <2>1, ChangedFacts DEF Fields
<1>2. /\ error \in Seq(Record)
      /\ ToSet(error) = IF Differ!ErrorTypeChanged(p) THEN {change("error.type")} ELSE {}
  <2>1. Differ!ErrorTypeChanged(p) \in BOOLEAN
    BY DEF Differ!ErrorTypeChanged
  <2> QED BY <2>1, ChangedFacts DEF Fields
<1>3. /\ duration \in Seq(Record)
      /\ ToSet(duration) = IF Differ!DurationChanged(p.base.duration, p.cand.duration)
                           THEN {change("duration")} ELSE {}
  <2>1. Differ!DurationChanged(p.base.duration, p.cand.duration) \in BOOLEAN
    BY DEF Differ!DurationChanged, Differ!Slower
  <2> QED BY <2>1, ChangedFacts DEF Fields
<1>4. Differ!PairChanges(p) = (status \o error) \o duration
  BY DEF Differ!PairChanges
<1> HIDE DEF status, error, duration, change
<1>5. status \o error \in Seq(Record) /\ ToSet(status \o error) = ToSet(status) \cup ToSet(error)
  BY <1>1, <1>2, AppendFacts
<1> DEFINE both == status \o error
<1>6. /\ both \o duration \in Seq(Record)
      /\ ToSet(both \o duration) = ToSet(both) \cup ToSet(duration)
  <2>1. both \in Seq(Record)
    BY <1>5
  <2> HIDE DEF both
  <2> QED BY <1>3, <2>1, AppendFacts
<1>7. ToSet(Differ!PairChanges(p)) = ToSet(status) \cup ToSet(error) \cup ToSet(duration)
  BY <1>4, <1>5, <1>6
<1>8. ToSet(Differ!PairChanges(p)) = {change(field) : field \in ChangedFields(p)}
  BY <1>1, <1>2, <1>3, <1>7 DEF ChangedFields
<1>9. Differ!PairChanges(p) = <<>> <=> ToSet(Differ!PairChanges(p)) = {}
  <2>1. \A R, s : s \in Seq(R) /\ s # <<>> => 1 \in DOMAIN s
    OBVIOUS
  <2>2. DOMAIN <<>> = {}
    OBVIOUS
  <2>3. Differ!PairChanges(p) \in Seq(Record)
    BY <1>4, <1>6
  <2> QED BY <2>1, <2>2, <2>3 DEF ToSet
<1>10. ToSet(Differ!PairChanges(p)) = {} <=> ChangedFields(p) = {}
  BY <1>8
<1> QED BY <1>8, <1>9, <1>10 DEF change


\* The place a span of a pair is compared at.
SeenPair(p) ==
    [base |-> Visible(SpanAt(before, p.base)), cand |-> Visible(SpanAt(after, p.cand))]

\* The fields in which the spans differ are those of the contract.
LEMMA FieldsAgree ==
    ASSUME NEW p, relative = request.relative, absolute = request.absolute
    PROVE  ChangedFields(SeenPair(p)) = Contract!Differences(before, after, p)
<1> DEFINE b == SpanAt(before, p.base)
           c == SpanAt(after, p.cand)
           v == SeenPair(p)
<1>1. /\ v.base.status = b.status /\ v.base.error = b.error /\ v.base.duration = b.duration
      /\ v.cand.status = c.status /\ v.cand.error = c.error /\ v.cand.duration = c.duration
  BY DEF SeenPair, Visible
<1> HIDE DEF b, c, v
<1>2. /\ Differ!StatusChanged(v) <=> Contract!Differs("status", b, c)
      /\ Differ!ErrorTypeChanged(v) <=> Contract!Differs("error.type", b, c)
  BY <1>1 DEF Differ!StatusChanged, Differ!ErrorTypeChanged, Contract!Differs
<1>3. Differ!DurationChanged(v.base.duration, v.cand.duration)
        <=> Contract!Differs("duration", b, c)
  <2>1. Contract!Differs("duration", b, c)
          <=> Slower(b.duration, c.duration, request.relative, request.absolute)
    BY DEF Contract!Differs
  <2>2. Differ!DurationChanged(b.duration, c.duration)
          <=> Differ!Slower(b.duration, c.duration, relative, absolute)
    BY DEF Differ!DurationChanged
  <2> QED BY <1>1, <2>1, <2>2 DEF Slower
<1>4. Contract!Differences(before, after, p)
        = {field \in {"status", "error.type", "duration"} : Contract!Differs(field, b, c)}
  BY ContractTerms DEF Contract!Differences, b, c
<1>5. ChangedFields(v)
        = {field \in {"status", "error.type", "duration"} : Contract!Differs(field, b, c)}
  BY <1>2, <1>3 DEF ChangedFields
<1> QED BY <1>4, <1>5 DEF v

\* A change names a span as the contract does.
LEMMA ChangeAgrees ==
    \A kind, field, span :
        Contract!Change(kind, field, span) = Differ!Change(kind, field, Visible(span))
BY DEF Contract!Change, Differ!Change, Visible

\* The order of the report is that of the contract.
LEMMA LessAgrees == \A c, d : Contract!Less(c, d) <=> Differ!LessChange(c, d)
<1> TAKE c, d
<1>1. \A x : Contract!Rank(x) = <<Differ!KindRank(x.kind), Label(x.key), x.occurrence,
                                  Differ!FieldRank(x.field)>>
  BY DEF Contract!Rank, Differ!KindRank, Differ!FieldRank
<1> QED BY <1>1 DEF Contract!Less, Differ!LessChange

\* What is compared is what matching has found.
LEMMA ComparedAll ==
    ASSUME MInv, Comparing, Answering, Passed, diffStage = "done"
    PROVE  /\ PairsMatch(found, before, after) /\ Complete(found, before, after)
           /\ ToSet(matches.added) = {Visible(SpanAt(after, a)) : a \in found.added}
           /\ ToSet(matches.removed) = {Visible(SpanAt(before, r)) : r \in found.removed}
           /\ \A n \in DOMAIN matches.paired : \E p \in found.paired : Pair(n) = SeenPair(p)
           /\ \A p \in found.paired : \E n \in DOMAIN matches.paired : Pair(n) = SeenPair(p)
<1>1. at \in {"compare traces", "done"}
  BY ReportedFacts
<1>2. /\ PairsMatch(found, before, after) /\ Complete(found, before, after)
      /\ Normalized(before) /\ Normalized(after)
      /\ matches.paired = ListOfPairs(found.paired)
      /\ matches.added = ListOf(found.added, after)
      /\ matches.removed = ListOf(found.removed, before)
  BY <1>1 DEF MInv, Documents, SpansMatching, Answering
<1>3. /\ found.added \in SUBSET Positions(after) /\ found.removed \in SUBSET Positions(before)
  BY <1>2 DEF Complete
<1>4. /\ ToSet(matches.added) = {Visible(SpanAt(after, a)) : a \in found.added}
      /\ ToSet(matches.removed) = {Visible(SpanAt(before, r)) : r \in found.removed}
  BY <1>2, <1>3, ListOfWhole
<1>5. /\ found.paired \subseteq [base : Positions(before), cand : Positions(after)]
      /\ \A p, q \in found.paired : p.base = q.base <=> p.cand = q.cand
  BY <1>2 DEF PairsMatch
<1>6. /\ \A n \in DOMAIN matches.paired : \E p \in found.paired : Pair(n) = SeenPair(p)
      /\ \A p \in found.paired : \E n \in DOMAIN matches.paired : Pair(n) = SeenPair(p)
  BY <1>2, <1>5, ListOfPairsWhole DEF Pair, SeenPair
<1> QED BY <1>2, <1>4, <1>6


\* The changes reported are the findings of the contract.
LEMMA FindingsReported ==
    ASSUME MInv, Comparing, Answering, Passed, diffStage = "done"
    PROVE  ToSet(changes) = Contract!Findings(before, after, found.paired)
<1> DEFINE Added(c) == \E a \in found.added :
                         c = Differ!Change("added", "", Visible(SpanAt(after, a)))
           Removed(c) == \E r \in found.removed :
                           c = Differ!Change("removed", "", Visible(SpanAt(before, r)))
           Changed(c) == \E p \in found.paired : \E field \in ChangedFields(SeenPair(p)) :
                           c = Differ!Change("changed", field, SeenPair(p).base)
<1>1. /\ PairsMatch(found, before, after) /\ Complete(found, before, after)
      /\ MatchesNamed(matches, before, after) /\ Reporting
      /\ relative = request.relative /\ absolute = request.absolute
      /\ Normalized(before) /\ Normalized(after)
  BY ComparedAll, ReportedFacts DEF Passed, MInv, Documents
<1>2. \A n \in DOMAIN matches.paired : Pair(n).base.key \in Key /\ Pair(n).base.occurrence \in Nat
  BY <1>1, MatchesTyped
<1>3. \A c : (\E span \in ToSet(matches.added) : c = Differ!Change("added", "", span)) <=> Added(c)
  <2>1. ToSet(matches.added) = {Visible(SpanAt(after, a)) : a \in found.added}
    BY ComparedAll
  <2> QED BY ONLY <2>1
<1>4. \A c : (\E span \in ToSet(matches.removed) : c = Differ!Change("removed", "", span))
               <=> Removed(c)
  <2>1. ToSet(matches.removed) = {Visible(SpanAt(before, r)) : r \in found.removed}
    BY ComparedAll
  <2> QED BY ONLY <2>1
<1>5. ASSUME NEW c
      PROVE  (\E m \in ChangedBefore(next) : c \in ToSet(Differ!PairChanges(Pair(m))))
               <=> Changed(c)
  <2>1. /\ \A n \in DOMAIN matches.paired : \E p \in found.paired : Pair(n) = SeenPair(p)
        /\ \A p \in found.paired : \E n \in DOMAIN matches.paired : Pair(n) = SeenPair(p)
    BY ComparedAll
  <2>2. \A n \in DOMAIN matches.paired :
          /\ ToSet(Differ!PairChanges(Pair(n)))
               = {Differ!Change("changed", field, Pair(n).base) : field \in ChangedFields(Pair(n))}
          /\ Differ!PairChanges(Pair(n)) = <<>> <=> ChangedFields(Pair(n)) = {}
    BY <1>2, PairChangesWhole
  <2>3. ASSUME NEW m \in ChangedBefore(next), c \in ToSet(Differ!PairChanges(Pair(m)))
        PROVE  Changed(c)
    <3>1. m \in DOMAIN matches.paired
      BY DEF ChangedBefore
    <3>2. PICK field \in ChangedFields(Pair(m)) : c = Differ!Change("changed", field, Pair(m).base)
      BY <2>2, <2>3, <3>1
    <3>3. PICK p \in found.paired : Pair(m) = SeenPair(p)
      BY <2>1, <3>1
    <3> QED BY <3>2, <3>3
  <2>4. ASSUME Changed(c)
        PROVE  \E m \in ChangedBefore(next) : c \in ToSet(Differ!PairChanges(Pair(m)))
    <3>1. PICK p \in found.paired : \E field \in ChangedFields(SeenPair(p)) :
            c = Differ!Change("changed", field, SeenPair(p).base)
      BY <2>4
    <3>2. PICK m \in DOMAIN matches.paired : Pair(m) = SeenPair(p)
      BY <2>1
    <3>3. c \in ToSet(Differ!PairChanges(Pair(m))) /\ Differ!PairChanges(Pair(m)) # <<>>
      BY <2>2, <3>1, <3>2
    <3>4. m \in ChangedBefore(next)
      BY <3>2, <3>3, ReportedFacts
    <3> QED BY <3>3, <3>4
  <2> QED BY <2>3, <2>4
<1>6. \A c : Reports(c, next) <=> Added(c) \/ Removed(c) \/ Changed(c)
  BY <1>3, <1>4, <1>5 DEF Reports
<1>7. /\ Contract!Removed(before, found.paired) = found.removed
      /\ Contract!Added(after, found.paired) = found.added
  BY <1>1, ContractTerms
     DEF Contract!Removed, Contract!Added, Complete, PairedBases, PairedCands
<1>8. ASSUME NEW c
      PROVE  c \in Contract!Findings(before, after, found.paired)
               <=> Added(c) \/ Removed(c) \/ Changed(c)
  <2>1. c \in {Contract!Change("added", "", Contract!Span(after, a)) :
                  a \in Contract!Added(after, found.paired)} <=> Added(c)
    BY <1>7, ContractTerms, ChangeAgrees
  <2>2. c \in {Contract!Change("removed", "", Contract!Span(before, r)) :
                  r \in Contract!Removed(before, found.paired)} <=> Removed(c)
    BY <1>7, ContractTerms, ChangeAgrees
  <2>3. \A p : /\ ChangedFields(SeenPair(p)) = Contract!Differences(before, after, p)
               /\ SeenPair(p).base = Visible(Contract!Span(before, p.base))
    BY <1>1, FieldsAgree, ContractTerms DEF SeenPair
  <2>4. c \in UNION {{Contract!Change("changed", field, Contract!Span(before, p.base)) :
                        field \in Contract!Differences(before, after, p)} : p \in found.paired}
          <=> Changed(c)
    <3>1. c \in UNION {{Contract!Change("changed", field, Contract!Span(before, p.base)) :
                          field \in Contract!Differences(before, after, p)} : p \in found.paired}
            <=> \E p \in found.paired : \E field \in Contract!Differences(before, after, p) :
                  c = Contract!Change("changed", field, Contract!Span(before, p.base))
      OBVIOUS
    <3> QED BY <2>3, <3>1, ChangeAgrees
  <2> QED BY <2>1, <2>2, <2>4 DEF Contract!Findings
<1>9. ASSUME NEW c, Added(c) \/ Removed(c) \/ Changed(c) PROVE c \in Record
  <2>1. \A span : span.key \in Key /\ span.occurrence \in Nat =>
          /\ Differ!Change("added", "", span) \in Record
          /\ Differ!Change("removed", "", span) \in Record
          /\ \A field \in Fields : Differ!Change("changed", field, span) \in Record
    BY DEF Differ!Change, Record, Kinds, Fields
  <2>2. CASE Added(c)
    <3>1. PICK a \in found.added : c = Differ!Change("added", "", Visible(SpanAt(after, a)))
      BY <2>2
    <3>2. Visible(SpanAt(after, a)) \in Seen(after)
      BY <1>1 DEF Seen, Complete
    <3> QED BY <1>1, <2>1, <3>1, <3>2, SeenFacts
  <2>3. CASE Removed(c)
    <3>1. PICK r \in found.removed : c = Differ!Change("removed", "", Visible(SpanAt(before, r)))
      BY <2>3
    <3>2. Visible(SpanAt(before, r)) \in Seen(before)
      BY <1>1 DEF Seen, Complete
    <3> QED BY <1>1, <2>1, <3>1, <3>2, SeenFacts
  <2>4. CASE Changed(c)
    <3>1. PICK p \in found.paired : \E field \in ChangedFields(SeenPair(p)) :
            c = Differ!Change("changed", field, SeenPair(p).base)
      BY <2>4
    <3>2. PICK field \in ChangedFields(SeenPair(p)) :
            c = Differ!Change("changed", field, SeenPair(p).base)
      BY <3>1
    <3>3. PICK m \in DOMAIN matches.paired : Pair(m) = SeenPair(p)
      BY ComparedAll
    <3>4. field \in Fields
      BY DEF ChangedFields, Fields
    <3> QED BY <1>2, <2>1, <3>2, <3>3, <3>4
  <2> QED BY <1>9, <2>2, <2>3, <2>4
<1>10. /\ ToSet(changes) \subseteq Record
       /\ \A c \in Record : c \in ToSet(changes) <=> Reports(c, next)
  <2>1. changes \in Seq(Record) /\ \A c \in Record : c \in ToSet(changes) <=> Reports(c, next)
    BY <1>1 DEF Reporting
  <2>2. \A s : s \in Seq(Record) => \A n \in DOMAIN s : s[n] \in Record
    OBVIOUS
  <2> QED BY <2>1, <2>2 DEF ToSet
<1> HIDE DEF Added, Removed, Changed
<1> QED BY <1>6, <1>8, <1>9, <1>10


\* The pairs that have changed are counted.
LEMMA PairsCounted ==
    ASSUME MInv, Comparing, Answering, Passed, diffStage = "done"
    PROVE  changedSpans = Cardinality({p \in found.paired :
                                         Contract!Differences(before, after, p) # {}})
<1> DEFINE differing == {p \in found.paired : Contract!Differences(before, after, p) # {}}
           named(p) == Name(SeenPair(p).base)
           names == ChangedNames(next)
           pairOf == [x \in names |-> CHOOSE p \in differing : named(p) = x]
<1>1. /\ PairsMatch(found, before, after) /\ Normalized(before)
      /\ MatchesNamed(matches, before, after)
      /\ relative = request.relative /\ absolute = request.absolute
      /\ IsFiniteSet(names) /\ changedSpans = Cardinality(names)
  BY ComparedAll, ReportedFacts DEF Passed, MInv, Documents, Reporting
<1>2. \A n \in DOMAIN matches.paired :
        Differ!PairChanges(Pair(n)) = <<>> <=> ChangedFields(Pair(n)) = {}
  BY <1>1, MatchesTyped, PairChangesWhole
<1>3. \A p : ChangedFields(SeenPair(p)) = Contract!Differences(before, after, p)
  BY <1>1, FieldsAgree
<1>4. /\ \A n \in DOMAIN matches.paired : \E p \in found.paired : Pair(n) = SeenPair(p)
      /\ \A p \in found.paired : \E n \in DOMAIN matches.paired : Pair(n) = SeenPair(p)
  BY ComparedAll
<1>5. ChangedBefore(next) = {m \in DOMAIN matches.paired : Differ!PairChanges(Pair(m)) # <<>>}
  BY ReportedFacts
<1>6. \A x : x \in names <=> \E p \in differing : x = named(p)
  <2> TAKE x
  <2>1. ASSUME x \in names PROVE \E p \in differing : x = named(p)
    <3>1. PICK m \in ChangedBefore(next) : x = Name(Pair(m).base)
      BY <2>1 DEF ChangedNames
    <3>2. m \in DOMAIN matches.paired /\ ChangedFields(Pair(m)) # {}
      BY <1>2, <1>5, <3>1
    <3>3. PICK p \in found.paired : Pair(m) = SeenPair(p)
      BY <1>4, <3>2
    <3>4. p \in differing /\ x = named(p)
      BY <1>3, <3>1, <3>2, <3>3
    <3> QED BY <3>4
  <2>2. ASSUME NEW p \in differing, x = named(p) PROVE x \in names
    <3>1. PICK m \in DOMAIN matches.paired : Pair(m) = SeenPair(p)
      BY <1>4
    <3>2. ChangedFields(Pair(m)) # {}
      BY <1>3, <3>1
    <3>3. m \in ChangedBefore(next)
      BY <1>2, <1>5, <3>1, <3>2
    <3> QED BY <2>2, <3>1, <3>3 DEF ChangedNames
  <2> QED BY <2>1, <2>2
<1>7. ASSUME NEW p \in differing, NEW q \in differing, named(p) = named(q) PROVE p = q
  <2>1. /\ p.base \in Positions(before) /\ q.base \in Positions(before)
        /\ p.cand = q.cand <=> p.base = q.base
        /\ p \in [base : Positions(before), cand : Positions(after)]
        /\ q \in [base : Positions(before), cand : Positions(after)]
    BY <1>1 DEF PairsMatch
  <2>2. Name(Visible(SpanAt(before, p.base))) = Name(Visible(SpanAt(before, q.base)))
    BY <1>7 DEF SeenPair
  <2>3. p.base = q.base
    BY <1>1, <2>1, <2>2, SeenFacts
  <2> QED BY <2>1, <2>3
<1> HIDE DEF differing, named, names
<1>8. \A x \in names : pairOf[x] \in differing /\ named(pairOf[x]) = x
  <2> TAKE x \in names
  <2>1. \E p \in differing : named(p) = x
    BY <1>6
  <2> QED BY <2>1
<1> HIDE DEF pairOf
<1>9. pairOf \in Bijection(names, differing)
  <2>1. pairOf \in [names -> differing]
    BY <1>8 DEF pairOf
  <2>2. \A x, y \in names : pairOf[x] = pairOf[y] => x = y
    BY <1>8
  <2>3. ASSUME NEW p \in differing PROVE \E x \in names : pairOf[x] = p
    <3>1. named(p) \in names
      BY <1>6
    <3>2. pairOf[named(p)] = p
      BY <1>7, <1>8, <3>1
    <3> QED BY <3>1, <3>2
  <2> QED BY <2>1, <2>2, <2>3 DEF Bijection, Injection, Surjection, IsInjective
<1>10. Cardinality(differing) = Cardinality(names)
  BY <1>1, <1>9, FS_Bijection DEF ExistsBijection
<1> QED BY <1>1, <1>10 DEF differing

\* What Compare of internal/diff returns is the report of the contract.
LEMMA AllReported ==
    ASSUME MInv, Comparing, Answering, Passed, diffStage = "done",
           NEW answer, answer.pairs = found.paired, answer.changes = changes,
           answer.changed = changedSpans
    PROVE  Contract!Reported(before, after, answer)
<1>1. {answer.changes[n] : n \in DOMAIN answer.changes}
        = Contract!Findings(before, after, answer.pairs)
  BY FindingsReported DEF ToSet
<1>2. ASSUME NEW m \in DOMAIN changes, NEW n \in DOMAIN changes, m < n
      PROVE  changes[m] # changes[n] /\ ~Contract!Less(changes[n], changes[m])
  <2>1. Once(changes)
    BY ReportedFacts DEF Reporting
  <2>2. changes \in Seq(Record)
    BY ReportedFacts DEF Reporting
  <2>3. m \in Nat /\ n \in Nat
    BY <2>2
  <2>4. m # n
    BY <1>2, <2>3
  <2>5. ~Differ!LessChange(changes[n], changes[m])
    BY <1>2 DEF Comparing
  <2> QED BY <2>1, <2>4, <2>5, LessAgrees DEF Once
<1>3. answer.changed = Contract!Cardinality({p \in answer.pairs :
                                              Contract!Differences(before, after, p) # {}})
  BY PairsCounted, ContractTerms
<1> QED BY <1>1, <1>2, <1>3 DEF Contract!Reported

-----------------------------------------------------------------------------
(* The contract: every step keeps it *)

\* Compare returns as the contract reports.
LEMMA Returned ==
    ASSUME MInv, Comparing, Answering, Passed, Return
    PROVE  Contract!Report
<1>1. /\ at = "compare traces" /\ diffStage = "done" /\ at' = "done"
      /\ request' = request /\ failure' = failure
      /\ found' = found /\ changes' = changes /\ changedSpans' = changedSpans
  BY DEF Return, pairVars, diffVars
<1>2. /\ before = Snapshot(request.baseline) /\ after = Snapshot(request.candidate)
      /\ relative = request.relative /\ absolute = request.absolute
  BY <1>1 DEF Passed, Matched
<1>3. Outcome = Contract!Pending
  BY <1>1, NothingSeen
<1>4. ASSUME NEW n \in DOMAIN Contract!Calls, Contract!Calls[n] \notin Contract!Matching
      PROVE  ~Contract!Reason(Contract!Calls[n])
  <2>1. n \in 1..9
    BY CallsInOrder
  <2>2. CASE n \in 1..8
    <3>1. 9 \in 1..9 /\ n \in 1..(9 - 1)
      BY ONLY <2>2
    <3>2. at = Contract!Calls[9]
      BY <1>1, CallsInOrder
    <3> QED BY <1>4, <3>1, <3>2, EarlierPassed
  <2>3. CASE n = 9
    <3>1. Invalid \notin {request.relative, request.absolute}
      BY <1>1, <1>2 DEF Passed
    <3> QED BY <2>3, <3>1, ReasonFacts, CallsInOrder
  <2> QED BY <2>1, <2>2, <2>3
<1>5. Outcome' = [kind |-> "compared", call |-> failure, pairs |-> found.paired,
                  changes |-> changes, changed |-> changedSpans]
  BY <1>1 DEF Outcome
<1>6. /\ Outcome'.kind = "compared" /\ Outcome'.pairs = found.paired
      /\ Outcome'.changes = changes /\ Outcome'.changed = changedSpans
  BY <1>5
<1>7. /\ Contract!OneToOne(before, after, Outcome'.pairs)
      /\ Contract!NothingReplaced(before, after, Outcome'.pairs)
  BY <1>1, <1>6, PairingOneToOne, PairingReplacesNothing
<1>8. Contract!Reported(before, after, Outcome')
  BY <1>1, <1>6, AllReported
<1> QED BY <1>1, <1>2, <1>3, <1>4, <1>6, <1>7, <1>8 DEF Contract!Report

\* Every other step is invisible to the caller.
LEMMA Unseen ==
    ASSUME MInv, Comparing, Passed, Passed',
           \/ Prepare \/ DescribeTraces \/ MatchTraces \/ TracesMatched
           \/ \E p \in rest : PairTraces(p)
           \/ MatchSpans \/ CollectSpans \/ SpansMatched \/ CompareMatches
    PROVE  UNCHANGED Contract!vars
<1>1. request' = request
  BY RequestKept DEF Next
<1>2. at \notin {"done", "failed"} /\ at' \notin {"done", "failed"}
  BY PrepareOrder DEF DescribeTraces, MatchTraces, TracesMatched, PairTraces, MatchSpans,
         CollectSpans, SpansMatched, CompareMatches
<1>3. Outcome = Contract!Pending
  BY <1>2, NothingSeen
<1>4. Outcome' = Contract!Pending
  BY <1>2 DEF Passed, Outcome, Contract!Pending
<1> QED BY <1>1, <1>3, <1>4 DEF Contract!vars

\* A step of Compare is a refusal or the report of the contract, or invisible.
LEMMA ContractStep ==
    ASSUME MInv, Comparing, Answering, Passed, Passed', [Next]_vars
    PROVE  [Contract!Next]_(Contract!vars)
<1>1. CASE CallFails \/ TracesAmbiguous \/ SpansAmbiguous \/ OptionsRejected
  BY <1>1, Refused DEF Contract!Next
<1>2. CASE Return
  BY <1>2, Returned DEF Contract!Next
<1>3. CASE UNCHANGED vars
  <2>1. /\ request' = request /\ at' = at /\ failure' = failure /\ found' = found
        /\ changes' = changes /\ changedSpans' = changedSpans
    BY <1>3 DEF vars, pairVars, diffVars
  <2> QED BY <2>1 DEF Contract!vars, Outcome
<1> QED BY <1>1, <1>2, <1>3, Unseen DEF Next

\* Compare answers as its contract promises, for all documents and options: it
\* refuses by the first call that has a reason, or reports exactly what differs
\* under a pairing of the spans that mistakes none for another.
THEOREM ComparisonImplemented == Spec => ImplementsComparison
<1>1. Init => Contract!Init
  BY DEF Init, Contract!Init, Outcome, Contract!Pending
<1>2. Init => Passed /\ Answering
  BY DEF Init, Passed, Matched, Answering
<1>3. MInv /\ Comparing /\ Passed /\ Answering /\ [Next]_vars => (Passed /\ Answering)'
  BY PassedStep, AnsweringStep
<1>4. MInv /\ Comparing /\ Passed /\ Answering /\ Passed' /\ [Next]_vars
        => [Contract!Next]_(Contract!vars)
  BY ContractStep
<1> QED BY <1>1, <1>2, <1>3, <1>4, ComparisonInvariance, PTL
        DEF Spec, Contract!Spec, ImplementsComparison
=============================================================================
