----------------------- MODULE TraceMatchMirror_proofs -----------------------
(***************************************************************************)
(* Proofs about TraceMatchMirror, for snapshots of any size: exchanging    *)
(* baseline and candidate mirrors the result of trace matching.            *)
(*                                                                         *)
(* The two comparisons are not followed step by step, since they may visit *)
(* the groups in different orders.  TraceMatch_proofs shows that a result  *)
(* is the only stable pairing of its two snapshots and that a refusal      *)
(* means there is none.  What is left is that the mirror image of a stable *)
(* pairing is a stable pairing of the exchanged snapshots.                 *)
(***************************************************************************)
EXTENDS TraceMatchMirror, TLAPS

ForwardProofs == INSTANCE TraceMatch_proofs WITH
    BaseTrace <- Trace1, CandTrace <- Trace2, baseline <- first, candidate <- second,
    todo <- todoF, left <- leftF, right <- rightF, paired <- pairedF,
    added <- addedF, removed <- removedF, status <- statusF

ReverseProofs == INSTANCE TraceMatch_proofs WITH
    BaseTrace <- Trace2, CandTrace <- Trace1, baseline <- second, candidate <- first,
    todo <- todoR, left <- leftR, right <- rightR, paired <- pairedR,
    added <- addedR, removed <- removedR, status <- statusR

-----------------------------------------------------------------------------
(* The two matchers are those of TraceMatch_proofs *)

\* Each instance has its own names of the standard operators on finite sets.
LEMMA SameCardinality ==
    \A S : /\ Forward!Cardinality(S) = Cardinality(S)
           /\ ForwardProofs!Cardinality(S) = Cardinality(S)
           /\ Reverse!Cardinality(S) = Cardinality(S)
           /\ ReverseProofs!Cardinality(S) = Cardinality(S)
<1> TAKE S
<1> QED BY DEF Cardinality, Forward!Cardinality, ForwardProofs!Cardinality,
           Reverse!Cardinality, ReverseProofs!Cardinality

\* Forward is the matcher that the proofs instantiated as ForwardProofs are about.
LEMMA SameForward ==
    /\ Forward!Init <=> ForwardProofs!Init
    /\ Forward!Next <=> ForwardProofs!Next
<1>1. Forward!Token = ForwardProofs!Token
  BY DEF Forward!Token, ForwardProofs!Token, Forward!TopToken, ForwardProofs!TopToken,
         Forward!ChildToken, ForwardProofs!ChildToken
<1>2. Forward!NoSpans = ForwardProofs!NoSpans
  BY <1>1 DEF Forward!NoSpans, ForwardProofs!NoSpans
<1>3. \A shape : Forward!GroupKey(shape) = ForwardProofs!GroupKey(shape)
  BY DEF Forward!GroupKey, ForwardProofs!GroupKey, Forward!HasRoot, ForwardProofs!HasRoot,
         Forward!TopKeys, ForwardProofs!TopKeys, Forward!TopToken, ForwardProofs!TopToken
<1>4. \A names, snapshot : Forward!Described(names, snapshot)
        = ForwardProofs!Described(names, snapshot)
  BY <1>2 DEF Forward!Described, ForwardProofs!Described
<1>5. \A key : /\ Forward!BaseGroup(key) = ForwardProofs!BaseGroup(key)
               /\ Forward!CandGroup(key) = ForwardProofs!CandGroup(key)
  BY <1>3, <1>4 DEF Forward!BaseGroup, ForwardProofs!BaseGroup, Forward!CandGroup,
         ForwardProofs!CandGroup,
         Forward!GroupOf, ForwardProofs!GroupOf
<1>6. \A s, t : Forward!Overlap(s, t) = ForwardProofs!Overlap(s, t)
  <2>1. \A s : Forward!Copies(s) = ForwardProofs!Copies(s)
    BY <1>1 DEF Forward!Copies, ForwardProofs!Copies
  <2> TAKE s, t
  <2>2. Forward!Copies(s) \cap Forward!Copies(t)
          = ForwardProofs!Copies(s) \cap ForwardProofs!Copies(t)
    BY <2>1
  <2> QED BY <2>2, SameCardinality DEF Forward!Overlap, ForwardProofs!Overlap
<1>7. \A b, c, how : Forward!Pair(b, c, how) = ForwardProofs!Pair(b, c, how)
  BY <1>6 DEF Forward!Pair, ForwardProofs!Pair
<1>8. \A key : Forward!ExactPairs(key) = ForwardProofs!ExactPairs(key)
  BY <1>5 DEF Forward!ExactPairs, ForwardProofs!ExactPairs, Forward!SameStructure,
         ForwardProofs!SameStructure
<1>9. Forward!MutualBest = ForwardProofs!MutualBest
  BY <1>6 DEF Forward!MutualBest, ForwardProofs!MutualBest, Forward!UniqueBest,
         ForwardProofs!UniqueBest
<1>10. Forward!Next <=> ForwardProofs!Next
  BY <1>5, <1>7, <1>8, <1>9 DEF Forward!Next, ForwardProofs!Next,
         Forward!OneSidedGroup, ForwardProofs!OneSidedGroup, Forward!ExactPass,
         ForwardProofs!ExactPass,
         Forward!OverlapRound, ForwardProofs!OverlapRound, Forward!Leftovers,
         ForwardProofs!Leftovers,
         Forward!Ambiguous, ForwardProofs!Ambiguous, Forward!Return, ForwardProofs!Return,
         Forward!inputs, ForwardProofs!inputs
<1>11. \A names, snapshot : Forward!GroupKeys(names, snapshot)
        = ForwardProofs!GroupKeys(names, snapshot)
  BY <1>3, <1>4 DEF Forward!GroupKeys, ForwardProofs!GroupKeys
<1>12. Forward!Init <=> ForwardProofs!Init
  BY <1>2, <1>11 DEF Forward!Init, ForwardProofs!Init
<1> QED BY <1>10, <1>12

\* Reverse is the matcher that the proofs instantiated as ReverseProofs are about.
LEMMA SameReverse ==
    /\ Reverse!Init <=> ReverseProofs!Init
    /\ Reverse!Next <=> ReverseProofs!Next
<1>1. Reverse!Token = ReverseProofs!Token
  BY DEF Reverse!Token, ReverseProofs!Token, Reverse!TopToken, ReverseProofs!TopToken,
         Reverse!ChildToken, ReverseProofs!ChildToken
<1>2. Reverse!NoSpans = ReverseProofs!NoSpans
  BY <1>1 DEF Reverse!NoSpans, ReverseProofs!NoSpans
<1>3. \A shape : Reverse!GroupKey(shape) = ReverseProofs!GroupKey(shape)
  BY DEF Reverse!GroupKey, ReverseProofs!GroupKey, Reverse!HasRoot, ReverseProofs!HasRoot,
         Reverse!TopKeys, ReverseProofs!TopKeys, Reverse!TopToken, ReverseProofs!TopToken
<1>4. \A names, snapshot : Reverse!Described(names, snapshot)
        = ReverseProofs!Described(names, snapshot)
  BY <1>2 DEF Reverse!Described, ReverseProofs!Described
<1>5. \A key : /\ Reverse!BaseGroup(key) = ReverseProofs!BaseGroup(key)
               /\ Reverse!CandGroup(key) = ReverseProofs!CandGroup(key)
  BY <1>3, <1>4 DEF Reverse!BaseGroup, ReverseProofs!BaseGroup, Reverse!CandGroup,
         ReverseProofs!CandGroup,
         Reverse!GroupOf, ReverseProofs!GroupOf
<1>6. \A s, t : Reverse!Overlap(s, t) = ReverseProofs!Overlap(s, t)
  <2>1. \A s : Reverse!Copies(s) = ReverseProofs!Copies(s)
    BY <1>1 DEF Reverse!Copies, ReverseProofs!Copies
  <2> TAKE s, t
  <2>2. Reverse!Copies(s) \cap Reverse!Copies(t)
          = ReverseProofs!Copies(s) \cap ReverseProofs!Copies(t)
    BY <2>1
  <2> QED BY <2>2, SameCardinality DEF Reverse!Overlap, ReverseProofs!Overlap
<1>7. \A b, c, how : Reverse!Pair(b, c, how) = ReverseProofs!Pair(b, c, how)
  BY <1>6 DEF Reverse!Pair, ReverseProofs!Pair
<1>8. \A key : Reverse!ExactPairs(key) = ReverseProofs!ExactPairs(key)
  BY <1>5 DEF Reverse!ExactPairs, ReverseProofs!ExactPairs, Reverse!SameStructure,
         ReverseProofs!SameStructure
<1>9. Reverse!MutualBest = ReverseProofs!MutualBest
  BY <1>6 DEF Reverse!MutualBest, ReverseProofs!MutualBest, Reverse!UniqueBest,
         ReverseProofs!UniqueBest
<1>10. Reverse!Next <=> ReverseProofs!Next
  BY <1>5, <1>7, <1>8, <1>9 DEF Reverse!Next, ReverseProofs!Next,
         Reverse!OneSidedGroup, ReverseProofs!OneSidedGroup, Reverse!ExactPass,
         ReverseProofs!ExactPass,
         Reverse!OverlapRound, ReverseProofs!OverlapRound, Reverse!Leftovers,
         ReverseProofs!Leftovers,
         Reverse!Ambiguous, ReverseProofs!Ambiguous, Reverse!Return, ReverseProofs!Return,
         Reverse!inputs, ReverseProofs!inputs
<1>11. \A names, snapshot : Reverse!GroupKeys(names, snapshot)
        = ReverseProofs!GroupKeys(names, snapshot)
  BY <1>3, <1>4 DEF Reverse!GroupKeys, ReverseProofs!GroupKeys
<1>12. Reverse!Init <=> ReverseProofs!Init
  BY <1>2, <1>11 DEF Reverse!Init, ReverseProofs!Init
<1> QED BY <1>10, <1>12

\* What both directions make of a shape is what SpanShape says.
LEMMA SameShapes ==
    /\ ForwardProofs!NoSpans = NoSpans /\ ReverseProofs!NoSpans = NoSpans
    /\ ForwardProofs!Shape = Shape /\ ReverseProofs!Shape = Shape
    /\ \A s : ForwardProofs!GroupKey(s) = GroupKey(s) /\ ReverseProofs!GroupKey(s) = GroupKey(s)
    /\ \A s, t : /\ ForwardProofs!Overlap(s, t) = Overlap(s, t)
                 /\ ReverseProofs!Overlap(s, t) = Overlap(s, t)
<1>1. ForwardProofs!Token = Token /\ ReverseProofs!Token = Token
  BY DEF Token, TopToken, ChildToken,
         ForwardProofs!Token, ForwardProofs!TopToken, ForwardProofs!ChildToken,
         ReverseProofs!Token, ReverseProofs!TopToken, ReverseProofs!ChildToken
<1>2. /\ ForwardProofs!NoSpans = NoSpans /\ ReverseProofs!NoSpans = NoSpans
      /\ ForwardProofs!Shape = Shape /\ ReverseProofs!Shape = Shape
  BY <1>1 DEF NoSpans, ForwardProofs!NoSpans, ReverseProofs!NoSpans,
              Shape, ForwardProofs!Shape, ReverseProofs!Shape
<1>3. \A s : ForwardProofs!GroupKey(s) = GroupKey(s) /\ ReverseProofs!GroupKey(s) = GroupKey(s)
  BY DEF GroupKey, HasRoot, TopKeys, TopToken,
         ForwardProofs!GroupKey, ForwardProofs!HasRoot, ForwardProofs!TopKeys,
         ForwardProofs!TopToken, ReverseProofs!GroupKey, ReverseProofs!HasRoot,
         ReverseProofs!TopKeys, ReverseProofs!TopToken
<1>4. \A s, t : /\ ForwardProofs!Overlap(s, t) = Overlap(s, t)
               /\ ReverseProofs!Overlap(s, t) = Overlap(s, t)
  <2>1. \A s : ForwardProofs!Copies(s) = Copies(s) /\ ReverseProofs!Copies(s) = Copies(s)
    BY <1>1 DEF Copies, ForwardProofs!Copies, ReverseProofs!Copies
  <2> TAKE s, t
  <2>2. /\ ForwardProofs!Copies(s) \cap ForwardProofs!Copies(t) = Copies(s) \cap Copies(t)
        /\ ReverseProofs!Copies(s) \cap ReverseProofs!Copies(t) = Copies(s) \cap Copies(t)
    BY <2>1
  <2> QED BY <2>2, SameCardinality DEF Overlap, ForwardProofs!Overlap, ReverseProofs!Overlap
<1> QED BY <1>2, <1>3, <1>4

\* The assumptions of the matcher hold in both directions.
LEMMA MatcherAssumptions ==
    /\ ForwardProofs!SpanShapeAssumption /\ ForwardProofs!TraceMatchAssumption
    /\ ReverseProofs!SpanShapeAssumption /\ ReverseProofs!TraceMatchAssumption
<1>1. \A S : IsFiniteSet(S) => ForwardProofs!IsFiniteSet(S) /\ ReverseProofs!IsFiniteSet(S)
  BY DEF IsFiniteSet, ForwardProofs!IsFiniteSet, ReverseProofs!IsFiniteSet
<1>2. ForwardProofs!SpanShapeAssumption /\ ReverseProofs!SpanShapeAssumption
  BY <1>1, SpanShapeAssumption
     DEF ForwardProofs!SpanShapeAssumption, ReverseProofs!SpanShapeAssumption
<1>3. ForwardProofs!TraceMatchAssumption /\ ReverseProofs!TraceMatchAssumption
  BY <1>1, SameShapes, TraceMatchMirrorAssumption
     DEF ForwardProofs!TraceMatchAssumption, ReverseProofs!TraceMatchAssumption
<1> QED BY <1>2, <1>3

-----------------------------------------------------------------------------
(* Both comparisons keep the invariant of the matcher *)

BothInv == ForwardProofs!IInv /\ ReverseProofs!IInv

\* A step of one comparison is a step of its matcher, and none of the other's.
LEMMA BothStep == ASSUME BothInv, [Next]_vars PROVE BothInv'
<1>1. [ForwardProofs!Next]_(ForwardProofs!vars) /\ [ReverseProofs!Next]_(ReverseProofs!vars)
  <2>1. CASE Forward!Next /\ UNCHANGED reverse
    <3>1. ForwardProofs!Next
      BY <2>1, SameForward
    <3>2. first' = first /\ second' = second
      BY <3>1 DEF ForwardProofs!Next, ForwardProofs!OneSidedGroup, ForwardProofs!ExactPass,
                  ForwardProofs!OverlapRound, ForwardProofs!Leftovers, ForwardProofs!Ambiguous,
                  ForwardProofs!Return, ForwardProofs!inputs
    <3>3. UNCHANGED ReverseProofs!vars
      BY <2>1, <3>2 DEF reverse, ReverseProofs!vars
    <3> QED BY <3>1, <3>3
  <2>2. CASE Reverse!Next /\ UNCHANGED forward
    <3>1. ReverseProofs!Next
      BY <2>2, SameReverse
    <3>2. first' = first /\ second' = second
      BY <3>1 DEF ReverseProofs!Next, ReverseProofs!OneSidedGroup, ReverseProofs!ExactPass,
                  ReverseProofs!OverlapRound, ReverseProofs!Leftovers, ReverseProofs!Ambiguous,
                  ReverseProofs!Return, ReverseProofs!inputs
    <3>3. UNCHANGED ForwardProofs!vars
      BY <2>2, <3>2 DEF forward, ForwardProofs!vars
    <3> QED BY <3>1, <3>3
  <2>3. CASE UNCHANGED vars
    BY <2>3 DEF vars, forward, reverse, ForwardProofs!vars, ReverseProofs!vars
  <2> QED BY <2>1, <2>2, <2>3 DEF Next
<1>2. ForwardProofs!IInv'
  BY <1>1, MatcherAssumptions, ForwardProofs!InvariantStep DEF BothInv
<1>3. ReverseProofs!IInv'
  BY <1>1, MatcherAssumptions, ReverseProofs!InvariantStep DEF BothInv
<1> QED BY <1>2, <1>3 DEF BothInv

\* Both matchers keep their invariant, one after the other.
THEOREM BothInvariant == Spec => []BothInv
<1>1. Init => BothInv
  <2>1. Init => ForwardProofs!Init /\ ReverseProofs!Init
    BY SameForward, SameReverse DEF Init
  <2>2. ForwardProofs!Init => ForwardProofs!IInv
    BY MatcherAssumptions, ForwardProofs!Starting
  <2>3. ReverseProofs!Init => ReverseProofs!IInv
    BY MatcherAssumptions, ReverseProofs!Starting
  <2> QED BY <2>1, <2>2, <2>3 DEF BothInv
<1>2. BothInv /\ [Next]_vars => BothInv'
  BY BothStep
<1> QED BY <1>1, <1>2, PTL DEF Spec

-----------------------------------------------------------------------------
(* Stable pairings, for either direction *)

Seen(names, shapes) == {t \in names : shapes[t] # NoSpans}

\* An evident pair of two comparable traces.
Fits(names1, shapes1, names2, shapes2, p) ==
    /\ p.base \in Seen(names1, shapes1) /\ p.cand \in Seen(names2, shapes2)
    /\ GroupKey(shapes1[p.base]) = GroupKey(shapes2[p.cand])
    /\ p = [base |-> p.base, cand |-> p.cand,
            overlap |-> Overlap(shapes1[p.base], shapes2[p.cand]),
            how |-> IF shapes1[p.base] = shapes2[p.cand] THEN "exact" ELSE "overlap"]

Content(p, score) == ~(score > p.overlap \/ (score = p.overlap /\ p.how = "overlap"))

\* The stable pairings of TraceVerdict, with the snapshots as parameters.
Good(names1, shapes1, names2, shapes2, pairs) ==
    /\ \A p \in pairs : Fits(names1, shapes1, names2, shapes2, p)
    /\ \A p, q \in pairs : p.base = q.base <=> p.cand = q.cand
    /\ \A p \in pairs :
         /\ \A b \in names1 \ {p.base} : shapes1[b] # shapes1[p.base]
         /\ \A c \in names2 \ {p.cand} : shapes2[c] # shapes2[p.cand]
    /\ \A b \in Seen(names1, shapes1), c \in Seen(names2, shapes2) :
         GroupKey(shapes1[b]) = GroupKey(shapes2[c]) =>
             \/ \E p \in pairs : p.base = b /\ p.cand = c
             \/ \E p \in pairs : p.base = b /\ Content(p, Overlap(shapes1[b], shapes2[c]))
             \/ \E p \in pairs : p.cand = c /\ Content(p, Overlap(shapes1[b], shapes2[c]))

Mirror(p) == [base |-> p.cand, cand |-> p.base, how |-> p.how, overlap |-> p.overlap]

MirrorOf(pairs) == {Mirror(p) : p \in pairs}

\* The overlap of two shapes has no direction.
LEMMA OverlapSymmetric == \A s, t : Overlap(s, t) = Overlap(t, s)
BY SameShapes, MatcherAssumptions, ForwardProofs!OverlapBounds

\* The mirror image of a stable pairing is stable when the snapshots change roles.
LEMMA MirrorGood ==
    ASSUME NEW names1, NEW shapes1, NEW names2, NEW shapes2, NEW pairs,
           Good(names1, shapes1, names2, shapes2, pairs)
    PROVE  Good(names2, shapes2, names1, shapes1, MirrorOf(pairs))
<1>1. \A p : /\ Mirror(p).base = p.cand /\ Mirror(p).cand = p.base
             /\ Mirror(p).how = p.how /\ Mirror(p).overlap = p.overlap
  BY DEF Mirror
<1>2. ASSUME NEW p \in pairs PROVE Fits(names2, shapes2, names1, shapes1, Mirror(p))
  <2>1. /\ p.base \in Seen(names1, shapes1) /\ p.cand \in Seen(names2, shapes2)
        /\ GroupKey(shapes1[p.base]) = GroupKey(shapes2[p.cand])
    BY DEF Good, Fits
  <2>2. /\ p.overlap = Overlap(shapes1[p.base], shapes2[p.cand])
        /\ p.how = IF shapes1[p.base] = shapes2[p.cand] THEN "exact" ELSE "overlap"
    <3>1. p = [base |-> p.base, cand |-> p.cand,
               overlap |-> Overlap(shapes1[p.base], shapes2[p.cand]),
               how |-> IF shapes1[p.base] = shapes2[p.cand] THEN "exact" ELSE "overlap"]
      BY DEF Good, Fits
    <3> QED BY <3>1
  <2>3. Mirror(p) =
          [base |-> p.cand, cand |-> p.base,
           overlap |-> Overlap(shapes2[p.cand], shapes1[p.base]),
           how |-> IF shapes2[p.cand] = shapes1[p.base] THEN "exact" ELSE "overlap"]
    BY <2>2, OverlapSymmetric DEF Mirror
  <2> QED BY <1>1, <2>1, <2>3 DEF Fits
<1>3. \A p, q \in MirrorOf(pairs) : p.base = q.base <=> p.cand = q.cand
  BY <1>1 DEF Good, MirrorOf
<1>4. \A p \in MirrorOf(pairs) :
        /\ \A b \in names2 \ {p.base} : shapes2[b] # shapes2[p.base]
        /\ \A c \in names1 \ {p.cand} : shapes1[c] # shapes1[p.cand]
  BY <1>1 DEF Good, MirrorOf
<1>5. ASSUME NEW b \in Seen(names2, shapes2), NEW c \in Seen(names1, shapes1),
             GroupKey(shapes2[b]) = GroupKey(shapes1[c])
      PROVE  \/ \E p \in MirrorOf(pairs) : p.base = b /\ p.cand = c
             \/ \E p \in MirrorOf(pairs) :
                  p.base = b /\ Content(p, Overlap(shapes2[b], shapes1[c]))
             \/ \E p \in MirrorOf(pairs) :
                  p.cand = c /\ Content(p, Overlap(shapes2[b], shapes1[c]))
  <2>1. \/ \E p \in pairs : p.base = c /\ p.cand = b
        \/ \E p \in pairs : p.base = c /\ Content(p, Overlap(shapes1[c], shapes2[b]))
        \/ \E p \in pairs : p.cand = b /\ Content(p, Overlap(shapes1[c], shapes2[b]))
    BY <1>5 DEF Good
  <2>2. Overlap(shapes1[c], shapes2[b]) = Overlap(shapes2[b], shapes1[c])
    BY OverlapSymmetric
  <2>3. \A p \in pairs : Mirror(p) \in MirrorOf(pairs)
    BY DEF MirrorOf
  <2>4. \A p, score : Content(Mirror(p), score) <=> Content(p, score)
    BY <1>1 DEF Content
  <2> QED BY <1>1, <2>1, <2>2, <2>3, <2>4
<1>6. \A p \in MirrorOf(pairs) : Fits(names2, shapes2, names1, shapes1, p)
  BY <1>2 DEF MirrorOf
<1> QED BY <1>3, <1>4, <1>5, <1>6 DEF Good

\* The stable pairings of the first comparison.
LEMMA ForwardStable ==
    \A pairs :
        pairs \in SUBSET ForwardProofs!Verdict!Matches /\ ForwardProofs!Verdict!StablePairing(pairs)
            <=> Good(Trace1, first, Trace2, second, pairs)
<1>1. /\ ForwardProofs!Verdict!Bases = Seen(Trace1, first) /\ ForwardProofs!Verdict!Cands
        = Seen(Trace2, second)
      /\ \A b, c : ForwardProofs!Verdict!Score(b, c) = Overlap(first[b], second[c])
      /\ \A b, c : ForwardProofs!Verdict!Comparable(b, c) <=> GroupKey(first[b])
              = GroupKey(second[c])
  BY SameShapes DEF ForwardProofs!Verdict!Bases, ForwardProofs!Verdict!Cands,
     ForwardProofs!Verdict!Score, ForwardProofs!Verdict!Comparable, Seen
<1>2. \A p : p \in ForwardProofs!Verdict!Matches <=> Fits(Trace1, first, Trace2, second, p)
  <2>1. ASSUME NEW p, p \in ForwardProofs!Verdict!Matches
        PROVE  Fits(Trace1, first, Trace2, second, p)
    <3>1. PICK e \in Seen(Trace1, first) \X Seen(Trace2, second) :
            /\ GroupKey(first[e[1]]) = GroupKey(second[e[2]])
            /\ p = ForwardProofs!Verdict!Match(e[1], e[2])
      BY <1>1, <2>1 DEF ForwardProofs!Verdict!Matches
    <3>2. p = [base |-> e[1], cand |-> e[2], overlap |-> Overlap(first[e[1]], second[e[2]]),
               how |-> IF first[e[1]] = second[e[2]] THEN "exact" ELSE "overlap"]
      BY <1>1, <3>1 DEF ForwardProofs!Verdict!Match
    <3> QED BY <3>1, <3>2 DEF Fits
  <2>2. ASSUME NEW p, Fits(Trace1, first, Trace2, second, p)
        PROVE  p \in ForwardProofs!Verdict!Matches
    <3> DEFINE e == <<p.base, p.cand>>
    <3>1. e \in Seen(Trace1, first) \X Seen(Trace2, second) /\ e[1] = p.base /\ e[2] = p.cand
      BY <2>2 DEF Fits
    <3>2. ForwardProofs!Verdict!Comparable(e[1], e[2])
      BY <1>1, <2>2, <3>1 DEF Fits
    <3>3. p = ForwardProofs!Verdict!Match(e[1], e[2])
      BY <1>1, <2>2, <3>1 DEF Fits, ForwardProofs!Verdict!Match
    <3> HIDE DEF e
    <3> QED BY <1>1, <3>1, <3>2, <3>3 DEF ForwardProofs!Verdict!Matches
  <2> QED BY <2>1, <2>2
<1>3. ASSUME NEW pairs
      PROVE  ForwardProofs!Verdict!NoBlockingPair(pairs) <=>
               \A b \in Seen(Trace1, first), c \in Seen(Trace2, second) :
                 GroupKey(first[b]) = GroupKey(second[c]) =>
                   \/ \E p \in pairs : p.base = b /\ p.cand = c
                   \/ \E p \in pairs : p.base = b /\ Content(p, Overlap(first[b], second[c]))
                   \/ \E p \in pairs : p.cand = c /\ Content(p, Overlap(first[b], second[c]))
  BY <1>1 DEF ForwardProofs!Verdict!NoBlockingPair, ForwardProofs!Verdict!BaseTempted,
     ForwardProofs!Verdict!CandTempted, ForwardProofs!Verdict!Tempted, Content
<1>4. ASSUME NEW pairs
      PROVE  pairs \in SUBSET ForwardProofs!Verdict!Matches
               <=> \A p \in pairs : Fits(Trace1, first, Trace2, second, p)
  BY <1>2
<1> TAKE pairs
<1> QED BY <1>3, <1>4 DEF Good, ForwardProofs!Verdict!StablePairing,
       ForwardProofs!Verdict!OneToOne, ForwardProofs!Verdict!RepeatsUnpaired

\* The stable pairings of the second comparison.
LEMMA ReverseStable ==
    \A pairs :
        pairs \in SUBSET ReverseProofs!Verdict!Matches /\ ReverseProofs!Verdict!StablePairing(pairs)
            <=> Good(Trace2, second, Trace1, first, pairs)
<1>1. /\ ReverseProofs!Verdict!Bases = Seen(Trace2, second) /\ ReverseProofs!Verdict!Cands
        = Seen(Trace1, first)
      /\ \A b, c : ReverseProofs!Verdict!Score(b, c) = Overlap(second[b], first[c])
      /\ \A b, c : ReverseProofs!Verdict!Comparable(b, c) <=> GroupKey(second[b])
              = GroupKey(first[c])
  BY SameShapes DEF ReverseProofs!Verdict!Bases, ReverseProofs!Verdict!Cands,
     ReverseProofs!Verdict!Score, ReverseProofs!Verdict!Comparable, Seen
<1>2. \A p : p \in ReverseProofs!Verdict!Matches <=> Fits(Trace2, second, Trace1, first, p)
  <2>1. ASSUME NEW p, p \in ReverseProofs!Verdict!Matches
        PROVE  Fits(Trace2, second, Trace1, first, p)
    <3>1. PICK e \in Seen(Trace2, second) \X Seen(Trace1, first) :
            /\ GroupKey(second[e[1]]) = GroupKey(first[e[2]])
            /\ p = ReverseProofs!Verdict!Match(e[1], e[2])
      BY <1>1, <2>1 DEF ReverseProofs!Verdict!Matches
    <3>2. p = [base |-> e[1], cand |-> e[2], overlap |-> Overlap(second[e[1]], first[e[2]]),
               how |-> IF second[e[1]] = first[e[2]] THEN "exact" ELSE "overlap"]
      BY <1>1, <3>1 DEF ReverseProofs!Verdict!Match
    <3> QED BY <3>1, <3>2 DEF Fits
  <2>2. ASSUME NEW p, Fits(Trace2, second, Trace1, first, p)
        PROVE  p \in ReverseProofs!Verdict!Matches
    <3> DEFINE e == <<p.base, p.cand>>
    <3>1. e \in Seen(Trace2, second) \X Seen(Trace1, first) /\ e[1] = p.base /\ e[2] = p.cand
      BY <2>2 DEF Fits
    <3>2. ReverseProofs!Verdict!Comparable(e[1], e[2])
      BY <1>1, <2>2, <3>1 DEF Fits
    <3>3. p = ReverseProofs!Verdict!Match(e[1], e[2])
      BY <1>1, <2>2, <3>1 DEF Fits, ReverseProofs!Verdict!Match
    <3> HIDE DEF e
    <3> QED BY <1>1, <3>1, <3>2, <3>3 DEF ReverseProofs!Verdict!Matches
  <2> QED BY <2>1, <2>2
<1>3. ASSUME NEW pairs
      PROVE  ReverseProofs!Verdict!NoBlockingPair(pairs) <=>
               \A b \in Seen(Trace2, second), c \in Seen(Trace1, first) :
                 GroupKey(second[b]) = GroupKey(first[c]) =>
                   \/ \E p \in pairs : p.base = b /\ p.cand = c
                   \/ \E p \in pairs : p.base = b /\ Content(p, Overlap(second[b], first[c]))
                   \/ \E p \in pairs : p.cand = c /\ Content(p, Overlap(second[b], first[c]))
  BY <1>1 DEF ReverseProofs!Verdict!NoBlockingPair, ReverseProofs!Verdict!BaseTempted,
     ReverseProofs!Verdict!CandTempted, ReverseProofs!Verdict!Tempted, Content
<1>4. ASSUME NEW pairs
      PROVE  pairs \in SUBSET ReverseProofs!Verdict!Matches
               <=> \A p \in pairs : Fits(Trace2, second, Trace1, first, p)
  BY <1>2
<1> TAKE pairs
<1> QED BY <1>3, <1>4 DEF Good, ReverseProofs!Verdict!StablePairing,
       ReverseProofs!Verdict!OneToOne, ReverseProofs!Verdict!RepeatsUnpaired

-----------------------------------------------------------------------------
(* The results mirror each other *)

\* What a comparison returns is its only stable pairing, or there is none.
LEMMA ForwardReturns ==
    ASSUME BothInv
    PROVE  /\ statusF = "done" =>
                /\ Good(Trace1, first, Trace2, second, pairedF)
                /\ \A pairs : Good(Trace1, first, Trace2, second, pairs) => pairs = pairedF
                /\ removedF = Seen(Trace1, first) \ {p.base : p \in pairedF}
                /\ addedF = Seen(Trace2, second) \ {p.cand : p \in pairedF}
           /\ statusF = "ambiguous" =>
                /\ pairedF = {} /\ removedF = {} /\ addedF = {}
                /\ \A pairs : ~Good(Trace1, first, Trace2, second, pairs)
<1>1. ForwardProofs!IInv
  BY DEF BothInv
<1>2. ASSUME statusF = "done"
      PROVE  /\ Good(Trace1, first, Trace2, second, pairedF)
             /\ \A pairs : Good(Trace1, first, Trace2, second, pairs) => pairs = pairedF
  BY <1>1, <1>2, MatcherAssumptions, ForwardProofs!ReturnsStable, ForwardStable
<1>3. ASSUME statusF = "done"
      PROVE  /\ removedF = Seen(Trace1, first) \ {p.base : p \in pairedF}
             /\ addedF = Seen(Trace2, second) \ {p.cand : p \in pairedF}
  <2>1. ForwardProofs!Verdict!Pairing
    BY <1>1, MatcherAssumptions, ForwardProofs!ReturnsPairing
  <2>2. /\ ForwardProofs!Outcome.kind = "done" /\ ForwardProofs!Outcome.paired = pairedF
        /\ ForwardProofs!Outcome.removed = removedF /\ ForwardProofs!Outcome.added = addedF
    BY <1>3 DEF ForwardProofs!Outcome
  <2>3. ForwardProofs!Verdict!Bases = Seen(Trace1, first) /\ ForwardProofs!Verdict!Cands
          = Seen(Trace2, second)
    BY SameShapes DEF ForwardProofs!Verdict!Bases, ForwardProofs!Verdict!Cands, Seen
  <2> QED BY <2>1, <2>2, <2>3 DEF ForwardProofs!Verdict!Pairing, ForwardProofs!Verdict!Accounted
<1>4. ASSUME statusF = "ambiguous"
      PROVE  /\ pairedF = {} /\ removedF = {} /\ addedF = {}
             /\ \A pairs : ~Good(Trace1, first, Trace2, second, pairs)
  BY <1>1, <1>4, ForwardStable DEF ForwardProofs!IInv, ForwardProofs!Refused, ForwardProofs!Forced
<1> QED BY <1>2, <1>3, <1>4

\* What a comparison returns is its only stable pairing, or there is none.
LEMMA ReverseReturns ==
    ASSUME BothInv
    PROVE  /\ statusR = "done" =>
                /\ Good(Trace2, second, Trace1, first, pairedR)
                /\ \A pairs : Good(Trace2, second, Trace1, first, pairs) => pairs = pairedR
                /\ removedR = Seen(Trace2, second) \ {p.base : p \in pairedR}
                /\ addedR = Seen(Trace1, first) \ {p.cand : p \in pairedR}
           /\ statusR = "ambiguous" =>
                /\ pairedR = {} /\ removedR = {} /\ addedR = {}
                /\ \A pairs : ~Good(Trace2, second, Trace1, first, pairs)
<1>1. ReverseProofs!IInv
  BY DEF BothInv
<1>2. ASSUME statusR = "done"
      PROVE  /\ Good(Trace2, second, Trace1, first, pairedR)
             /\ \A pairs : Good(Trace2, second, Trace1, first, pairs) => pairs = pairedR
  BY <1>1, <1>2, MatcherAssumptions, ReverseProofs!ReturnsStable, ReverseStable
<1>3. ASSUME statusR = "done"
      PROVE  /\ removedR = Seen(Trace2, second) \ {p.base : p \in pairedR}
             /\ addedR = Seen(Trace1, first) \ {p.cand : p \in pairedR}
  <2>1. ReverseProofs!Verdict!Pairing
    BY <1>1, MatcherAssumptions, ReverseProofs!ReturnsPairing
  <2>2. /\ ReverseProofs!Outcome.kind = "done" /\ ReverseProofs!Outcome.paired = pairedR
        /\ ReverseProofs!Outcome.removed = removedR /\ ReverseProofs!Outcome.added = addedR
    BY <1>3 DEF ReverseProofs!Outcome
  <2>3. ReverseProofs!Verdict!Bases = Seen(Trace2, second) /\ ReverseProofs!Verdict!Cands
          = Seen(Trace1, first)
    BY SameShapes DEF ReverseProofs!Verdict!Bases, ReverseProofs!Verdict!Cands, Seen
  <2> QED BY <2>1, <2>2, <2>3 DEF ReverseProofs!Verdict!Pairing, ReverseProofs!Verdict!Accounted
<1>4. ASSUME statusR = "ambiguous"
      PROVE  /\ pairedR = {} /\ removedR = {} /\ addedR = {}
             /\ \A pairs : ~Good(Trace2, second, Trace1, first, pairs)
  BY <1>1, <1>4, ReverseStable DEF ReverseProofs!IInv, ReverseProofs!Refused, ReverseProofs!Forced
<1> QED BY <1>2, <1>3, <1>4

\* Exchanging baseline and candidate gives the mirrored result, or the same
\* refusal (match.go, Traces).
THEOREM DirectionIrrelevant == Spec => []Mirrored
<1>1. ASSUME BothInv, statusF \in {"done", "ambiguous"}, statusR \in {"done", "ambiguous"}
      PROVE  /\ statusF = statusR
             /\ pairedR = MirrorOf(pairedF) /\ addedR = removedF /\ removedR = addedF
  <2>1. statusF = "done" => Good(Trace2, second, Trace1, first, MirrorOf(pairedF))
    BY <1>1, ForwardReturns, MirrorGood
  <2>2. statusR = "done" => Good(Trace1, first, Trace2, second, MirrorOf(pairedR))
    BY <1>1, ReverseReturns, MirrorGood
  <2>3. statusF = statusR
    BY <1>1, <2>1, <2>2, ForwardReturns, ReverseReturns
  <2>4. CASE statusF = "done"
    <3>1. pairedR = MirrorOf(pairedF)
      BY <1>1, <2>1, <2>3, <2>4, ReverseReturns
    <3>2. /\ {p.base : p \in pairedR} = {p.cand : p \in pairedF}
          /\ {p.cand : p \in pairedR} = {p.base : p \in pairedF}
      <4>1. \A p : Mirror(p).base = p.cand /\ Mirror(p).cand = p.base
        BY DEF Mirror
      <4> QED BY <3>1, <4>1 DEF MirrorOf
    <3> QED BY <1>1, <2>3, <2>4, <3>1, <3>2, ForwardReturns, ReverseReturns
  <2>5. CASE statusF = "ambiguous"
    <3>1. pairedF = {} /\ removedF = {} /\ addedF = {}
      BY <1>1, <2>5, ForwardReturns
    <3>2. pairedR = {} /\ removedR = {} /\ addedR = {}
      BY <1>1, <2>3, <2>5, ReverseReturns
    <3> QED BY <2>3, <3>1, <3>2 DEF MirrorOf
  <2> QED BY <1>1, <2>4, <2>5
<1>2. BothInv => Mirrored
  BY <1>1 DEF Mirrored, MirrorOf, Mirror
<1> QED BY <1>2, BothInvariant, PTL
=============================================================================
