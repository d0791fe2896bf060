-------------------------- MODULE TraceMatch_proofs --------------------------
(***************************************************************************)
(* Proofs about TraceMatch for every set of traces, every catalog of       *)
(* shapes and every bound on the copies of a token: type correctness, the  *)
(* partition of the traces, stability, the fate of repeated structures,    *)
(* the reason for a refusal, and that TraceMatch implements TraceVerdict.  *)
(***************************************************************************)
EXTENDS TraceMatch, FiniteSetTheorems, WellFoundedInduction, TLAPS

-----------------------------------------------------------------------------
(* Facts about shapes and their overlap *)

\* There are finitely many tokens over a finite set of semantic keys.
LEMMA TokenFinite == IsFiniteSet(Token)
<1> DEFINE top == {TopToken(p[1], p[2]) : p \in Key \X {"root", "external"}}
           child == {ChildToken(p[1], p[2]) : p \in Key \X Key}
<1>1. IsFiniteSet({"root", "external"})
  <2>1. IsFiniteSet({"root"}) BY FS_Singleton
  <2>2. IsFiniteSet({"root"} \cup {"external"}) BY <2>1, FS_AddElement
  <2>3. {"root"} \cup {"external"} = {"root", "external"} OBVIOUS
  <2> QED BY <2>2, <2>3
<1>2. IsFiniteSet(Key \X {"root", "external"}) /\ IsFiniteSet(Key \X Key)
  BY <1>1, FS_Product, SpanShapeAssumption
<1>3. IsFiniteSet(top)
  <2> DEFINE f == [p \in Key \X {"root", "external"} |-> TopToken(p[1], p[2])]
  <2>1. f \in Surjection(Key \X {"root", "external"}, top)
    BY DEF Surjection
  <2> QED BY <1>2, <2>1, FS_Surjection
<1>4. IsFiniteSet(child)
  <2> DEFINE f == [p \in Key \X Key |-> ChildToken(p[1], p[2])]
  <2>1. f \in Surjection(Key \X Key, child)
    BY DEF Surjection
  <2> QED BY <1>2, <2>1, FS_Surjection
<1> QED BY <1>3, <1>4, FS_Union DEF Token

\* There are finitely many copies, and so each shape has finitely many.
LEMMA AllCopiesFinite == IsFiniteSet(Token \X (1..MaxCount))
<1>1. MaxCount \in Int
  BY SpanShapeAssumption
<1>2. IsFiniteSet(1..MaxCount)
  BY <1>1, FS_Interval
<1> QED BY <1>2, TokenFinite, FS_Product

LEMMA CopiesFinite == ASSUME NEW s PROVE IsFiniteSet(Copies(s))
<1>1. Copies(s) \subseteq Token \X (1..MaxCount)
  BY DEF Copies
<1> QED BY <1>1, AllCopiesFinite, FS_Subset

\* An overlap is a natural number, the same in both directions, and at most
\* the overlap of either shape with itself.
LEMMA OverlapBounds ==
    ASSUME NEW s, NEW t
    PROVE  /\ Overlap(s, t) \in Nat
           /\ Overlap(s, t) = Overlap(t, s)
           /\ Overlap(s, t) <= Overlap(s, s)
<1>1. IsFiniteSet(Copies(s))
  BY CopiesFinite
<1>2. Copies(s) \cap Copies(t) \subseteq Copies(s)
  OBVIOUS
<1>3. IsFiniteSet(Copies(s) \cap Copies(t))
      /\ Cardinality(Copies(s) \cap Copies(t)) <= Cardinality(Copies(s))
  BY <1>1, <1>2, FS_Subset
<1>4. Copies(s) \cap Copies(s) = Copies(s) /\ Copies(s) \cap Copies(t) = Copies(t) \cap Copies(s)
  OBVIOUS
<1>5. Cardinality(Copies(s) \cap Copies(t)) \in Nat
  BY <1>3, FS_CardinalityType
<1> QED BY <1>3, <1>4, <1>5 DEF Overlap

\* No overlap exceeds the number of copies there are.
LEMMA OverlapBounded ==
    \E m \in Nat : \A s, t : Overlap(s, t) <= m
<1> DEFINE all == Token \X (1..MaxCount)
<1>1. IsFiniteSet(all)
  BY AllCopiesFinite
<1>2. Cardinality(all) \in Nat
  BY <1>1, FS_CardinalityType
<1>3. ASSUME NEW s, NEW t PROVE Overlap(s, t) <= Cardinality(all)
  <2>1. Copies(s) \cap Copies(t) \subseteq all
    BY DEF Copies
  <2> QED BY <1>1, <2>1, FS_Subset DEF Overlap
<1> QED BY <1>2, <1>3

\* A non-empty bounded set of natural numbers has a largest element.
LEMMA LargestNat ==
    ASSUME NEW S \in SUBSET Nat, S # {}, NEW m \in Nat, \A x \in S : x <= m
    PROVE  \E x \in S : \A y \in S : y <= x
<1> DEFINE gaps == {g \in Nat : m - g \in S}
<1>1. gaps \subseteq Nat /\ gaps # {}
  <2>1. PICK x \in S : x \in Nat /\ x <= m
    OBVIOUS
  <2>2. m - x \in Nat /\ m - (m - x) = x
    BY <2>1
  <2>3. m - x \in gaps
    BY <2>1, <2>2
  <2> QED BY <2>3
<1>2. PICK g \in gaps : \A h \in gaps : ~(<<h, g>> \in OpToRel(<, Nat))
  BY <1>1, WFMin, NatLessThanWellFounded
<1>3. ASSUME NEW y \in S PROVE y <= m - g
  <2>1. y \in Nat /\ y <= m /\ g \in Nat
    BY <1>2
  <2>2. m - y \in Nat /\ m - (m - y) = y
    BY <2>1
  <2>3. m - y \in gaps
    BY <2>2
  <2>4. ~(m - y < g)
    <3>1. ~(<<m - y, g>> \in OpToRel(<, Nat))
      BY <1>2, <2>3
    <3> QED BY <2>1, <2>2, <3>1 DEF OpToRel
  <2> QED BY <2>1, <2>4
<1>4. m - g \in S
  BY <1>2
<1> QED BY <1>3, <1>4

-----------------------------------------------------------------------------
(* Facts about the two ways a pair is found *)

\* A trace of a group is a described trace whose root operations are the key.
LEMMA GroupMember ==
    \A names, snapshot, key, t :
        t \in GroupOf(names, snapshot, key) <=>
            t \in names /\ snapshot[t] # NoSpans /\ GroupKey(snapshot[t]) = key
BY DEF GroupOf, Described

\* The shape of an exact pair occurs once on each side, not only in its group.
LEMMA ExactPairFacts ==
    ASSUME NEW key, NEW p \in ExactPairs(key)
    PROVE  /\ p[1] \in BaseGroup(key) /\ p[2] \in CandGroup(key)
           /\ p = <<p[1], p[2]>>
           /\ candidate[p[2]] = baseline[p[1]]
           /\ \A b \in BaseTrace : baseline[b] = baseline[p[1]] => b = p[1]
           /\ \A c \in CandTrace : candidate[c] = candidate[p[2]] => c = p[2]
<1>1. /\ p[1] \in BaseGroup(key) /\ p[2] \in CandGroup(key)
      /\ p = <<p[1], p[2]>>
      /\ SameStructure(BaseGroup(key), baseline, baseline[p[1]]) = {p[1]}
      /\ SameStructure(CandGroup(key), candidate, baseline[p[1]]) = {p[2]}
  BY DEF ExactPairs
<1>2. candidate[p[2]] = baseline[p[1]]
  BY <1>1 DEF SameStructure
<1>3. ASSUME NEW b \in BaseTrace, baseline[b] = baseline[p[1]] PROVE b = p[1]
  <2>1. b \in BaseGroup(key)
    BY <1>1, <1>3, GroupMember DEF BaseGroup
  <2> QED BY <1>1, <1>3, <2>1 DEF SameStructure
<1>4. ASSUME NEW c \in CandTrace, candidate[c] = candidate[p[2]] PROVE c = p[2]
  <2>1. c \in CandGroup(key)
    BY <1>1, <1>4, GroupMember DEF CandGroup
  <2> QED BY <1>1, <1>2, <1>4, <2>1 DEF SameStructure
<1> QED BY <1>1, <1>2, <1>3, <1>4

\* Two exact pairs share both traces or neither.
LEMMA ExactPairsOneToOne ==
    ASSUME NEW key, NEW p \in ExactPairs(key), NEW q \in ExactPairs(key)
    PROVE  p[1] = q[1] <=> p[2] = q[2]
<1>1. p[1] \in BaseTrace /\ q[1] \in BaseTrace /\ p[2] \in CandTrace /\ q[2] \in CandTrace
  BY ExactPairFacts, GroupMember DEF BaseGroup, CandGroup
<1>2. ASSUME p[1] = q[1] PROVE p[2] = q[2]
  BY <1>1, <1>2, ExactPairFacts
<1>3. ASSUME p[2] = q[2] PROVE p[1] = q[1]
  BY <1>1, <1>3, ExactPairFacts
<1> QED BY <1>2, <1>3

\* The partners of a mutual best pair each score lower against any other trace.
LEMMA MutualBestFacts ==
    ASSUME NEW p \in MutualBest
    PROVE  /\ p[1] \in left /\ p[2] \in right
           /\ p = <<p[1], p[2]>>
           /\ \A c \in right \ {p[2]} :
                Overlap(baseline[p[1]], candidate[c]) < Overlap(baseline[p[1]], candidate[p[2]])
           /\ \A b \in left \ {p[1]} :
                Overlap(baseline[b], candidate[p[2]]) < Overlap(baseline[p[1]], candidate[p[2]])
<1>1. \A b : Overlap(candidate[p[2]], baseline[b]) = Overlap(baseline[b], candidate[p[2]])
  BY OverlapBounds
<1> QED BY <1>1 DEF MutualBest, UniqueBest

\* Two mutual best pairs share both traces or neither.
LEMMA MutualBestOneToOne ==
    ASSUME NEW p \in MutualBest, NEW q \in MutualBest
    PROVE  p[1] = q[1] <=> p[2] = q[2]
<1>1. /\ Overlap(baseline[p[1]], candidate[p[2]]) \in Nat
      /\ Overlap(baseline[q[1]], candidate[q[2]]) \in Nat
  BY OverlapBounds
<1>2. ASSUME p[1] = q[1], p[2] # q[2] PROVE FALSE
  BY <1>1, <1>2, MutualBestFacts
<1>3. ASSUME p[2] = q[2], p[1] # q[1] PROVE FALSE
  BY <1>1, <1>3, MutualBestFacts
<1> QED BY <1>2, <1>3

-----------------------------------------------------------------------------
(***************************************************************************)
(* The inductive invariant.  Each part is inductive once the parts before  *)
(* it are assumed.                                                         *)
(***************************************************************************)

\* The current group: nothing is unused outside the rounds, and what is unused
\* inside them belongs to one group.
CurrentGroup ==
    /\ status \in {"groups", "done"} => left = {} /\ right = {}
    /\ status \in {"rounds", "ambiguous"} =>
         \E key : left \subseteq BaseGroup(key) /\ right \subseteq CandGroup(key)
    /\ status = "done" => todo = {}

\* Traces with the same shape are used together or not at all, so never paired.
TwinsTogether ==
    status # "ambiguous" =>
        /\ \A p \in paired :
             /\ \A b \in BaseTrace \ {p.base} : baseline[b] # baseline[p.base]
             /\ \A c \in CandTrace \ {p.cand} : candidate[c] # candidate[p.cand]
        /\ \A b \in left : \A d \in BaseTrace : baseline[d] = baseline[b] => d \in left
        /\ \A c \in right : \A d \in CandTrace : candidate[d] = candidate[c] => d \in right

\* A pair that a rival with this score does not tempt away.
Content(p, score) == score < p.overlap \/ (score = p.overlap /\ p.how = "exact")

\* Two traces of a group already reached are both unused, or paired with each
\* other, or one of them has a pair it would not give up for the other.
Stable ==
    status # "ambiguous" =>
        \A b \in Described(BaseTrace, baseline), c \in Described(CandTrace, candidate) :
            GroupKey(baseline[b]) = GroupKey(candidate[c]) /\ GroupKey(baseline[b]) \notin todo =>
                \/ b \in left /\ c \in right
                \/ \E p \in paired : p.base = b /\ p.cand = c
                \/ \E p \in paired : p.base = b /\ Content(p, Overlap(baseline[b], candidate[c]))
                \/ \E p \in paired : p.cand = c /\ Content(p, Overlap(baseline[b], candidate[c]))

\* A refusal is empty and has a tie behind it.
Refused ==
    status = "ambiguous" =>
        paired = {} /\ added = {} /\ removed = {} /\ ~Verdict!TieFree

\* Two traces are not paired twice, on different evidence.
OneEvidence == \A p, q \in paired : p.base = q.base => p = q

\* Pairs are of comparable traces, and the evidence is what the traces show.
Evident == paired \subseteq Verdict!Matches

\* After the exact pass, a structure unused on both sides repeats on one of them.
TwinsLeft ==
    status = "rounds" =>
        \A b \in left, c \in right : baseline[b] = candidate[c] =>
            \/ \E d \in BaseTrace \ {b} : baseline[d] = baseline[b]
            \/ \E d \in CandTrace \ {c} : candidate[d] = candidate[c]

\* No pair is a choice: whatever pairing is stable has it, and after a refusal
\* there is none.
Forced ==
    \A pairs \in SUBSET Verdict!Matches :
        Verdict!StablePairing(pairs) => status # "ambiguous" /\ paired \subseteq pairs

IInv ==
    /\ TypeOK /\ EachTraceOnce /\ CurrentGroup /\ TwinsTogether /\ Stable /\ Refused
    /\ OneEvidence /\ Evident /\ TwinsLeft /\ Forced

-----------------------------------------------------------------------------
(* Type correctness *)

\* The fields of a pair.
LEMMA PairFields ==
    \A b, c, how :
        /\ Pair(b, c, how).base = b /\ Pair(b, c, how).cand = c /\ Pair(b, c, how).how = how
        /\ Pair(b, c, how).overlap = Overlap(baseline[b], candidate[c])
BY DEF Pair

\* Each step of Traces and matchTraceGroup keeps the types of the variables.
LEMMA TypeStep == ASSUME TypeOK, [Next]_vars PROVE TypeOK'
<1> USE DEF TypeOK
<1>1. ASSUME NEW key \in todo, OneSidedGroup(key) PROVE TypeOK'
  <2>1. BaseGroup(key) \subseteq BaseTrace /\ CandGroup(key) \subseteq CandTrace
    BY GroupMember DEF BaseGroup, CandGroup
  <2> QED BY <1>1, <2>1 DEF OneSidedGroup, inputs, Pair
<1>2. ASSUME NEW key \in todo, ExactPass(key) PROVE TypeOK'
  <2>1. BaseGroup(key) \subseteq BaseTrace /\ CandGroup(key) \subseteq CandTrace
    BY GroupMember DEF BaseGroup, CandGroup
  <2>2. \A p \in ExactPairs(key) : p[1] \in BaseTrace /\ p[2] \in CandTrace
    BY <2>1, ExactPairFacts
  <2>3. (\A p \in paired :
          \E b \in BaseTrace, c \in CandTrace, how \in {"exact", "overlap"} : p = Pair(b, c, how))'
    BY <1>2, <2>2 DEF ExactPass, inputs, Pair
  <2> QED BY <1>2, <2>1, <2>3 DEF ExactPass, inputs
<1>3. ASSUME OverlapRound PROVE TypeOK'
  <2>1. \A p \in MutualBest : p[1] \in BaseTrace /\ p[2] \in CandTrace
    BY MutualBestFacts
  <2>2. (\A p \in paired :
          \E b \in BaseTrace, c \in CandTrace, how \in {"exact", "overlap"} : p = Pair(b, c, how))'
    BY <1>3, <2>1 DEF OverlapRound, inputs, Pair
  <2> QED BY <1>3, <2>2 DEF OverlapRound, inputs
<1>4. ASSUME Leftovers PROVE TypeOK'
  BY <1>4 DEF Leftovers, inputs, Pair
<1>5. ASSUME Ambiguous PROVE TypeOK'
  BY <1>5 DEF Ambiguous, inputs
<1>6. ASSUME Return PROVE TypeOK'
  BY <1>6 DEF Return, inputs, Pair
<1>7. ASSUME UNCHANGED vars PROVE TypeOK'
  BY <1>7 DEF vars, Pair
<1> QED BY <1>1, <1>2, <1>3, <1>4, <1>5, <1>6, <1>7 DEF Next

\* The state variables keep their types (match.go, Traces).
THEOREM TypeCorrect == Spec => []TypeOK
<1>1. Init => TypeOK
  BY DEF Init, TypeOK
<1>2. TypeOK /\ [Next]_vars => TypeOK'
  BY TypeStep
<1> QED BY <1>1, <1>2, PTL DEF Spec

-----------------------------------------------------------------------------
(* The partition of the traces *)

\* The groups of a snapshot are disjoint and make up its described traces.
LEMMA GroupsCover ==
    /\ \A key : BaseGroup(key) =
                  {b \in Described(BaseTrace, baseline) : GroupKey(baseline[b]) = key}
    /\ \A key : CandGroup(key) =
                  {c \in Described(CandTrace, candidate) : GroupKey(candidate[c]) = key}
BY DEF BaseGroup, CandGroup, GroupOf

\* Each step leaves the traces partitioned and the pairs one-to-one.
LEMMA EachTraceOnceStep ==
    ASSUME TypeOK, EachTraceOnce, CurrentGroup, [Next]_vars
    PROVE  EachTraceOnce' /\ CurrentGroup'
<1> DEFINE B == Described(BaseTrace, baseline)
           C == Described(CandTrace, candidate)
           OneToOne == \A p, q \in paired : p.base = q.base <=> p.cand = q.cand
           Alike == \A p \in paired : GroupKey(baseline[p.base]) = GroupKey(candidate[p.cand])
<1>1. ASSUME NEW key \in todo, OneSidedGroup(key) PROVE EachTraceOnce' /\ CurrentGroup'
  <2>1. B' = B /\ C' = C /\ paired' = paired /\ PairedBase' = PairedBase /\ PairedCand' = PairedCand
    BY <1>1 DEF OneSidedGroup, inputs, Described, PairedBase, PairedCand
  <2>2. WaitingBase' = WaitingBase \ BaseGroup(key) /\ BaseGroup(key) \subseteq WaitingBase
    BY <1>1, GroupsCover DEF OneSidedGroup, inputs, WaitingBase, Described
  <2>3. WaitingCand' = WaitingCand \ CandGroup(key) /\ CandGroup(key) \subseteq WaitingCand
    BY <1>1, GroupsCover DEF OneSidedGroup, inputs, WaitingCand, Described
  <2>4. Partition4(B, WaitingBase, left, PairedBase, removed)'
    BY <1>1, <2>1, <2>2 DEF OneSidedGroup, EachTraceOnce, Partition4
  <2>5. Partition4(C, WaitingCand, right, PairedCand, added)'
    BY <1>1, <2>1, <2>3 DEF OneSidedGroup, EachTraceOnce, Partition4
  <2>6. CurrentGroup'
    BY <1>1 DEF CurrentGroup, OneSidedGroup
  <2>7. OneToOne' /\ Alike'
    BY <1>1 DEF OneSidedGroup, inputs, EachTraceOnce
  <2> QED BY <2>4, <2>5, <2>6, <2>7 DEF EachTraceOnce
<1>2. ASSUME NEW key \in todo, ExactPass(key) PROVE EachTraceOnce' /\ CurrentGroup'
  <2> DEFINE eb == {p[1] : p \in ExactPairs(key)}
             ec == {p[2] : p \in ExactPairs(key)}
             new == {Pair(p[1], p[2], "exact") : p \in ExactPairs(key)}
  <2>1. B' = B /\ C' = C
    BY <1>2 DEF ExactPass, inputs, Described
  <2>2. eb \subseteq BaseGroup(key) /\ ec \subseteq CandGroup(key)
    BY ExactPairFacts
  <2>3. PairedBase' = PairedBase \cup eb /\ PairedCand' = PairedCand \cup ec
    BY <1>2, PairFields DEF ExactPass, PairedBase, PairedCand
  <2>4. WaitingBase' = WaitingBase \ BaseGroup(key) /\ BaseGroup(key) \subseteq WaitingBase
    BY <1>2, GroupsCover DEF ExactPass, inputs, WaitingBase, Described
  <2>5. WaitingCand' = WaitingCand \ CandGroup(key) /\ CandGroup(key) \subseteq WaitingCand
    BY <1>2, GroupsCover DEF ExactPass, inputs, WaitingCand, Described
  <2>6. left = {} /\ right = {} /\ left' = BaseGroup(key) \ eb /\ right' = CandGroup(key) \ ec
    BY <1>2 DEF ExactPass, CurrentGroup
  <2>7. Partition4(B, WaitingBase, left, PairedBase, removed)'
    BY <1>2, <2>1, <2>2, <2>3, <2>4, <2>6 DEF ExactPass, EachTraceOnce, Partition4
  <2>8. Partition4(C, WaitingCand, right, PairedCand, added)'
    BY <1>2, <2>1, <2>2, <2>3, <2>5, <2>6 DEF ExactPass, EachTraceOnce, Partition4
  <2>9. PairedBase \cap eb = {} /\ PairedCand \cap ec = {}
    BY <1>2, <2>2, <2>4, <2>5 DEF ExactPass, EachTraceOnce, Partition4
  <2>10. OneToOne'
    <3> SUFFICES ASSUME NEW p \in paired', NEW q \in paired'
                 PROVE p.base = q.base <=> p.cand = q.cand
      OBVIOUS
    <3>1. paired' = paired \cup new
      BY <1>2 DEF ExactPass
    <3>2. \A n \in new : n.base \in eb /\ n.cand \in ec
      BY PairFields
    <3>3. \A o \in paired : o.base \in PairedBase /\ o.cand \in PairedCand
      BY DEF PairedBase, PairedCand
    <3>4. CASE p \in paired /\ q \in paired
      BY <1>2, <3>4 DEF ExactPass, EachTraceOnce
    <3>5. CASE p \in new /\ q \in new
      BY <3>5, PairFields, ExactPairsOneToOne
    <3>6. CASE p \in new /\ q \in paired
      BY <2>9, <3>2, <3>3, <3>6
    <3>7. CASE p \in paired /\ q \in new
      BY <2>9, <3>2, <3>3, <3>7
    <3> QED BY <3>1, <3>4, <3>5, <3>6, <3>7
  <2>11. Alike'
    <3>1. \A n \in new : GroupKey(baseline[n.base]) = GroupKey(candidate[n.cand])
      BY PairFields, ExactPairFacts
    <3> QED BY <1>2, <3>1 DEF ExactPass, inputs, EachTraceOnce
  <2>12. CurrentGroup'
    <3>1. BaseGroup(key)' = BaseGroup(key) /\ CandGroup(key)' = CandGroup(key)
      BY <1>2 DEF ExactPass, inputs, BaseGroup, CandGroup
    <3> QED BY <1>2, <3>1 DEF ExactPass, CurrentGroup
  <2> QED BY <2>7, <2>8, <2>10, <2>11, <2>12 DEF EachTraceOnce
<1>3. ASSUME OverlapRound PROVE EachTraceOnce' /\ CurrentGroup'
  <2> DEFINE mb == {p[1] : p \in MutualBest}
             mc == {p[2] : p \in MutualBest}
             new == {Pair(p[1], p[2], "overlap") : p \in MutualBest}
  <2>1. B' = B /\ C' = C /\ WaitingBase' = WaitingBase /\ WaitingCand' = WaitingCand
    BY <1>3 DEF OverlapRound, inputs, Described, WaitingBase, WaitingCand
  <2>2. mb \subseteq left /\ mc \subseteq right
    BY MutualBestFacts
  <2>3. PairedBase' = PairedBase \cup mb /\ PairedCand' = PairedCand \cup mc
    BY <1>3, PairFields DEF OverlapRound, PairedBase, PairedCand
  <2>4. Partition4(B, WaitingBase, left, PairedBase, removed)'
    BY <1>3, <2>1, <2>2, <2>3 DEF OverlapRound, EachTraceOnce, Partition4
  <2>5. Partition4(C, WaitingCand, right, PairedCand, added)'
    BY <1>3, <2>1, <2>2, <2>3 DEF OverlapRound, EachTraceOnce, Partition4
  <2>6. PairedBase \cap mb = {} /\ PairedCand \cap mc = {}
    BY <1>3, <2>2 DEF OverlapRound, EachTraceOnce, Partition4
  <2>7. OneToOne'
    <3> SUFFICES ASSUME NEW p \in paired', NEW q \in paired'
                 PROVE p.base = q.base <=> p.cand = q.cand
      OBVIOUS
    <3>1. paired' = paired \cup new
      BY <1>3 DEF OverlapRound
    <3>2. \A n \in new : n.base \in mb /\ n.cand \in mc
      BY PairFields
    <3>3. \A o \in paired : o.base \in PairedBase /\ o.cand \in PairedCand
      BY DEF PairedBase, PairedCand
    <3>4. CASE p \in paired /\ q \in paired
      BY <1>3, <3>4 DEF OverlapRound, EachTraceOnce
    <3>5. CASE p \in new /\ q \in new
      BY <3>5, PairFields, MutualBestOneToOne
    <3>6. CASE p \in new /\ q \in paired
      BY <2>6, <3>2, <3>3, <3>6
    <3>7. CASE p \in paired /\ q \in new
      BY <2>6, <3>2, <3>3, <3>7
    <3> QED BY <3>1, <3>4, <3>5, <3>6, <3>7
  <2>8. PICK key : left \subseteq BaseGroup(key) /\ right \subseteq CandGroup(key)
    BY <1>3 DEF OverlapRound, CurrentGroup
  <2>9. Alike'
    <3>1. \A n \in new : GroupKey(baseline[n.base]) = GroupKey(candidate[n.cand])
      BY <2>8, PairFields, MutualBestFacts, GroupsCover
    <3> QED BY <1>3, <3>1 DEF OverlapRound, inputs, EachTraceOnce
  <2>10. CurrentGroup'
    <3>1. BaseGroup(key)' = BaseGroup(key) /\ CandGroup(key)' = CandGroup(key)
      BY <1>3 DEF OverlapRound, inputs, BaseGroup, CandGroup
    <3>2. left' \subseteq BaseGroup(key)' /\ right' \subseteq CandGroup(key)' /\ status' = "rounds"
      BY <1>3, <2>8, <3>1 DEF OverlapRound
    <3> QED BY <3>2 DEF CurrentGroup
  <2> QED BY <2>4, <2>5, <2>7, <2>9, <2>10 DEF EachTraceOnce
<1>4. ASSUME Leftovers PROVE EachTraceOnce' /\ CurrentGroup'
  <2>1. /\ B' = B /\ C' = C /\ WaitingBase' = WaitingBase /\ WaitingCand' = WaitingCand
        /\ PairedBase' = PairedBase /\ PairedCand' = PairedCand
    BY <1>4 DEF Leftovers, inputs, Described, WaitingBase, WaitingCand, PairedBase, PairedCand
  <2>2. Partition4(B, WaitingBase, left, PairedBase, removed)'
    BY <1>4, <2>1 DEF Leftovers, EachTraceOnce, Partition4
  <2>3. Partition4(C, WaitingCand, right, PairedCand, added)'
    BY <1>4, <2>1 DEF Leftovers, EachTraceOnce, Partition4
  <2>4. OneToOne' /\ Alike'
    BY <1>4 DEF Leftovers, inputs, EachTraceOnce
  <2>5. CurrentGroup'
    BY <1>4 DEF Leftovers, CurrentGroup
  <2> QED BY <2>2, <2>3, <2>4, <2>5 DEF EachTraceOnce
<1>5. ASSUME Ambiguous PROVE EachTraceOnce' /\ CurrentGroup'
  BY <1>5 DEF Ambiguous, inputs, EachTraceOnce, CurrentGroup, BaseGroup, CandGroup
<1>6. ASSUME Return PROVE EachTraceOnce' /\ CurrentGroup'
  <2>1. EachTraceOnce'
    BY <1>6 DEF Return, inputs, EachTraceOnce, WaitingBase, WaitingCand, PairedBase, PairedCand,
                Described, Partition4
  <2> QED BY <1>6, <2>1 DEF Return, CurrentGroup
<1>7. ASSUME UNCHANGED vars PROVE EachTraceOnce' /\ CurrentGroup'
  BY <1>7 DEF vars, EachTraceOnce, CurrentGroup, WaitingBase, WaitingCand, PairedBase, PairedCand,
              Described, Partition4, BaseGroup, CandGroup
<1> QED BY <1>1, <1>2, <1>3, <1>4, <1>5, <1>6, <1>7 DEF Next

-----------------------------------------------------------------------------
(* Repeated structures *)

\* A mutual best pair is of traces whose shapes occur once on their sides.
LEMMA MutualBestUnique ==
    ASSUME TypeOK, TwinsTogether, status = "rounds", NEW p \in MutualBest
    PROVE  /\ \A b \in BaseTrace : baseline[b] = baseline[p[1]] => b = p[1]
           /\ \A c \in CandTrace : candidate[c] = candidate[p[2]] => c = p[2]
<1>1. /\ \A b \in left : \A d \in BaseTrace : baseline[d] = baseline[b] => d \in left
      /\ \A c \in right : \A d \in CandTrace : candidate[d] = candidate[c] => d \in right
  BY DEF TwinsTogether
<1>2. Overlap(baseline[p[1]], candidate[p[2]]) \in Nat
  BY OverlapBounds
<1>3. ASSUME NEW b \in BaseTrace, baseline[b] = baseline[p[1]], b # p[1] PROVE FALSE
  BY <1>1, <1>2, <1>3, MutualBestFacts
<1>4. ASSUME NEW c \in CandTrace, candidate[c] = candidate[p[2]], c # p[2] PROVE FALSE
  BY <1>1, <1>2, <1>4, MutualBestFacts
<1> QED BY <1>3, <1>4

\* Each step keeps traces of one shape together, and none of them is paired.
LEMMA TwinsTogetherStep ==
    ASSUME TypeOK, CurrentGroup, TwinsTogether, [Next]_vars
    PROVE  TwinsTogether'
<1>1. ASSUME NEW key \in todo, OneSidedGroup(key) PROVE TwinsTogether'
  BY <1>1 DEF OneSidedGroup, inputs, TwinsTogether
<1>2. ASSUME NEW key \in todo, ExactPass(key) PROVE TwinsTogether'
  <2>1. ASSUME NEW p \in paired'
        PROVE  /\ \A b \in BaseTrace \ {p.base} : baseline[b] # baseline[p.base]
               /\ \A c \in CandTrace \ {p.cand} : candidate[c] # candidate[p.cand]
    <3>1. CASE p \in paired
      BY <1>2, <3>1 DEF ExactPass, TwinsTogether
    <3>2. CASE \E e \in ExactPairs(key) : p = Pair(e[1], e[2], "exact")
      BY <3>2, PairFields, ExactPairFacts
    <3> QED BY <1>2, <3>1, <3>2 DEF ExactPass
  <2>2. ASSUME NEW b \in left', NEW d \in BaseTrace, baseline[d] = baseline[b] PROVE d \in left'
    <3>1. b \in BaseGroup(key) /\ \A e \in ExactPairs(key) : b # e[1]
      BY <1>2 DEF ExactPass
    <3>2. d \in BaseGroup(key)
      BY <2>2, <3>1, GroupMember DEF BaseGroup
    <3>3. \A e \in ExactPairs(key) : d # e[1]
      BY <2>2, <3>1, ExactPairFacts, GroupMember DEF BaseGroup
    <3> QED BY <1>2, <3>2, <3>3 DEF ExactPass
  <2>3. ASSUME NEW c \in right', NEW d \in CandTrace, candidate[d] = candidate[c] PROVE d \in right'
    <3>1. c \in CandGroup(key) /\ \A e \in ExactPairs(key) : c # e[2]
      BY <1>2 DEF ExactPass
    <3>2. d \in CandGroup(key)
      BY <2>3, <3>1, GroupMember DEF CandGroup
    <3>3. \A e \in ExactPairs(key) : d # e[2]
      BY <2>3, <3>1, ExactPairFacts, GroupMember DEF CandGroup
    <3> QED BY <1>2, <3>2, <3>3 DEF ExactPass
  <2>4. baseline' = baseline /\ candidate' = candidate
    BY <1>2 DEF ExactPass, inputs
  <2> QED BY <2>1, <2>2, <2>3, <2>4 DEF TwinsTogether
<1>3. ASSUME OverlapRound PROVE TwinsTogether'
  <2>1. /\ \A p \in paired :
             /\ \A b \in BaseTrace \ {p.base} : baseline[b] # baseline[p.base]
             /\ \A c \in CandTrace \ {p.cand} : candidate[c] # candidate[p.cand]
        /\ \A b \in left : \A d \in BaseTrace : baseline[d] = baseline[b] => d \in left
        /\ \A c \in right : \A d \in CandTrace : candidate[d] = candidate[c] => d \in right
    BY <1>3 DEF OverlapRound, TwinsTogether
  <2>2. \A p \in MutualBest :
          /\ \A b \in BaseTrace : baseline[b] = baseline[p[1]] => b = p[1]
          /\ \A c \in CandTrace : candidate[c] = candidate[p[2]] => c = p[2]
    BY <1>3, MutualBestUnique DEF OverlapRound
  <2>3. left \subseteq BaseTrace /\ right \subseteq CandTrace
    BY DEF TypeOK
  <2>4. ASSUME NEW p \in paired'
        PROVE  /\ \A b \in BaseTrace \ {p.base} : baseline[b] # baseline[p.base]
               /\ \A c \in CandTrace \ {p.cand} : candidate[c] # candidate[p.cand]
    <3>1. CASE p \in paired
      BY <2>1, <3>1
    <3>2. CASE \E m \in MutualBest : p = Pair(m[1], m[2], "overlap")
      BY <2>2, <3>2, PairFields
    <3> QED BY <1>3, <3>1, <3>2 DEF OverlapRound
  <2>5. ASSUME NEW b \in left', NEW d \in BaseTrace, baseline[d] = baseline[b] PROVE d \in left'
    <3>1. b \in left /\ \A m \in MutualBest : b # m[1]
      BY <1>3 DEF OverlapRound
    <3>2. d \in left /\ \A m \in MutualBest : d # m[1]
      BY <2>1, <2>2, <2>3, <2>5, <3>1
    <3> QED BY <1>3, <3>2 DEF OverlapRound
  <2>6. ASSUME NEW c \in right', NEW d \in CandTrace, candidate[d] = candidate[c] PROVE d \in right'
    <3>1. c \in right /\ \A m \in MutualBest : c # m[2]
      BY <1>3 DEF OverlapRound
    <3>2. d \in right /\ \A m \in MutualBest : d # m[2]
      BY <2>1, <2>2, <2>3, <2>6, <3>1
    <3> QED BY <1>3, <3>2 DEF OverlapRound
  <2>7. baseline' = baseline /\ candidate' = candidate
    BY <1>3 DEF OverlapRound, inputs
  <2> QED BY <2>4, <2>5, <2>6, <2>7 DEF TwinsTogether
<1>4. ASSUME Leftovers PROVE TwinsTogether'
  BY <1>4 DEF Leftovers, inputs, TwinsTogether
<1>5. ASSUME Ambiguous PROVE TwinsTogether'
  BY <1>5 DEF Ambiguous, TwinsTogether
<1>6. ASSUME Return PROVE TwinsTogether'
  BY <1>6 DEF Return, inputs, TwinsTogether
<1>7. ASSUME UNCHANGED vars PROVE TwinsTogether'
  BY <1>7 DEF vars, TwinsTogether
<1> QED BY <1>1, <1>2, <1>3, <1>4, <1>5, <1>6, <1>7 DEF Next

-----------------------------------------------------------------------------
(* Stability *)

\* The conclusion of Stable for one baseline and one candidate trace.
Settled(b, c) ==
    \/ b \in left /\ c \in right
    \/ \E p \in paired : p.base = b /\ p.cand = c
    \/ \E p \in paired : p.base = b /\ Content(p, Overlap(baseline[b], candidate[c]))
    \/ \E p \in paired : p.cand = c /\ Content(p, Overlap(baseline[b], candidate[c]))

\* An exact pair is as good as any trace can do.
LEMMA ExactIsBest ==
    ASSUME NEW key, NEW e \in ExactPairs(key), NEW x
    PROVE  /\ Content(Pair(e[1], e[2], "exact"), Overlap(baseline[e[1]], candidate[x]))
           /\ Content(Pair(e[1], e[2], "exact"), Overlap(baseline[x], candidate[e[2]]))
<1>1. candidate[e[2]] = baseline[e[1]]
  BY ExactPairFacts
<1>2. Pair(e[1], e[2], "exact").overlap = Overlap(baseline[e[1]], baseline[e[1]])
  BY <1>1, PairFields
<1>3. /\ Overlap(baseline[e[1]], candidate[x]) <= Overlap(baseline[e[1]], baseline[e[1]])
      /\ Overlap(baseline[x], candidate[e[2]]) <= Overlap(baseline[e[1]], baseline[e[1]])
      /\ Overlap(baseline[e[1]], baseline[e[1]]) \in Nat
      /\ Overlap(baseline[e[1]], candidate[x]) \in Nat
      /\ Overlap(baseline[x], candidate[e[2]]) \in Nat
  BY <1>1, OverlapBounds
<1> QED BY <1>2, <1>3, PairFields DEF Content

\* Pairs once made are kept, so a settled pair of traces stays settled unless
\* it was only waiting; a step of the rounds settles what it takes away.
LEMMA StableStep ==
    ASSUME TypeOK, EachTraceOnce, CurrentGroup, Stable, [Next]_vars
    PROVE  Stable'
<1> DEFINE Reached(b, c) ==
             /\ GroupKey(baseline[b]) = GroupKey(candidate[c])
             /\ GroupKey(baseline[b]) \notin todo
<1> SUFFICES ASSUME status' # "ambiguous",
                    NEW b \in Described(BaseTrace, baseline)',
                    NEW c \in Described(CandTrace, candidate)',
                    Reached(b, c)'
             PROVE  Settled(b, c)'
  BY DEF Stable, Settled
<1>1. baseline' = baseline /\ candidate' = candidate
  BY DEF Next, vars, OneSidedGroup, ExactPass, OverlapRound, Leftovers, Ambiguous, Return, inputs
<1>2. b \in Described(BaseTrace, baseline) /\ c \in Described(CandTrace, candidate)
  BY <1>1 DEF Described
<1>3. status # "ambiguous"
  BY DEF Next, vars, OneSidedGroup, ExactPass, OverlapRound, Leftovers, Ambiguous, Return
<1>4. Reached(b, c) => Settled(b, c)
  BY <1>2, <1>3 DEF Stable, Settled
<1>5. ASSUME NEW key \in todo, OneSidedGroup(key) PROVE Settled(b, c)'
  <2>1. Reached(b, c)
    <3>1. b \in BaseGroup(GroupKey(baseline[b])) /\ c \in CandGroup(GroupKey(candidate[c]))
      BY <1>2, GroupsCover
    <3> QED BY <1>1, <1>5, <3>1 DEF OneSidedGroup
  <2> QED BY <1>1, <1>4, <1>5, <2>1 DEF OneSidedGroup, Settled, Content
<1>6. ASSUME NEW key \in todo, ExactPass(key) PROVE Settled(b, c)'
  <2>1. CASE Reached(b, c)
    BY <1>1, <1>4, <1>6, <2>1 DEF ExactPass, CurrentGroup, Settled, Content
  <2>2. CASE ~Reached(b, c)
    <3>1. b \in BaseGroup(key) /\ c \in CandGroup(key)
      BY <1>1, <1>2, <1>6, <2>2, GroupsCover DEF ExactPass
    <3>2. CASE \E e \in ExactPairs(key) : b = e[1]
      BY <1>1, <1>6, <3>2, PairFields, ExactIsBest DEF ExactPass, Settled, Content
    <3>3. CASE \E e \in ExactPairs(key) : c = e[2]
      BY <1>1, <1>6, <3>3, PairFields, ExactIsBest DEF ExactPass, Settled, Content
    <3>4. CASE (\A e \in ExactPairs(key) : b # e[1]) /\ (\A e \in ExactPairs(key) : c # e[2])
      BY <1>6, <3>1, <3>4 DEF ExactPass, Settled
    <3> QED BY <3>2, <3>3, <3>4
  <2> QED BY <2>1, <2>2
<1>7. ASSUME OverlapRound PROVE Settled(b, c)'
  <2>1. Reached(b, c)
    BY <1>1, <1>7 DEF OverlapRound
  <2>2. CASE ~(b \in left /\ c \in right)
    BY <1>1, <1>4, <1>7, <2>1, <2>2 DEF OverlapRound, Settled, Content
  <2>3. CASE b \in left /\ c \in right
    <3>1. ASSUME NEW m \in MutualBest, b = m[1] PROVE Settled(b, c)'
      <4>1. Pair(m[1], m[2], "overlap") \in paired'
        BY <1>7, <3>1 DEF OverlapRound
      <4>2. CASE c = m[2]
        BY <3>1, <4>1, <4>2, PairFields DEF Settled
      <4>3. CASE c # m[2]
        <5>1. Content(Pair(m[1], m[2], "overlap"), Overlap(baseline[b], candidate[c]))
          BY <2>3, <3>1, <4>3, MutualBestFacts, PairFields DEF Content
        <5> QED BY <1>1, <3>1, <4>1, <5>1, PairFields DEF Settled, Content
      <4> QED BY <4>2, <4>3
    <3>2. ASSUME NEW m \in MutualBest, c = m[2] PROVE Settled(b, c)'
      <4>1. Pair(m[1], m[2], "overlap") \in paired'
        BY <1>7, <3>2 DEF OverlapRound
      <4>2. CASE b = m[1]
        BY <3>2, <4>1, <4>2, PairFields DEF Settled
      <4>3. CASE b # m[1]
        <5>1. Content(Pair(m[1], m[2], "overlap"), Overlap(baseline[b], candidate[c]))
          BY <2>3, <3>2, <4>3, MutualBestFacts, PairFields DEF Content
        <5> QED BY <1>1, <3>2, <4>1, <5>1, PairFields DEF Settled, Content
      <4> QED BY <4>2, <4>3
    <3>3. CASE (\A m \in MutualBest : b # m[1]) /\ (\A m \in MutualBest : c # m[2])
      BY <1>7, <2>3, <3>3 DEF OverlapRound, Settled
    <3> QED BY <3>1, <3>2, <3>3
  <2> QED BY <2>2, <2>3
<1>8. ASSUME Leftovers PROVE Settled(b, c)'
  <2>1. Reached(b, c) /\ ~(b \in left /\ c \in right)
    BY <1>1, <1>8 DEF Leftovers
  <2> QED BY <1>1, <1>4, <1>8, <2>1 DEF Leftovers, Settled, Content
<1>9. ASSUME Ambiguous PROVE Settled(b, c)'
  BY <1>9 DEF Ambiguous
<1>10. ASSUME Return PROVE Settled(b, c)'
  BY <1>1, <1>4, <1>10 DEF Return, Settled, Content
<1>11. ASSUME UNCHANGED vars PROVE Settled(b, c)'
  BY <1>1, <1>4, <1>11 DEF vars, Settled, Content
<1> QED BY <1>5, <1>6, <1>7, <1>8, <1>9, <1>10, <1>11 DEF Next

-----------------------------------------------------------------------------
(* The contract *)

\* The contract's definitions in this module's terms.
LEMMA ContractTerms ==
    /\ Verdict!Bases = Described(BaseTrace, baseline)
    /\ Verdict!Cands = Described(CandTrace, candidate)
    /\ \A b, c : Verdict!Score(b, c) = Overlap(baseline[b], candidate[c])
    /\ \A b, c : Verdict!Comparable(b, c) <=> GroupKey(baseline[b]) = GroupKey(candidate[c])
BY DEF Verdict!Bases, Verdict!Cands, Verdict!Score, Verdict!Comparable, Described

-----------------------------------------------------------------------------
(* Refusals *)

\* Without ties the best-scoring unused pair is mutual, so a round of a group
\* with traces left on both sides always finds one.
LEMMA NoTieNoRefusal ==
    ASSUME NEW key, left \subseteq BaseGroup(key), right \subseteq CandGroup(key),
           left # {}, right # {}, Verdict!TieFree
    PROVE  MutualBest # {}
<1> DEFINE score(b, c) == Overlap(baseline[b], candidate[c])
           scores == {score(p[1], p[2]) : p \in left \X right}
<1>1. PICK m \in Nat : \A s, t : Overlap(s, t) <= m
  BY OverlapBounded
<1>2. scores \in SUBSET Nat /\ scores # {} /\ \A x \in scores : x <= m
  <2>1. \A b, c : score(b, c) \in Nat /\ score(b, c) <= m
    BY <1>1, OverlapBounds
  <2>2. PICK b \in left, c \in right : TRUE
    OBVIOUS
  <2>3. <<b, c>> \in left \X right
    OBVIOUS
  <2>4. score(b, c) \in scores
    BY <2>3
  <2> QED BY <2>1, <2>4
<1>3. PICK best \in scores : \A y \in scores : y <= best
  BY <1>2, LargestNat
<1>4. PICK b \in left, c \in right : best = score(b, c)
  BY <1>3
<1>5. ASSUME NEW d \in left, NEW e \in right
      PROVE  score(d, e) <= score(b, c) /\ score(d, e) \in Nat
  <2>1. <<d, e>> \in left \X right /\ <<d, e>>[1] = d /\ <<d, e>>[2] = e
    OBVIOUS
  <2>2. score(d, e) \in scores
    BY <2>1
  <2> QED BY <1>3, <1>4, <2>2, OverlapBounds
<1>6. /\ \A d \in left : d \in BaseTrace /\ baseline[d] # NoSpans /\ GroupKey(baseline[d]) = key
      /\ \A e \in right : e \in CandTrace /\ candidate[e] # NoSpans /\ GroupKey(candidate[e]) = key
  BY GroupMember DEF BaseGroup, CandGroup
<1>7. ASSUME NEW e \in right \ {c} PROVE score(b, e) < score(b, c)
  <2>1. score(b, e) # score(b, c)
    BY <1>6, <1>7, ContractTerms DEF Verdict!TieFree, Described
  <2> QED BY <1>5, <2>1
<1>8. ASSUME NEW d \in left \ {b} PROVE score(d, c) < score(b, c)
  <2>1. score(d, c) # score(b, c)
    BY <1>6, <1>8, ContractTerms DEF Verdict!TieFree, Described
  <2> QED BY <1>5, <2>1
<1>9. <<b, c>> \in MutualBest
  <2>1. \A s, t : Overlap(s, t) = Overlap(t, s)
    BY OverlapBounds
  <2> QED BY <1>7, <1>8, <2>1 DEF MutualBest, UniqueBest
<1> QED BY <1>9

\* A comparison is only refused with a tie behind it, and then stays refused.
LEMMA RefusedStep ==
    ASSUME CurrentGroup, Refused, [Next]_vars
    PROVE  Refused'
<1> USE DEF Verdict!TieFree, Verdict!Bases, Verdict!Cands, Verdict!Comparable, Verdict!Score
<1>1. CASE Ambiguous
  <2>1. PICK key : left \subseteq BaseGroup(key) /\ right \subseteq CandGroup(key)
    BY <1>1 DEF Ambiguous, CurrentGroup
  <2>2. ~Verdict!TieFree
    BY <1>1, <2>1, NoTieNoRefusal DEF Ambiguous
  <2> QED BY <1>1, <2>2 DEF Ambiguous, inputs, Refused
<1>2. CASE UNCHANGED vars
  BY <1>2 DEF vars, Refused
<1>3. CASE status' # "ambiguous"
  BY <1>3 DEF Refused
<1> QED BY <1>1, <1>2, <1>3 DEF Next, OneSidedGroup, ExactPass, OverlapRound, Leftovers, Return

-----------------------------------------------------------------------------
(* The pairing is forced *)

\* The members of Matches, by their traces.
LEMMA MatchFacts ==
    /\ \A m \in Verdict!Matches :
         /\ m.base \in Described(BaseTrace, baseline) /\ m.cand \in Described(CandTrace, candidate)
         /\ GroupKey(baseline[m.base]) = GroupKey(candidate[m.cand])
         /\ m = Verdict!Match(m.base, m.cand)
    /\ \A b \in Described(BaseTrace, baseline), c \in Described(CandTrace, candidate) :
         GroupKey(baseline[b]) = GroupKey(candidate[c]) => Verdict!Match(b, c) \in Verdict!Matches
<1>1. ASSUME NEW m \in Verdict!Matches
      PROVE  \E p \in Verdict!Bases \X Verdict!Cands :
               Verdict!Comparable(p[1], p[2]) /\ m = Verdict!Match(p[1], p[2])
  BY DEF Verdict!Matches
<1>2. \A b, c : Verdict!Match(b, c).base = b /\ Verdict!Match(b, c).cand = c
  BY DEF Verdict!Match
<1>3. ASSUME NEW b \in Verdict!Bases, NEW c \in Verdict!Cands, Verdict!Comparable(b, c)
      PROVE  Verdict!Match(b, c) \in Verdict!Matches
  <2>1. <<b, c>> \in Verdict!Bases \X Verdict!Cands /\ <<b, c>>[1] = b /\ <<b, c>>[2] = c
    OBVIOUS
  <2> QED BY <1>3, <2>1 DEF Verdict!Matches
<1> QED BY <1>1, <1>2, <1>3, ContractTerms

\* The evidence of a match.
LEMMA MatchEvidence ==
    ASSUME NEW m \in Verdict!Matches
    PROVE  /\ m.overlap = Overlap(baseline[m.base], candidate[m.cand]) /\ m.overlap \in Nat
           /\ m.how \in {"exact", "overlap"}
           /\ m.how = "exact" <=> baseline[m.base] = candidate[m.cand]
<1>1. m = Verdict!Match(m.base, m.cand)
  BY MatchFacts
<1>2. \A b, c : /\ Verdict!Match(b, c).overlap = Verdict!Score(b, c)
                /\ Verdict!Match(b, c).how
                     = IF baseline[b] = candidate[c] THEN "exact" ELSE "overlap"
  BY DEF Verdict!Match
<1> QED BY <1>1, <1>2, ContractTerms, OverlapBounds

\* A pair that the matcher makes is a match if its evidence is true.
LEMMA PairIsMatch ==
    \A b, c :
        /\ baseline[b] = candidate[c] => Pair(b, c, "exact") = Verdict!Match(b, c)
        /\ baseline[b] # candidate[c] => Pair(b, c, "overlap") = Verdict!Match(b, c)
BY DEF Pair, Verdict!Match, Verdict!Score

\* What stability says of two comparable traces.
LEMMA StableContent ==
    ASSUME NEW pairs \in SUBSET Verdict!Matches, Verdict!StablePairing(pairs),
           NEW b \in Described(BaseTrace, baseline), NEW c \in Described(CandTrace, candidate),
           GroupKey(baseline[b]) = GroupKey(candidate[c])
    PROVE  \/ Verdict!Match(b, c) \in pairs
           \/ \E p \in pairs : p.base = b /\ Content(p, Overlap(baseline[b], candidate[c]))
           \/ \E p \in pairs : p.cand = c /\ Content(p, Overlap(baseline[b], candidate[c]))
<1> DEFINE score == Overlap(baseline[b], candidate[c])
<1>1. \/ \E p \in pairs : p.base = b /\ p.cand = c
      \/ \E p \in pairs : p.base = b /\ ~Verdict!Tempted(score, p)
      \/ \E p \in pairs : p.cand = c /\ ~Verdict!Tempted(score, p)
  BY ContractTerms DEF Verdict!StablePairing, Verdict!NoBlockingPair, Verdict!BaseTempted,
     Verdict!CandTempted
<1>2. ASSUME NEW p \in pairs, ~Verdict!Tempted(score, p) PROVE Content(p, score)
  <2>1. p.overlap \in Nat /\ p.how \in {"exact", "overlap"} /\ score \in Nat
    BY MatchEvidence, OverlapBounds
  <2> QED BY <1>2, <2>1 DEF Verdict!Tempted, Content
<1>3. ASSUME NEW p \in pairs, p.base = b, p.cand = c PROVE Verdict!Match(b, c) \in pairs
  BY <1>3, MatchFacts
<1> QED BY <1>1, <1>2, <1>3

\* Two members of a stable pairing share no trace, nor has one a repeated shape.
LEMMA StableOneToOne ==
    ASSUME NEW pairs \in SUBSET Verdict!Matches, Verdict!StablePairing(pairs), NEW p \in pairs
    PROVE  /\ \A q \in pairs : p.base = q.base \/ p.cand = q.cand => p = q
           /\ \A b \in BaseTrace : baseline[b] = baseline[p.base] => b = p.base
           /\ \A c \in CandTrace : candidate[c] = candidate[p.cand] => c = p.cand
<1>1. ASSUME NEW q \in pairs, p.base = q.base \/ p.cand = q.cand PROVE p = q
  <2>1. p.base = q.base /\ p.cand = q.cand
    BY <1>1 DEF Verdict!StablePairing, Verdict!OneToOne
  <2>2. p = Verdict!Match(p.base, p.cand) /\ q = Verdict!Match(q.base, q.cand)
    BY MatchFacts
  <2> QED BY <2>1, <2>2
<1>2. /\ \A b \in BaseTrace \ {p.base} : baseline[b] # baseline[p.base]
      /\ \A c \in CandTrace \ {p.cand} : candidate[c] # candidate[p.cand]
  BY DEF Verdict!StablePairing, Verdict!RepeatsUnpaired
<1> QED BY <1>1, <1>2

\* An exact pair is in every stable pairing: nothing else could content either.
LEMMA ExactForced ==
    ASSUME NEW pairs \in SUBSET Verdict!Matches, Verdict!StablePairing(pairs),
           NEW key, NEW e \in ExactPairs(key)
    PROVE  Verdict!Match(e[1], e[2]) \in pairs
<1> DEFINE b == e[1]
           c == e[2]
           score == Overlap(baseline[b], candidate[c])
<1>1. /\ b \in Described(BaseTrace, baseline) /\ c \in Described(CandTrace, candidate)
      /\ GroupKey(baseline[b]) = GroupKey(candidate[c])
      /\ candidate[c] = baseline[b] /\ b \in BaseTrace /\ c \in CandTrace
      /\ \A d \in BaseTrace : baseline[d] = baseline[b] => d = b
      /\ \A d \in CandTrace : candidate[d] = candidate[c] => d = c
  BY ExactPairFacts, GroupsCover DEF Described
<1>2. ASSUME NEW p \in pairs, p.base = b \/ p.cand = c, Content(p, score)
      PROVE  p = Verdict!Match(b, c)
  <2>1. p.overlap = Overlap(baseline[p.base], candidate[p.cand])
    BY MatchEvidence
  <2>2. p.overlap \in Nat /\ score \in Nat
    BY MatchEvidence, OverlapBounds
  <2>3. p.overlap <= score
    <3>1. \A s, t : Overlap(s, t) = Overlap(t, s) /\ Overlap(s, t) <= Overlap(s, s)
      BY OverlapBounds
    <3>2. CASE p.base = b
      BY <1>1, <2>1, <3>1, <3>2
    <3>3. CASE p.cand = c
      <4>1. Overlap(candidate[c], baseline[p.base]) <= Overlap(candidate[c], candidate[c])
        BY <3>1
      <4>2. p.overlap = Overlap(candidate[c], baseline[p.base])
        BY <2>1, <3>1, <3>3
      <4> QED BY <1>1, <4>1, <4>2
    <3> QED BY <1>2, <3>2, <3>3
  <2>4. p.how = "exact"
    BY <1>2, <2>2, <2>3 DEF Content
  <2>5. baseline[p.base] = candidate[p.cand]
    BY <2>4, MatchEvidence
  <2>6. p.base \in BaseTrace /\ p.cand \in CandTrace /\ p = Verdict!Match(p.base, p.cand)
    BY MatchFacts DEF Described
  <2>7. p.base = b /\ p.cand = c
    BY <1>1, <1>2, <2>5, <2>6
  <2> QED BY <2>6, <2>7
<1> QED BY <1>1, <1>2, StableContent

\* What an unused trace is paired with in a stable pairing is unused, too.
LEMMA PartnerUnused ==
    ASSUME EachTraceOnce, Stable, status = "rounds",
           NEW pairs \in SUBSET Verdict!Matches, Verdict!StablePairing(pairs),
           paired \subseteq pairs,
           NEW m \in pairs, m.base \in left \/ m.cand \in right
    PROVE  m.base \in left /\ m.cand \in right
<1>1. /\ left \cap PairedBase = {} /\ right \cap PairedCand = {}
      /\ left \cap WaitingBase = {} /\ right \cap WaitingCand = {}
  BY DEF EachTraceOnce, Partition4
<1>2. /\ m.base \in Described(BaseTrace, baseline) /\ m.cand \in Described(CandTrace, candidate)
      /\ GroupKey(baseline[m.base]) = GroupKey(candidate[m.cand])
  BY MatchFacts
<1>3. GroupKey(baseline[m.base]) \notin todo
  BY <1>1, <1>2 DEF WaitingBase, WaitingCand
<1>4. \/ m.base \in left /\ m.cand \in right
      \/ \E p \in paired : p.base = m.base \/ p.cand = m.cand
  BY <1>2, <1>3 DEF Stable
<1>5. ASSUME NEW p \in paired, p.base = m.base \/ p.cand = m.cand PROVE FALSE
  <2>1. p = m
    BY <1>5, StableOneToOne
  <2>2. p.base \in PairedBase /\ p.cand \in PairedCand
    BY DEF PairedBase, PairedCand
  <2> QED BY <1>1, <2>1, <2>2
<1> QED BY <1>4, <1>5

\* A pair of a round is in every stable pairing: whatever else either trace
\* were paired with is unused, and scores lower.
LEMMA RoundForced ==
    ASSUME EachTraceOnce, CurrentGroup, Stable, status = "rounds",
           NEW pairs \in SUBSET Verdict!Matches, Verdict!StablePairing(pairs),
           paired \subseteq pairs, NEW e \in MutualBest
    PROVE  Verdict!Match(e[1], e[2]) \in pairs
<1> DEFINE b == e[1]
           c == e[2]
           score == Overlap(baseline[b], candidate[c])
<1>1. b \in left /\ c \in right
  BY MutualBestFacts
<1>2. PICK key : left \subseteq BaseGroup(key) /\ right \subseteq CandGroup(key)
  BY DEF CurrentGroup
<1>3. /\ b \in Described(BaseTrace, baseline) /\ c \in Described(CandTrace, candidate)
      /\ GroupKey(baseline[b]) = GroupKey(candidate[c])
  BY <1>1, <1>2, GroupsCover
<1>4. ASSUME NEW p \in pairs, p.base = b \/ p.cand = c, Content(p, score)
      PROVE  p = Verdict!Match(b, c)
  <2>1. p.base \in left /\ p.cand \in right
    BY <1>1, <1>4, PartnerUnused
  <2>2. /\ p.overlap = Overlap(baseline[p.base], candidate[p.cand]) /\ p.overlap \in Nat
        /\ score \in Nat
    BY MatchEvidence, OverlapBounds
  <2>3. score <= p.overlap
    BY <1>4, <2>2 DEF Content
  <2>4. p.base = b /\ p.cand = c
    BY <1>4, <2>1, <2>2, <2>3, MutualBestFacts
  <2> QED BY <2>4, MatchFacts
<1> QED BY <1>3, <1>4, StableContent

\* A round that finds nothing leaves no stable pairing: the best of its pairs
\* between unused traces would be mutual.
LEMMA BlockedHasNone ==
    ASSUME EachTraceOnce, CurrentGroup, Stable, TwinsLeft, status = "rounds",
           NEW pairs \in SUBSET Verdict!Matches, Verdict!StablePairing(pairs),
           paired \subseteq pairs, left # {}, right # {}
    PROVE  MutualBest # {}
<1> DEFINE unused == {m \in pairs : m.base \in left /\ m.cand \in right}
           scores == {m.overlap : m \in unused}
           score(b, c) == Overlap(baseline[b], candidate[c])
<1>1. PICK key : left \subseteq BaseGroup(key) /\ right \subseteq CandGroup(key)
  BY DEF CurrentGroup
<1>2. \A b \in left, c \in right :
        /\ b \in Described(BaseTrace, baseline) /\ c \in Described(CandTrace, candidate)
        /\ b \in BaseTrace /\ c \in CandTrace
        /\ GroupKey(baseline[b]) = GroupKey(candidate[c])
  BY <1>1, GroupsCover DEF Described
<1>3. \A m \in pairs : m.base \in left \/ m.cand \in right => m \in unused
  BY PartnerUnused
<1>4. \A m \in pairs : /\ m.overlap = score(m.base, m.cand) /\ m.overlap \in Nat
                       /\ m = Verdict!Match(m.base, m.cand)
  BY MatchEvidence, MatchFacts
<1>5. unused # {}
  <2>1. PICK b \in left, c \in right : TRUE
    OBVIOUS
  <2>2. \E m \in pairs : m.base = b \/ m.cand = c
    <3>1. Verdict!Match(b, c).base = b
      BY DEF Verdict!Match
    <3> QED BY <1>2, <3>1, StableContent
  <2> QED BY <1>3, <2>2
<1>6. \A m \in unused : m.how # "exact"
  <2> SUFFICES ASSUME NEW m \in unused, m.how = "exact" PROVE FALSE
    OBVIOUS
  <2>1. baseline[m.base] = candidate[m.cand]
    BY MatchEvidence
  <2> QED BY <2>1, StableOneToOne DEF TwinsLeft
<1>7. PICK top \in Nat : \A s, t : Overlap(s, t) <= top
  BY OverlapBounded
<1>8. PICK best \in unused : \A m \in unused : m.overlap <= best.overlap
  <2>1. scores \in SUBSET Nat /\ scores # {} /\ \A x \in scores : x <= top
    BY <1>4, <1>5, <1>7
  <2>2. PICK x \in scores : \A y \in scores : y <= x
    BY <2>1, LargestNat
  <2> QED BY <2>2
<1>9. ASSUME NEW b \in left, NEW c \in right, b = best.base \/ c = best.cand,
             score(b, c) >= best.overlap
      PROVE  Verdict!Match(b, c) \in pairs
  <2>1. ASSUME NEW p \in pairs, p.base = b \/ p.cand = c, Content(p, score(b, c)) PROVE FALSE
    <3>1. p \in unused
      BY <1>3, <2>1
    <3>2. p.overlap <= best.overlap /\ p.how # "exact"
      BY <1>6, <1>8, <3>1
    <3>3. score(b, c) \in Nat /\ p.overlap \in Nat /\ best.overlap \in Nat
      BY <1>4, OverlapBounds
    <3> QED BY <1>9, <2>1, <3>2, <3>3 DEF Content
  <2> QED BY <1>2, <2>1, StableContent
<1>10. ASSUME NEW b \in left, NEW c \in right, b = best.base \/ c = best.cand,
              score(b, c) >= best.overlap
       PROVE  b = best.base /\ c = best.cand
  <2>1. Verdict!Match(b, c) \in pairs
    BY <1>9, <1>10
  <2>2. Verdict!Match(b, c).base = b /\ Verdict!Match(b, c).cand = c
    BY DEF Verdict!Match
  <2>3. Verdict!Match(b, c) = best
    BY <1>10, <2>1, <2>2, StableOneToOne
  <2> QED BY <2>2, <2>3
<1>11. <<best.base, best.cand>> \in MutualBest
  <2> DEFINE b == best.base
             c == best.cand
  <2>1. b \in left /\ c \in right /\ best.overlap = score(b, c) /\ best.overlap \in Nat
    BY <1>4
  <2>2. \A d \in right \ {c} : score(b, d) < score(b, c)
    <3>1. ASSUME NEW d \in right \ {c} PROVE score(b, d) < score(b, c)
      <4>1. ~(score(b, d) >= best.overlap) /\ score(b, d) \in Nat
        BY <1>10, <2>1, OverlapBounds
      <4> QED BY <2>1, <4>1
    <3> QED BY <3>1
  <2>3. \A d \in left \ {b} : score(d, c) < score(b, c)
    <3>1. ASSUME NEW d \in left \ {b} PROVE score(d, c) < score(b, c)
      <4>1. ~(score(d, c) >= best.overlap) /\ score(d, c) \in Nat
        BY <1>10, <2>1, OverlapBounds
      <4> QED BY <2>1, <4>1
    <3> QED BY <3>1
  <2>4. \A s, t : Overlap(s, t) = Overlap(t, s)
    BY OverlapBounds
  <2> QED BY <2>1, <2>2, <2>3, <2>4 DEF MutualBest, UniqueBest
<1> QED BY <1>11

\* The contract reads only the snapshots, which no step changes.
LEMMA ContractKept ==
    ASSUME baseline' = baseline, candidate' = candidate
    PROVE  /\ Verdict!Matches' = Verdict!Matches
           /\ \A pairs : Verdict!StablePairing(pairs)' <=> Verdict!StablePairing(pairs)
BY DEF Verdict!Matches, Verdict!Match, Verdict!Score, Verdict!Bases, Verdict!Cands,
       Verdict!Comparable, Verdict!StablePairing, Verdict!OneToOne, Verdict!RepeatsUnpaired,
       Verdict!NoBlockingPair, Verdict!BaseTempted, Verdict!CandTempted, Verdict!Tempted

\* Each step that pairs adds true evidence, and pairs that are forced; a refusal
\* leaves no stable pairing.
LEMMA ForcedStep ==
    ASSUME TypeOK, EachTraceOnce, CurrentGroup, TwinsTogether, Stable, Evident, TwinsLeft, Forced,
           [Next]_vars
    PROVE  Evident' /\ TwinsLeft' /\ Forced'
<1>1. baseline' = baseline /\ candidate' = candidate
  BY DEF Next, vars, OneSidedGroup, ExactPass, OverlapRound, Leftovers, Ambiguous, Return, inputs
<1>2. /\ Verdict!Matches' = Verdict!Matches
      /\ \A pairs : Verdict!StablePairing(pairs)' <=> Verdict!StablePairing(pairs)
  BY <1>1, ContractKept
<1>3. ASSUME NEW key \in todo, ExactPass(key) PROVE Evident' /\ TwinsLeft' /\ Forced'
  <2> DEFINE new == {Pair(p[1], p[2], "exact") : p \in ExactPairs(key)}
  <2>1. paired' = paired \cup new /\ status = "groups" /\ status' = "rounds"
    BY <1>3 DEF ExactPass
  <2>2. \A p \in ExactPairs(key) : Pair(p[1], p[2], "exact") = Verdict!Match(p[1], p[2])
    BY ExactPairFacts, PairIsMatch
  <2>3. new \subseteq Verdict!Matches
    <3>1. ASSUME NEW p \in ExactPairs(key) PROVE Verdict!Match(p[1], p[2]) \in Verdict!Matches
      BY ExactPairFacts, GroupsCover, MatchFacts
    <3> QED BY <2>2, <3>1
  <2>4. Evident'
    BY <1>2, <2>1, <2>3 DEF Evident
  <2>5. TwinsLeft'
    <3> SUFFICES ASSUME NEW b \in left', NEW c \in right', baseline[b] = candidate[c],
                        \A d \in BaseTrace \ {b} : baseline[d] # baseline[b],
                        \A d \in CandTrace \ {c} : candidate[d] # candidate[c]
                 PROVE  FALSE
      BY <1>1 DEF TwinsLeft
    <3>1. /\ b \in BaseGroup(key) /\ c \in CandGroup(key)
          /\ b \notin {p[1] : p \in ExactPairs(key)}
      BY <1>3 DEF ExactPass
    <3>2. BaseGroup(key) \subseteq BaseTrace /\ CandGroup(key) \subseteq CandTrace
      BY GroupMember DEF BaseGroup, CandGroup
    <3>3. /\ SameStructure(BaseGroup(key), baseline, baseline[b]) = {b}
          /\ SameStructure(CandGroup(key), candidate, baseline[b]) = {c}
      BY <3>1, <3>2 DEF SameStructure
    <3>4. <<b, c>> \in ExactPairs(key) /\ <<b, c>>[1] = b
      BY <3>1, <3>3 DEF ExactPairs
    <3> QED BY <3>1, <3>4
  <2>6. Forced'
    <3> SUFFICES ASSUME NEW pairs \in SUBSET Verdict!Matches, Verdict!StablePairing(pairs)
                 PROVE  status' # "ambiguous" /\ paired' \subseteq pairs
      BY <1>2 DEF Forced
    <3>1. new \subseteq pairs
      BY <2>2, ExactForced
    <3> QED BY <2>1, <3>1 DEF Forced
  <2> QED BY <2>4, <2>5, <2>6
<1>4. ASSUME OverlapRound PROVE Evident' /\ TwinsLeft' /\ Forced'
  <2> DEFINE new == {Pair(p[1], p[2], "overlap") : p \in MutualBest}
  <2>1. /\ paired' = paired \cup new /\ status = "rounds" /\ status' = "rounds"
        /\ left' \subseteq left /\ right' \subseteq right
    BY <1>4 DEF OverlapRound
  <2>2. PICK key : left \subseteq BaseGroup(key) /\ right \subseteq CandGroup(key)
    BY <2>1 DEF CurrentGroup
  <2>3. ASSUME NEW p \in MutualBest
        PROVE  /\ Pair(p[1], p[2], "overlap") = Verdict!Match(p[1], p[2])
               /\ Verdict!Match(p[1], p[2]) \in Verdict!Matches
    <3>1. p[1] \in left /\ p[2] \in right
      BY MutualBestFacts
    <3>2. baseline[p[1]] # candidate[p[2]]
      BY <2>1, <3>1, MutualBestUnique DEF TwinsLeft
    <3> QED BY <2>2, <3>1, <3>2, PairIsMatch, GroupsCover, MatchFacts
  <2>4. Evident'
    BY <1>2, <2>1, <2>3 DEF Evident
  <2>5. TwinsLeft'
    BY <1>1, <2>1 DEF TwinsLeft
  <2>6. Forced'
    <3> SUFFICES ASSUME NEW pairs \in SUBSET Verdict!Matches, Verdict!StablePairing(pairs)
                 PROVE  status' # "ambiguous" /\ paired' \subseteq pairs
      BY <1>2 DEF Forced
    <3>1. paired \subseteq pairs
      BY DEF Forced
    <3>2. new \subseteq pairs
      BY <2>1, <2>3, <3>1, RoundForced
    <3> QED BY <2>1, <3>1, <3>2
  <2> QED BY <2>4, <2>5, <2>6
<1>5. ASSUME Ambiguous PROVE Evident' /\ TwinsLeft' /\ Forced'
  <2>1. Evident' /\ TwinsLeft'
    BY <1>5 DEF Ambiguous, Evident, TwinsLeft
  <2>2. ASSUME NEW pairs \in SUBSET Verdict!Matches, Verdict!StablePairing(pairs) PROVE FALSE
    <3>1. paired \subseteq pairs
      BY <2>2 DEF Forced
    <3> QED BY <1>5, <2>2, <3>1, BlockedHasNone DEF Ambiguous
  <2> QED BY <1>2, <2>1, <2>2 DEF Forced
<1>6. ASSUME paired' = paired, status' \notin {"rounds", "ambiguous"}
      PROVE  Evident' /\ TwinsLeft' /\ Forced'
  BY <1>2, <1>6 DEF Evident, TwinsLeft, Forced
<1>7. ASSUME UNCHANGED vars PROVE Evident' /\ TwinsLeft' /\ Forced'
  BY <1>1, <1>2, <1>7 DEF vars, Evident, TwinsLeft, Forced
<1>8. (\E key \in todo : OneSidedGroup(key)) \/ Leftovers \/ Return
        => paired' = paired /\ status' \notin {"rounds", "ambiguous"}
  BY DEF OneSidedGroup, Leftovers, Return
<1> QED BY <1>3, <1>4, <1>5, <1>6, <1>7, <1>8 DEF Next

-----------------------------------------------------------------------------
(* The invariant and what it gives *)

\* Each step keeps to one evidence, since it pairs unused traces only.
LEMMA OneEvidenceStep ==
    ASSUME TypeOK, EachTraceOnce, OneEvidence, [Next]_vars
    PROVE  OneEvidence'
<1>1. ASSUME NEW key \in todo, ExactPass(key) PROVE OneEvidence'
  <2>1. \A p \in ExactPairs(key) : p[1] \in BaseGroup(key)
    BY ExactPairFacts
  <2>2. BaseGroup(key) \subseteq WaitingBase
    BY <1>1, GroupsCover DEF WaitingBase
  <2>3. WaitingBase \cap PairedBase = {}
    BY <1>1 DEF ExactPass, EachTraceOnce, Partition4
  <2>4. \A p, q \in ExactPairs(key) : p[1] = q[1] <=> p[2] = q[2]
    BY ExactPairsOneToOne
  <2>5. \A p \in ExactPairs(key) : p[1] \notin PairedBase
    BY <2>1, <2>2, <2>3
  <2> DEFINE new == {Pair(p[1], p[2], "exact") : p \in ExactPairs(key)}
  <2>6. \A d \in new : d.base \notin PairedBase /\ \A e \in new : d.base = e.base => d = e
    <3>1. \A p, q \in ExactPairs(key) : p[1] = q[1]
            => Pair(p[1], p[2], "exact") = Pair(q[1], q[2], "exact")
      BY <2>4
    <3> QED BY <3>1, <2>5, PairFields
  <2>7. paired' = paired \cup new
    BY <1>1 DEF ExactPass
  <2>8. \A d \in paired : d.base \in PairedBase
    BY DEF PairedBase
  <2> HIDE DEF new
  <2> QED BY <2>6, <2>7, <2>8 DEF OneEvidence
<1>2. CASE OverlapRound
  <2>1. \A p \in MutualBest : p[1] \in left
    BY MutualBestFacts
  <2>2. left \cap PairedBase = {}
    BY <1>2 DEF OverlapRound, EachTraceOnce, Partition4
  <2>3. \A p, q \in MutualBest : p[1] = q[1] <=> p[2] = q[2]
    BY MutualBestOneToOne
  <2>4. \A p \in MutualBest : p[1] \notin PairedBase
    BY <2>1, <2>2
  <2> DEFINE new == {Pair(p[1], p[2], "overlap") : p \in MutualBest}
  <2>5. \A d \in new : d.base \notin PairedBase /\ \A e \in new : d.base = e.base => d = e
    <3>1. \A p, q \in MutualBest : p[1] = q[1]
            => Pair(p[1], p[2], "overlap") = Pair(q[1], q[2], "overlap")
      BY <2>3
    <3> QED BY <3>1, <2>4, PairFields
  <2>6. paired' = paired \cup new
    BY <1>2 DEF OverlapRound
  <2>7. \A d \in paired : d.base \in PairedBase
    BY DEF PairedBase
  <2> HIDE DEF new
  <2> QED BY <2>5, <2>6, <2>7 DEF OneEvidence
<1>3. CASE UNCHANGED paired
  BY <1>3 DEF OneEvidence
<1>4. CASE Ambiguous
  BY <1>4 DEF Ambiguous, OneEvidence
<1> QED BY <1>1, <1>2, <1>3, <1>4 DEF Next, OneSidedGroup, Leftovers, Return, vars

\* Each step keeps the invariant.
LEMMA InvariantStep == ASSUME IInv, [Next]_vars PROVE IInv'
<1>1. TypeOK'
  BY TypeStep DEF IInv
<1> QED BY <1>1, EachTraceOnceStep, TwinsTogetherStep, StableStep, RefusedStep,
           OneEvidenceStep, ForcedStep DEF IInv

\* Traces starts with it.
LEMMA Starting == ASSUME Init PROVE IInv
<1>1. EachTraceOnce
  BY DEF Init, EachTraceOnce, Partition4, WaitingBase, WaitingCand, PairedBase, PairedCand,
       GroupKeys
<1>2. CurrentGroup /\ TwinsTogether /\ Refused
  BY DEF Init, CurrentGroup, TwinsTogether, Refused
<1>3. Stable
  BY DEF Init, Stable, GroupKeys
<1>4. TypeOK
  BY DEF Init, TypeOK
<1>5. OneEvidence /\ Evident /\ TwinsLeft /\ Forced
  BY DEF Init, OneEvidence, Evident, TwinsLeft, Forced
<1> QED BY <1>1, <1>2, <1>3, <1>4, <1>5 DEF IInv

\* It also holds after a step that starts Traces, where Traces is a part of a
\* larger system.
LEMMA Started == ASSUME Init' PROVE IInv'
<1>1. EachTraceOnce'
  BY DEF Init, EachTraceOnce, Partition4, WaitingBase, WaitingCand, PairedBase, PairedCand,
       GroupKeys
<1>2. CurrentGroup' /\ TwinsTogether' /\ Refused'
  BY DEF Init, CurrentGroup, TwinsTogether, Refused
<1>3. Stable'
  BY DEF Init, Stable, GroupKeys
<1>4. TypeOK'
  BY DEF Init, TypeOK
<1>5. OneEvidence' /\ Evident' /\ TwinsLeft' /\ Forced'
  BY DEF Init, OneEvidence, Evident, TwinsLeft, Forced
<1> QED BY <1>1, <1>2, <1>3, <1>4, <1>5 DEF IInv

\* IInv holds in every state a comparison reaches.
THEOREM Invariance == Spec => []IInv
<1>1. Init => IInv
  BY Starting
<1>2. IInv /\ [Next]_vars => IInv'
  BY InvariantStep
<1> QED BY <1>1, <1>2, PTL DEF Spec

\* Traces loses no trace and uses none twice.
THEOREM TracesPartitioned == Spec => []EachTraceOnce
<1>1. IInv => EachTraceOnce
  BY DEF IInv
<1> QED BY <1>1, Invariance, PTL

-----------------------------------------------------------------------------
(* Refinement *)

\* The pairs that Traces returns are a stable pairing, and there is no other.
LEMMA ReturnsStable ==
    ASSUME IInv, status = "done"
    PROVE  /\ paired \in SUBSET Verdict!Matches
           /\ Verdict!StablePairing(paired)
           /\ \A pairs \in SUBSET Verdict!Matches : Verdict!StablePairing(pairs) => pairs = paired
<1>1. paired \in SUBSET Verdict!Matches
  BY DEF IInv, Evident
<1>2. Verdict!OneToOne(paired)
  BY DEF IInv, EachTraceOnce, Verdict!OneToOne
<1>3. Verdict!RepeatsUnpaired(paired)
  BY DEF IInv, TwinsTogether, Verdict!RepeatsUnpaired
<1>4. left = {} /\ right = {} /\ todo = {}
  BY DEF IInv, CurrentGroup
<1>5. ASSUME NEW b \in Described(BaseTrace, baseline), NEW c \in Described(CandTrace, candidate),
             GroupKey(baseline[b]) = GroupKey(candidate[c])
      PROVE  \/ \E p \in paired : p.base = b /\ p.cand = c
             \/ \E p \in paired : p.base = b /\ Content(p, Overlap(baseline[b], candidate[c]))
             \/ \E p \in paired : p.cand = c /\ Content(p, Overlap(baseline[b], candidate[c]))
  BY <1>4, <1>5 DEF IInv, Stable
<1>6. Verdict!NoBlockingPair(paired)
  <2> SUFFICES ASSUME NEW b \in Described(BaseTrace, baseline),
                      NEW c \in Described(CandTrace, candidate),
                      GroupKey(baseline[b]) = GroupKey(candidate[c]),
                      Verdict!BaseTempted(paired, b, c), Verdict!CandTempted(paired, b, c)
               PROVE  \E p \in paired : p.base = b /\ p.cand = c
    BY ContractTerms DEF Verdict!NoBlockingPair
  <2>1. ASSUME NEW p \in paired, Content(p, Overlap(baseline[b], candidate[c]))
        PROVE  ~Verdict!Tempted(Overlap(baseline[b], candidate[c]), p)
    <3>1. /\ p.overlap \in Nat /\ p.how \in {"exact", "overlap"}
          /\ Overlap(baseline[b], candidate[c]) \in Nat
      BY <1>1, MatchEvidence, OverlapBounds
    <3> QED BY <2>1, <3>1 DEF Content, Verdict!Tempted
  <2> QED BY <1>5, <2>1, ContractTerms DEF Verdict!BaseTempted, Verdict!CandTempted
<1>7. ASSUME NEW pairs \in SUBSET Verdict!Matches, Verdict!StablePairing(pairs)
      PROVE  pairs = paired
  <2>1. paired \subseteq pairs
    BY <1>7 DEF IInv, Forced
  <2>2. ASSUME NEW q \in pairs PROVE q \in paired
    <3>1. /\ q.base \in Described(BaseTrace, baseline) /\ q.cand \in Described(CandTrace, candidate)
          /\ GroupKey(baseline[q.base]) = GroupKey(candidate[q.cand])
      BY MatchFacts
    <3>2. PICK p \in paired : p.base = q.base \/ p.cand = q.cand
      BY <1>5, <3>1
    <3>3. p = q
      BY <1>7, <2>1, <3>2, StableOneToOne
    <3> QED BY <3>3
  <2> QED BY <2>1, <2>2
<1> QED BY <1>1, <1>2, <1>3, <1>6, <1>7 DEF Verdict!StablePairing

\* What Traces returns accounts for every trace, and keeps the contract.
LEMMA ReturnsPairing == IInv => Verdict!Pairing /\ Verdict!RefusalJustified
<1>1. ASSUME IInv, status = "done" PROVE Verdict!Accounted
  <2>1. Outcome.paired = paired /\ Outcome.added = added /\ Outcome.removed = removed
    BY <1>1 DEF Outcome
  <2>2. left = {} /\ right = {} /\ WaitingBase = {} /\ WaitingCand = {}
    BY <1>1 DEF IInv, CurrentGroup, WaitingBase, WaitingCand
  <2>3. /\ removed = Described(BaseTrace, baseline) \ PairedBase
        /\ added = Described(CandTrace, candidate) \ PairedCand
    BY <1>1, <2>2 DEF IInv, EachTraceOnce, Partition4
  <2>4. paired \subseteq Verdict!Matches
    BY <1>1 DEF IInv, Evident
  <2> QED BY <2>1, <2>3, <2>4, ContractTerms DEF Verdict!Accounted, PairedBase, PairedCand
<1>2. ASSUME IInv PROVE Verdict!RefusalJustified
  <2>1. Outcome.kind = "ambiguous" => status = "ambiguous"
    BY DEF Outcome
  <2>2. status = "ambiguous" => Outcome = Verdict!Refusal /\ ~Verdict!TieFree
    BY <1>2 DEF IInv, Refused, Verdict!Refusal, Outcome
  <2>3. status = "ambiguous" =>
          \A pairs \in SUBSET Verdict!Matches : ~Verdict!StablePairing(pairs)
    BY <1>2 DEF IInv, Forced
  <2> QED BY <2>1, <2>2, <2>3 DEF Verdict!RefusalJustified
<1>3. Outcome.kind = "done" => status = "done" /\ Outcome.paired = paired
  BY DEF Outcome
<1> QED BY <1>1, <1>2, <1>3, ReturnsStable DEF Verdict!Pairing

\* The matcher implements the contract of TraceVerdict: a step is invisible,
\* or it is the one decision, and the decision keeps the contract.
THEOREM Implements == Spec => ImplementsVerdict
<1>1. Init => Verdict!Init
  BY DEF Init, Verdict!Init, Outcome, Verdict!Undecided
<1>2. ASSUME Verdict!Pairing', Verdict!RefusalJustified', [Next]_vars
      PROVE  [Verdict!Decide]_(Verdict!vars)
  <2>1. baseline' = baseline /\ candidate' = candidate
    BY <1>2 DEF Next, vars, OneSidedGroup, ExactPass, OverlapRound, Leftovers, Ambiguous, Return,
         inputs
  <2>2. CASE Return \/ Ambiguous
    <3>1. Outcome = Verdict!Undecided /\ Outcome'.kind \in {"done", "ambiguous"}
      BY <2>2 DEF Return, Ambiguous, Outcome, Verdict!Undecided
    <3> QED BY <1>2, <2>1, <3>1 DEF Verdict!Decide
  <2>3. CASE (\E key \in todo : OneSidedGroup(key) \/ ExactPass(key)) \/ OverlapRound \/ Leftovers
    <3>1. Outcome' = Outcome
      BY <2>3 DEF OneSidedGroup, ExactPass, OverlapRound, Leftovers, Outcome
    <3> QED BY <2>1, <3>1 DEF Verdict!vars
  <2>4. CASE UNCHANGED vars
    BY <2>4 DEF vars, Verdict!vars, Outcome
  <2> QED BY <1>2, <2>2, <2>3, <2>4 DEF Next
<1> QED BY <1>1, <1>2, Invariance, ReturnsPairing, PTL DEF Spec, Verdict!Spec, ImplementsVerdict

-----------------------------------------------------------------------------
(* A snapshot against itself *)

\* A trace that is paired is paired with itself, as nothing overlaps it more.
LEMMA StableWithItself ==
    ASSUME BaseTrace = CandTrace, baseline = candidate,
           NEW pairs \in SUBSET Verdict!Matches, Verdict!StablePairing(pairs),
           NEW n \in Described(BaseTrace, baseline)
    PROVE  \E p \in pairs : p.base = n /\ p.cand = n
<1>1. n \in Described(CandTrace, candidate) /\ GroupKey(baseline[n]) = GroupKey(candidate[n])
  BY DEF Described
<1>2. \/ Verdict!Match(n, n) \in pairs
      \/ \E p \in pairs : p.base = n /\ Content(p, Overlap(baseline[n], candidate[n]))
      \/ \E p \in pairs : p.cand = n /\ Content(p, Overlap(baseline[n], candidate[n]))
  BY <1>1, StableContent
<1>3. Verdict!Match(n, n).base = n /\ Verdict!Match(n, n).cand = n
  BY DEF Verdict!Match
<1>4. ASSUME NEW p \in pairs, p.base = n \/ p.cand = n,
             Content(p, Overlap(baseline[n], candidate[n]))
      PROVE  p.base = n /\ p.cand = n
  <2>1. /\ p.overlap = Overlap(baseline[p.base], baseline[p.cand]) /\ p.overlap \in Nat
        /\ p.how = "exact" <=> baseline[p.base] = baseline[p.cand]
        /\ p.base \in Described(BaseTrace, baseline) /\ p.cand \in Described(BaseTrace, baseline)
    BY MatchEvidence, MatchFacts
  <2>2. p.overlap <= Overlap(baseline[n], baseline[n]) /\ Overlap(baseline[n], baseline[n]) \in Nat
    BY <1>4, <2>1, OverlapBounds
  <2>3. p.how = "exact"
    BY <1>4, <2>1, <2>2 DEF Content
  <2>4. baseline[p.base] = baseline[p.cand] /\ p.base \in BaseTrace /\ p.cand \in BaseTrace
    BY <2>1, <2>3 DEF Described
  <2>5. \A b \in BaseTrace : baseline[b] = baseline[p.base] => b = p.base
    BY StableOneToOne
  <2> QED BY <1>4, <2>4, <2>5
<1> QED BY <1>2, <1>3, <1>4

\* If no shape repeats, that is a stable pairing.
LEMMA ItselfStable ==
    ASSUME BaseTrace = CandTrace, baseline = candidate,
           \A m, n \in Described(BaseTrace, baseline) : baseline[m] = baseline[n] => m = n
    PROVE  LET pairs == {Verdict!Match(n, n) : n \in Described(BaseTrace, baseline)}
           IN  pairs \in SUBSET Verdict!Matches /\ Verdict!StablePairing(pairs)
<1> DEFINE traces == Described(BaseTrace, baseline)
           pairs == {Verdict!Match(n, n) : n \in traces}
<1>1. \A n : /\ Verdict!Match(n, n).base = n /\ Verdict!Match(n, n).cand = n
             /\ Verdict!Match(n, n).how = "exact"
             /\ Verdict!Match(n, n).overlap = Overlap(baseline[n], baseline[n])
  BY DEF Verdict!Match, Verdict!Score
<1>2. traces = Described(CandTrace, candidate)
  BY DEF Described
<1>3. pairs \in SUBSET Verdict!Matches
  BY <1>2, MatchFacts
<1>4. \A p \in pairs : /\ p.base = p.cand /\ p.base \in traces /\ p.how = "exact"
                       /\ p.overlap = Overlap(baseline[p.base], baseline[p.base])
  BY <1>1
<1>5. \A n \in traces : \E p \in pairs : p.base = n /\ p.cand = n
  BY <1>1
<1> HIDE DEF pairs
<1>6. Verdict!OneToOne(pairs)
  BY <1>4 DEF Verdict!OneToOne
<1>7. Verdict!RepeatsUnpaired(pairs)
  <2>1. ASSUME NEW p \in pairs, NEW b \in BaseTrace \ {p.base}
        PROVE  baseline[b] # baseline[p.base]
    BY <1>4 DEF Described
  <2> QED BY <1>4, <2>1 DEF Verdict!RepeatsUnpaired
<1>8. Verdict!NoBlockingPair(pairs)
  <2> SUFFICES ASSUME NEW b \in traces, NEW c \in traces, Verdict!BaseTempted(pairs, b, c)
               PROVE  \E p \in pairs : p.base = b /\ p.cand = c
    BY <1>2, ContractTerms DEF Verdict!NoBlockingPair
  <2>1. PICK p \in pairs : p.base = b /\ p.cand = b
    BY <1>5
  <2>2. /\ p.how = "exact" /\ p.overlap = Overlap(baseline[b], baseline[b])
        /\ Verdict!Tempted(Overlap(baseline[b], baseline[c]), p)
    BY <1>4, <2>1, ContractTerms DEF Verdict!BaseTempted
  <2>3. /\ Overlap(baseline[b], baseline[c]) <= Overlap(baseline[b], baseline[b])
        /\ Overlap(baseline[b], baseline[c]) \in Nat /\ Overlap(baseline[b], baseline[b]) \in Nat
    BY OverlapBounds
  <2> QED BY <2>2, <2>3 DEF Verdict!Tempted
<1> QED BY <1>3, <1>6, <1>7, <1>8 DEF Verdict!StablePairing, pairs

\* So Traces pairs every trace with itself, unless a shape repeats.
LEMMA ItselfReturned ==
    ASSUME IInv, BaseTrace = CandTrace, baseline = candidate
    PROVE  /\ status = "done" =>
                removed = {} /\ added = {} /\ \A p \in paired : p.base = p.cand
           /\ status = "ambiguous" =>
                \E m, n \in Described(BaseTrace, baseline) : m # n /\ baseline[m] = baseline[n]
<1>1. ASSUME status = "done"
      PROVE  removed = {} /\ added = {} /\ \A p \in paired : p.base = p.cand
  <2>1. paired \in SUBSET Verdict!Matches /\ Verdict!StablePairing(paired)
    BY <1>1, ReturnsStable
  <2>2. \A n \in Described(BaseTrace, baseline) : \E p \in paired : p.base = n /\ p.cand = n
    BY <2>1, StableWithItself
  <2>3. Described(CandTrace, candidate) = Described(BaseTrace, baseline)
    BY DEF Described
  <2>4. removed = {} /\ added = {}
    BY <1>1, <2>2, <2>3 DEF IInv, EachTraceOnce, Partition4, PairedBase, PairedCand
  <2>5. \A p \in paired : p.base \in Described(BaseTrace, baseline)
    BY <2>1, MatchFacts
  <2>6. \A p, q \in paired : p.base = q.base => p = q
    BY <2>1, StableOneToOne
  <2> QED BY <2>2, <2>4, <2>5, <2>6
<1>2. ASSUME status = "ambiguous",
             \A m, n \in Described(BaseTrace, baseline) : baseline[m] = baseline[n] => m = n
      PROVE  FALSE
  <2>1. \A pairs \in SUBSET Verdict!Matches : ~Verdict!StablePairing(pairs)
    BY <1>2 DEF IInv, Forced
  <2> QED BY <1>2, <2>1, ItselfStable
<1> QED BY <1>1, <1>2

-----------------------------------------------------------------------------
(* Theorems about the result *)

\* No two traces with the same root operations would both rather be paired.
THEOREM PairingStable == Spec => []NoBlockingPair
<1>1. IInv => NoBlockingPair
  BY ReturnsStable DEF NoBlockingPair, Verdict!StablePairing
<1> QED BY <1>1, Invariance, PTL

\* Traces of one snapshot that have the same shape are never paired.
THEOREM RepeatsNeverPaired == Spec => []RepeatsUnpaired
<1>1. IInv => RepeatsUnpaired
  BY ReturnsStable DEF RepeatsUnpaired, Verdict!StablePairing
<1> QED BY <1>1, Invariance, PTL

\* Snapshots whose scores are all distinct are never refused.
THEOREM RefusalsJustified == Spec => []AmbiguityNeedsTie
<1>1. IInv => AmbiguityNeedsTie
  BY ReturnsPairing DEF AmbiguityNeedsTie
<1> QED BY <1>1, Invariance, PTL
=============================================================================
