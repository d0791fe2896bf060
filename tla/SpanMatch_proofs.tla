--------------------------- MODULE SpanMatch_proofs ---------------------------
(***************************************************************************)
(* Proofs about SpanMatch for every pair of normalized traces: spans are   *)
(* paired at most once, the evidence of every pair is true, no operation   *)
(* is both removed and added, and a refusal has twins behind it.           *)
(***************************************************************************)
EXTENDS SpanMatch, FiniteSetTheorems, TLAPS

-----------------------------------------------------------------------------
(* Order within a group *)

\* What the proofs use of a normalized trace.
LEMMA TraceFacts ==
    ASSUME NEW t \in Traces
    PROVE  /\ IsFiniteSet(DOMAIN t) /\ DOMAIN t \subseteq Nat
           /\ \A i \in DOMAIN t : /\ t[i].start \in Nat /\ t[i].key \in Semantic
                                  /\ t[i].parent \in TopLevel \cup DOMAIN t
                                  /\ t[i].parent \notin TopLevel => t[i].parent \in Nat
<1>1. NormalizedTrace(t)
  BY SpanMatchAssumption
<1>2. t \in Seq([key : Semantic, parent : {Root, External} \cup Nat, start : Nat])
  BY <1>1 DEF NormalizedTrace
<1>3. Len(t) \in Nat /\ DOMAIN t = 1..Len(t)
  BY <1>2
<1>4. IsFiniteSet(DOMAIN t) /\ DOMAIN t \subseteq Nat
  BY <1>3, FS_Interval
<1>5. ASSUME NEW i \in DOMAIN t
      PROVE  /\ t[i].start \in Nat /\ t[i].key \in Semantic
             /\ t[i].parent \in TopLevel \cup DOMAIN t
             /\ t[i].parent \notin TopLevel => t[i].parent \in Nat
  <2>0. \A R : t \in Seq(R) => t[i] \in R
    BY <1>5
  <2>1. t[i] \in [key : Semantic, parent : {Root, External} \cup Nat, start : Nat]
    BY <1>2, <2>0
  <2>2. t[i].parent \in {Root, External} \cup 1..(i - 1)
    BY <1>1, <1>5 DEF NormalizedTrace
  <2>3. i \in 1..Len(t)
    BY <1>3, <1>5
  <2>4. 1..(i - 1) \subseteq 1..Len(t) /\ 1..(i - 1) \subseteq Nat
    BY <1>3, <2>3
  <2> QED BY <1>3, <2>1, <2>2, <2>4 DEF TopLevel
<1> QED BY <1>4, <1>5

\* In a group without duplicate start ranks a span is known by its place.
LEMMA PlaceInjective ==
    ASSUME NEW t \in Traces, NEW group \in SUBSET DOMAIN t, ~DuplicateStart(t, group),
           NEW x \in group, NEW y \in group, Place(t, group, x) = Place(t, group, y)
    PROVE  x = y
<1> DEFINE before(z) == {w \in group : t[w].start < t[z].start}
<1>1. IsFiniteSet(group) /\ \A z \in group : t[z].start \in Nat
  BY TraceFacts, FS_Subset
<1>2. ASSUME NEW u \in group, NEW v \in group, t[u].start < t[v].start
      PROVE  Place(t, group, u) # Place(t, group, v)
  <2>1. IsFiniteSet(before(v)) /\ before(u) \subseteq before(v)
    BY <1>1, <1>2, FS_Subset
  <2>2. u \in before(v) /\ u \notin before(u)
    BY <1>1, <1>2
  <2>3. Cardinality(before(u)) # Cardinality(before(v))
    BY <2>1, <2>2, FS_Subset
  <2> QED BY <2>3 DEF Place
<1> QED BY <1>1, <1>2 DEF DuplicateStart

\* Its places are the numbers below its size.
LEMMA PlaceOnto ==
    ASSUME NEW t \in Traces, NEW group \in SUBSET DOMAIN t, ~DuplicateStart(t, group)
    PROVE  /\ Cardinality(group) \in Nat
           /\ \A x \in group : Place(t, group, x) \in 0..(Cardinality(group) - 1)
           /\ \A n \in 0..(Cardinality(group) - 1) : \E x \in group : Place(t, group, x) = n
<1> DEFINE size == Cardinality(group)
           f == [x \in group |-> Place(t, group, x)]
<1>1. IsFiniteSet(group) /\ size \in Nat /\ \A z \in group : t[z].start \in Nat
  BY TraceFacts, FS_Subset, FS_CardinalityType
<1>2. ASSUME NEW x \in group PROVE Place(t, group, x) \in 0..(size - 1)
  <2> DEFINE before == {w \in group : t[w].start < t[x].start}
  <2>1. before \subseteq group /\ x \notin before
    BY <1>1
  <2>2. IsFiniteSet(before) /\ Cardinality(before) <= size /\ Cardinality(before) # size
    BY <1>1, <2>1, FS_Subset
  <2>3. Cardinality(before) \in Nat
    BY <2>2, FS_CardinalityType
  <2> QED BY <1>1, <2>2, <2>3 DEF Place
<1>3. f \in Injection(group, 0..(size - 1))
  BY <1>2, PlaceInjective DEF Injection, IsInjective
<1>4. 0 \in Int /\ size - 1 \in Int
  BY <1>1
<1>5. IsFiniteSet(0..(size - 1)) /\ Cardinality(0..(size - 1)) = size
  BY <1>1, <1>4, FS_Interval
<1>6. f \in Surjection(group, 0..(size - 1))
  BY <1>3, <1>5, FS_Injection
<1>7. \A n \in 0..(size - 1) : \E x \in group : f[x] = n
  BY <1>6 DEF Surjection
<1> QED BY <1>1, <1>2, <1>7

-----------------------------------------------------------------------------
(* Pairing within a group *)

\* Two pairs of a resolved group share both spans or neither.
LEMMA GroupOneToOne ==
    ASSUME base \in Traces, cand \in Traces,
           NEW B \in SUBSET DOMAIN base, NEW C \in SUBSET DOMAIN cand, ~Unresolved(B, C),
           NEW p \in GroupPairs(B, C), NEW q \in GroupPairs(B, C)
    PROVE  /\ p[1] \in B /\ p[2] \in C /\ p = <<p[1], p[2]>>
           /\ p[1] = q[1] <=> p[2] = q[2]
<1>1. ASSUME NEW r \in SameStart(B, C)
      PROVE  /\ r[1] \in B /\ r[2] \in C /\ r = <<r[1], r[2]>>
             /\ base[r[1]].start = cand[r[2]].start
             /\ \A x \in B : base[x].start = base[r[1]].start => x = r[1]
             /\ \A y \in C : cand[y].start = base[r[1]].start => y = r[2]
  BY DEF SameStart, AtStart
<1>2. ASSUME NEW r \in InOrder(B, C)
      PROVE  /\ r[1] \in RestBase(B, C) /\ r[2] \in RestCand(B, C) /\ r = <<r[1], r[2]>>
             /\ Place(base, RestBase(B, C), r[1]) = Place(cand, RestCand(B, C), r[2])
  BY DEF InOrder
<1>3. RestBase(B, C) \subseteq B /\ RestCand(B, C) \subseteq C
  BY DEF RestBase, RestCand
<1>4. p[1] \in B /\ p[2] \in C /\ p = <<p[1], p[2]>>
  BY <1>1, <1>2, <1>3 DEF GroupPairs
<1>5. CASE p \in SameStart(B, C) /\ q \in SameStart(B, C)
  BY <1>1, <1>4, <1>5
<1>6. CASE p \in InOrder(B, C) /\ q \in InOrder(B, C)
  <2>1. ~DuplicateStart(base, RestBase(B, C)) /\ ~DuplicateStart(cand, RestCand(B, C))
    BY <1>2, <1>6 DEF Unresolved
  <2> QED BY <1>2, <1>3, <1>4, <1>6, <2>1, PlaceInjective
<1>7. CASE p \in SameStart(B, C) /\ q \in InOrder(B, C)
  BY <1>2, <1>4, <1>7 DEF RestBase, RestCand
<1>8. CASE p \in InOrder(B, C) /\ q \in SameStart(B, C)
  BY <1>2, <1>4, <1>8 DEF RestBase, RestCand
<1> QED BY <1>4, <1>5, <1>6, <1>7, <1>8 DEF GroupPairs

\* A resolved group has unpaired spans on one side at most.
LEMMA GroupExhausted ==
    ASSUME base \in Traces, cand \in Traces,
           NEW B \in SUBSET DOMAIN base, NEW C \in SUBSET DOMAIN cand, ~Unresolved(B, C),
           NEW i \in B, NEW j \in C
    PROVE  \E p \in GroupPairs(B, C) : p[1] = i \/ p[2] = j
<1> DEFINE RB == RestBase(B, C)
           RC == RestCand(B, C)
<1> SUFFICES ASSUME i \in RB, j \in RC PROVE \E p \in InOrder(B, C) : p[1] = i \/ p[2] = j
  BY DEF RestBase, RestCand, GroupPairs
<1>1. RB \subseteq DOMAIN base /\ RC \subseteq DOMAIN cand
  BY DEF RestBase, RestCand
<1>2. ~DuplicateStart(base, RB) /\ ~DuplicateStart(cand, RC)
  BY DEF Unresolved
<1>3. /\ Cardinality(RB) \in Nat /\ Cardinality(RC) \in Nat
      /\ Place(base, RB, i) \in 0..(Cardinality(RB) - 1)
      /\ Place(cand, RC, j) \in 0..(Cardinality(RC) - 1)
      /\ \A n \in 0..(Cardinality(RB) - 1) : \E x \in RB : Place(base, RB, x) = n
      /\ \A n \in 0..(Cardinality(RC) - 1) : \E y \in RC : Place(cand, RC, y) = n
  BY <1>1, <1>2, PlaceOnto
<1>4. CASE Place(base, RB, i) <= Place(cand, RC, j)
  <2>1. PICK y \in RC : Place(cand, RC, y) = Place(base, RB, i)
    BY <1>3, <1>4
  <2>2. <<i, y>> \in InOrder(B, C) /\ <<i, y>>[1] = i
    BY <2>1 DEF InOrder
  <2> QED BY <2>2
<1>5. CASE ~(Place(base, RB, i) <= Place(cand, RC, j))
  <2>1. PICK x \in RB : Place(base, RB, x) = Place(cand, RC, j)
    BY <1>3, <1>5
  <2>2. <<x, j>> \in InOrder(B, C) /\ <<x, j>>[2] = j
    BY <2>1 DEF InOrder
  <2> QED BY <2>2
<1> QED BY <1>4, <1>5

\* A group that cannot be resolved has two spans with one key and start rank.
LEMMA UnresolvedHasTwins ==
    ASSUME NEW k, NEW B \in SUBSET DOMAIN base, NEW C \in SUBSET DOMAIN cand,
           \A i \in B : base[i].key = k, \A j \in C : cand[j].key = k, Unresolved(B, C)
    PROVE  Twins(base) \/ Twins(cand)
<1>1. RestBase(B, C) \subseteq B /\ RestCand(B, C) \subseteq C
  BY DEF RestBase, RestCand
<1> QED BY <1>1 DEF Unresolved, DuplicateStart, Twins

-----------------------------------------------------------------------------
(* The inductive invariant *)

OneToOne == \A p, q \in paired : p.base = q.base <=> p.cand = q.cand

OneOperation == \A p \in paired : base[p.base].key = cand[p.cand].key

\* Before the fallback pass every pair is parent-aware.
AwareOnly == status = "aware" => \A p \in paired : p.how = "aware"

\* After it no operation has unused spans on both sides.
Exhausted ==
    status = "leftovers" => \A i \in UnusedBase, j \in UnusedCand : base[i].key # cand[j].key

IInv ==
    /\ TypeOK /\ SpansOnce /\ OneToOne /\ OneOperation
    /\ AwareOnly /\ EvidenceTrue /\ Exhausted /\ NoFalseReplacement /\ AmbiguityNeedsTwins

\* The pairs a pass forms.
AwarePairs == UNION {GroupPairs(AwareBase(g), AwareCand(g)) : g \in AwareGroups}
KeyPairs == UNION {GroupPairs(KeyBase(k), KeyCand(k)) : k \in KeyGroups}

\* Pairs of one pass are pairs of unused spans of one operation, each used once.
Fresh(pairs) ==
    /\ pairs \subseteq UnusedBase \X UnusedCand
    /\ \A p \in pairs : base[p[1]].key = cand[p[2]].key
    /\ \A p, q \in pairs : p[1] = q[1] <=> p[2] = q[2]

\* Adding such pairs to the result keeps it one-to-one.
LEMMA FreshPairs ==
    ASSUME TypeOK, OneToOne, OneOperation, NEW pairs, Fresh(pairs),
           NEW how \in {"aware", "fallback"}, paired' = paired \cup Evidence(pairs, how),
           UNCHANGED inputs
    PROVE  /\ paired' \subseteq [base : DOMAIN base, cand : DOMAIN cand,
                                  how : {"aware", "fallback"}]
           /\ OneToOne' /\ OneOperation'
<1>1. ASSUME NEW e \in Evidence(pairs, how)
      PROVE  /\ e \in [base : DOMAIN base, cand : DOMAIN cand, how : {"aware", "fallback"}]
             /\ <<e.base, e.cand>> \in pairs
             /\ \A p \in paired : p.base # e.base /\ p.cand # e.cand
  <2>1. PICK p \in pairs : e = [base |-> p[1], cand |-> p[2], how |-> how]
    BY <1>1 DEF Evidence
  <2>2. p \in UnusedBase \X UnusedCand
    BY DEF Fresh
  <2> QED BY <2>1, <2>2 DEF UnusedBase, UnusedCand
<1>2. paired' \subseteq [base : DOMAIN base, cand : DOMAIN cand, how : {"aware", "fallback"}]
  BY <1>1 DEF TypeOK
<1>3. OneToOne'
  <2>1. ASSUME NEW d \in Evidence(pairs, how), NEW e \in Evidence(pairs, how)
        PROVE  d.base = e.base <=> d.cand = e.cand
    <3>1. <<d.base, d.cand>> \in pairs /\ <<e.base, e.cand>> \in pairs
      BY <1>1
    <3>2. \A p, q \in pairs : p[1] = q[1] <=> p[2] = q[2]
      BY DEF Fresh
    <3> QED BY <3>1, <3>2
  <2> QED BY <1>1, <2>1 DEF OneToOne
<1>4. OneOperation'
  <2>1. ASSUME NEW e \in Evidence(pairs, how) PROVE base[e.base].key = cand[e.cand].key
    <3>1. <<e.base, e.cand>> \in pairs
      BY <1>1
    <3>2. \A p \in pairs : base[p[1]].key = cand[p[2]].key
      BY DEF Fresh
    <3> QED BY <3>1, <3>2
  <2> QED BY <2>1 DEF OneOperation, inputs
<1> QED BY <1>2, <1>3, <1>4

\* A span has one context at most: its top-level relation or its parent's pair.
LEMMA ContextFacts ==
    ASSUME TypeOK, OneToOne
    PROVE  /\ \A i \in DOMAIN base : \A c \in BaseContext(i) :
                /\ c = base[i].parent
                /\ c \notin TopLevel => \E q \in paired : q.base = c
           /\ \A j \in DOMAIN cand : \A c \in CandContext(j) :
                \/ c \in TopLevel /\ cand[j].parent = c
                \/ c \notin TopLevel /\ \E q \in paired : q.base = c /\ q.cand = cand[j].parent
           /\ \A j \in DOMAIN cand : \A c, d \in CandContext(j) : c = d
           /\ \A q \in paired : q.base \notin TopLevel /\ q.cand \notin TopLevel
<1>1. \A q \in paired : q.base \notin TopLevel /\ q.cand \notin TopLevel
  BY TraceFacts, SpanMatchAssumption DEF TypeOK, TopLevel
<1> QED BY <1>1 DEF BaseContext, CandContext, OneToOne

\* The pairs of a parent-aware pass are fresh and attached alike.
LEMMA AwareFacts ==
    ASSUME TypeOK, OneToOne, AwareOnly, status = "aware",
           \A g \in AwareGroups : ~Unresolved(AwareBase(g), AwareCand(g))
    PROVE  /\ Fresh(AwarePairs)
           /\ \A p \in AwarePairs : AttachedAlike(p[1], p[2])
<1>1. ASSUME NEW g \in AwareGroups, NEW p \in GroupPairs(AwareBase(g), AwareCand(g))
      PROVE  /\ p[1] \in AwareBase(g) /\ p[2] \in AwareCand(g) /\ p = <<p[1], p[2]>>
             /\ \A q \in GroupPairs(AwareBase(g), AwareCand(g)) : p[1] = q[1] <=> p[2] = q[2]
  <2>1. /\ AwareBase(g) \in SUBSET DOMAIN base /\ AwareCand(g) \in SUBSET DOMAIN cand
        /\ ~Unresolved(AwareBase(g), AwareCand(g))
    BY DEF AwareBase, AwareCand, UnusedBase, UnusedCand
  <2> QED BY <2>1, GroupOneToOne DEF TypeOK
<1>2. ASSUME NEW p \in AwarePairs
      PROVE  p \in UnusedBase \X UnusedCand /\ base[p[1]].key = cand[p[2]].key
  <2>1. PICK g \in AwareGroups : p \in GroupPairs(AwareBase(g), AwareCand(g))
    BY DEF AwarePairs
  <2>2. p[1] \in AwareBase(g) /\ p[2] \in AwareCand(g) /\ p = <<p[1], p[2]>>
    BY <1>1, <2>1
  <2> QED BY <2>2 DEF AwareBase, AwareCand
<1>3. ASSUME NEW p \in AwarePairs, NEW q \in AwarePairs PROVE p[1] = q[1] <=> p[2] = q[2]
  <2>1. PICK g \in AwareGroups : p \in GroupPairs(AwareBase(g), AwareCand(g))
    BY DEF AwarePairs
  <2>2. PICK h \in AwareGroups : q \in GroupPairs(AwareBase(h), AwareCand(h))
    BY DEF AwarePairs
  <2>3. g = <<g[1], g[2]>> /\ h = <<h[1], h[2]>>
    BY DEF AwareGroups
  <2>4. /\ p[1] \in AwareBase(g) /\ p[2] \in AwareCand(g)
        /\ q[1] \in AwareBase(h) /\ q[2] \in AwareCand(h)
    BY <1>1, <2>1, <2>2
  <2>5. p[1] = q[1] => g[1] = h[1] /\ g[2] = h[2]
    BY <2>4, ContextFacts DEF AwareBase, UnusedBase
  <2>6. p[2] = q[2] => g[1] = h[1] /\ g[2] = h[2]
    BY <2>4, ContextFacts DEF AwareCand, UnusedCand
  <2>7. CASE g = h
    BY <1>1, <2>1, <2>2, <2>7
  <2>8. CASE g # h
    BY <2>3, <2>5, <2>6, <2>8
  <2> QED BY <2>7, <2>8
<1>4. ASSUME NEW p \in AwarePairs PROVE AttachedAlike(p[1], p[2])
  <2>1. PICK g \in AwareGroups : p \in GroupPairs(AwareBase(g), AwareCand(g))
    BY DEF AwarePairs
  <2>2. /\ p[1] \in DOMAIN base /\ g[1] \in BaseContext(p[1])
        /\ p[2] \in DOMAIN cand /\ g[1] \in CandContext(p[2])
    BY <1>1, <2>1 DEF AwareBase, AwareCand, UnusedBase, UnusedCand
  <2>3. g[1] = base[p[1]].parent
    BY <2>2, ContextFacts
  <2>4. CASE g[1] \in TopLevel
    BY <2>2, <2>3, <2>4, ContextFacts DEF AttachedAlike
  <2>5. CASE g[1] \notin TopLevel
    <3>1. PICK q \in paired : q.base = g[1] /\ q.cand = cand[p[2]].parent
      BY <2>2, <2>5, ContextFacts
    <3>2. q.how = "aware"
      BY DEF AwareOnly
    <3> QED BY <2>3, <3>1, <3>2 DEF AttachedAlike
  <2> QED BY <2>4, <2>5
<1> QED BY <1>2, <1>3, <1>4 DEF Fresh

\* When no parent-aware group is left, the pairs of the fallback pass are
\* fresh, not attached alike, and leave no operation unused on both sides.
LEMMA FallbackFacts ==
    ASSUME TypeOK, OneToOne, AwareGroups = {},
           \A k \in KeyGroups : ~Unresolved(KeyBase(k), KeyCand(k))
    PROVE  /\ Fresh(KeyPairs)
           /\ \A p \in KeyPairs : ~AttachedAlike(p[1], p[2])
           /\ \A i \in UnusedBase, j \in UnusedCand :
                base[i].key = cand[j].key => \E p \in KeyPairs : p[1] = i \/ p[2] = j
<1>1. ASSUME NEW k \in KeyGroups
      PROVE  /\ \A p \in GroupPairs(KeyBase(k), KeyCand(k)) :
                  p[1] \in KeyBase(k) /\ p[2] \in KeyCand(k) /\ p = <<p[1], p[2]>>
             /\ \A p, q \in GroupPairs(KeyBase(k), KeyCand(k)) : p[1] = q[1] <=> p[2] = q[2]
             /\ \A i \in KeyBase(k), j \in KeyCand(k) :
                  \E p \in GroupPairs(KeyBase(k), KeyCand(k)) : p[1] = i \/ p[2] = j
  <2>1. /\ KeyBase(k) \in SUBSET DOMAIN base /\ KeyCand(k) \in SUBSET DOMAIN cand
        /\ ~Unresolved(KeyBase(k), KeyCand(k))
    BY DEF KeyBase, KeyCand, UnusedBase, UnusedCand
  <2> QED BY <2>1, GroupOneToOne, GroupExhausted DEF TypeOK
<1>2. ASSUME NEW p \in KeyPairs
      PROVE  p \in UnusedBase \X UnusedCand /\ base[p[1]].key = cand[p[2]].key
  <2>1. PICK k \in KeyGroups : p \in GroupPairs(KeyBase(k), KeyCand(k))
    BY DEF KeyPairs
  <2>2. p[1] \in KeyBase(k) /\ p[2] \in KeyCand(k) /\ p = <<p[1], p[2]>>
    BY <1>1, <2>1
  <2> QED BY <2>2 DEF KeyBase, KeyCand
<1>3. ASSUME NEW p \in KeyPairs, NEW q \in KeyPairs PROVE p[1] = q[1] <=> p[2] = q[2]
  <2>1. PICK k \in KeyGroups : p \in GroupPairs(KeyBase(k), KeyCand(k))
    BY DEF KeyPairs
  <2>2. PICK l \in KeyGroups : q \in GroupPairs(KeyBase(l), KeyCand(l))
    BY DEF KeyPairs
  <2>3. /\ p[1] \in KeyBase(k) /\ p[2] \in KeyCand(k)
        /\ q[1] \in KeyBase(l) /\ q[2] \in KeyCand(l)
    BY <1>1, <2>1, <2>2
  <2>4. p[1] = q[1] \/ p[2] = q[2] => k = l
    BY <2>3 DEF KeyBase, KeyCand
  <2> QED BY <1>1, <2>1, <2>2, <2>4
<1>4. ASSUME NEW p \in KeyPairs, AttachedAlike(p[1], p[2]) PROVE FALSE
  <2>1. p[1] \in UnusedBase /\ p[2] \in UnusedCand /\ base[p[1]].key = cand[p[2]].key
    BY <1>2
  <2>2. p[1] \in DOMAIN base /\ base[p[1]].key \in Semantic
    BY <2>1, TraceFacts DEF UnusedBase, TypeOK
  <2>3. \E c \in TopLevel \cup DOMAIN base : c \in BaseContext(p[1]) /\ c \in CandContext(p[2])
    <3>1. CASE base[p[1]].parent \in TopLevel /\ cand[p[2]].parent = base[p[1]].parent
      BY <3>1 DEF BaseContext, CandContext
    <3>2. CASE \E q \in paired : q.base = base[p[1]].parent /\ q.cand = cand[p[2]].parent
      <4>1. PICK q \in paired : q.base = base[p[1]].parent /\ q.cand = cand[p[2]].parent
        BY <3>2
      <4>2. q.base \notin TopLevel /\ q.cand \notin TopLevel /\ q.base \in DOMAIN base
        BY ContextFacts DEF TypeOK
      <4> QED BY <4>1, <4>2 DEF BaseContext, CandContext
    <3> QED BY <1>4, <3>1, <3>2 DEF AttachedAlike
  <2>4. PICK c \in TopLevel \cup DOMAIN base : c \in BaseContext(p[1]) /\ c \in CandContext(p[2])
    BY <2>3
  <2>5. <<c, base[p[1]].key>> \in AwareGroups
    BY <2>1, <2>2, <2>4 DEF AwareGroups, AwareBase, AwareCand
  <2> QED BY <2>5
<1>5. ASSUME NEW i \in UnusedBase, NEW j \in UnusedCand, base[i].key = cand[j].key
      PROVE  \E p \in KeyPairs : p[1] = i \/ p[2] = j
  <2> DEFINE k == base[i].key
  <2>1. i \in KeyBase(k) /\ j \in KeyCand(k)
    BY <1>5 DEF KeyBase, KeyCand
  <2>2. i \in DOMAIN base /\ k \in Semantic
    BY TraceFacts DEF UnusedBase, TypeOK
  <2>3. k \in KeyGroups
    BY <2>1, <2>2 DEF KeyGroups
  <2> QED BY <1>1, <2>1, <2>3 DEF KeyPairs
<1> QED BY <1>2, <1>3, <1>4, <1>5 DEF Fresh

-----------------------------------------------------------------------------
(* Every step keeps the invariant *)

LEMMA AwareStep == IInv /\ AwarePass => IInv'
<1> SUFFICES ASSUME IInv, AwarePass PROVE IInv'
  OBVIOUS
<1> USE DEF IInv
<1>1. /\ status = "aware" /\ status' = "aware" /\ UNCHANGED inputs
      /\ paired' = paired \cup Evidence(AwarePairs, "aware")
      /\ UNCHANGED <<added, removed>>
  BY DEF AwarePass, AwarePairs
<1>2. Fresh(AwarePairs) /\ \A p \in AwarePairs : AttachedAlike(p[1], p[2])
  BY <1>1, AwareFacts DEF AwarePass
<1>3. /\ paired' \subseteq [base : DOMAIN base, cand : DOMAIN cand, how : {"aware", "fallback"}]
      /\ OneToOne' /\ OneOperation'
  BY <1>1, <1>2, FreshPairs
<1>4. TypeOK'
  BY <1>1, <1>3 DEF TypeOK, inputs
<1>5. SpansOnce'
  BY <1>1, <1>3 DEF SpansOnce, OneToOne, OneOperation
<1>6. \A p \in paired' : p.how = "aware"
  BY <1>1 DEF AwareOnly, Evidence
<1>7. EvidenceTrue'
  <2>1. \A i, j : AttachedAlike(i, j) => AttachedAlike(i, j)'
    BY <1>1 DEF AttachedAlike, inputs
  <2>2. \A p \in paired : AttachedAlike(p.base, p.cand)
    BY <1>1 DEF EvidenceTrue, AwareOnly
  <2>3. ASSUME NEW e \in Evidence(AwarePairs, "aware") PROVE AttachedAlike(e.base, e.cand)
    BY <1>2 DEF Evidence
  <2>4. ASSUME NEW e \in paired' PROVE AttachedAlike(e.base, e.cand)'
    BY <1>1, <2>1, <2>2, <2>3
  <2> QED BY <1>6, <2>4 DEF EvidenceTrue
<1>8. AwareOnly' /\ Exhausted' /\ NoFalseReplacement' /\ AmbiguityNeedsTwins'
  BY <1>1, <1>6 DEF AwareOnly, Exhausted, NoFalseReplacement, AmbiguityNeedsTwins
<1> QED BY <1>3, <1>4, <1>5, <1>7, <1>8

LEMMA FallbackStep == IInv /\ FallbackPass => IInv'
<1> SUFFICES ASSUME IInv, FallbackPass PROVE IInv'
  OBVIOUS
<1> USE DEF IInv
<1>1. /\ status = "aware" /\ status' = "leftovers" /\ UNCHANGED inputs
      /\ paired' = paired \cup Evidence(KeyPairs, "fallback")
      /\ UNCHANGED <<added, removed>>
  BY DEF FallbackPass, KeyPairs
<1>2. /\ Fresh(KeyPairs) /\ \A p \in KeyPairs : ~AttachedAlike(p[1], p[2])
      /\ \A i \in UnusedBase, j \in UnusedCand :
           base[i].key = cand[j].key => \E p \in KeyPairs : p[1] = i \/ p[2] = j
  BY FallbackFacts DEF FallbackPass
<1>3. /\ paired' \subseteq [base : DOMAIN base, cand : DOMAIN cand, how : {"aware", "fallback"}]
      /\ OneToOne' /\ OneOperation'
  BY <1>1, <1>2, FreshPairs
<1>4. TypeOK'
  BY <1>1, <1>3 DEF TypeOK, inputs
<1>5. SpansOnce'
  BY <1>1, <1>3 DEF SpansOnce, OneToOne, OneOperation
<1>6. EvidenceTrue'
  <2>1. ASSUME NEW e \in Evidence(KeyPairs, "fallback")
        PROVE  e.how = "fallback" /\ ~AttachedAlike(e.base, e.cand)
    BY <1>2 DEF Evidence
  <2>2. \A i, j : AttachedAlike(i, j)' <=> AttachedAlike(i, j)
    BY <1>1, <2>1 DEF AttachedAlike, inputs
  <2>3. ASSUME NEW e \in paired' PROVE e.how = "aware" <=> AttachedAlike(e.base, e.cand)
    BY <1>1, <2>1 DEF EvidenceTrue
  <2> QED BY <2>2, <2>3 DEF EvidenceTrue
<1>7. Exhausted'
  <2>1. ASSUME NEW i \in UnusedBase', NEW j \in UnusedCand', base[i].key = cand[j].key
        PROVE  FALSE
    <3>1. i \in UnusedBase /\ j \in UnusedCand
      BY <1>1 DEF UnusedBase, UnusedCand, inputs
    <3>2. PICK p \in KeyPairs : p[1] = i \/ p[2] = j
      BY <1>2, <2>1, <3>1
    <3>3. [base |-> p[1], cand |-> p[2], how |-> "fallback"] \in paired'
      BY <1>1 DEF Evidence
    <3> QED BY <3>2, <3>3 DEF UnusedBase, UnusedCand
  <2> QED BY <1>1, <2>1 DEF Exhausted, inputs
<1>8. AwareOnly' /\ NoFalseReplacement' /\ AmbiguityNeedsTwins'
  BY <1>1 DEF AwareOnly, NoFalseReplacement, AmbiguityNeedsTwins
<1> QED BY <1>3, <1>4, <1>5, <1>6, <1>7, <1>8

LEMMA LeftoversStep == IInv /\ Leftovers => IInv'
<1> SUFFICES ASSUME IInv, Leftovers PROVE IInv'
  OBVIOUS
<1> USE DEF IInv
<1>1. /\ status = "leftovers" /\ status' = "done" /\ UNCHANGED <<inputs, paired>>
      /\ removed' = UnusedBase /\ added' = UnusedCand
  BY DEF Leftovers
<1>2. TypeOK'
  BY <1>1 DEF TypeOK, inputs, UnusedBase, UnusedCand
<1>3. SpansOnce'
  BY <1>1 DEF SpansOnce, inputs, UnusedBase, UnusedCand
<1>4. OneToOne' /\ OneOperation' /\ EvidenceTrue'
  BY <1>1 DEF OneToOne, OneOperation, EvidenceTrue, AttachedAlike, inputs
<1>5. NoFalseReplacement'
  BY <1>1 DEF NoFalseReplacement, Exhausted, inputs
<1>6. AwareOnly' /\ Exhausted' /\ AmbiguityNeedsTwins'
  BY <1>1 DEF AwareOnly, Exhausted, AmbiguityNeedsTwins
<1> QED BY <1>2, <1>3, <1>4, <1>5, <1>6

LEMMA AmbiguousStep == IInv /\ Ambiguous => IInv'
<1> SUFFICES ASSUME IInv, Ambiguous PROVE IInv'
  OBVIOUS
<1> USE DEF IInv
<1>1. /\ status = "aware" /\ status' = "ambiguous" /\ paired' = {}
      /\ UNCHANGED <<inputs, added, removed>>
  BY DEF Ambiguous
<1>2. Twins(base) \/ Twins(cand)
  <2>1. CASE \E g \in AwareGroups : Unresolved(AwareBase(g), AwareCand(g))
    <3>1. PICK g \in AwareGroups : Unresolved(AwareBase(g), AwareCand(g))
      BY <2>1
    <3>2. /\ AwareBase(g) \in SUBSET DOMAIN base /\ \A i \in AwareBase(g) : base[i].key = g[2]
          /\ AwareCand(g) \in SUBSET DOMAIN cand /\ \A j \in AwareCand(g) : cand[j].key = g[2]
      BY DEF AwareBase, AwareCand, UnusedBase, UnusedCand
    <3> QED BY <3>1, <3>2, UnresolvedHasTwins
  <2>2. CASE \E k \in KeyGroups : Unresolved(KeyBase(k), KeyCand(k))
    <3>1. PICK k \in KeyGroups : Unresolved(KeyBase(k), KeyCand(k))
      BY <2>2
    <3>2. /\ KeyBase(k) \in SUBSET DOMAIN base /\ \A i \in KeyBase(k) : base[i].key = k
          /\ KeyCand(k) \in SUBSET DOMAIN cand /\ \A j \in KeyCand(k) : cand[j].key = k
      BY DEF KeyBase, KeyCand, UnusedBase, UnusedCand
    <3> QED BY <3>1, <3>2, UnresolvedHasTwins
  <2> QED BY <2>1, <2>2 DEF Ambiguous
<1>3. TypeOK' /\ SpansOnce' /\ AmbiguityNeedsTwins'
  BY <1>1, <1>2 DEF TypeOK, SpansOnce, AmbiguityNeedsTwins, Twins, inputs
<1>4. OneToOne' /\ OneOperation' /\ AwareOnly' /\ EvidenceTrue' /\ Exhausted' /\ NoFalseReplacement'
  BY <1>1 DEF OneToOne, OneOperation, AwareOnly, EvidenceTrue, Exhausted, NoFalseReplacement
<1> QED BY <1>3, <1>4

-----------------------------------------------------------------------------
(* The order of siblings *)

\* Places grow with start ranks.
LEMMA PlaceMonotone ==
    ASSUME NEW t \in Traces, NEW group \in SUBSET DOMAIN t, NEW x \in group, NEW y \in group
    PROVE  /\ Place(t, group, x) \in Nat /\ Place(t, group, y) \in Nat
           /\ t[x].start < t[y].start => Place(t, group, x) < Place(t, group, y)
           /\ t[x].start = t[y].start => Place(t, group, x) = Place(t, group, y)
<1> DEFINE before(z) == {w \in group : t[w].start < t[z].start}
<1>1. IsFiniteSet(group) /\ \A z \in group : t[z].start \in Nat
  BY TraceFacts, FS_Subset
<1>2. /\ IsFiniteSet(before(x)) /\ Cardinality(before(x)) \in Nat
      /\ IsFiniteSet(before(y)) /\ Cardinality(before(y)) \in Nat
  BY <1>1, FS_Subset, FS_CardinalityType
<1>3. ASSUME t[x].start < t[y].start PROVE Cardinality(before(x)) < Cardinality(before(y))
  <2>1. before(x) \subseteq before(y) /\ x \in before(y) /\ x \notin before(x)
    BY <1>1, <1>3
  <2>2. /\ Cardinality(before(x)) <= Cardinality(before(y))
        /\ Cardinality(before(x)) # Cardinality(before(y))
    BY <1>2, <2>1, FS_Subset
  <2> QED BY <1>2, <2>2
<1> QED BY <1>2, <1>3 DEF Place

\* Of two pairs of a resolved group that did not keep their start ranks, the
\* earlier span is paired with the earlier one.
LEMMA GroupOrder ==
    ASSUME base \in Traces, cand \in Traces,
           NEW B \in SUBSET DOMAIN base, NEW C \in SUBSET DOMAIN cand,
           NEW p \in GroupPairs(B, C), NEW q \in GroupPairs(B, C),
           base[p[1]].start # cand[p[2]].start, base[q[1]].start # cand[q[2]].start,
           base[p[1]].start < base[q[1]].start
    PROVE  cand[p[2]].start < cand[q[2]].start
<1> DEFINE RB == RestBase(B, C)
           RC == RestCand(B, C)
<1>1. RB \subseteq DOMAIN base /\ RC \subseteq DOMAIN cand
  BY DEF RestBase, RestCand
<1>2. \A r \in SameStart(B, C) : base[r[1]].start = cand[r[2]].start
  BY DEF SameStart, AtStart
<1>3. /\ p[1] \in RB /\ p[2] \in RC /\ Place(base, RB, p[1]) = Place(cand, RC, p[2])
      /\ q[1] \in RB /\ q[2] \in RC /\ Place(base, RB, q[1]) = Place(cand, RC, q[2])
  BY <1>2 DEF GroupPairs, InOrder
<1>4. Place(base, RB, p[1]) < Place(base, RB, q[1])
  BY <1>1, <1>3, PlaceMonotone
<1>5. cand[p[2]].start \in Nat /\ cand[q[2]].start \in Nat
  BY <1>1, <1>3, TraceFacts
<1>6. /\ Place(cand, RC, p[2]) \in Nat /\ Place(cand, RC, q[2]) \in Nat
      /\ cand[q[2]].start < cand[p[2]].start => Place(cand, RC, q[2]) < Place(cand, RC, p[2])
      /\ cand[q[2]].start = cand[p[2]].start => Place(cand, RC, q[2]) = Place(cand, RC, p[2])
  BY <1>1, <1>3, PlaceMonotone
<1> QED BY <1>3, <1>4, <1>5, <1>6

\* A group that has given a parent-aware pair is used up on one side for good:
\* no later pass can pair spans of it around the earlier ones.
Spent ==
    \A p \in paired, i \in UnusedBase, j \in UnusedCand :
        /\ p.how = "aware"
        /\ base[i].key = base[p.base].key /\ cand[j].key = base[p.base].key
        /\ base[i].parent = base[p.base].parent
        => cand[j].parent # cand[p.cand].parent

\* Of two spans below one parent that are attached like their counterparts, the
\* counterparts are below one parent, too.
LEMMA AlikeTogether ==
    ASSUME TypeOK, OneToOne,
           NEW i, NEW j, NEW k, NEW l, AttachedAlike(i, j), AttachedAlike(k, l),
           base[i].parent = base[k].parent
    PROVE  cand[j].parent = cand[l].parent
<1>1. \A q \in paired : q.base \notin TopLevel
  BY ContextFacts
<1> QED BY <1>1 DEF AttachedAlike, OneToOne

LEMMA AwareSpends ==
    ASSUME IInv, Spent, OrderKept, AwarePass
    PROVE  Spent' /\ OrderKept'
<1> USE DEF IInv
<1>1. /\ status = "aware" /\ UNCHANGED inputs
      /\ paired' = paired \cup Evidence(AwarePairs, "aware")
      /\ \A g \in AwareGroups : ~Unresolved(AwareBase(g), AwareCand(g))
  BY DEF AwarePass, AwarePairs
<1>2. Fresh(AwarePairs) /\ \A p \in AwarePairs : AttachedAlike(p[1], p[2])
  BY <1>1, AwareFacts
<1>3. \A e \in Evidence(AwarePairs, "aware") : <<e.base, e.cand>> \in AwarePairs
  BY <1>2 DEF Evidence, Fresh
<1>4. ASSUME NEW r \in AwarePairs
      PROVE  \E g \in AwareGroups :
                /\ r \in GroupPairs(AwareBase(g), AwareCand(g))
                /\ r[1] \in AwareBase(g) /\ r[2] \in AwareCand(g)
                /\ g = <<base[r[1]].parent, base[r[1]].key>>
                /\ AwareBase(g) \in SUBSET DOMAIN base /\ AwareCand(g) \in SUBSET DOMAIN cand
  <2>1. PICK g \in AwareGroups : r \in GroupPairs(AwareBase(g), AwareCand(g))
    BY DEF AwarePairs
  <2>2. AwareBase(g) \in SUBSET DOMAIN base /\ AwareCand(g) \in SUBSET DOMAIN cand
    BY DEF AwareBase, AwareCand, UnusedBase, UnusedCand
  <2>3. r[1] \in AwareBase(g) /\ r[2] \in AwareCand(g)
    BY <1>1, <2>1, <2>2, GroupOneToOne DEF TypeOK
  <2>4. g[1] \in BaseContext(r[1]) /\ g[2] = base[r[1]].key /\ r[1] \in DOMAIN base
    BY <2>2, <2>3 DEF AwareBase
  <2>5. g = <<g[1], g[2]>>
    BY DEF AwareGroups
  <2> QED BY <2>1, <2>2, <2>3, <2>4, <2>5, ContextFacts
<1>5. UnusedBase' \subseteq UnusedBase /\ UnusedCand' \subseteq UnusedCand
  BY <1>1 DEF UnusedBase, UnusedCand, inputs
<1>6. ASSUME NEW p \in paired', NEW i \in UnusedBase', NEW j \in UnusedCand',
             p.how = "aware",
             base[i].key = base[p.base].key, cand[j].key = base[p.base].key,
             base[i].parent = base[p.base].parent, cand[j].parent = cand[p.cand].parent
      PROVE  FALSE
  <2>1. i \in UnusedBase /\ j \in UnusedCand
    BY <1>5
  <2>2. p \notin paired
    BY <1>6, <2>1 DEF Spent
  <2>3. <<p.base, p.cand>> \in AwarePairs
    BY <1>1, <1>3, <2>2
  <2> DEFINE r == <<p.base, p.cand>>
  <2>4. PICK g \in AwareGroups :
                /\ r[1] \in AwareBase(g) /\ r[2] \in AwareCand(g)
                /\ AwareBase(g) \in SUBSET DOMAIN base /\ AwareCand(g) \in SUBSET DOMAIN cand
    BY <1>4, <2>3
  <2>5. BaseContext(i) = BaseContext(p.base) /\ CandContext(j) = CandContext(p.cand)
    BY <1>6 DEF BaseContext, CandContext
  <2>6. i \in AwareBase(g) /\ j \in AwareCand(g)
    BY <1>6, <2>1, <2>4, <2>5 DEF AwareBase, AwareCand
  <2>7. PICK s \in GroupPairs(AwareBase(g), AwareCand(g)) : s[1] = i \/ s[2] = j
    BY <1>1, <2>4, <2>6, GroupExhausted DEF TypeOK
  <2>8. [base |-> s[1], cand |-> s[2], how |-> "aware"] \in paired'
    BY <1>1, <2>7 DEF Evidence, AwarePairs
  <2> QED BY <2>7, <2>8 DEF UnusedBase, UnusedCand
<1>7. Spent'
  BY <1>1, <1>6 DEF Spent, inputs
<1>8. ASSUME NEW e \in Evidence(AwarePairs, "aware")
      PROVE  /\ e.base \in UnusedBase /\ e.cand \in UnusedCand
             /\ AttachedAlike(e.base, e.cand) /\ base[e.base].key = cand[e.cand].key
  <2>1. <<e.base, e.cand>> \in AwarePairs
    BY <1>3
  <2> QED BY <1>2, <2>1 DEF Fresh
<1>9. ASSUME NEW p \in paired, NEW e \in Evidence(AwarePairs, "aware"),
             base[p.base].key = base[e.base].key, base[p.base].parent = base[e.base].parent
      PROVE  FALSE
  <2>1. p.how = "aware" /\ AttachedAlike(p.base, p.cand)
    BY <1>1 DEF AwareOnly, EvidenceTrue
  <2>2. cand[e.cand].parent = cand[p.cand].parent
    BY <1>8, <1>9, <2>1, AlikeTogether
  <2> QED BY <1>8, <1>9, <2>1, <2>2 DEF Spent
<1>10. ASSUME NEW p \in Evidence(AwarePairs, "aware"), NEW q \in Evidence(AwarePairs, "aware"),
              base[p.base].key = base[q.base].key, base[p.base].parent = base[q.base].parent,
              base[p.base].start # cand[p.cand].start, base[q.base].start # cand[q.cand].start,
              base[p.base].start < base[q.base].start
       PROVE  cand[p.cand].start < cand[q.cand].start
  <2> DEFINE r == <<p.base, p.cand>>
             s == <<q.base, q.cand>>
             g == <<base[p.base].parent, base[p.base].key>>
  <2>1. /\ r \in GroupPairs(AwareBase(g), AwareCand(g))
        /\ AwareBase(g) \in SUBSET DOMAIN base /\ AwareCand(g) \in SUBSET DOMAIN cand
    <3>1. r \in AwarePairs
      BY <1>3
    <3> QED BY <1>4, <3>1
  <2>2. s \in GroupPairs(AwareBase(g), AwareCand(g))
    <3>1. s \in AwarePairs
      BY <1>3
    <3>2. g = <<base[s[1]].parent, base[s[1]].key>>
      BY <1>10
    <3> QED BY <1>4, <3>1, <3>2
  <2>3. base \in Traces /\ cand \in Traces
    BY DEF TypeOK
  <2>4. /\ base[r[1]].start # cand[r[2]].start /\ base[s[1]].start # cand[s[2]].start
        /\ base[r[1]].start < base[s[1]].start
    BY <1>10
  <2>5. cand[r[2]].start < cand[s[2]].start
    BY <2>1, <2>2, <2>3, <2>4, GroupOrder
  <2> QED BY <2>5
<1>11. OrderKept'
  <2>1. base' = base /\ cand' = cand
    BY <1>1 DEF inputs
  <2> QED BY <1>1, <1>9, <1>10, <2>1 DEF OrderKept
<1> QED BY <1>7, <1>11

LEMMA OrderStep ==
    ASSUME IInv, Spent, OrderKept, [Next]_vars
    PROVE  Spent' /\ OrderKept'
<1>1. CASE AwarePass
  BY <1>1, AwareSpends
<1>2. CASE FallbackPass
  <2>1. /\ UNCHANGED inputs
        /\ paired \subseteq paired' /\ \A p \in paired' \ paired : p.how = "fallback"
    BY <1>2 DEF FallbackPass, Evidence
  <2>2. UnusedBase' \subseteq UnusedBase /\ UnusedCand' \subseteq UnusedCand
    BY <2>1 DEF UnusedBase, UnusedCand, inputs
  <2>3. \A p \in paired' : p.how = "aware" => p \in paired
    BY <2>1
  <2>4. Spent'
    BY <2>1, <2>2, <2>3 DEF Spent, inputs
  <2> QED BY <2>1, <2>3, <2>4 DEF OrderKept, inputs
<1>3. CASE Ambiguous
  BY <1>3 DEF Ambiguous, Spent, OrderKept
<1>4. CASE UNCHANGED <<inputs, paired>>
  BY <1>4 DEF Spent, OrderKept, UnusedBase, UnusedCand, inputs
<1> QED BY <1>1, <1>2, <1>3, <1>4 DEF Next, Leftovers, vars, inputs

-----------------------------------------------------------------------------
(* A trace against itself *)

\* Between traces of one structure every pair is of a span with itself.
Itself == base = cand => \A p \in paired : p.base = p.cand

LEMMA GroupWithItself ==
    ASSUME base \in Traces, base = cand, NEW B \in SUBSET DOMAIN base, ~Unresolved(B, B)
    PROVE  \A p \in GroupPairs(B, B) : p[1] = p[2]
<1> DEFINE RB == RestBase(B, B)
           RC == RestCand(B, B)
<1>1. \A p \in SameStart(B, B) : p[1] = p[2]
  BY DEF SameStart, AtStart
<1>2. RB = RC /\ RB \in SUBSET DOMAIN base
  BY <1>1 DEF RestBase, RestCand
<1>3. ASSUME NEW p \in InOrder(B, B) PROVE p[1] = p[2]
  <2>1. p[1] \in RB /\ p[2] \in RC /\ Place(base, RB, p[1]) = Place(cand, RC, p[2])
    BY DEF InOrder
  <2>2. ~DuplicateStart(base, RB)
    BY <1>2, <2>1 DEF Unresolved
  <2>3. p[2] \in RB /\ Place(base, RB, p[1]) = Place(base, RB, p[2])
    BY <1>2, <2>1
  <2> QED BY <1>2, <2>1, <2>2, <2>3, PlaceInjective
<1> QED BY <1>1, <1>3 DEF GroupPairs

\* The two sides of a group are then the same spans, in either phase.
LEMMA SidesEqual ==
    ASSUME TypeOK, Itself, base = cand
    PROVE  /\ UnusedBase = UnusedCand
           /\ \A g : AwareBase(g) = AwareCand(g) /\ AwareBase(g) \in SUBSET DOMAIN base
           /\ \A k : KeyBase(k) = KeyCand(k) /\ KeyBase(k) \in SUBSET DOMAIN base
<1>1. \A p \in paired : p.base = p.cand
  BY DEF Itself
<1>2. UnusedBase = UnusedCand /\ UnusedBase \subseteq DOMAIN base
  BY <1>1 DEF UnusedBase, UnusedCand
<1>3. \A i : BaseContext(i) = CandContext(i)
  BY <1>1 DEF BaseContext, CandContext
<1>4. \A g : AwareBase(g) = AwareCand(g) /\ AwareBase(g) \in SUBSET DOMAIN base
  BY <1>2, <1>3 DEF AwareBase, AwareCand
<1>5. \A k : KeyBase(k) = KeyCand(k) /\ KeyBase(k) \in SUBSET DOMAIN base
  BY <1>2 DEF KeyBase, KeyCand
<1> QED BY <1>2, <1>4, <1>5

LEMMA ItselfStep == ASSUME TypeOK, Itself, [Next]_vars PROVE Itself'
<1>1. base \in Traces
  BY DEF TypeOK
<1>2. base' = base /\ cand' = cand
  BY DEF Next, AwarePass, FallbackPass, Leftovers, Ambiguous, inputs, vars
<1> SUFFICES ASSUME base = cand PROVE \A p \in paired' : p.base = p.cand
  BY <1>2 DEF Itself
<1>3. \A p \in paired : p.base = p.cand
  BY DEF Itself
<1>4. ASSUME NEW pairs, NEW how, \A r \in pairs : r[1] = r[2],
             paired' = paired \cup Evidence(pairs, how)
      PROVE  \A p \in paired' : p.base = p.cand
  BY <1>3, <1>4 DEF Evidence
<1>5. CASE AwarePass
  <2>1. paired' = paired \cup Evidence(AwarePairs, "aware")
    BY <1>5 DEF AwarePass, AwarePairs
  <2>2. ASSUME NEW g \in AwareGroups
        PROVE  \A r \in GroupPairs(AwareBase(g), AwareCand(g)) : r[1] = r[2]
    <3>1. ~Unresolved(AwareBase(g), AwareCand(g))
      BY <1>5 DEF AwarePass
    <3>2. AwareBase(g) = AwareCand(g) /\ AwareBase(g) \in SUBSET DOMAIN base
      BY SidesEqual
    <3>3. ~Unresolved(AwareBase(g), AwareBase(g))
      BY <3>1, <3>2
    <3>4. \A r \in GroupPairs(AwareBase(g), AwareBase(g)) : r[1] = r[2]
      BY <1>1, <3>2, <3>3, GroupWithItself
    <3> QED BY <3>2, <3>4
  <2>3. \A r \in AwarePairs : r[1] = r[2]
    BY <2>2 DEF AwarePairs
  <2> QED BY <1>4, <2>1, <2>3
<1>6. CASE FallbackPass
  <2>1. paired' = paired \cup Evidence(KeyPairs, "fallback")
    BY <1>6 DEF FallbackPass, KeyPairs
  <2>2. ASSUME NEW k \in KeyGroups
        PROVE  \A r \in GroupPairs(KeyBase(k), KeyCand(k)) : r[1] = r[2]
    <3>1. ~Unresolved(KeyBase(k), KeyCand(k))
      BY <1>6 DEF FallbackPass
    <3>2. KeyBase(k) = KeyCand(k) /\ KeyBase(k) \in SUBSET DOMAIN base
      BY SidesEqual
    <3>3. ~Unresolved(KeyBase(k), KeyBase(k))
      BY <3>1, <3>2
    <3>4. \A r \in GroupPairs(KeyBase(k), KeyBase(k)) : r[1] = r[2]
      BY <1>1, <3>2, <3>3, GroupWithItself
    <3> QED BY <3>2, <3>4
  <2>3. \A r \in KeyPairs : r[1] = r[2]
    BY <2>2 DEF KeyPairs
  <2> QED BY <1>4, <2>1, <2>3
<1>7. CASE Leftovers \/ Ambiguous \/ UNCHANGED vars
  BY <1>3, <1>7 DEF Leftovers, Ambiguous, vars
<1> QED BY <1>5, <1>6, <1>7 DEF Next

\* So a result between them is complete, and only twins are refused.
LEMMA ItselfReturned ==
    ASSUME IInv, Itself, base = cand
    PROVE  /\ status = "done" => removed = {} /\ added = {}
           /\ status = "ambiguous" => Twins(base)
<1>1. status = "done" => removed = {} /\ added = {}
  <2> SUFFICES ASSUME status = "done" PROVE removed = {} /\ added = {}
    OBVIOUS
  <2>1. \A p \in paired : p.base = p.cand
    BY DEF Itself
  <2>2. removed = added
    BY <2>1 DEF IInv, SpansOnce
  <2>3. \A i \in removed, j \in added : base[i].key # cand[j].key
    BY DEF IInv, NoFalseReplacement
  <2> QED BY <2>2, <2>3
<1>2. status = "ambiguous" => Twins(base)
  BY DEF IInv, AmbiguityNeedsTwins
<1> QED BY <1>1, <1>2

-----------------------------------------------------------------------------
(* Theorems *)

\* Each step of pairSpans keeps the invariant.
LEMMA InvariantStep == ASSUME IInv, [Next]_vars PROVE IInv'
<1>1. CASE UNCHANGED vars
  BY <1>1 DEF vars, IInv, TypeOK, SpansOnce, OneToOne, OneOperation, AwareOnly, EvidenceTrue,
       AttachedAlike, Exhausted, UnusedBase, UnusedCand, NoFalseReplacement,
       AmbiguityNeedsTwins, Twins
<1> QED BY <1>1, AwareStep, FallbackStep, LeftoversStep, AmbiguousStep DEF Next

\* It also holds after a step that starts pairSpans on a pair of traces, where
\* SpanMatch is a part of a larger system.
LEMMA Started == ASSUME Init' PROVE IInv'
BY DEF Init, IInv, TypeOK, SpansOnce, OneToOne, OneOperation, AwareOnly, EvidenceTrue,
       Exhausted, NoFalseReplacement, AmbiguityNeedsTwins

\* IInv holds in every reachable state, for all traces of any size.
THEOREM Invariance == Spec => []IInv
<1>1. Init => IInv
  BY DEF Init, IInv, TypeOK, SpansOnce, OneToOne, OneOperation, AwareOnly, EvidenceTrue,
         Exhausted, NoFalseReplacement, AmbiguityNeedsTwins
<1>2. IInv /\ [Next]_vars => IInv'
  BY InvariantStep
<1> QED BY <1>1, <1>2, PTL DEF Spec

\* The state of pairSpans stays of its type, the result's indexes in range.
THEOREM TypeCorrect == Spec => []TypeOK
BY Invariance, PTL DEF IInv

\* Every span is paired once at most and reported once.
THEOREM SpansPartitioned == Spec => []SpansOnce
BY Invariance, PTL DEF IInv

\* Parent-aware pairs are attached alike, relationship changes are not.
THEOREM EvidenceJustified == Spec => []EvidenceTrue
BY Invariance, PTL DEF IInv

\* Siblings of one operation are not paired across each other.
THEOREM SiblingsInOrder == Spec => []OrderKept
<1>1. Init => Spent /\ OrderKept
  BY DEF Init, Spent, OrderKept
<1>2. IInv /\ Spent /\ OrderKept /\ [Next]_vars => Spent' /\ OrderKept'
  BY OrderStep
<1> QED BY <1>1, <1>2, Invariance, PTL DEF Spec

\* No operation is removed and added in one result.
THEOREM NoReplacement == Spec => []NoFalseReplacement
BY Invariance, PTL DEF IInv

\* Only twins make Spans refuse.
THEOREM RefusalsJustified == Spec => []AmbiguityNeedsTwins
BY Invariance, PTL DEF IInv
=============================================================================
