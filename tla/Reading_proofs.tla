---------------------------- MODULE Reading_proofs ----------------------------
(***************************************************************************)
(* Proofs about how a snapshot is read and normalized, for inputs of any   *)
(* size.                                                                   *)
(*                                                                         *)
(* Normalize.  A trace is rejected exactly when it is malformed: no group  *)
(* of visited spans is closed under taking the parent, and the stack is a  *)
(* chain of parents, so running into it is a real cycle.  A trace that is  *)
(* not rejected comes out unchanged but for names, as a preorder of its    *)
(* forest: the ways up from two spans part at one pair of siblings, so the *)
(* order of siblings extends to a strict total order of all spans, and a   *)
(* place in it is a bijection.                                             *)
(*                                                                         *)
(* Parser.  Every span that has been converted is named by its place in    *)
(* the file.  A list of traces gathers a set of places: each span is that  *)
(* of one place of the set, each trace has all of its own, in the order of *)
(* the file.  Converting a span adds its place to the document's set, and  *)
(* merging a trace adds the places of the trace to the snapshot's; in the  *)
(* end the set is that of all places.                                      *)
(***************************************************************************)
EXTENDS Normalize, Parser, SequenceTheorems, FiniteSetTheorems, WellFoundedInduction, TLAPS

-----------------------------------------------------------------------------
(* Normalize *)

Visited == {i \in Spans : mark[i] = "visited"}

\* The relations say what the identifiers say.
Linked ==
    \A i \in Spans :
        /\ link[i] \in Spans => spans[link[i]].id = spans[i].parent
        /\ link[i] \in TopLevel => \A j \in Spans : spans[j].id # spans[i].parent
        /\ link[i] = Root <=> spans[i].parent = NoId

\* A visited span's parent is visited, and no visited spans form a loop.
Settled == \A i \in Visited : link[i] \in TopLevel \cup Visited

NoLoop == \A S \in SUBSET Visited : S # {} => \E i \in S : link[i] \notin S

\* The stack is the chain of parents being visited, each of them once.
Chain ==
    /\ \A i \in Spans : mark[i] = "visiting" => \E k \in 1..Len(stack) : stack[k] = i
    /\ \A k \in 1..Len(stack) : mark[stack[k]] = "visiting"
    /\ \A k \in 1..Len(stack) : k < Len(stack) => link[stack[k]] = stack[k + 1]
    /\ \A k, l \in 1..Len(stack) : stack[k] = stack[l] => k = l

Walk == stage = "walk" => Linked /\ Settled /\ NoLoop /\ Chain

Fresh ==
    stage \in {"index", "build", "link"} =>
        stack = <<>> /\ \A i \in Spans : mark[i] = "unvisited"

Checked ==
    /\ stage \in {"build", "link", "walk"} => ~BadIds
    /\ stage \in {"link", "walk"} => ~BadDurations

IInv ==
    /\ TypeOK /\ Checked /\ Fresh /\ Walk /\ RejectedIfMalformed
    /\ SameTrace /\ MatcherReady

-----------------------------------------------------------------------------
LEMMA SpansAreNumbers ==
    ASSUME TypeOK
    PROVE  /\ Spans \subseteq Nat /\ Spans \cap TopLevel = {}
           /\ \A i \in Spans : link[i] \in TopLevel \/ link[i] \in Spans
           /\ \A i \in Spans : link[i] \notin TopLevel => link[i] \in Spans
<1>1. Spans \subseteq Nat
  BY DEF TypeOK, Spans
<1>2. Spans \cap TopLevel = {}
  BY <1>1, NormalizeAssumption DEF TopLevel
<1> QED BY <1>1, <1>2 DEF TypeOK

\* The innermost span of the walk.
LEMMA TopFacts ==
    ASSUME TypeOK, Walk, stage = "walk", stack # <<>>
    PROVE  Len(stack) \in 1..Len(stack) /\ Top \in Spans /\ mark[Top] = "visiting"
<1>1. Len(stack) \in 1..Len(stack) /\ Top \in Spans
  BY DEF TypeOK, Top
<1> QED BY <1>1 DEF Walk, Chain, Top

\* LinkOf resolves a parent by its identifier.
LEMMA LinkFacts ==
    ASSUME TypeOK, ~BadIds, NEW i \in Spans
    PROVE  /\ LinkOf(i) \in TopLevel \cup Spans
           /\ LinkOf(i) \in Spans => spans[LinkOf(i)].id = spans[i].parent
           /\ LinkOf(i) \in TopLevel => \A j \in Spans : spans[j].id # spans[i].parent
           /\ LinkOf(i) = Root <=> spans[i].parent = NoId
<1>1. Spans \cap TopLevel = {} /\ Root # External
  BY SpansAreNumbers, NormalizeAssumption
<1>2. CASE spans[i].parent = NoId
  <2>1. LinkOf(i) = Root
    BY <1>2 DEF LinkOf
  <2> QED BY <1>1, <1>2, <2>1 DEF TopLevel, BadIds
<1>3. CASE spans[i].parent # NoId /\ \A j \in Spans : spans[j].id # spans[i].parent
  <2>1. LinkOf(i) = External
    BY <1>3 DEF LinkOf
  <2> QED BY <1>1, <1>3, <2>1 DEF TopLevel
<1>4. CASE spans[i].parent # NoId /\ \E j \in Spans : spans[j].id = spans[i].parent
  <2>1. LinkOf(i) = CHOOSE j \in Spans : spans[j].id = spans[i].parent
    BY <1>4 DEF LinkOf
  <2>2. LinkOf(i) \in Spans /\ spans[LinkOf(i)].id = spans[i].parent
    BY <1>4, <2>1
  <2> QED BY <1>1, <1>4, <2>2 DEF TopLevel
<1> QED BY <1>2, <1>3, <1>4

\* A span with a settled parent can be settled: it closes no loop.
LEMMA SettleKeepsNoLoop ==
    ASSUME TypeOK, Settled, NoLoop, NEW t \in Spans, mark[t] = "visiting",
           link[t] \notin TopLevel => mark[link[t]] = "visited",
           NEW S \in SUBSET (Visited \cup {t}), S # {}
    PROVE  \E i \in S : link[i] \notin S
<1>1. CASE t \notin S
  BY <1>1 DEF NoLoop
<1>2. CASE t \in S /\ link[t] \notin S
  BY <1>2
<1>3. CASE t \in S /\ link[t] \in S
  <2>1. S \subseteq Spans /\ link[t] \notin TopLevel
    BY <1>3, SpansAreNumbers DEF Visited
  <2>2. link[t] # t
    BY <2>1
  <2>3. S \ {t} \in SUBSET Visited /\ S \ {t} # {}
    BY <1>3, <2>2
  <2>4. PICK i \in S \ {t} : link[i] \notin S \ {t}
    BY <2>3 DEF NoLoop
  <2>5. link[i] # t
    BY <2>3, <2>4, SpansAreNumbers DEF Settled, Visited
  <2> QED BY <2>4, <2>5
<1> QED BY <1>1, <1>2, <1>3

\* A parent on the stack closes a group of spans.
LEMMA CycleFound ==
    ASSUME TypeOK, Walk, stage = "walk", stack # <<>>,
           link[Top] \notin TopLevel, mark[link[Top]] = "visiting"
    PROVE  ClosedGroup
<1>1. link[Top] \in Spans /\ Len(stack) \in 1..Len(stack) /\ Top \in Spans
  BY TopFacts, SpansAreNumbers
<1>2. PICK k \in 1..Len(stack) : stack[k] = link[Top]
  BY <1>1 DEF Walk, Chain
<1> DEFINE S == {stack[m] : m \in k..Len(stack)}
<1>3. S \in SUBSET Spans /\ S # {}
  BY <1>1, <1>2 DEF TypeOK
<1>4. ASSUME NEW m \in k..Len(stack)
      PROVE  link[stack[m]] \in S
  <2>1. m \in 1..Len(stack) /\ Len(stack) \in Nat
    BY <1>2, <1>4 DEF TypeOK
  <2>2. CASE m = Len(stack)
    BY <1>1, <1>2, <2>1, <2>2 DEF Top
  <2>3. CASE m < Len(stack)
    <3>1. link[stack[m]] = stack[m + 1] /\ m + 1 \in k..Len(stack)
      BY <2>1, <2>3 DEF Walk, Chain
    <3> QED BY <3>1
  <2> QED BY <2>1, <2>2, <2>3
<1>5. ASSUME NEW i \in S PROVE \E j \in S : spans[j].id = spans[i].parent
  <2>1. link[i] \in S
    BY <1>4
  <2>2. spans[link[i]].id = spans[i].parent
    BY <1>3, <2>1 DEF Walk, Linked
  <2> QED BY <2>1, <2>2
<1> QED BY <1>3, <1>5 DEF ClosedGroup

\* When all spans are visited, no group is closed.
LEMMA NoClosedGroup ==
    ASSUME TypeOK, ~BadIds, Linked, NoLoop, \A i \in Spans : mark[i] = "visited"
    PROVE  ~ClosedGroup
<1> SUFFICES ASSUME NEW S \in SUBSET Spans, S # {},
                    \A i \in S : \E j \in S : spans[j].id = spans[i].parent
             PROVE  FALSE
  BY DEF ClosedGroup
<1>1. PICK i \in S : link[i] \notin S
  BY DEF NoLoop, Visited
<1>2. PICK j \in S : spans[j].id = spans[i].parent
  OBVIOUS
<1>3. link[i] \in Spans
  BY <1>2, SpansAreNumbers DEF Linked
<1>4. spans[link[i]].id = spans[j].id
  BY <1>2, <1>3 DEF Linked
<1> QED BY <1>1, <1>2, <1>3, <1>4 DEF BadIds

-----------------------------------------------------------------------------
(* The forest of spans *)

\* No spans form a loop: whatever spans are taken, the parent of one is not
\* among them.
Forest == TypeOK /\ \A S \in SUBSET Spans : S # {} => \E i \in S : link[i] \notin S

\* A set of spans with all the parents of its members.
ClosedUp(S) == \A k \in S : link[k] \in TopLevel \cup S

\* Children of one parent, or both at the top.
Beside(a, b) ==
    \/ link[a] \in TopLevel /\ link[b] \in TopLevel
    \/ link[a] \notin TopLevel /\ link[a] = link[b]

\* The ancestors of i and of j at which their ways up part.
Fork(i, j, a, b) ==
    /\ a \in Above[i] \ Above[j]
    /\ b \in Above[j] \ Above[i]
    /\ Beside(a, b)

LEMMA SiblingsFacts ==
    ASSUME TypeOK, NEW a \in Spans, NEW b \in Spans
    PROVE  b \in Siblings(link[a]) <=> Beside(a, b)
BY SpansAreNumbers DEF Siblings, Beside

\* Above[j] is the least set with j that is closed under taking the parent.
LEMMA AboveLeast ==
    ASSUME TypeOK, NEW j \in Spans
    PROVE  /\ j \in Above[j] /\ Above[j] \subseteq Spans /\ ClosedUp(Above[j])
           /\ \A S \in SUBSET Spans : j \in S /\ ClosedUp(S) => Above[j] \subseteq S
<1>1. Above[j] = {i \in Spans : \A S \in SUBSET Spans : j \in S /\ ClosedUp(S) => i \in S}
  BY DEF Above, ClosedUp
<1>2. ASSUME NEW k \in Above[j], link[k] \notin TopLevel
      PROVE  link[k] \in Above[j]
  <2>1. k \in Spans /\ link[k] \in Spans
    BY <1>1, <1>2, SpansAreNumbers
  <2>2. ASSUME NEW S \in SUBSET Spans, j \in S, ClosedUp(S)
        PROVE  link[k] \in S
    BY <1>1, <1>2, <2>2 DEF ClosedUp
  <2> QED BY <1>1, <2>1, <2>2
<1> QED BY <1>1, <1>2 DEF ClosedUp

\* Whatever is above a span is the span itself, or above its parent.
LEMMA AboveStep ==
    ASSUME TypeOK, NEW j \in Spans
    PROVE  /\ \A i \in Above[j] : i = j \/ (link[j] \in Spans /\ i \in Above[link[j]])
           /\ link[j] \in Spans => Above[link[j]] \subseteq Above[j]
<1>1. CASE link[j] \in TopLevel
  <2>1. {j} \in SUBSET Spans /\ ClosedUp({j})
    BY <1>1 DEF ClosedUp
  <2> QED BY <1>1, <2>1, AboveLeast, SpansAreNumbers
<1>2. CASE link[j] \in Spans
  <2> DEFINE S == {j} \cup Above[link[j]]
  <2>1. link[j] \in Above[link[j]] /\ Above[link[j]] \subseteq Spans /\ ClosedUp(Above[link[j]])
    BY <1>2, AboveLeast
  <2>2. S \in SUBSET Spans /\ ClosedUp(S)
    BY <2>1 DEF ClosedUp
  <2>3. Above[j] \subseteq S
    BY <2>2, AboveLeast
  <2>4. link[j] \in Above[j] /\ Above[j] \in SUBSET Spans /\ ClosedUp(Above[j])
    BY <1>2, AboveLeast, SpansAreNumbers DEF ClosedUp
  <2>5. Above[link[j]] \subseteq Above[j]
    BY <1>2, <2>4, AboveLeast
  <2> QED BY <1>2, <2>3, <2>5
<1> QED BY <1>1, <1>2, SpansAreNumbers

LEMMA AboveTransitive ==
    ASSUME TypeOK, NEW j \in Spans, NEW i \in Above[j]
    PROVE  i \in Spans /\ Above[i] \subseteq Above[j]
BY AboveLeast

\* No two spans are above each other.
LEMMA AboveAntisymmetric ==
    ASSUME Forest, NEW i \in Spans, NEW j \in Spans, i \in Above[j], j \in Above[i]
    PROVE  i = j
<1> SUFFICES ASSUME i # j PROVE FALSE
  OBVIOUS
<1> TypeOK
  BY DEF Forest
<1> DEFINE S == {k \in Spans : Above[k] = Above[i]}
<1>1. Above[i] = Above[j] /\ S \in SUBSET Spans /\ S # {}
  BY AboveTransitive
<1>2. ASSUME NEW k \in S PROVE link[k] \in S
  <2>1. PICK x \in {i, j} : x # k
    OBVIOUS
  <2>2. x \in Above[k] /\ Above[x] = Above[k] /\ x \in Spans
    BY <1>1, <1>2, <2>1
  <2>3. link[k] \in Spans /\ x \in Above[link[k]] /\ Above[link[k]] \subseteq Above[k]
    BY <1>2, <2>1, <2>2, AboveStep
  <2>4. Above[x] \subseteq Above[link[k]]
    BY <2>3, AboveTransitive
  <2> QED BY <1>2, <2>2, <2>3, <2>4
<1> QED BY <1>1, <1>2 DEF Forest

\* A parent is not below its child.
LEMMA NotAboveParent ==
    ASSUME Forest, NEW j \in Spans, link[j] \in Spans
    PROVE  j \notin Above[link[j]]
<1> TypeOK
  BY DEF Forest
<1>1. link[j] \in Above[j]
  BY AboveLeast, AboveStep
<1>2. link[j] # j
  <2>1. {j} \in SUBSET Spans /\ {j} # {}
    OBVIOUS
  <2> QED BY <2>1 DEF Forest
<1> QED BY <1>1, <1>2, AboveAntisymmetric

\* The spans above one span are in a line.
LEMMA AboveLine ==
    ASSUME TypeOK, NEW j \in Spans, NEW i \in Above[j], NEW k \in Above[j]
    PROVE  i \in Above[k] \/ k \in Above[i]
<1> DEFINE S == {x \in Above[j] : x \in Above[k] \/ k \in Above[x]}
<1>1. S \in SUBSET Spans /\ j \in S
  BY AboveLeast
<1>2. ASSUME NEW x \in S, link[x] \notin TopLevel PROVE link[x] \in S
  <2>1. x \in Spans /\ k \in Spans /\ link[x] \in Spans /\ link[x] \in Above[j]
    BY <1>2, AboveLeast, SpansAreNumbers DEF ClosedUp
  <2>2. CASE x \in Above[k]
    BY <1>2, <2>1, <2>2, AboveLeast DEF ClosedUp
  <2>3. CASE k \in Above[x] /\ k # x
    BY <2>1, <2>3, AboveStep
  <2>4. CASE k = x
    BY <1>2, <2>1, <2>4, AboveLeast DEF ClosedUp
  <2> QED BY <2>2, <2>3, <2>4
<1>3. ClosedUp(S)
  BY <1>2 DEF ClosedUp
<1> QED BY <1>1, <1>3, AboveLeast

\* Of two siblings, neither is above the other.
LEMMA BesideFacts ==
    ASSUME Forest, NEW a \in Spans, NEW b \in Spans, Beside(a, b), a # b
    PROVE  a \notin Above[b] /\ b \notin Above[a]
<1> TypeOK
  BY DEF Forest
<1>1. ASSUME NEW x \in Spans, NEW y \in Spans, Beside(x, y), x # y, x \in Above[y] PROVE FALSE
  <2>1. link[y] \in Spans /\ x \in Above[link[y]]
    BY <1>1, AboveStep
  <2>2. link[x] = link[y]
    BY <1>1, <2>1, SpansAreNumbers DEF Beside
  <2> QED BY <2>1, <2>2, NotAboveParent
<1>2. Beside(b, a)
  BY DEF Beside
<1> QED BY <1>1, <1>2

\* What is above one of two siblings, and is not that one, is above the other.
LEMMA AboveBeside ==
    ASSUME TypeOK, NEW a \in Spans, NEW b \in Spans, Beside(a, b), NEW i \in Above[a], i # a
    PROVE  i \in Above[b]
<1>1. link[a] \in Spans /\ i \in Above[link[a]]
  BY AboveStep
<1>2. link[b] = link[a]
  BY <1>1, SpansAreNumbers DEF Beside
<1> QED BY <1>1, <1>2, AboveStep

LEMMA ForkFacts ==
    ASSUME Forest, NEW i \in Spans, NEW j \in Spans, NEW a, NEW b, Fork(i, j, a, b)
    PROVE  a \in Spans /\ b \in Spans /\ a # b /\ Fork(j, i, b, a)
BY AboveLeast DEF Fork, Beside, Forest

\* The ways up from two spans, neither above the other, part at siblings.
LEMMA ForkExists ==
    ASSUME Forest, NEW i \in Spans, NEW j \in Spans, i \notin Above[j], j \notin Above[i]
    PROVE  \E a, b : Fork(i, j, a, b)
<1> TypeOK
  BY DEF Forest
<1>1. /\ i \in Above[i] /\ Above[i] \subseteq Spans /\ ClosedUp(Above[i])
      /\ j \in Above[j] /\ Above[j] \subseteq Spans /\ ClosedUp(Above[j])
  BY AboveLeast
<1>2. PICK a \in Above[i] \ Above[j] : link[a] \notin Above[i] \ Above[j]
  <2>1. Above[i] \ Above[j] \in SUBSET Spans /\ Above[i] \ Above[j] # {}
    BY <1>1
  <2> QED BY <2>1 DEF Forest
<1>3. PICK b \in Above[j] \ Above[i] : link[b] \notin Above[j] \ Above[i]
  <2>1. Above[j] \ Above[i] \in SUBSET Spans /\ Above[j] \ Above[i] # {}
    BY <1>1
  <2> QED BY <2>1 DEF Forest
<1>4. /\ link[a] \in TopLevel \/ link[a] \in Above[i] \cap Above[j]
      /\ link[b] \in TopLevel \/ link[b] \in Above[i] \cap Above[j]
  BY <1>1, <1>2, <1>3 DEF ClosedUp
\* A span above both is above each of a and b, so above their parents.
<1>5. ASSUME NEW p \in Above[i] \cap Above[j]
      PROVE  /\ link[a] \in Spans /\ p \in Above[link[a]]
             /\ link[b] \in Spans /\ p \in Above[link[b]]
  <2>1. p \in Above[a] \/ a \in Above[p]
    BY <1>2, AboveLine
  <2>2. p \in Above[b] \/ b \in Above[p]
    BY <1>3, AboveLine
  <2>3. Above[p] \subseteq Above[i] /\ Above[p] \subseteq Above[j]
    BY AboveTransitive
  <2>4. a \in Spans /\ b \in Spans /\ p # a /\ p # b
    BY <1>1, <1>2, <1>3
  <2> QED BY <1>2, <1>3, <2>1, <2>2, <2>3, <2>4, AboveStep
<1>6. Beside(a, b)
  <2>1. CASE link[a] \in TopLevel
    BY <1>4, <1>5, <2>1, SpansAreNumbers DEF Beside
  <2>2. CASE link[b] \in TopLevel
    BY <1>4, <1>5, <2>2, SpansAreNumbers DEF Beside
  <2>3. CASE link[a] \in Above[i] \cap Above[j] /\ link[b] \in Above[i] \cap Above[j]
    <3>1. link[a] \in Spans /\ link[b] \in Spans
      BY <1>1, <2>3
    <3>2. link[a] \in Above[link[b]] /\ link[b] \in Above[link[a]]
      BY <1>5, <2>3
    <3>3. link[a] = link[b]
      BY <3>1, <3>2, AboveAntisymmetric
    <3> QED BY <3>1, <3>3, SpansAreNumbers DEF Beside
  <2> QED BY <1>4, <2>1, <2>2, <2>3
<1> QED BY <1>2, <1>3, <1>6 DEF Fork

\* They part only once.
LEMMA ForkUnique ==
    ASSUME Forest, NEW i \in Spans, NEW j \in Spans, NEW a, NEW b, Fork(i, j, a, b),
           NEW c, NEW d, Fork(i, j, c, d)
    PROVE  a = c /\ b = d
<1> TypeOK
  BY DEF Forest
<1>1. ASSUME NEW k \in Spans, NEW l \in Spans, NEW x, NEW y, Fork(k, l, x, y),
             NEW z \in Above[k] \ Above[l]
      PROVE  z = x \/ z \notin Above[x]
  <2>1. x \in Spans /\ y \in Spans /\ Beside(x, y) /\ y \in Above[l]
    BY <1>1, ForkFacts DEF Fork
  <2>2. Above[y] \subseteq Above[l]
    BY <2>1, AboveTransitive
  <2> QED BY <1>1, <2>1, <2>2, AboveBeside
<1>2. a = c
  <2>1. a \in Above[i] \ Above[j] /\ c \in Above[i] \ Above[j]
    BY DEF Fork
  <2>2. a \in Above[c] \/ c \in Above[a]
    BY <2>1, AboveLine
  <2> QED BY <1>1, <2>1, <2>2
<1>3. b = d
  <2>1. b \in Above[j] \ Above[i] /\ d \in Above[j] \ Above[i]
    BY DEF Fork
  <2>2. Fork(j, i, b, a) /\ Fork(j, i, d, c)
    BY ForkFacts
  <2>3. b \in Above[d] \/ d \in Above[b]
    BY <2>1, AboveLine
  <2> QED BY <1>1, <2>1, <2>2, <2>3
<1> QED BY <1>2, <1>3

-----------------------------------------------------------------------------
(* The order of the spans *)

\* lessNode and the order Preorder sorts by, for the digests of this trace.
Earlier(tie, i, j) == First(Smaller, tie, i, j)
Precedes(tie, i, j) == Sooner(Smaller, Above, tie, i, j)

LEMMA SpansFinite ==
    ASSUME TypeOK
    PROVE  /\ Len(spans) \in Nat /\ Spans = 1..Len(spans)
           /\ IsFiniteSet(Spans) /\ Cardinality(Spans) = Len(spans)
<1>1. Len(spans) \in Nat /\ Spans = 1..Len(spans)
  BY DEF TypeOK, Spans
<1> QED BY <1>1, FS_Interval

LEMMA KeyTypes ==
    ASSUME TypeOK, NEW i \in Spans
    PROVE  Rank(i) \in Nat /\ \A smaller : Digest(smaller, i) \in Nat
<1> DEFINE sooner == {k \in Spans : spans[k].start < spans[i].start}
           clocks == {spans[j].start : j \in sooner}
           f == [j \in sooner |-> spans[j].start]
<1>1. IsFiniteSet(sooner)
  BY SpansFinite, FS_Subset
<1>2. IsFiniteSet(clocks)
  <2>1. f \in Surjection(sooner, clocks)
    BY DEF Surjection
  <2> QED BY <1>1, <2>1, FS_Surjection
<1>3. \A smaller : IsFiniteSet({j \in Spans : <<j, i>> \in smaller})
  BY SpansFinite, FS_Subset
<1> QED BY <1>2, <1>3, FS_CardinalityType DEF Rank, Digest

\* By start rank, by digest, and by the tie, siblings are in a strict order.
LEMMA EarlierOrder ==
    ASSUME TypeOK, NEW tie \in Permuted
    PROVE  /\ \A i \in Spans : ~Earlier(tie, i, i)
           /\ \A i, j \in Spans : i = j \/ Earlier(tie, i, j) \/ Earlier(tie, j, i)
           /\ \A i, j, k \in Spans : Earlier(tie, i, j) /\ Earlier(tie, j, k) => Earlier(tie, i, k)
           /\ \A i, j \in Spans : Earlier(tie, i, j) => Rank(i) <= Rank(j)
<1> DEFINE d(i) == Digest(Smaller, i)
<1>1. \A i \in Spans : Rank(i) \in Nat /\ d(i) \in Nat /\ tie[i] \in Nat
  <2>1. \A i \in Spans : tie[i] \in Spans
    BY DEF Permuted
  <2> QED BY <2>1, KeyTypes, SpansAreNumbers
<1>2. \A i, j \in Spans : tie[i] = tie[j] => i = j
  BY DEF Permuted
<1>3. ASSUME NEW i \in Spans, NEW j \in Spans
      PROVE  Earlier(tie, i, j) <=>
               \/ Rank(i) < Rank(j)
               \/ Rank(i) = Rank(j) /\ d(i) < d(j)
               \/ Rank(i) = Rank(j) /\ d(i) = d(j) /\ tie[i] < tie[j]
  <2> HIDE DEF d
  <2>1. Less(Smaller, i, j) <=> Rank(i) < Rank(j) \/ (Rank(i) = Rank(j) /\ d(i) < d(j))
    BY <1>1 DEF Less, d
  <2>2. Less(Smaller, j, i) <=> Rank(j) < Rank(i) \/ (Rank(i) = Rank(j) /\ d(j) < d(i))
    BY <1>1 DEF Less, d
  <2> QED BY <1>1, <2>1, <2>2 DEF Earlier, First
<1> HIDE DEF d
<1>4. \A i \in Spans : ~Earlier(tie, i, i)
  BY <1>1, <1>3
<1>5. \A i, j \in Spans : i = j \/ Earlier(tie, i, j) \/ Earlier(tie, j, i)
  BY <1>1, <1>2, <1>3
<1>6. ASSUME NEW i \in Spans, NEW j \in Spans, NEW k \in Spans,
             Earlier(tie, i, j), Earlier(tie, j, k)
      PROVE  Earlier(tie, i, k)
  BY <1>1, <1>3, <1>6
<1>7. \A i, j \in Spans : Earlier(tie, i, j) => Rank(i) <= Rank(j)
  BY <1>1, <1>3
<1> QED BY <1>4, <1>5, <1>6, <1>7

\* A span precedes another from above it, or where their ways up part.
LEMMA PrecedesFacts ==
    ASSUME Forest, NEW tie, NEW i \in Spans, NEW j \in Spans
    PROVE  Precedes(tie, i, j) <=>
             \/ i # j /\ i \in Above[j]
             \/ \E a, b : Fork(i, j, a, b) /\ Earlier(tie, a, b)
<1> TypeOK
  BY DEF Forest
<1>1. Above[i] \subseteq Spans /\ Above[j] \subseteq Spans
  BY AboveLeast
<1>2. \A a \in Above[i] \ Above[j], b \in Above[j] \ Above[i] :
        b \in Siblings(link[a]) <=> Fork(i, j, a, b)
  BY <1>1, SiblingsFacts DEF Fork
<1> QED BY <1>2 DEF Precedes, Sooner, Earlier, Fork

LEMMA PrecedesTotal ==
    ASSUME Forest, NEW tie \in Permuted
    PROVE  /\ \A i \in Spans : ~Precedes(tie, i, i)
           /\ \A i, j \in Spans : i = j \/ Precedes(tie, i, j) \/ Precedes(tie, j, i)
<1> TypeOK
  BY DEF Forest
<1>1. \A i \in Spans : ~Precedes(tie, i, i)
  BY PrecedesFacts DEF Fork
<1>2. ASSUME NEW i \in Spans, NEW j \in Spans, i # j, i \notin Above[j], j \notin Above[i]
      PROVE  Precedes(tie, i, j) \/ Precedes(tie, j, i)
  <2>1. PICK a, b : Fork(i, j, a, b)
    BY <1>2, ForkExists
  <2>2. a \in Spans /\ b \in Spans /\ a # b /\ Fork(j, i, b, a)
    BY <2>1, ForkFacts
  <2>3. Earlier(tie, a, b) \/ Earlier(tie, b, a)
    BY <2>2, EarlierOrder
  <2> QED BY <2>1, <2>2, <2>3, PrecedesFacts
<1>3. \A i, j \in Spans : i # j /\ (i \in Above[j] \/ j \in Above[i]) =>
        Precedes(tie, i, j) \/ Precedes(tie, j, i)
  BY PrecedesFacts
<1> QED BY <1>1, <1>2, <1>3

LEMMA PrecedesTransitive ==
    ASSUME Forest, NEW tie \in Permuted, NEW i \in Spans, NEW j \in Spans, NEW k \in Spans,
           Precedes(tie, i, j), Precedes(tie, j, k)
    PROVE  Precedes(tie, i, k)
<1> TypeOK
  BY DEF Forest
<1>1. CASE i # j /\ i \in Above[j] /\ j # k /\ j \in Above[k]
  <2>1. i \in Above[k]
    BY <1>1, AboveTransitive
  <2>2. i # k
    BY <1>1, AboveAntisymmetric
  <2> QED BY <2>1, <2>2, PrecedesFacts
<1>2. ASSUME i # j, i \in Above[j], NEW a, NEW b, Fork(j, k, a, b), Earlier(tie, a, b)
      PROVE  Precedes(tie, i, k)
  <2>1. a \in Spans /\ b \in Spans /\ a \in Above[j] \ Above[k] /\ b \in Above[k] \ Above[j]
        /\ Beside(a, b)
    BY <1>2, ForkFacts DEF Fork
  <2>2. Above[i] \subseteq Above[j] /\ Above[b] \subseteq Above[k]
    BY <1>2, <2>1, AboveTransitive
  <2>3. CASE a \in Above[i]
    <3>1. Fork(i, k, a, b)
      BY <2>1, <2>2, <2>3 DEF Fork
    <3> QED BY <1>2, <3>1, PrecedesFacts
  <2>4. CASE i \in Above[a] /\ i # a
    <3>1. i \in Above[k]
      BY <2>1, <2>2, <2>4, AboveBeside
    <3>2. i # k
      BY <2>1, <2>2
    <3> QED BY <3>1, <3>2, PrecedesFacts
  <2> QED BY <1>2, <2>1, <2>3, <2>4, AboveLine, AboveLeast
<1>3. ASSUME NEW a, NEW b, Fork(i, j, a, b), Earlier(tie, a, b), j # k, j \in Above[k]
      PROVE  Precedes(tie, i, k)
  <2>1. a \in Spans /\ b \in Spans /\ a \in Above[i] \ Above[j] /\ b \in Above[j] \ Above[i]
        /\ Beside(a, b)
    BY <1>3, ForkFacts DEF Fork
  <2>2. Above[j] \subseteq Above[k] /\ Above[b] \subseteq Above[j] /\ Above[a] \subseteq Above[i]
    BY <1>3, <2>1, AboveTransitive
  <2>3. a \notin Above[k]
    BY <2>1, <2>2, AboveLine
  <2>4. Fork(i, k, a, b)
    BY <2>1, <2>2, <2>3 DEF Fork
  <2> QED BY <1>3, <2>4, PrecedesFacts
<1>4. ASSUME NEW a, NEW b, Fork(i, j, a, b), Earlier(tie, a, b),
             NEW c, NEW d, Fork(j, k, c, d), Earlier(tie, c, d)
      PROVE  Precedes(tie, i, k)
  <2>1. /\ a \in Spans /\ b \in Spans /\ a \in Above[i] \ Above[j] /\ b \in Above[j] \ Above[i]
        /\ c \in Spans /\ d \in Spans /\ c \in Above[j] \ Above[k] /\ d \in Above[k] \ Above[j]
        /\ Beside(a, b) /\ Beside(c, d)
    BY <1>4, ForkFacts DEF Fork
  <2>2. /\ Above[a] \subseteq Above[i] /\ Above[b] \subseteq Above[j]
        /\ Above[c] \subseteq Above[j] /\ Above[d] \subseteq Above[k]
    BY <2>1, AboveTransitive
  <2>3. CASE b = c
    <3>1. Beside(a, d)
      BY <2>1, <2>3 DEF Beside
    <3>2. Earlier(tie, a, d) /\ a # d
      BY <1>4, <2>1, <2>3, EarlierOrder
    <3>3. a \notin Above[d] /\ d \notin Above[a]
      BY <2>1, <3>1, <3>2, BesideFacts
    <3>4. Fork(i, k, a, d)
      BY <2>1, <3>1, <3>3, AboveLine DEF Fork
    <3> QED BY <3>2, <3>4, PrecedesFacts
  <2>4. CASE b \in Above[c] /\ b # c
    <3>1. b \in Above[k]
      BY <2>1, <2>2, <2>4, AboveBeside
    <3>2. a \notin Above[k]
      BY <2>1, <2>2, <3>1, AboveLine
    <3>3. Fork(i, k, a, b)
      BY <2>1, <3>1, <3>2 DEF Fork
    <3> QED BY <1>4, <3>3, PrecedesFacts
  <2>5. CASE c \in Above[b] /\ c # b
    <3>1. c \in Above[i]
      <4>1. Beside(b, a)
        BY <2>1 DEF Beside
      <4> QED BY <2>1, <2>2, <2>5, <4>1, AboveBeside
    <3>2. d \notin Above[i]
      BY <2>1, <2>2, <3>1, AboveLine
    <3>3. Fork(i, k, c, d)
      BY <2>1, <3>1, <3>2 DEF Fork
    <3> QED BY <1>4, <3>3, PrecedesFacts
  <2> QED BY <2>1, <2>3, <2>4, <2>5, AboveLine
<1> QED BY <1>1, <1>2, <1>3, <1>4, PrecedesFacts

-----------------------------------------------------------------------------
(* The places of the spans *)

\* Preorder numbers the spans from one on, in their order.
LEMMA PlaceFacts ==
    ASSUME Forest, NEW tie \in Permuted
    PROVE  /\ Preorder(tie) \in [Spans -> Spans]
           /\ \A i, j \in Spans : Preorder(tie)[i] < Preorder(tie)[j] <=> Precedes(tie, i, j)
           /\ \A i, j \in Spans : Preorder(tie)[i] = Preorder(tie)[j] => i = j
           /\ \A n \in Spans : \E i \in Spans : Preorder(tie)[i] = n
<1> TypeOK
  BY DEF Forest
<1> DEFINE size == Len(spans)
           place == Preorder(tie)
           before(i) == {j \in Spans : Precedes(tie, j, i)}
<1>1. size \in Nat /\ Spans = 1..size /\ IsFiniteSet(Spans) /\ Cardinality(Spans) = size
  BY SpansFinite
<1>2. place = [i \in Spans |-> 1 + Cardinality(before(i))]
  BY DEF Preorder, Precedes
<1>3. ASSUME NEW i \in Spans
      PROVE  /\ IsFiniteSet(before(i)) /\ Cardinality(before(i)) \in 0..(size - 1)
             /\ i \notin before(i)
  <2>1. before(i) \subseteq Spans /\ i \notin before(i)
    BY PrecedesTotal
  <2>2. IsFiniteSet(before(i)) /\ Cardinality(before(i)) <= size /\ Cardinality(before(i)) # size
    BY <1>1, <2>1, FS_Subset
  <2>3. Cardinality(before(i)) \in Nat
    BY <2>2, FS_CardinalityType
  <2> QED BY <1>1, <2>1, <2>2, <2>3
<1>4. ASSUME NEW i \in Spans, NEW j \in Spans, Precedes(tie, i, j)
      PROVE  place[i] < place[j]
  <2>1. before(i) \subseteq before(j) /\ i \in before(j)
    BY <1>4, PrecedesTransitive
  <2>2. /\ Cardinality(before(i)) <= Cardinality(before(j))
        /\ Cardinality(before(i)) # Cardinality(before(j))
    BY <1>3, <2>1, FS_Subset
  <2> HIDE DEF before, place
  <2> QED BY <1>1, <1>2, <1>3, <2>2
<1>5. place \in [Spans -> Spans]
  <2> HIDE DEF before, place
  <2>1. \A i \in Spans : place[i] \in Spans
    BY <1>1, <1>2, <1>3
  <2> QED BY <1>2, <2>1
<1>6. \A i, j \in Spans : place[i] < place[j] <=> Precedes(tie, i, j)
  <2> HIDE DEF before, place
  <2>1. \A i, j \in Spans : place[i] \in Nat /\ place[j] \in Nat
    BY <1>1, <1>5
  <2> QED BY <1>4, <2>1, PrecedesTotal
<1>7. \A i, j \in Spans : place[i] = place[j] => i = j
  <2> HIDE DEF before, place
  <2>1. \A i, j \in Spans : place[i] \in Nat /\ place[j] \in Nat
    BY <1>1, <1>5
  <2> QED BY <1>4, <2>1, PrecedesTotal
<1>8. \A n \in Spans : \E i \in Spans : place[i] = n
  <2> HIDE DEF before, place
  <2>1. place \in Injection(Spans, Spans)
    BY <1>5, <1>7 DEF Injection, IsInjective
  <2>2. place \in Surjection(Spans, Spans)
    BY <1>1, <2>1, FS_Injection
  <2> QED BY <2>2 DEF Surjection
<1> QED BY <1>5, <1>6, <1>7, <1>8

\* The span that Emit puts at a place.
At(tie, n) == CHOOSE i \in Spans : Preorder(tie)[i] = n

LEMMA AtFacts ==
    ASSUME Forest, NEW tie \in Permuted
    PROVE  /\ \A n \in Spans : At(tie, n) \in Spans /\ Preorder(tie)[At(tie, n)] = n
           /\ \A i \in Spans : At(tie, Preorder(tie)[i]) = i
           /\ [n \in Spans |-> At(tie, n)] \in Permuted
<1>1. \A n \in Spans : At(tie, n) \in Spans /\ Preorder(tie)[At(tie, n)] = n
  BY PlaceFacts DEF At
<1>2. \A i \in Spans : At(tie, Preorder(tie)[i]) = i
  BY <1>1, PlaceFacts
<1>3. \A m, n \in Spans : At(tie, m) = At(tie, n) => m = n
  BY <1>1
<1>4. [n \in Spans |-> At(tie, n)] \in Permuted
  BY <1>1, <1>3 DEF Permuted
<1> QED BY <1>1, <1>2, <1>4

\* What is emitted at a place.
LEMMA EmitFacts ==
    ASSUME Forest, NEW tie \in Permuted, NEW n \in Spans
    PROVE  LET emitted == Emit(Preorder(tie))[n]
               i == At(tie, n)
           IN  /\ emitted.label = spans[i].label
               /\ emitted.error = spans[i].error
               /\ emitted.start = Rank(i)
               /\ emitted.duration = BucketDuration(spans[i].duration)
               /\ link[i] \in TopLevel => emitted.parent = link[i]
               /\ link[i] \notin TopLevel => emitted.parent = Preorder(tie)[link[i]]
BY DEF Emit, At

-----------------------------------------------------------------------------
(* The ranks of the clocks *)

LEMMA RankFacts ==
    ASSUME TypeOK, NEW i \in Spans, NEW j \in Spans
    PROVE  /\ Rank(i) < Rank(j) <=> spans[i].start < spans[j].start
           /\ Rank(i) = Rank(j) <=> spans[i].start = spans[j].start
<1> DEFINE sooner(x) == {k \in Spans : spans[k].start < spans[x].start}
           clocks(x) == {spans[k].start : k \in sooner(x)}
<1>1. \A x \in Spans : spans[x].start \in Nat
  <2>1. \A x \in Spans : spans[x] \in Parsed
    BY DEF TypeOK, Spans
  <2> QED BY <2>1 DEF Parsed
<1>2. ASSUME NEW x \in Spans
      PROVE  IsFiniteSet(clocks(x)) /\ Cardinality(clocks(x)) \in Nat
  <2> DEFINE f == [k \in sooner(x) |-> spans[k].start]
  <2>1. IsFiniteSet(sooner(x))
    BY SpansFinite, FS_Subset
  <2>2. f \in Surjection(sooner(x), clocks(x))
    BY DEF Surjection
  <2>3. IsFiniteSet(clocks(x))
    BY <2>1, <2>2, FS_Surjection
  <2> QED BY <2>3, FS_CardinalityType
<1>3. ASSUME NEW x \in Spans, NEW y \in Spans, spans[x].start < spans[y].start
      PROVE  Rank(x) < Rank(y)
  <2>1. clocks(x) \subseteq clocks(y) /\ spans[x].start \in clocks(y)
    BY <1>1, <1>3
  <2>2. spans[x].start \notin clocks(x)
    BY <1>1
  <2>3. /\ Cardinality(clocks(x)) <= Cardinality(clocks(y))
        /\ Cardinality(clocks(x)) # Cardinality(clocks(y))
    BY <1>2, <2>1, <2>2, FS_Subset
  <2>4. Cardinality(clocks(x)) \in Nat /\ Cardinality(clocks(y)) \in Nat
    BY <1>2
  <2>5. Rank(x) = Cardinality(clocks(x)) /\ Rank(y) = Cardinality(clocks(y))
    BY DEF Rank
  <2> QED BY <2>3, <2>4, <2>5
<1>4. spans[i].start = spans[j].start => Rank(i) = Rank(j)
  BY DEF Rank
<1>5. /\ Rank(i) \in Nat /\ Rank(j) \in Nat /\ spans[i].start \in Nat /\ spans[j].start \in Nat
      /\ spans[i].start < spans[j].start => Rank(i) < Rank(j)
      /\ spans[j].start < spans[i].start => Rank(j) < Rank(i)
  BY <1>1, <1>3, KeyTypes
<1> QED BY <1>4, <1>5

\* The ranks leave no gaps: a rank is the number of the smaller ones in use.
LEMMA RanksDense ==
    ASSUME TypeOK, NEW i \in Spans
    PROVE  Rank(i) = Cardinality({Rank(j) : j \in {k \in Spans : Rank(k) < Rank(i)}})
<1> DEFINE sooner == {k \in Spans : spans[k].start < spans[i].start}
           clocks == {spans[j].start : j \in sooner}
           ranks == {Rank(j) : j \in {k \in Spans : Rank(k) < Rank(i)}}
           one(s) == CHOOSE j \in sooner : spans[j].start = s
           f == [s \in clocks |-> Rank(one(s))]
<1>1. {k \in Spans : Rank(k) < Rank(i)} = sooner
  BY RankFacts
<1>2. \A s \in clocks : one(s) \in sooner /\ spans[one(s)].start = s
  OBVIOUS
<1>3. \A j \in sooner : spans[j].start \in clocks /\ f[spans[j].start] = Rank(j)
  <2> SUFFICES ASSUME NEW j \in sooner
               PROVE  spans[j].start \in clocks /\ f[spans[j].start] = Rank(j)
    OBVIOUS
  <2>1. one(spans[j].start) \in Spans /\ spans[one(spans[j].start)].start = spans[j].start
    BY <1>2
  <2>2. Rank(one(spans[j].start)) = Rank(j)
    BY <2>1, RankFacts
  <2> QED BY <2>2
<1>4. f \in Bijection(clocks, ranks)
  <2>1. f \in [clocks -> ranks]
    BY <1>1, <1>2
  <2>2. \A s, t \in clocks : f[s] = f[t] => s = t
    <3> SUFFICES ASSUME NEW s \in clocks, NEW t \in clocks, f[s] = f[t] PROVE s = t
      OBVIOUS
    <3>1. one(s) \in Spans /\ one(t) \in Spans /\ Rank(one(s)) = Rank(one(t))
      BY <1>2
    <3> QED BY <1>2, <3>1, RankFacts
  <2>3. ASSUME NEW r \in ranks PROVE \E s \in clocks : f[s] = r
    <3>1. PICK j \in sooner : r = Rank(j)
      BY <1>1
    <3> QED BY <1>3, <3>1
  <2> HIDE DEF f, clocks, ranks
  <2> QED BY <2>1, <2>2, <2>3 DEF Bijection, Injection, IsInjective, Surjection
<1>5. IsFiniteSet(clocks)
  <2> DEFINE g == [j \in sooner |-> spans[j].start]
  <2>1. IsFiniteSet(sooner)
    BY SpansFinite, FS_Subset
  <2>2. g \in Surjection(sooner, clocks)
    BY DEF Surjection
  <2> QED BY <2>1, <2>2, FS_Surjection
<1>6. Cardinality(ranks) = Cardinality(clocks)
  <2> HIDE DEF f, clocks, ranks
  <2>1. ExistsBijection(clocks, ranks)
    BY <1>4 DEF ExistsBijection
  <2> QED BY <1>5, <2>1, FS_Bijection
<1> QED BY <1>6 DEF Rank

LEMMA BucketFacts ==
    ASSUME NEW d \in Nat
    PROVE  /\ BucketDuration(d) <= d
           /\ d < BucketDuration(d) + (IF Bucket = 0 THEN 1 ELSE Bucket)
<1>1. CASE Bucket = 0
  BY <1>1 DEF BucketDuration
<1>2. CASE Bucket # 0
  <2>1. Bucket \in Nat \ {0}
    BY <1>2, NormalizeAssumption
  <2>2. d % Bucket \in 0..(Bucket - 1)
    BY <2>1
  <2> QED BY <1>2, <2>1, <2>2 DEF BucketDuration
<1> QED BY <1>1, <1>2

-----------------------------------------------------------------------------
(* The normalized trace *)

\* Parents are kept: an emitted parent is the place of the span's parent.
LEMMA ParentFacts ==
    ASSUME Forest, NEW tie \in Permuted, NEW n \in Spans
    PROVE  LET parent == Emit(Preorder(tie))[n].parent
               i == At(tie, n)
           IN  /\ parent \in TopLevel <=> link[i] \in TopLevel
               /\ parent \in TopLevel => parent = link[i]
               /\ parent \in Spans <=> link[i] \in Spans
               /\ parent \in Spans => parent = Preorder(tie)[link[i]] /\ At(tie, parent) = link[i]
               /\ parent \in TopLevel \/ parent \in Spans
<1> DEFINE i == At(tie, n)
<1>1. i \in Spans /\ TypeOK
  BY AtFacts DEF Forest
<1>2. link[i] \in TopLevel \/ link[i] \in Spans
  BY <1>1, SpansAreNumbers
<1>3. Spans \cap TopLevel = {}
  BY <1>1, SpansAreNumbers
<1>4. CASE link[i] \in TopLevel
  BY <1>3, <1>4, EmitFacts
<1>5. CASE link[i] \in Spans
  <2>1. Emit(Preorder(tie))[n].parent = Preorder(tie)[link[i]]
    BY <1>3, <1>5, EmitFacts
  <2>2. Preorder(tie)[link[i]] \in Spans /\ At(tie, Preorder(tie)[link[i]]) = link[i]
    BY <1>5, PlaceFacts, AtFacts
  <2> QED BY <1>3, <1>5, <2>1, <2>2
<1> QED BY <1>2, <1>4, <1>5

LEMMA SameTraceEmitted ==
    ASSUME Forest, Linked, ~BadDurations, NEW tie \in Permuted,
           result' = Emit(Preorder(tie)), UNCHANGED spans
    PROVE  SameTrace'
<1> DEFINE name == [n \in Spans |-> At(tie, n)]
<1>1. TypeOK /\ Spans' = Spans /\ Permuted' = Permuted /\ name \in Permuted
  BY AtFacts DEF Forest, Spans, Permuted
<1>2. \A n \in Spans : name[n] \in Spans
  BY AtFacts
<1>3. \A n, m \in Spans : result'[n].start < result'[m].start
                            <=> spans[name[n]].start < spans[name[m]].start
  BY <1>1, <1>2, EmitFacts, RankFacts
<1>4. ASSUME NEW n \in Spans
      PROVE  /\ result'[n].label = spans[name[n]].label
             /\ result'[n].error = spans[name[n]].error
             /\ result'[n].duration <= spans[name[n]].duration
             /\ spans[name[n]].duration < result'[n].duration + (IF Bucket = 0 THEN 1 ELSE Bucket)
  <2>1. spans[name[n]] \in Parsed /\ ~(spans[name[n]].duration < 0)
    BY <1>1, <1>2 DEF TypeOK, Spans, BadDurations
  <2>2. spans[name[n]].duration \in Nat
    BY <2>1 DEF Parsed
  <2> QED BY <2>2, EmitFacts, BucketFacts
<1>5. ASSUME NEW n \in Spans
      PROVE  /\ result'[n].parent = Root <=> spans[name[n]].parent = NoId
             /\ result'[n].parent \in Spans <=>
                  \E i \in Spans : spans[i].id = spans[name[n]].parent
             /\ result'[n].parent \in Spans =>
                  spans[name[result'[n].parent]].id = spans[name[n]].parent
  <2> DEFINE i == At(tie, n)
             parent == result'[n].parent
  <2>1. i \in Spans /\ name[n] = i
    BY AtFacts
  <2>2. /\ parent \in TopLevel <=> link[i] \in TopLevel
        /\ parent \in TopLevel => parent = link[i]
        /\ parent \in Spans <=> link[i] \in Spans
        /\ parent \in Spans => At(tie, parent) = link[i]
        /\ parent \in TopLevel \/ parent \in Spans
    BY ParentFacts
  <2>3. Spans \cap TopLevel = {} /\ Root \in TopLevel
    BY <1>1, SpansAreNumbers DEF TopLevel
  <2>4. parent = Root <=> spans[i].parent = NoId
    BY <2>1, <2>2, <2>3 DEF Linked
  <2>5. parent \in Spans <=> \E k \in Spans : spans[k].id = spans[i].parent
    BY <2>1, <2>2, <2>3 DEF Linked
  <2>6. parent \in Spans => spans[name[parent]].id = spans[i].parent
    BY <2>1, <2>2 DEF Linked
  <2> QED BY <2>1, <2>4, <2>5, <2>6
<1> HIDE DEF name
<1> QED BY <1>1, <1>3, <1>4, <1>5 DEF SameTrace

\* A span is listed after its parent and before anything not below the parent.
LEMMA SubtreeInOnePiece ==
    ASSUME Forest, NEW tie \in Permuted, NEW i \in Spans, link[i] \in Spans, NEW k \in Spans,
           Precedes(tie, k, i), k = link[i] \/ Precedes(tie, link[i], k)
    PROVE  link[i] \in Above[k]
<1> TypeOK
  BY DEF Forest
<1> DEFINE p == link[i]
<1>1. CASE k = p
  BY <1>1, AboveLeast
<1>2. CASE p \in Above[k]
  BY <1>2
<1>3. ASSUME NEW a, NEW b, Fork(p, k, a, b), Earlier(tie, a, b) PROVE FALSE
  <2>1. a \in Above[p] \ Above[k] /\ b \in Above[k] \ Above[p] /\ Beside(a, b)
    BY <1>3 DEF Fork
  <2>2. a \in Above[i]
    BY <2>1, AboveStep
  <2>3. b \notin Above[i]
    <3>1. b \in Above[i] => b = i
      BY <2>1, AboveStep
    <3>2. b # i
      <4>1. i \in Above[k] => i = k \/ Precedes(tie, i, k)
        BY PrecedesFacts
      <4> QED BY <2>1, <4>1, PrecedesTotal, PrecedesTransitive
    <3> QED BY <3>1, <3>2
  <2>4. Fork(i, k, a, b)
    BY <2>1, <2>2, <2>3 DEF Fork
  <2>5. Precedes(tie, i, k)
    BY <1>3, <2>4, PrecedesFacts
  <2> QED BY <2>5, PrecedesTotal, PrecedesTransitive
<1> QED BY <1>1, <1>2, <1>3, PrecedesFacts

\* Siblings are listed by start rank.
LEMMA SiblingsByStart ==
    ASSUME Forest, NEW tie \in Permuted, NEW i \in Spans, NEW j \in Spans,
           Beside(i, j), Precedes(tie, i, j)
    PROVE  Rank(i) <= Rank(j)
<1> TypeOK
  BY DEF Forest
<1>1. i # j
  BY PrecedesTotal
<1>2. i \notin Above[j] /\ j \notin Above[i] /\ i \in Above[i] /\ j \in Above[j]
  BY <1>1, BesideFacts, AboveLeast
<1>3. Fork(i, j, i, j)
  BY <1>2 DEF Fork
<1>4. PICK a, b : Fork(i, j, a, b) /\ Earlier(tie, a, b)
  BY <1>2, PrecedesFacts
<1>5. a = i /\ b = j
  BY <1>3, <1>4, ForkUnique
<1> QED BY <1>4, <1>5, EarlierOrder

\* The emitted ancestors are those of the forest.
LEMMA LineageFacts ==
    ASSUME Forest, NEW tie \in Permuted, NEW m \in Spans, NEW p \in Above[At(tie, m)],
           NEW S \in SUBSET Spans, m \in S,
           \A k \in S : Emit(Preorder(tie))[k].parent \in TopLevel \cup S
    PROVE  Preorder(tie)[p] \in S
<1> DEFINE T == {i \in Spans : Preorder(tie)[i] \in S}
<1>1. TypeOK /\ At(tie, m) \in T
  BY AtFacts DEF Forest
<1>2. ASSUME NEW i \in T, link[i] \notin TopLevel PROVE link[i] \in T
  <2> DEFINE k == Preorder(tie)[i]
  <2>1. i \in Spans /\ k \in S /\ At(tie, k) = i /\ link[i] \in Spans
    BY <1>1, <1>2, AtFacts, SpansAreNumbers
  <2>2. Emit(Preorder(tie))[k].parent = Preorder(tie)[link[i]]
    BY <1>2, <2>1, EmitFacts
  <2>3. Preorder(tie)[link[i]] \in Spans /\ Spans \cap TopLevel = {}
    BY <1>1, <2>1, PlaceFacts, SpansAreNumbers
  <2> QED BY <2>1, <2>2, <2>3
<1>3. ClosedUp(T) /\ T \in SUBSET Spans
  BY <1>2 DEF ClosedUp
<1>4. Above[At(tie, m)] \subseteq T
  BY <1>1, <1>3, AboveLeast
<1> QED BY <1>4

LEMMA MatcherReadyEmitted ==
    ASSUME Forest, NEW tie \in Permuted, result' = Emit(Preorder(tie)), UNCHANGED spans
    PROVE  MatcherReady'
<1> DEFINE place == Preorder(tie)
           at(n) == At(tie, n)
<1>1. TypeOK /\ Spans' = Spans /\ Spans = 1..Len(spans) /\ Len(spans) \in Nat
  BY SpansFinite DEF Forest, Spans
<1>2. \A n \in Spans : at(n) \in Spans /\ place[at(n)] = n
  BY AtFacts
\* The parent of an emitted span, and what precedes what.
<1>3. ASSUME NEW n \in Spans, result'[n].parent \in Spans
      PROVE  /\ link[at(n)] \in Spans /\ result'[n].parent = place[link[at(n)]]
             /\ Precedes(tie, link[at(n)], at(n)) /\ result'[n].parent < n
  <2>1. link[at(n)] \in Spans /\ result'[n].parent = place[link[at(n)]]
    BY <1>3, ParentFacts
  <2>2. link[at(n)] \in Above[at(n)] /\ link[at(n)] # at(n)
    <3>1. link[at(n)] \in Above[link[at(n)]]
      BY <1>1, <2>1, AboveLeast
    <3> QED BY <1>1, <1>2, <2>1, <3>1, AboveStep, NotAboveParent
  <2>3. Precedes(tie, link[at(n)], at(n))
    BY <1>2, <2>1, <2>2, PrecedesFacts
  <2>4. place[link[at(n)]] < place[at(n)]
    BY <1>2, <2>1, <2>3, PlaceFacts
  <2> QED BY <1>2, <2>1, <2>3, <2>4
<1>4. ASSUME NEW n \in Spans PROVE result'[n].parent \in TopLevel \cup 1..(n - 1)
  <2>1. result'[n].parent \in TopLevel \/ result'[n].parent \in Spans
    BY ParentFacts
  <2>2. CASE result'[n].parent \in Spans
    BY <1>1, <1>3, <2>2
  <2> QED BY <2>1, <2>2
<1>5. ASSUME NEW n \in Spans, result'[n].parent \in Spans
      PROVE  result'[n].parent \in Lineage(n - 1)'
  <2> DEFINE k == at(n - 1)
             p == link[at(n)]
  <2>1. p \in Spans /\ result'[n].parent = place[p] /\ Precedes(tie, p, at(n)) /\ place[p] < n
    BY <1>3, <1>5
  <2>2. place[p] \in Spans /\ n - 1 \in Spans
    <3>1. place[p] \in Spans
      BY <2>1, PlaceFacts
    <3> HIDE DEF place, p
    <3> QED BY <1>1, <2>1, <3>1
  <2>3. k \in Spans /\ place[k] = n - 1
    BY <1>2, <2>2
  <2>4. Precedes(tie, k, at(n))
    <3>1. place[k] < place[at(n)]
      BY <1>1, <1>2, <2>3
    <3> QED BY <1>2, <2>3, <3>1, PlaceFacts
  <2>5. k = p \/ Precedes(tie, p, k)
    <3>1. place[p] = place[k] \/ place[p] < place[k]
      BY <1>1, <2>1, <2>2, <2>3
    <3> QED BY <2>1, <2>3, <3>1, PlaceFacts
  <2>6. p \in Above[k]
    BY <1>2, <2>1, <2>3, <2>4, <2>5, SubtreeInOnePiece
  <2>7. ASSUME NEW S \in SUBSET Spans, n - 1 \in S,
               \A m \in S : result'[m].parent \in TopLevel \cup S
        PROVE  place[p] \in S
    BY <2>2, <2>6, <2>7, LineageFacts
  <2> HIDE DEF place, p
  <2> QED BY <1>1, <2>1, <2>2, <2>7 DEF Lineage
<1>6. ASSUME NEW m \in Spans, NEW n \in Spans, m < n,
             \/ {result'[m].parent, result'[n].parent} \subseteq TopLevel
             \/ result'[m].parent = result'[n].parent
      PROVE  result'[m].start <= result'[n].start
  <2>1. Precedes(tie, at(m), at(n))
    BY <1>2, <1>6, PlaceFacts
  <2>2. Beside(at(m), at(n))
    <3>1. CASE result'[m].parent \in TopLevel /\ result'[n].parent \in TopLevel
      BY <3>1, ParentFacts DEF Beside
    <3>2. CASE result'[m].parent \in Spans /\ result'[m].parent = result'[n].parent
      <4>1. link[at(m)] = link[at(n)] /\ link[at(m)] \in Spans
        BY <3>2, ParentFacts
      <4> QED BY <1>1, <4>1, SpansAreNumbers DEF Beside
    <3> QED BY <1>6, <3>1, <3>2, ParentFacts
  <2>3. Rank(at(m)) <= Rank(at(n))
    BY <1>2, <2>1, <2>2, SiblingsByStart
  <2> QED BY <2>3, EmitFacts
<1>7. ASSUME NEW n \in Spans
      PROVE  result'[n].start = Cardinality({result'[m].start : m \in {k \in Spans :
                                               result'[k].start < result'[n].start}})
  <2> DEFINE ranks == {Rank(j) : j \in {k \in Spans : Rank(k) < Rank(at(n))}}
             emitted == {result'[m].start : m \in {k \in Spans : result'[k].start < result'[n].start}}
  <2>1. \A m \in Spans : result'[m].start = Rank(at(m))
    BY EmitFacts
  <2>2. \A j \in Spans : place[j] \in Spans /\ at(place[j]) = j
    BY PlaceFacts, AtFacts
  <2>3. emitted \subseteq ranks
    BY <1>2, <2>1
  <2>4. ranks \subseteq emitted
    <3> SUFFICES ASSUME NEW j \in Spans, Rank(j) < Rank(at(n)) PROVE Rank(j) \in emitted
      OBVIOUS
    <3>1. place[j] \in Spans /\ result'[place[j]].start = Rank(j)
      BY <2>1, <2>2
    <3> QED BY <2>1, <3>1
  <2>5. Rank(at(n)) = Cardinality(ranks)
    BY <1>1, <1>2, RanksDense
  <2>6. emitted = ranks
    BY <2>3, <2>4
  <2> HIDE DEF emitted, ranks
  <2>7. result'[n].start = Cardinality(emitted)
    BY <2>1, <2>5, <2>6
  <2> QED BY <2>7 DEF emitted
<1> QED BY <1>1, <1>4, <1>5, <1>6, <1>7 DEF MatcherReady, TopLevel

\* Before the spans are emitted, nothing is said of the result.
LEMMA NotEmitted == ASSUME stage' # "done" PROVE SameTrace' /\ MatcherReady'
BY DEF SameTrace, MatcherReady

-----------------------------------------------------------------------------
(* Every step keeps the invariant *)

LEMMA VisitStep == ASSUME IInv, NEW i \in Spans, Visit(i) PROVE IInv'
<1> USE DEF IInv
<1>1. /\ stage = "walk" /\ stage' = "walk" /\ stack = <<>> /\ stack' = <<i>>
      /\ mark[i] = "unvisited" /\ mark' = [mark EXCEPT ![i] = "visiting"]
      /\ UNCHANGED <<spans, link, result>>
  BY DEF Visit
<1>2. TypeOK'
  BY <1>1 DEF TypeOK, Spans
<1>3. Visited' = Visited
  BY <1>1 DEF Visited, Spans, TypeOK
<1>4. Linked' /\ Settled' /\ NoLoop'
  BY <1>1, <1>3 DEF Walk, Linked, Settled, NoLoop, Spans
<1>5. Chain'
  BY <1>1 DEF Walk, Chain, Spans, TypeOK
<1>6. Checked' /\ Fresh' /\ RejectedIfMalformed'
  BY <1>1 DEF Checked, Fresh, RejectedIfMalformed, BadIds, BadDurations, Spans
<1> QED BY <1>1, <1>2, <1>4, <1>5, <1>6, NotEmitted DEF Walk

LEMMA ClimbStep == ASSUME IInv, Climb PROVE IInv'
<1> USE DEF IInv
<1> DEFINE p == link[Top]
<1>1. /\ stage = "walk" /\ stage' = "walk" /\ stack # <<>> /\ stack' = Append(stack, p)
      /\ p \in Spans /\ mark[p] = "unvisited" /\ mark' = [mark EXCEPT ![p] = "visiting"]
      /\ UNCHANGED <<spans, link, result>>
  BY TopFacts, SpansAreNumbers DEF Climb
<1>2. TypeOK'
  BY <1>1 DEF TypeOK, Spans
<1>3. Visited' = Visited
  BY <1>1 DEF Visited, Spans, TypeOK
<1>4. Linked' /\ Settled' /\ NoLoop'
  BY <1>1, <1>3 DEF Walk, Linked, Settled, NoLoop, Spans
<1>5. Chain'
  <2> DEFINE n == Len(stack)
  <2>1. /\ n \in Nat \ {0} /\ Len(stack') = n + 1 /\ stack'[n + 1] = p
        /\ \A k \in 1..n : stack'[k] = stack[k] /\ stack[k] \in Spans
    BY <1>1 DEF TypeOK
  <2>2. \A k \in 1..n : stack[k] # p
    BY <1>1 DEF Walk, Chain
  <2>3. \A k \in 1..(n + 1) : k \in 1..n \/ k = n + 1
    BY <2>1
  <2>4. \A k \in 1..(n + 1) : mark'[stack'[k]] = "visiting"
    BY <1>1, <2>1, <2>2, <2>3 DEF Walk, Chain, TypeOK
  <2>5. \A j \in Spans : mark'[j] = "visiting" => \E k \in 1..(n + 1) : stack'[k] = j
    <3>1. ASSUME NEW j \in Spans, mark'[j] = "visiting", j # p
          PROVE  \E k \in 1..(n + 1) : stack'[k] = j
      <4>1. mark[j] = "visiting"
        BY <1>1, <3>1 DEF TypeOK
      <4>2. PICK k \in 1..n : stack[k] = j
        BY <1>1, <4>1 DEF Walk, Chain
      <4> QED BY <2>1, <4>2
    <3> QED BY <2>1, <3>1
  <2>6. \A k \in 1..(n + 1) : k < n + 1 => link[stack'[k]] = stack'[k + 1]
    <3>1. ASSUME NEW k \in 1..n, k < n PROVE link[stack'[k]] = stack'[k + 1]
      BY <1>1, <2>1, <3>1 DEF Walk, Chain
    <3>2. link[stack'[n]] = stack'[n + 1]
      BY <2>1 DEF Top
    <3> QED BY <2>1, <3>1, <3>2
  <2>7. \A k, l \in 1..(n + 1) : stack'[k] = stack'[l] => k = l
    BY <1>1, <2>1, <2>2, <2>3 DEF Walk, Chain
  <2> QED BY <1>1, <2>1, <2>4, <2>5, <2>6, <2>7 DEF Chain, Spans
<1>6. Checked' /\ Fresh' /\ RejectedIfMalformed'
  BY <1>1 DEF Checked, Fresh, RejectedIfMalformed, BadIds, BadDurations, Spans
<1> QED BY <1>1, <1>2, <1>4, <1>5, <1>6, NotEmitted DEF Walk

LEMMA SettleStep == ASSUME IInv, Settle PROVE IInv'
<1> USE DEF IInv
<1> DEFINE n == Len(stack)
           t == Top
<1>1. /\ stage = "walk" /\ stage' = "walk" /\ stack # <<>> /\ stack' = SubSeq(stack, 1, n - 1)
      /\ t \in Spans /\ mark[t] = "visiting" /\ mark' = [mark EXCEPT ![t] = "visited"]
      /\ link[t] \notin TopLevel => mark[link[t]] = "visited"
      /\ UNCHANGED <<spans, link, result>>
  BY TopFacts DEF Settle
<1>2. /\ n \in Nat \ {0} /\ Len(stack') = n - 1 /\ stack' \in Seq(Spans)
      /\ \A k \in 1..(n - 1) : stack'[k] = stack[k] /\ k \in 1..n /\ stack[k] \in Spans
  <2>1. stack \in Seq(Spans) /\ n \in Nat \ {0}
    BY <1>1 DEF TypeOK
  <2>2. 1 \in Int /\ n - 1 \in Int /\ \A k \in 1..(n - 1) : stack[k] \in Spans /\ k \in 1..n
    BY <2>1
  <2>3. /\ SubSeq(stack, 1, n - 1) \in Seq(Spans)
        /\ Len(SubSeq(stack, 1, n - 1)) = IF 1 <= n - 1 THEN n - 1 - 1 + 1 ELSE 0
        /\ \A k \in 1..(n - 1 - 1 + 1) : SubSeq(stack, 1, n - 1)[k] = stack[1 + k - 1]
    BY <2>2, SubSeqProperties
  <2>4. n - 1 - 1 + 1 = n - 1 /\ \A k \in 1..(n - 1) : 1 + k - 1 = k
    BY <2>1
  <2> QED BY <1>1, <2>1, <2>2, <2>3, <2>4
<1>3. TypeOK'
  BY <1>1, <1>2 DEF TypeOK, Spans
<1>4. Visited' = Visited \cup {t}
  BY <1>1 DEF Visited, Spans, TypeOK
<1>5. Linked'
  BY <1>1 DEF Walk, Linked, Spans
<1>6. Settled'
  BY <1>1, <1>4, SpansAreNumbers DEF Walk, Settled, Visited
<1>7. NoLoop'
  BY <1>1, <1>4, SettleKeepsNoLoop DEF Walk, NoLoop
<1>8. Chain'
  <2>1. \A k \in 1..(n - 1) : stack[k] # t
    BY <1>1, <1>2 DEF Walk, Chain, Top
  <2>2. \A k \in 1..(n - 1) : mark'[stack'[k]] = "visiting"
    BY <1>1, <1>2, <2>1 DEF Walk, Chain, TypeOK
  <2>3. ASSUME NEW j \in Spans, mark'[j] = "visiting"
        PROVE  \E k \in 1..(n - 1) : stack'[k] = j
    <3>1. mark[j] = "visiting" /\ j # t
      BY <1>1, <2>3 DEF TypeOK
    <3>2. PICK k \in 1..n : stack[k] = j
      BY <1>1, <3>1 DEF Walk, Chain
    <3>3. k \in 1..(n - 1)
      BY <1>2, <3>1, <3>2 DEF Top
    <3> QED BY <1>2, <3>2, <3>3
  <2>4. \A k \in 1..(n - 1) : k < n - 1 => link[stack'[k]] = stack'[k + 1]
    BY <1>1, <1>2 DEF Walk, Chain
  <2>5. \A k, l \in 1..(n - 1) : stack'[k] = stack'[l] => k = l
    BY <1>1, <1>2 DEF Walk, Chain
  <2> QED BY <1>1, <1>2, <2>2, <2>3, <2>4, <2>5 DEF Chain, Spans
<1>9. Checked' /\ Fresh' /\ RejectedIfMalformed'
  BY <1>1 DEF Checked, Fresh, RejectedIfMalformed, BadIds, BadDurations, Spans
<1> QED BY <1>1, <1>3, <1>5, <1>6, <1>7, <1>8, <1>9, NotEmitted DEF Walk

LEMMA CheckStep ==
    ASSUME IInv, IndexSpans \/ BuildNodes \/ LinkParents
    PROVE  IInv'
<1> USE DEF IInv
<1>1. CASE IndexSpans \/ BuildNodes
  <2>1. TypeOK' /\ Checked' /\ Fresh' /\ Walk' /\ RejectedIfMalformed'
    BY <1>1 DEF IndexSpans, BuildNodes, TypeOK, Checked, Fresh, Walk, RejectedIfMalformed,
         BadIds, BadDurations, Spans
  <2>2. stage' # "done"
    BY <1>1 DEF IndexSpans, BuildNodes
  <2> QED BY <2>1, <2>2, NotEmitted
<1>2. CASE LinkParents
  <2>1. /\ stage = "link" /\ stage' = "walk" /\ link' = [i \in Spans |-> LinkOf(i)]
        /\ UNCHANGED <<spans, mark, stack, result>>
    BY <1>2 DEF LinkParents
  <2>2. ~BadIds /\ stack = <<>> /\ \A i \in Spans : mark[i] = "unvisited"
    BY <2>1 DEF Checked, Fresh
  <2>3. \A i \in Spans : link'[i] = LinkOf(i)
    BY <2>1
  <2>4. TypeOK'
    BY <2>1, <2>2, <2>3, LinkFacts DEF TypeOK, Spans
  <2>5. Linked'
    BY <2>1, <2>2, <2>3, LinkFacts DEF Linked, Spans
  <2>6. Visited' = {}
    BY <2>1, <2>2 DEF Visited, Spans
  <2>7. Settled' /\ NoLoop'
    BY <2>6 DEF Settled, NoLoop
  <2>8. Chain'
    BY <2>1, <2>2 DEF Chain, Spans
  <2>9. Checked' /\ Fresh' /\ RejectedIfMalformed'
    BY <2>1 DEF Checked, Fresh, RejectedIfMalformed, BadIds, BadDurations, Spans
  <2> QED BY <2>1, <2>4, <2>5, <2>7, <2>8, <2>9, NotEmitted DEF Walk
<1> QED BY <1>1, <1>2

LEMMA RejectStep ==
    ASSUME IInv, RejectIds \/ RejectDurations \/ RejectOwnParent \/ RejectCycle
    PROVE  IInv'
<1> USE DEF IInv
<1>1. stage' = "rejected" /\ UNCHANGED <<spans, link, mark, stack, result>>
  BY DEF RejectIds, RejectDurations, RejectOwnParent, RejectCycle, Reject
<1>2. BadIds \/ BadDurations \/ ClosedGroup
  <2>1. CASE RejectIds
    BY <2>1 DEF RejectIds
  <2>2. CASE RejectDurations
    BY <2>2 DEF RejectDurations
  <2>3. CASE RejectOwnParent
    <3>1. PICK i \in Spans : spans[i].parent = spans[i].id
      BY <2>3 DEF RejectOwnParent, OwnParent
    <3>2. {i} \in SUBSET Spans /\ {i} # {} /\ \A k \in {i} : \E j \in {i} : spans[j].id = spans[k].parent
      BY <3>1
    <3> QED BY <3>2 DEF ClosedGroup
  <2>4. CASE RejectCycle
    BY <2>4, CycleFound DEF RejectCycle
  <2> QED BY <2>1, <2>2, <2>3, <2>4
<1>3. TypeOK'
  BY <1>1 DEF TypeOK, Spans
<1>4. RejectedIfMalformed'
  BY <1>1, <1>2 DEF RejectedIfMalformed, Malformed, BadIds, BadDurations, ClosedGroup, Spans
<1> QED BY <1>1, <1>3, <1>4, NotEmitted DEF Checked, Fresh, Walk

LEMMA ArrangeStep == ASSUME IInv, Arrange PROVE IInv'
<1> USE DEF IInv
<1>1. /\ stage = "walk" /\ stage' = "done" /\ UNCHANGED <<spans, link, mark, stack>>
      /\ \A i \in Spans : mark[i] = "visited"
  BY DEF Arrange
<1>2. DOMAIN result' = Spans
  BY DEF Arrange, Emit
<1>3. ~BadIds /\ ~BadDurations /\ ~ClosedGroup
  BY <1>1, NoClosedGroup DEF Checked, Walk
<1>4. TypeOK'
  BY <1>1, <1>2 DEF TypeOK, Spans
<1>5. RejectedIfMalformed'
  BY <1>1, <1>3 DEF RejectedIfMalformed, Malformed, BadIds, BadDurations, ClosedGroup, Spans
<1>6. Forest
  BY <1>1 DEF Walk, NoLoop, Visited, Forest
<1>7. PICK tie \in Permuted : result' = Emit(Preorder(tie))
  BY DEF Arrange
<1>8. SameTrace' /\ MatcherReady'
  BY <1>1, <1>3, <1>6, <1>7, SameTraceEmitted, MatcherReadyEmitted DEF Walk
<1> QED BY <1>1, <1>4, <1>5, <1>8 DEF Checked, Fresh, Walk

-----------------------------------------------------------------------------
(* Theorems *)

\* IInv holds in every reachable state, for traces of any size.
THEOREM Invariance == Spec => []IInv
<1>1. Init => IInv
  <2> SUFFICES ASSUME Init PROVE IInv
    OBVIOUS
  <2>1. /\ spans \in Seq(Parsed) /\ stage = "index" /\ stack = <<>>
        /\ link = [i \in Spans |-> Root] /\ mark = [i \in Spans |-> "unvisited"]
    BY NormalizeAssumption DEF Init
  <2>2. TypeOK
    BY <2>1 DEF TypeOK, TopLevel
  <2>3. SameTrace /\ MatcherReady
    BY <2>1 DEF SameTrace, MatcherReady
  <2> QED BY <2>1, <2>2, <2>3 DEF IInv, Checked, Fresh, Walk, RejectedIfMalformed
<1>2. IInv /\ [Next]_vars => IInv'
  <2>1. CASE IInv /\ UNCHANGED vars
    <3>1. TypeOK' /\ Checked' /\ Fresh'
      BY <2>1 DEF vars, IInv, TypeOK, Checked, Fresh, BadIds, BadDurations, Spans
    <3>2. Walk'
      BY <2>1 DEF vars, IInv, Walk, Linked, Settled, NoLoop, Chain, Visited, Spans
    <3>3. RejectedIfMalformed'
      BY <2>1 DEF vars, IInv, RejectedIfMalformed, Malformed, BadIds, BadDurations, ClosedGroup,
           Spans
    <3>4. SameTrace' /\ MatcherReady'
      <4>1. UNCHANGED <<spans, stage, result>> /\ Spans' = Spans /\ Permuted' = Permuted
        BY <2>1 DEF vars, Spans, Permuted
      <4>2. \A n : Lineage(n)' = Lineage(n)
        BY <4>1 DEF Lineage
      <4> QED BY <2>1, <4>1, <4>2 DEF IInv, SameTrace, MatcherReady
    <3> QED BY <3>1, <3>2, <3>3, <3>4 DEF IInv
  <2> QED BY <2>1, CheckStep, RejectStep, VisitStep, ClimbStep, SettleStep, ArrangeStep DEF Next
<1> QED BY <1>1, <1>2, PTL DEF Spec

\* The walk's tables and stack stay of their types.
THEOREM TypeCorrect == Spec => []TypeOK
BY Invariance, PTL DEF IInv

\* normalizeTrace accepts no cycle and rejects nothing else.
THEOREM RejectionExact == Spec => []RejectedIfMalformed
BY Invariance, PTL DEF IInv

\* A normalized trace is the parsed one under other names: its labels, errors,
\* duration buckets, the order of its clocks and all its parents.
THEOREM FaithfulRenaming == Spec => []SameTrace
BY Invariance, PTL DEF IInv

\* A normalized trace has the form the matchers rely on: a preorder of its
\* forest, siblings by start rank, and dense ranks.
THEOREM ReadyForMatching == Spec => []MatcherReady
BY Invariance, PTL DEF IInv

-----------------------------------------------------------------------------
(* Parser *)

TraceAt(p) == IdentityAt(p)[1]
Unique(S) == \A p, q \in S : IdentityAt(p) = IdentityAt(q) => p = q
Identified(S) == {IdentityAt(p) : p \in S}

\* A span is the one at this place.
From(span, p) == span = Convert(PartAt(p), span.order)

\* A list of traces.
Listed(list) ==
    /\ IsSeq(list)
    /\ \A n \in DOMAIN list : list[n] = [id |-> list[n].id, spans |-> list[n].spans]

\* The traces of a list have the spans at these places, each trace all of its own,
\* in the order of the file.
Gathers(list, S) ==
    /\ Listed(list)
    /\ \A n \in DOMAIN list :
         /\ IsSeq(list[n].spans) /\ list[n].spans # <<>>
         /\ \A i \in DOMAIN list[n].spans :
              \E p \in S : From(list[n].spans[i], p) /\ TraceAt(p) = list[n].id
    /\ \A p \in S : \E n \in DOMAIN list : \E i \in DOMAIN list[n].spans : From(list[n].spans[i], p)
    /\ \A n \in DOMAIN list : \A i, j \in DOMAIN list[n].spans : \A p, q \in S :
         i < j /\ From(list[n].spans[i], p) /\ From(list[n].spans[j], q) => ComesBefore(p, q)
    /\ \A m, n \in DOMAIN list : \A p, q \in S :
         m < n /\ From(list[m].spans[1], p) /\ From(list[n].spans[1], q) => ComesBefore(p, q)
    /\ \A m, n \in DOMAIN list : list[m].id = list[n].id => m = n

Orders(list) == UNION {{list[n].spans[i].order : i \in DOMAIN list[n].spans} : n \in DOMAIN list}

\* They are numbered from 0, increasing in each trace.
Numbers(list, S) ==
    /\ Orders(list) = 0..(Cardinality(S) - 1)
    /\ \A n \in DOMAIN list : \A i, j \in DOMAIN list[n].spans :
         i < j => list[n].spans[i].order < list[n].spans[j].order

Collects(list, S) == Unique(S) /\ Gathers(list, S) /\ Numbers(list, S)

\* What the decoded documents are.
Decoded ==
    /\ stream \in Streams
    /\ IsSeq(documents) /\ Len(documents) <= Len(stream)
    /\ \A n \in DOMAIN documents : stream[n].kind = "traces" /\ documents[n] = stream[n].resources
    /\ phase = "decode" => snapshot = <<>> /\ merged = {}
    /\ phase \notin {"decode", "rejected"} =>
         documents # <<>> /\ Len(documents) = Len(stream) /\ record \in DOMAIN stream

\* The places of a record, of the earlier ones, of what has been converted of
\* this one, and of its traces that have not been merged.
InRecord(n) == {p \in SpanPlaces : p[1] = n}
Preceding == {p \in SpanPlaces : p[1] < record}
Over == Len(AllParts[record]) - Len(work)
Current == <<record, Over + 1>>
Passed == {p \in Places : p[1] < record \/ (p[1] = record /\ p[2] <= Over)}
Converted == {p \in InRecord(record) : p[2] <= Over}
Remaining == {p \in InRecord(record) : \E n \in DOMAIN traces : traces[n].id = TraceAt(p)}
Merged == Preceding \cup (InRecord(record) \ Remaining)

\* The places of the trace that is merged next.
OfHead == {p \in InRecord(record) : TraceAt(p) = Head(traces).id}

AllGood(S) == \A p \in S : Good(PartAt(p))

Converting ==
    phase = "convert" =>
        /\ IsSeq(work) /\ Len(work) <= Len(AllParts[record])
        /\ \A k \in DOMAIN work : work[k] = AllParts[record][Over + k]
        /\ AllGood(Passed)
        /\ Collects(traces, Converted) /\ seen = Identified(Converted)
        /\ Collects(snapshot, Preceding) /\ merged = Identified(Preceding)

Merging ==
    phase = "merge" =>
        /\ AllGood({p \in Places : p[1] <= record})
        /\ Unique(InRecord(record)) /\ Gathers(traces, Remaining)
        /\ Collects(snapshot, Merged) /\ merged = Identified(Merged)
        /\ \A n \in DOMAIN snapshot : \A p \in Merged, q \in Remaining :
             From(snapshot[n].spans[1], p) => ComesBefore(p, q)

Finished == phase = "done" => AllGood(Places) /\ Collects(snapshot, SpanPlaces)
             /\ \A n \in DOMAIN stream : stream[n].kind = "traces"

ReadInv ==
    /\ phase \in {"decode", "convert", "merge", "done", "rejected"}
    /\ Decoded /\ Converting /\ Merging /\ Finished
    /\ phase = "rejected" => Faulty

-----------------------------------------------------------------------------
LEMMA IsSeqFacts ==
    /\ \A S : \A s \in Seq(S) : IsSeq(s)
    /\ \A s : IsSeq(s) => Len(s) \in Nat /\ DOMAIN s = 1..Len(s)
BY DEF IsSeq

\* A set of numbers that contains 1, and with n also n + 1, contains all of a range.
LEMMA RangeCovered ==
    ASSUME NEW m \in Nat, NEW S, 1 <= m => 1 \in S, \A n \in 1..(m - 1) : n \in S => n + 1 \in S
    PROVE  1..m \subseteq S
<1> DEFINE rest == {n \in 1..m : n \notin S}
<1> SUFFICES ASSUME rest # {} PROVE FALSE
  OBVIOUS
<1>1. rest \subseteq Nat
  OBVIOUS
<1>2. PICK n \in rest : \A k \in rest : ~(<<k, n>> \in OpToRel(<, Nat))
  BY <1>1, WFMin, NatLessThanWellFounded
<1>3. n \in 1..m /\ n # 1 /\ n - 1 \in 1..(m - 1) /\ n - 1 \in 1..m
  OBVIOUS
<1>4. n - 1 \notin rest
  <2>1. <<n - 1, n>> \in OpToRel(<, Nat)
    BY <1>3 DEF OpToRel
  <2> QED BY <1>2, <2>1
<1>5. n - 1 \in S /\ (n - 1) + 1 = n
  BY <1>3, <1>4
<1> QED BY <1>3, <1>5

LEMMA FlattenIsSeq ==
    ASSUME NEW seqs, IsSeq(seqs), \A n \in DOMAIN seqs : IsSeq(seqs[n])
    PROVE  IsSeq(FlattenSeq(seqs))
<1> DEFINE m == Len(seqs)
           R == UNION {{seqs[n][k] : k \in DOMAIN seqs[n]} : n \in DOMAIN seqs}
           step(g, k) == [i \in 1..k |-> IF i = 1 THEN seqs[i] ELSE g[i - 1] \o seqs[i]]
           built == {k \in 1..m : \E g : g = step(g, k)}
<1>1. m \in Nat /\ DOMAIN seqs = 1..m
  BY IsSeqFacts
<1>2. \A n \in 1..m : seqs[n] \in Seq(R)
  <2> SUFFICES ASSUME NEW n \in 1..m PROVE seqs[n] \in Seq(R)
    OBVIOUS
  <2>1. seqs[n] \in Seq({seqs[n][k] : k \in DOMAIN seqs[n]})
    BY <1>1 DEF IsSeq
  <2>2. {seqs[n][k] : k \in DOMAIN seqs[n]} \subseteq R
    BY <1>1
  <2> QED BY <2>1, <2>2
<1>3. 1 <= m => 1 \in built
  <2> SUFFICES ASSUME 1 <= m PROVE 1 \in built
    OBVIOUS
  <2> DEFINE g == [i \in 1..1 |-> seqs[1]]
  <2>1. g = step(g, 1)
    OBVIOUS
  <2>2. 1 \in 1..m
    BY <1>1
  <2> QED BY <2>1, <2>2
<1>4. ASSUME NEW k \in 1..(m - 1), k \in built PROVE k + 1 \in built
  <2>1. PICK g : g = step(g, k)
    BY <1>4
  <2> DEFINE h == [i \in 1..(k + 1) |-> IF i <= k THEN g[i] ELSE g[k] \o seqs[k + 1]]
  <2>2. h = step(h, k + 1)
    <3>1. \A i \in 1..(k + 1) : h[i] = IF i = 1 THEN seqs[i] ELSE h[i - 1] \o seqs[i]
      <4> SUFFICES ASSUME NEW i \in 1..(k + 1)
                   PROVE  h[i] = IF i = 1 THEN seqs[i] ELSE h[i - 1] \o seqs[i]
        OBVIOUS
      <4>1. CASE i <= k
        <5>1. i \in 1..k /\ h[i] = g[i] /\ (i # 1 => i - 1 \in 1..(k + 1) /\ i - 1 <= k)
          BY <1>1, <4>1
        <5>2. g[i] = IF i = 1 THEN seqs[i] ELSE g[i - 1] \o seqs[i]
          BY <2>1, <5>1
        <5> QED BY <5>1, <5>2
      <4>2. CASE ~(i <= k)
        <5>1. i = k + 1 /\ i # 1 /\ i - 1 = k /\ k \in 1..(k + 1) /\ k <= k
          BY <1>1, <4>2
        <5>2. h[i] = g[k] \o seqs[i] /\ h[k] = g[k]
          BY <4>2, <5>1
        <5>3. h[i - 1] = h[k]
          BY <5>1
        <5> HIDE DEF h
        <5> QED BY <5>1, <5>2, <5>3
      <4> QED BY <4>1, <4>2
    <3> QED BY <3>1
  <2>3. k + 1 \in 1..m
    BY <1>1
  <2> QED BY <2>2, <2>3
<1>5. 1..m \subseteq built
  <2> HIDE DEF built
  <2> QED BY <1>1, <1>3, <1>4, RangeCovered
<1>6. CASE m = 0
  BY <1>1, <1>6 DEF FlattenSeq
<1>7. CASE m # 0
  <2> DEFINE flatten == CHOOSE g : g = step(g, m)
  <2>1. flatten = step(flatten, m)
    <3>1. m \in 1..m
      BY <1>1, <1>7
    <3>2. \E g : g = step(g, m)
      BY <1>5, <3>1
    <3> QED BY <3>2
  <2>2. FlattenSeq(seqs) = flatten[m]
    BY <1>7 DEF FlattenSeq
  <2> DEFINE good == {k \in 1..m : flatten[k] \in Seq(R)}
  <2> HIDE DEF flatten
  <2>3. \A i \in 1..m : flatten[i] = IF i = 1 THEN seqs[i] ELSE flatten[i - 1] \o seqs[i]
    BY <2>1
  <2>4. 1 \in good
    BY <1>1, <1>2, <1>7, <2>3
  <2>5. ASSUME NEW k \in 1..(m - 1), k \in good PROVE k + 1 \in good
    <3>1. k + 1 \in 1..m /\ k + 1 # 1 /\ (k + 1) - 1 = k
      BY <1>1
    <3>2. flatten[k + 1] = flatten[k] \o seqs[k + 1]
      BY <2>3, <3>1
    <3>3. flatten[k] \in Seq(R) /\ seqs[k + 1] \in Seq(R)
      BY <1>2, <2>5, <3>1
    <3> HIDE DEF R
    <3>4. \A a, b \in Seq(R) : a \o b \in Seq(R)
      OBVIOUS
    <3> QED BY <3>1, <3>2, <3>3, <3>4
  <2>6. m \in good
    <3> HIDE DEF good
    <3>1. 1..m \subseteq good
      BY <1>1, <2>4, <2>5, RangeCovered
    <3> QED BY <1>1, <1>7, <3>1
  <2> QED BY <2>2, <2>6, IsSeqFacts
<1> QED BY <1>6, <1>7

\* Sequences stay sequences.
LEMMA SeqOperators ==
    /\ \A m \in Nat : \A f : DOMAIN f = 1..m /\ f = [i \in 1..m |-> f[i]] => IsSeq(f)
    /\ \A s, t : IsSeq(s) /\ IsSeq(t) =>
         /\ IsSeq(s \o t) /\ Len(s \o t) = Len(s) + Len(t)
         /\ \A i \in 1..Len(s) : (s \o t)[i] = s[i]
         /\ \A i \in 1..Len(t) : (s \o t)[Len(s) + i] = t[i]
    /\ \A s, x : IsSeq(s) =>
         /\ IsSeq(Append(s, x)) /\ Len(Append(s, x)) = Len(s) + 1
         /\ \A i \in 1..Len(s) : Append(s, x)[i] = s[i]
         /\ Append(s, x)[Len(s) + 1] = x
    /\ \A s : IsSeq(s) /\ s # <<>> =>
         /\ IsSeq(Tail(s)) /\ Len(Tail(s)) = Len(s) - 1 /\ Len(s) \in Nat \ {0}
         /\ Head(s) = s[1]
         /\ \A i \in 1..(Len(s) - 1) : Tail(s)[i] = s[i + 1]
    /\ \A x : IsSeq(<<x>>) /\ Len(<<x>>) = 1 /\ <<x>>[1] = x /\ <<x>> # <<>>
    /\ IsSeq(<<>>) /\ Len(<<>>) = 0
    /\ \A s : IsSeq(s) => (s = <<>> <=> Len(s) = 0)
<1> DEFINE R(s) == {s[n] : n \in DOMAIN s}
<1>0. \A s : IsSeq(s) => s \in Seq(R(s)) /\ Len(s) \in Nat /\ DOMAIN s = 1..Len(s)
  BY DEF IsSeq
<1>1. \A S : \A s \in Seq(S) : IsSeq(s)
  BY IsSeqFacts
<1>2. ASSUME NEW m \in Nat, NEW f, DOMAIN f = 1..m, f = [i \in 1..m |-> f[i]] PROVE IsSeq(f)
  BY <1>2 DEF IsSeq
<1>3. ASSUME NEW s, NEW t, IsSeq(s), IsSeq(t)
      PROVE  /\ IsSeq(s \o t) /\ Len(s \o t) = Len(s) + Len(t)
             /\ \A i \in 1..Len(s) : (s \o t)[i] = s[i]
             /\ \A i \in 1..Len(t) : (s \o t)[Len(s) + i] = t[i]
  <2> DEFINE U == R(s) \cup R(t)
  <2>1. s \in Seq(U) /\ t \in Seq(U)
    <3>1. s \in Seq(R(s)) /\ t \in Seq(R(t)) /\ R(s) \subseteq U /\ R(t) \subseteq U
      BY <1>0, <1>3
    <3> HIDE DEF R, U
    <3> QED BY <3>1
  <2> HIDE DEF U
  <2>2. s \o t \in Seq(U) /\ Len(s \o t) = Len(s) + Len(t) /\ Len(s) \in Nat /\ Len(t) \in Nat
    BY <2>1
  <2>3. \A i \in 1..Len(s) : (s \o t)[i] = s[i]
    BY <2>1, <2>2
  <2>4. \A i \in 1..Len(t) : (s \o t)[Len(s) + i] = t[i]
    BY <2>1, <2>2
  <2> QED BY <2>2, <2>3, <2>4, <1>1
<1>4. ASSUME NEW s, NEW x, IsSeq(s)
      PROVE  /\ IsSeq(Append(s, x)) /\ Len(Append(s, x)) = Len(s) + 1
             /\ \A i \in 1..Len(s) : Append(s, x)[i] = s[i]
             /\ Append(s, x)[Len(s) + 1] = x
  <2> DEFINE U == R(s) \cup {x}
  <2>1. s \in Seq(U) /\ x \in U
    <3>1. s \in Seq(R(s)) /\ R(s) \subseteq U /\ x \in U
      BY <1>0, <1>4
    <3> HIDE DEF R, U
    <3> QED BY <3>1
  <2> HIDE DEF U
  <2>2. Append(s, x) \in Seq(U) /\ Len(Append(s, x)) = Len(s) + 1
    BY <2>1
  <2>3. \A i \in 1..Len(s) : Append(s, x)[i] = s[i]
    BY <2>1
  <2>4. Append(s, x)[Len(s) + 1] = x
    BY <2>1
  <2> QED BY <2>2, <2>3, <2>4, <1>1
<1>5. ASSUME NEW s, IsSeq(s), s # <<>>
      PROVE  /\ IsSeq(Tail(s)) /\ Len(Tail(s)) = Len(s) - 1 /\ Len(s) \in Nat \ {0}
             /\ Head(s) = s[1]
             /\ \A i \in 1..(Len(s) - 1) : Tail(s)[i] = s[i + 1]
  <2> DEFINE U == R(s)
  <2>1. s \in Seq(U) /\ s # <<>>
    BY <1>0, <1>5
  <2> HIDE DEF U
  <2>2. Tail(s) \in Seq(U) /\ Len(Tail(s)) = Len(s) - 1 /\ Len(s) \in Nat \ {0} /\ Head(s) = s[1]
    BY <2>1
  <2>3. \A i \in 1..(Len(s) - 1) : Tail(s)[i] = s[i + 1]
    BY <2>1
  <2> QED BY <2>2, <2>3, <1>1
<1>6. \A x : IsSeq(<<x>>) /\ Len(<<x>>) = 1 /\ <<x>>[1] = x /\ <<x>> # <<>>
  BY DEF IsSeq
<1>7. IsSeq(<<>>) /\ Len(<<>>) = 0
  BY DEF IsSeq
<1>8. \A s : IsSeq(s) => (s = <<>> <=> Len(s) = 0)
  <2> SUFFICES ASSUME NEW s, IsSeq(s) PROVE s = <<>> <=> Len(s) = 0
    OBVIOUS
  <2> DEFINE U == R(s)
  <2>1. s \in Seq(U)
    BY <1>0
  <2> HIDE DEF U
  <2> QED BY <2>1
<1> QED BY <1>2, <1>3, <1>4, <1>5, <1>6, <1>7, <1>8

\* The parts of a document are a sequence.
LEMMA PartsIsSeq == ASSUME NEW document, IsDocument(document) PROVE IsSeq(Parts(document))
<1>1. ASSUME NEW resource, NEW scope, IsSeq(scope.spans) PROVE IsSeq(ScopeParts(resource, scope))
  <2> DEFINE f == [n \in DOMAIN scope.spans |->
               [what |-> "span", resource |-> resource, scope |-> scope, span |-> scope.spans[n]]]
  <2>1. IsSeq(f)
    BY <1>1, IsSeqFacts, SeqOperators
  <2> HIDE DEF f
  <2>2. IsSeq(<<[what |-> "scope", resource |-> resource, scope |-> scope]>> \o f)
    BY <2>1, SeqOperators
  <2> QED BY <2>2 DEF ScopeParts, f
<1>2. ASSUME NEW resource, IsSeq(resource.scopes),
             \A s \in DOMAIN resource.scopes : IsSeq(resource.scopes[s].spans)
      PROVE  IsSeq(ResourceParts(resource))
  <2> DEFINE f == [s \in DOMAIN resource.scopes |-> ScopeParts(resource, resource.scopes[s])]
  <2>1. IsSeq(f)
    BY <1>2, IsSeqFacts, SeqOperators
  <2>2. \A s \in DOMAIN f : IsSeq(f[s])
    BY <1>1, <1>2
  <2> HIDE DEF f
  <2>3. IsSeq(FlattenSeq(f))
    BY <2>1, <2>2, FlattenIsSeq
  <2>4. IsSeq(<<[what |-> "resource", resource |-> resource]>> \o FlattenSeq(f))
    BY <2>3, SeqOperators
  <2> QED BY <2>4 DEF ResourceParts, f
<1> DEFINE f == [r \in DOMAIN document |-> ResourceParts(document[r])]
<1>3. IsSeq(f)
  BY IsSeqFacts, SeqOperators DEF IsDocument
<1>4. \A r \in DOMAIN f : IsSeq(f[r])
  BY <1>2 DEF IsDocument
<1> HIDE DEF f
<1>5. IsSeq(FlattenSeq(f))
  BY <1>3, <1>4, FlattenIsSeq
<1> QED BY <1>5 DEF Parts, f

\* Places are pairs of numbers, finitely many.
LEMMA PartPlaces ==
    ASSUME stream \in Streams
    PROVE  /\ IsSeq(stream) /\ Len(stream) \in Nat /\ DOMAIN stream = 1..Len(stream)
           /\ \A n \in DOMAIN stream :
                /\ AllParts[n] = Parts(stream[n].resources)
                /\ IsSeq(AllParts[n]) /\ Len(AllParts[n]) \in Nat
                /\ DOMAIN AllParts[n] = 1..Len(AllParts[n])
           /\ \A p : p \in Places <=>
                /\ p = <<p[1], p[2]>>
                /\ p[1] \in DOMAIN stream /\ p[2] \in 1..Len(AllParts[p[1]])
           /\ IsFiniteSet(SpanPlaces)
<1>1. IsSeq(stream) /\ Len(stream) \in Nat /\ DOMAIN stream = 1..Len(stream)
  BY IsSeqFacts, ParserAssumption
<1>2. \A n \in DOMAIN stream :
        /\ AllParts[n] = Parts(stream[n].resources)
        /\ IsSeq(AllParts[n]) /\ Len(AllParts[n]) \in Nat
        /\ DOMAIN AllParts[n] = 1..Len(AllParts[n])
  BY PartsIsSeq, IsSeqFacts, ParserAssumption DEF AllParts
<1>3. \A p : p \in Places <=>
        /\ p = <<p[1], p[2]>>
        /\ p[1] \in DOMAIN stream /\ p[2] \in 1..Len(AllParts[p[1]])
  BY <1>2 DEF Places
<1>4. IsFiniteSet(Places)
  <2> DEFINE row(n) == {n} \X DOMAIN AllParts[n]
             rows == {row(n) : n \in DOMAIN stream}
  <2>1. IsFiniteSet(DOMAIN stream)
    BY <1>1, FS_Interval
  <2>2. IsFiniteSet(rows)
    <3> DEFINE f == [n \in DOMAIN stream |-> row(n)]
    <3>1. f \in Surjection(DOMAIN stream, rows)
      BY DEF Surjection
    <3> HIDE DEF f, rows
    <3> QED BY <2>1, <3>1, FS_Surjection
  <2>3. ASSUME NEW n \in DOMAIN stream PROVE IsFiniteSet(row(n))
    <3>1. Len(AllParts[n]) \in Int /\ DOMAIN AllParts[n] = 1..Len(AllParts[n])
      BY <1>2
    <3>2. IsFiniteSet(1..Len(AllParts[n]))
      BY <3>1, FS_Interval
    <3>3. IsFiniteSet({n})
      BY FS_Singleton
    <3> QED BY <3>1, <3>2, <3>3, FS_Product
  <2>4. Places = UNION rows
    BY DEF Places
  <2> QED BY <2>2, <2>3, <2>4, FS_UNION
<1>5. IsFiniteSet(SpanPlaces)
  BY <1>4, FS_Subset DEF SpanPlaces
<1> QED BY <1>1, <1>2, <1>3, <1>5
-----------------------------------------------------------------------------
(* Spans and their places *)

\* Two places of one span have one identity, whatever its order.
LEMMA FromFacts ==
    /\ \A span, p : From(span, p) => IdentityAt(p) = <<span.trace, span.id>>
    /\ \A span, p, n : From(span, p) =>
         From([span EXCEPT !.order = n], p) /\ [span EXCEPT !.order = n].order = n
    /\ \A p, n : From(Convert(PartAt(p), n), p) /\ Convert(PartAt(p), n).order = n
    /\ \A S, span : Unique(S) => \A p, q \in S : From(span, p) /\ From(span, q) => p = q
<1>1. ASSUME NEW span, NEW p, From(span, p) PROVE IdentityAt(p) = <<span.trace, span.id>>
  <2>1. /\ Convert(PartAt(p), span.order).trace = Lower(PartAt(p).span.trace)
        /\ Convert(PartAt(p), span.order).id = Lower(PartAt(p).span.id)
    BY DEF Convert
  <2>2. IdentityAt(p) = <<Lower(PartAt(p).span.trace), Lower(PartAt(p).span.id)>>
    BY DEF IdentityAt, Identity
  <2>3. span = Convert(PartAt(p), span.order)
    BY <1>1 DEF From
  <2> QED BY <2>1, <2>2, <2>3
<1>2. \A p, n : From(Convert(PartAt(p), n), p) /\ Convert(PartAt(p), n).order = n
  BY DEF From, Convert
<1>3. ASSUME NEW span, NEW p, NEW n, From(span, p)
      PROVE  From([span EXCEPT !.order = n], p) /\ [span EXCEPT !.order = n].order = n
  <2>1. [Convert(PartAt(p), span.order) EXCEPT !.order = n] = Convert(PartAt(p), n)
    BY DEF Convert
  <2>2. [span EXCEPT !.order = n] = Convert(PartAt(p), n)
    BY <1>3, <2>1 DEF From
  <2> QED BY <1>2, <2>2
<1>4. \A S, span : Unique(S) => \A p, q \in S : From(span, p) /\ From(span, q) => p = q
  BY <1>1 DEF Unique
<1> QED BY <1>1, <1>2, <1>3, <1>4

\* An accepted span has the clocks, the duration and the identity of its place.
LEMMA ConvertedFacts ==
    ASSUME NEW p \in SpanPlaces, Good(PartAt(p)), NEW span, From(span, p)
    PROVE  /\ Identity(span) = IdentityAt(p)
           /\ span.start = PartAt(p).span.start.value
           /\ span.start + span.duration = PartAt(p).span.end.value
<1> DEFINE given == PartAt(p).span
<1>1. GoodSpan(given)
  BY DEF SpanPlaces, Good
<1>2. span.trace = Lower(given.trace) /\ span.id = Lower(given.id)
  BY FromFacts DEF IdentityAt, Identity
<1>3. Identity(span) = IdentityAt(p)
  <2>1. Lower(Lower(given.trace)) = Lower(given.trace) /\ Lower(Lower(given.id)) = Lower(given.id)
    BY <1>1, ParserAssumption DEF GoodSpan
  <2> QED BY <1>2, <2>1 DEF Identity, IdentityAt
<1>4. span.start = given.start.value /\ span.duration = Duration(given.start.value, given.end.value)
  <2>1. span = Convert(PartAt(p), span.order)
    BY DEF From
  <2>2. /\ Convert(PartAt(p), span.order).start = given.start.value
        /\ Convert(PartAt(p), span.order).duration = Duration(given.start.value, given.end.value)
    BY DEF Convert
  <2> QED BY <2>1, <2>2
<1>5. Duration(given.start.value, given.end.value) = given.end.value - given.start.value
      /\ given.start.value \in Int /\ given.end.value \in Int
  <2> DEFINE first == given.start.value
             last == given.end.value
             range == 2^ClockBits
             half == 2^(ClockBits - 1)
  <2>1. range \in Int /\ half \in Int
    BY ParserAssumption
  <2>2. first \in 0..(range - 1) /\ last \in 0..(range - 1) /\ last >= first /\ last - first <= half - 1
    BY <1>1 DEF GoodSpan, GoodTimes, Unsigned
  <2>3. Duration(first, last) =
          IF (last - first) % range < half THEN (last - first) % range
                                           ELSE ((last - first) % range) - range
    BY DEF Duration
  <2> HIDE DEF first, last, range, half
  <2>4. range \in Nat /\ last - first \in 0..(range - 1)
    BY <2>1, <2>2
  <2>5. (last - first) % range = last - first
    BY <2>4
  <2>6. Duration(first, last) = last - first /\ first \in Int /\ last \in Int
    BY <2>1, <2>2, <2>3, <2>5
  <2> QED BY <2>6 DEF first, last
<1> HIDE DEF given
<1>6. span.start + span.duration = given.end.value
  BY <1>4, <1>5
<1> QED BY <1>3, <1>4, <1>6 DEF given

\* Places in order.
LEMMA ComesBeforeFacts ==
    ASSUME stream \in Streams
    PROVE  /\ \A p \in SpanPlaces : ~ComesBefore(p, p) /\ p = <<p[1], p[2]>> /\ p[1] \in Nat /\ p[2] \in Nat
           /\ \A p, q, r \in SpanPlaces : ComesBefore(p, q) /\ ComesBefore(q, r) => ComesBefore(p, r)
           /\ \A p, q \in SpanPlaces : p # q => ComesBefore(p, q) \/ ComesBefore(q, p)
<1>1. \A p \in SpanPlaces : p = <<p[1], p[2]>> /\ p[1] \in Nat /\ p[2] \in Nat
  BY PartPlaces DEF SpanPlaces
<1> QED BY <1>1 DEF ComesBefore

\* Nothing at no places.
LEMMA NoneGathered == Gathers(<<>>, {}) /\ Numbers(<<>>, {}) /\ Unique({})
<1>1. IsSeq(<<>>) /\ DOMAIN <<>> = {}
  BY SeqOperators
<1>2. Cardinality({}) = 0
  BY FS_EmptySet
<1>3. 0..(0 - 1) = {}
  OBVIOUS
<1> QED BY <1>1, <1>2, <1>3 DEF Gathers, Listed, Numbers, Unique, Orders
-----------------------------------------------------------------------------
(* Spans are added to a list *)

\* The list that AddSpans makes, trace by trace.
Extended(list, id, added, more) ==
    /\ \/ /\ \E n \in DOMAIN list : list[n].id = id
          /\ DOMAIN more = DOMAIN list
       \/ /\ \A n \in DOMAIN list : list[n].id # id
          /\ Len(list) \in Nat
          /\ DOMAIN more = DOMAIN list \cup {Len(list) + 1}
          /\ Len(list) + 1 \notin DOMAIN list
          /\ more[Len(list) + 1] = [id |-> id, spans |-> added]
    /\ \A n \in DOMAIN list :
         /\ more[n] = [id |-> more[n].id, spans |-> more[n].spans]
         /\ more[n].id = list[n].id
         /\ more[n].spans = IF list[n].id = id THEN list[n].spans \o added
                                              ELSE list[n].spans
    /\ IsSeq(more)

LEMMA AddedList ==
    ASSUME NEW list, Listed(list), NEW id, NEW added
    PROVE  Extended(list, id, added, AddSpans(list, id, added))
<1> DEFINE more == AddSpans(list, id, added)
<1>0. Len(list) \in Nat /\ DOMAIN list = 1..Len(list)
  BY IsSeqFacts DEF Listed
<1>1. CASE \E n \in DOMAIN list : list[n].id = id
  <2>1. more = [n \in DOMAIN list |-> IF list[n].id = id THEN [list[n] EXCEPT !.spans = @ \o added]
                                                         ELSE list[n]]
    BY <1>1 DEF AddSpans
  <2>2. DOMAIN more = DOMAIN list /\ more = [n \in 1..Len(list) |-> more[n]]
    BY <1>0, <2>1
  <2>3. IsSeq(more)
    BY <1>0, <2>2, SeqOperators
  <2>4. ASSUME NEW n \in DOMAIN list
        PROVE  /\ more[n] = [id |-> more[n].id, spans |-> more[n].spans]
               /\ more[n].id = list[n].id
               /\ more[n].spans = IF list[n].id = id THEN list[n].spans \o added
                                                    ELSE list[n].spans
    <3>1. list[n] = [id |-> list[n].id, spans |-> list[n].spans]
      BY DEF Listed
    <3>2. [list[n] EXCEPT !.spans = @ \o added] = [id |-> list[n].id, spans |-> list[n].spans \o added]
      <4>1. \A x, old, new : [[id |-> x, spans |-> old] EXCEPT !.spans = new]
                                = [id |-> x, spans |-> new]
        OBVIOUS
      <4> DEFINE both == list[n].spans \o added
      <4> HIDE DEF both
      <4>2. [list[n] EXCEPT !.spans = both] = [id |-> list[n].id, spans |-> both]
        BY <3>1, <4>1
      <4> QED BY <4>2 DEF both
    <3>3. more[n] = IF list[n].id = id THEN [list[n] EXCEPT !.spans = @ \o added] ELSE list[n]
      BY <2>1
    <3> QED BY <3>1, <3>2, <3>3
  <2> HIDE DEF more
  <2>5. Extended(list, id, added, more)
    BY <1>1, <2>2, <2>3, <2>4 DEF Extended
  <2> QED BY <2>5 DEF more
<1>2. CASE \A n \in DOMAIN list : list[n].id # id
  <2>1. more = Append(list, [id |-> id, spans |-> added])
    BY <1>2 DEF AddSpans
  <2>0. IsSeq(list)
    BY DEF Listed
  <2> HIDE DEF more
  <2>2. /\ IsSeq(more) /\ Len(more) = Len(list) + 1
        /\ \A n \in 1..Len(list) : more[n] = list[n]
        /\ more[Len(list) + 1] = [id |-> id, spans |-> added]
    BY <2>0, <2>1, SeqOperators
  <2>3. DOMAIN more = DOMAIN list \cup {Len(list) + 1} /\ Len(list) + 1 \notin DOMAIN list
    BY <1>0, <2>2, IsSeqFacts
  <2>4. ASSUME NEW n \in DOMAIN list
        PROVE  /\ more[n] = [id |-> more[n].id, spans |-> more[n].spans]
               /\ more[n].id = list[n].id
               /\ more[n].spans = IF list[n].id = id THEN list[n].spans \o added
                                                    ELSE list[n].spans
    <3>1. more[n] = list[n] /\ list[n] = [id |-> list[n].id, spans |-> list[n].spans]
      BY <1>0, <2>2 DEF Listed
    <3>2. list[n].id # id
      BY <1>2
    <3> QED BY <3>1, <3>2
  <2>5. Extended(list, id, added, more)
    BY <1>0, <1>2, <2>2, <2>3, <2>4 DEF Extended
  <2> QED BY <2>5 DEF more
<1> QED BY <1>1, <1>2

\* Spans of one trace that come after those a list has of it.
Follows(list, S, id, added, T) ==
    /\ Unique(S \cup T) /\ S \cap T = {}
    /\ IsSeq(added) /\ added # <<>>
    /\ \A i \in DOMAIN added : \E p \in T : From(added[i], p)
    /\ \A p \in T : TraceAt(p) = id /\ \E i \in DOMAIN added : From(added[i], p)
    /\ \A i, j \in DOMAIN added : \A p, q \in T :
         i < j /\ From(added[i], p) /\ From(added[j], q) => ComesBefore(p, q)
    /\ \A p \in S, q \in T : TraceAt(p) = id => ComesBefore(p, q)
    /\ (\A n \in DOMAIN list : list[n].id # id) =>
         \A n \in DOMAIN list : \A p \in S, q \in T :
             From(list[n].spans[1], p) /\ From(added[1], q) => ComesBefore(p, q)

LEMMA AddingGathers ==
    ASSUME NEW list, NEW S, NEW id, NEW added, NEW T,
           Gathers(list, S), Follows(list, S, id, added, T)
    PROVE  Gathers(AddSpans(list, id, added), S \cup T)
<1> DEFINE more == AddSpans(list, id, added)
           last == Len(list) + 1
           known == \E n \in DOMAIN list : list[n].id = id
<1>0. /\ IsSeq(list) /\ Len(list) \in Nat /\ DOMAIN list = 1..Len(list)
      /\ IsSeq(added) /\ Len(added) \in Nat \ {0} /\ DOMAIN added = 1..Len(added)
      /\ \A n \in DOMAIN list :
           /\ IsSeq(list[n].spans) /\ Len(list[n].spans) \in Nat \ {0}
           /\ DOMAIN list[n].spans = 1..Len(list[n].spans)
  BY IsSeqFacts, SeqOperators DEF Gathers, Listed, Follows
<1>1. /\ known => DOMAIN more = DOMAIN list
      /\ ~known => /\ DOMAIN more = DOMAIN list \cup {last}
                   /\ last \notin DOMAIN list
                   /\ more[last] = [id |-> id, spans |-> added]
      /\ \A n \in DOMAIN list :
           /\ more[n] = [id |-> more[n].id, spans |-> more[n].spans]
           /\ more[n].id = list[n].id
           /\ more[n].spans = IF list[n].id = id THEN list[n].spans \o added
                                                ELSE list[n].spans
      /\ IsSeq(more)
  <2>1. Extended(list, id, added, more)
    BY AddedList DEF Gathers
  <2> HIDE DEF more
  <2> QED BY <2>1 DEF Extended
<1> HIDE DEF more
<1>2. \A span : \A p, q \in S \cup T : From(span, p) /\ From(span, q) => p = q
  BY FromFacts DEF Follows
\* The spans of a trace of the new list.
<1>3. ASSUME NEW n \in DOMAIN list, list[n].id = id
      PROVE  /\ IsSeq(more[n].spans) /\ Len(more[n].spans) = Len(list[n].spans) + Len(added)
             /\ DOMAIN more[n].spans = 1..(Len(list[n].spans) + Len(added))
             /\ \A i \in DOMAIN list[n].spans : more[n].spans[i] = list[n].spans[i]
             /\ \A i \in DOMAIN added : more[n].spans[Len(list[n].spans) + i] = added[i]
  <2>1. more[n].spans = list[n].spans \o added
    BY <1>1, <1>3
  <2> QED BY <1>0, <2>1, IsSeqFacts, SeqOperators
<1>4. ASSUME NEW n \in DOMAIN list, list[n].id # id PROVE more[n].spans = list[n].spans
  BY <1>1, <1>4
\* Where a span of the new list is from.
<1>5. ASSUME NEW n \in DOMAIN list, NEW i \in DOMAIN list[n].spans
      PROVE  \E p \in S : From(list[n].spans[i], p) /\ TraceAt(p) = list[n].id
  BY DEF Gathers
<1>6. ASSUME NEW i \in DOMAIN added PROVE \E p \in T : From(added[i], p) /\ TraceAt(p) = id
  BY DEF Follows
<1>7. ASSUME NEW n \in DOMAIN more
      PROVE  /\ more[n] = [id |-> more[n].id, spans |-> more[n].spans]
             /\ IsSeq(more[n].spans) /\ more[n].spans # <<>>
             /\ \A i \in DOMAIN more[n].spans :
                  \E p \in S \cup T : From(more[n].spans[i], p) /\ TraceAt(p) = more[n].id
  <2>1. CASE n \in DOMAIN list /\ list[n].id = id
    <3>1. more[n].id = id /\ more[n] = [id |-> more[n].id, spans |-> more[n].spans]
      BY <1>1, <2>1
    <3>2. more[n].spans # <<>>
      BY <1>0, <1>3, <2>1, SeqOperators
    <3>3. ASSUME NEW i \in DOMAIN more[n].spans
          PROVE  \E p \in S \cup T : From(more[n].spans[i], p) /\ TraceAt(p) = more[n].id
      <4>1. CASE i \in DOMAIN list[n].spans
        BY <1>3, <1>5, <2>1, <3>1, <4>1
      <4>2. CASE i \notin DOMAIN list[n].spans
        <5> DEFINE j == i - Len(list[n].spans)
        <5>1. j \in DOMAIN added /\ Len(list[n].spans) + j = i
          BY <1>0, <1>3, <2>1, <4>2
        <5>2. more[n].spans[i] = added[j]
          BY <1>3, <2>1, <5>1
        <5> QED BY <1>6, <3>1, <5>1, <5>2
      <4> QED BY <4>1, <4>2
    <3> QED BY <1>3, <2>1, <3>1, <3>2, <3>3
  <2>2. CASE n \in DOMAIN list /\ list[n].id # id
    <3>1. more[n].id = list[n].id /\ more[n] = [id |-> more[n].id, spans |-> more[n].spans]
      BY <1>1, <2>2
    <3>2. more[n].spans = list[n].spans
      BY <1>4, <2>2
    <3> QED BY <1>5, <2>2, <3>1, <3>2 DEF Gathers
  <2>3. CASE n \notin DOMAIN list
    <3>1. n = last /\ more[n] = [id |-> id, spans |-> added]
      BY <1>1, <2>3
    <3>2. more[n].id = id /\ more[n].spans = added
      BY <3>1
    <3> QED BY <1>6, <3>1, <3>2 DEF Follows
  <2> QED BY <2>1, <2>2, <2>3
\* Every place is in the new list.
<1>8. ASSUME NEW p \in S \cup T
      PROVE  \E n \in DOMAIN more : \E i \in DOMAIN more[n].spans : From(more[n].spans[i], p)
  <2>1. CASE p \in S
    <3>1. PICK n \in DOMAIN list : \E i \in DOMAIN list[n].spans : From(list[n].spans[i], p)
      BY <2>1 DEF Gathers
    <3>2. PICK i \in DOMAIN list[n].spans : From(list[n].spans[i], p)
      BY <3>1
    <3>3. n \in DOMAIN more
      BY <1>1
    <3>4. i \in DOMAIN more[n].spans /\ more[n].spans[i] = list[n].spans[i]
      BY <1>0, <1>3, <1>4
    <3> QED BY <3>2, <3>3, <3>4
  <2>2. CASE p \in T
    <3>1. PICK i \in DOMAIN added : From(added[i], p)
      BY <2>2 DEF Follows
    <3>2. CASE known
      <4>1. PICK n \in DOMAIN list : list[n].id = id
        BY <3>2
      <4> DEFINE j == Len(list[n].spans) + i
      <4>2. j \in DOMAIN more[n].spans /\ more[n].spans[j] = added[i]
        BY <1>0, <1>3, <4>1
      <4>3. n \in DOMAIN more
        BY <1>1
      <4> QED BY <3>1, <4>2, <4>3
    <3>3. CASE ~known
      <4>1. last \in DOMAIN more /\ more[last].spans = added
        BY <1>1, <3>3
      <4> QED BY <3>1, <4>1
    <3> QED BY <3>2, <3>3
  <2> QED BY <2>1, <2>2
\* Each trace in the order of the file.
<1>9. ASSUME NEW n \in DOMAIN more, NEW i \in DOMAIN more[n].spans, NEW j \in DOMAIN more[n].spans,
             NEW p \in S \cup T, NEW q \in S \cup T,
             i < j, From(more[n].spans[i], p), From(more[n].spans[j], q)
      PROVE  ComesBefore(p, q)
  <2>1. CASE n \in DOMAIN list /\ list[n].id = id
    <3> DEFINE old == list[n].spans
               m == Len(old)
    <3>0. /\ m \in Nat /\ DOMAIN old = 1..m /\ i \in 1..(m + Len(added)) /\ j \in 1..(m + Len(added))
          /\ DOMAIN added = 1..Len(added) /\ Len(added) \in Nat
      BY <1>0, <1>3, <2>1
    <3> HIDE DEF m
    <3>1. CASE j \in DOMAIN old
      <4>1. i \in DOMAIN old
        BY <1>9, <3>0, <3>1
      <4>2. more[n].spans[i] = old[i] /\ more[n].spans[j] = old[j]
        BY <1>3, <2>1, <3>1, <4>1
      <4>3. p \in S /\ q \in S
        BY <1>2, <1>5, <1>9, <2>1, <3>1, <4>1, <4>2
      <4>4. \A x, y \in S : From(old[i], x) /\ From(old[j], y) => ComesBefore(x, y)
        BY <1>9, <2>1, <3>1, <4>1 DEF Gathers
      <4> QED BY <1>9, <4>2, <4>3, <4>4
    <3>2. CASE i \in DOMAIN old /\ j \notin DOMAIN old
      <4>1. j - m \in DOMAIN added /\ m + (j - m) = j
        BY <3>0, <3>2
      <4>2. more[n].spans[i] = old[i] /\ more[n].spans[j] = added[j - m]
        BY <1>3, <2>1, <3>2, <4>1 DEF m
      <4>3. p \in S /\ TraceAt(p) = id
        BY <1>2, <1>5, <1>9, <2>1, <3>2, <4>2
      <4>4. q \in T
        BY <1>2, <1>6, <1>9, <4>1, <4>2
      <4> QED BY <4>3, <4>4 DEF Follows
    <3>3. CASE i \notin DOMAIN old /\ j \notin DOMAIN old
      <4>1. /\ i - m \in DOMAIN added /\ m + (i - m) = i
            /\ j - m \in DOMAIN added /\ m + (j - m) = j /\ i - m < j - m
        BY <1>9, <3>0, <3>3
      <4>2. more[n].spans[i] = added[i - m] /\ more[n].spans[j] = added[j - m]
        BY <1>3, <2>1, <4>1 DEF m
      <4>3. p \in T /\ q \in T
        BY <1>2, <1>6, <1>9, <4>1, <4>2
      <4>4. \A x, y \in T : From(added[i - m], x) /\ From(added[j - m], y) => ComesBefore(x, y)
        BY <4>1 DEF Follows
      <4> QED BY <1>9, <4>2, <4>3, <4>4
    <3> QED BY <3>1, <3>2, <3>3
  <2>2. CASE n \in DOMAIN list /\ list[n].id # id
    <3>1. more[n].spans = list[n].spans
      BY <1>4, <2>2
    <3>2. p \in S /\ q \in S
      BY <1>2, <1>5, <1>9, <2>2, <3>1
    <3>3. \A x, y \in S : From(list[n].spans[i], x) /\ From(list[n].spans[j], y) => ComesBefore(x, y)
      BY <1>9, <2>2, <3>1 DEF Gathers
    <3> QED BY <1>9, <3>1, <3>2, <3>3
  <2>3. CASE n \notin DOMAIN list
    <3>1. more[n].spans = added
      BY <1>1, <2>3
    <3>2. p \in T /\ q \in T
      BY <1>2, <1>6, <1>9, <3>1
    <3>3. \A x, y \in T : From(added[i], x) /\ From(added[j], y) => ComesBefore(x, y)
      BY <1>9, <3>1 DEF Follows
    <3> QED BY <1>9, <3>1, <3>2, <3>3
  <2> QED BY <2>1, <2>2, <2>3
\* The traces in the order of their first spans.
<1>10. ASSUME NEW m \in DOMAIN more, NEW n \in DOMAIN more, NEW p \in S \cup T, NEW q \in S \cup T,
              m < n, From(more[m].spans[1], p), From(more[n].spans[1], q)
       PROVE  ComesBefore(p, q)
  <2>1. ASSUME NEW k \in DOMAIN list
        PROVE  1 \in DOMAIN list[k].spans /\ more[k].spans[1] = list[k].spans[1]
    BY <1>0, <1>3, <1>4
  <2>2. ASSUME NEW k \in DOMAIN list, NEW r \in S \cup T, From(list[k].spans[1], r) PROVE r \in S
    BY <1>2, <1>5, <2>1, <2>2
  <2>3. m \in DOMAIN list
    BY <1>0, <1>1, <1>10
  <2>4. p \in S /\ From(list[m].spans[1], p)
    BY <1>10, <2>1, <2>2, <2>3
  <2>5. CASE n \in DOMAIN list
    <3>1. q \in S /\ From(list[n].spans[1], q)
      BY <1>10, <2>1, <2>2, <2>5
    <3> QED BY <1>10, <2>3, <2>4, <2>5, <3>1 DEF Gathers
  <2>6. CASE n \notin DOMAIN list
    <3>1. ~known /\ more[n].spans = added /\ 1 \in DOMAIN added
      BY <1>0, <1>1, <2>6
    <3>2. q \in T
      BY <1>2, <1>6, <1>10, <3>1
    <3> QED BY <1>10, <2>3, <2>4, <3>1, <3>2 DEF Follows
  <2> QED BY <2>5, <2>6
<1>11. ASSUME NEW m \in DOMAIN more, NEW n \in DOMAIN more, more[m].id = more[n].id PROVE m = n
  <2>1. \A k \in DOMAIN list : more[k].id = list[k].id
    BY <1>1
  <2>2. ~known => more[last].id = id
    BY <1>1
  <2>3. \A k, l \in DOMAIN list : list[k].id = list[l].id => k = l
    BY DEF Gathers
  <2> QED BY <1>1, <1>11, <2>1, <2>2, <2>3
<1>12. Gathers(more, S \cup T)
  BY <1>1, <1>7, <1>8, <1>9, <1>10, <1>11 DEF Gathers, Listed
<1> QED BY <1>12 DEF more
\* The spans of the new list.
Spread(list, id, added, more) ==
    /\ Len(list) \in Nat /\ DOMAIN list = 1..Len(list)
    /\ Len(added) \in Nat \ {0} /\ DOMAIN added = 1..Len(added)
    /\ DOMAIN list \subseteq DOMAIN more
    /\ \A n \in DOMAIN more : n \notin DOMAIN list => more[n].spans = added
    /\ \A n \in DOMAIN list :
         /\ Len(list[n].spans) \in Nat \ {0}
         /\ DOMAIN list[n].spans = 1..Len(list[n].spans)
         /\ list[n].id # id => more[n].spans = list[n].spans
         /\ list[n].id = id =>
              /\ DOMAIN more[n].spans = 1..(Len(list[n].spans) + Len(added))
              /\ \A i \in DOMAIN list[n].spans : more[n].spans[i] = list[n].spans[i]
              /\ \A i \in DOMAIN added : more[n].spans[Len(list[n].spans) + i] = added[i]
    /\ \E n \in DOMAIN more : more[n].id = id /\ \A i \in DOMAIN added :
         \E j \in DOMAIN more[n].spans : more[n].spans[j] = added[i]

LEMMA AddedSpans ==
    ASSUME NEW list, NEW S, Gathers(list, S), NEW id, NEW added, IsSeq(added), added # <<>>,
           NEW more, Extended(list, id, added, more)
    PROVE  Spread(list, id, added, more)
<1>0. /\ IsSeq(list) /\ Len(list) \in Nat /\ DOMAIN list = 1..Len(list)
      /\ IsSeq(added) /\ Len(added) \in Nat \ {0} /\ DOMAIN added = 1..Len(added)
      /\ \A n \in DOMAIN list :
           /\ IsSeq(list[n].spans) /\ Len(list[n].spans) \in Nat \ {0}
           /\ DOMAIN list[n].spans = 1..Len(list[n].spans)
  BY IsSeqFacts, SeqOperators DEF Gathers, Listed
<1>1. DOMAIN list \subseteq DOMAIN more
  BY DEF Extended
<1>2. ASSUME NEW n \in DOMAIN more, n \notin DOMAIN list PROVE more[n].spans = added
  <2>1. n = Len(list) + 1 /\ more[n] = [id |-> id, spans |-> added]
    BY <1>2 DEF Extended
  <2> QED BY <2>1
<1>3. ASSUME NEW n \in DOMAIN list, list[n].id = id
      PROVE  /\ DOMAIN more[n].spans = 1..(Len(list[n].spans) + Len(added))
             /\ \A i \in DOMAIN list[n].spans : more[n].spans[i] = list[n].spans[i]
             /\ \A i \in DOMAIN added : more[n].spans[Len(list[n].spans) + i] = added[i]
  <2>1. more[n].spans = list[n].spans \o added
    BY <1>3 DEF Extended
  <2> QED BY <1>0, <2>1, IsSeqFacts, SeqOperators
<1>4. ASSUME NEW n \in DOMAIN list, list[n].id # id PROVE more[n].spans = list[n].spans
  BY <1>4 DEF Extended
<1>5. \E n \in DOMAIN more : more[n].id = id /\ \A i \in DOMAIN added :
        \E j \in DOMAIN more[n].spans : more[n].spans[j] = added[i]
  <2>1. CASE \E n \in DOMAIN list : list[n].id = id
    <3>1. PICK n \in DOMAIN list : list[n].id = id
      BY <2>1
    <3>2. ASSUME NEW i \in DOMAIN added
          PROVE  \E j \in DOMAIN more[n].spans : more[n].spans[j] = added[i]
      <4>1. Len(list[n].spans) + i \in DOMAIN more[n].spans
        BY <1>0, <1>3, <3>1
      <4> QED BY <1>3, <3>1, <4>1
    <3>3. more[n].id = id
      BY <3>1 DEF Extended
    <3> QED BY <1>1, <3>2, <3>3
  <2>2. CASE \A n \in DOMAIN list : list[n].id # id
    <3>1. Len(list) + 1 \in DOMAIN more /\ more[Len(list) + 1] = [id |-> id, spans |-> added]
      BY <2>2 DEF Extended
    <3>2. more[Len(list) + 1].id = id /\ more[Len(list) + 1].spans = added
      BY <3>1
    <3> QED BY <3>1, <3>2
  <2> QED BY <2>1, <2>2
<1> QED BY <1>0, <1>1, <1>2, <1>3, <1>4, <1>5 DEF Spread

LEMMA AddingNumbers ==
    ASSUME stream \in Streams, NEW list, NEW S, NEW id, NEW added, NEW T,
           S \subseteq SpanPlaces, T \subseteq SpanPlaces,
           Gathers(list, S), Numbers(list, S), Follows(list, S, id, added, T),
           \A i \in DOMAIN added : added[i].order = Cardinality(S) + i - 1
    PROVE  Numbers(AddSpans(list, id, added), S \cup T)
<1> DEFINE more == AddSpans(list, id, added)
           c == Cardinality(S)
           m == Len(added)
<1>0. Extended(list, id, added, more) /\ IsSeq(added) /\ added # <<>>
  BY AddedList DEF Gathers, Follows
<1> HIDE DEF more
<1>00. Spread(list, id, added, more)
  BY <1>0, AddedSpans
<1>1. /\ Len(list) \in Nat /\ DOMAIN list = 1..Len(list)
      /\ m \in Nat \ {0} /\ DOMAIN added = 1..m
      /\ DOMAIN list \subseteq DOMAIN more
      /\ \A n \in DOMAIN more : n \notin DOMAIN list => more[n].spans = added
      /\ \A n \in DOMAIN list :
           /\ Len(list[n].spans) \in Nat \ {0}
           /\ DOMAIN list[n].spans = 1..Len(list[n].spans)
           /\ list[n].id # id => more[n].spans = list[n].spans
           /\ list[n].id = id =>
                /\ DOMAIN more[n].spans = 1..(Len(list[n].spans) + m)
                /\ \A i \in DOMAIN list[n].spans : more[n].spans[i] = list[n].spans[i]
                /\ \A i \in DOMAIN added : more[n].spans[Len(list[n].spans) + i] = added[i]
      /\ \E n \in DOMAIN more : more[n].id = id /\ \A i \in DOMAIN added :
           \E j \in DOMAIN more[n].spans : more[n].spans[j] = added[i]
  BY <1>00 DEF Spread
<1>2. IsFiniteSet(S) /\ IsFiniteSet(T) /\ c \in Nat
  BY PartPlaces, FS_Subset, FS_CardinalityType
\* The added places are as many as the added spans.
<1>3. Cardinality(T) = m
  <2> DEFINE f == [i \in 1..m |-> CHOOSE p \in T : From(added[i], p)]
  <2>1. \A i \in 1..m : f[i] \in T /\ From(added[i], f[i])
    BY <1>1 DEF Follows
  <2>2. \A p \in T : \E i \in 1..m : From(added[i], p)
    BY <1>1 DEF Follows
  <2>3. \A i \in 1..m : \A p, q \in T : From(added[i], p) /\ From(added[i], q) => p = q
    <3>1. \A span : \A p, q \in S \cup T : From(span, p) /\ From(span, q) => p = q
      BY FromFacts DEF Follows
    <3> QED BY <3>1
  <2>4. \A i, j \in 1..m : i < j => f[i] # f[j]
    <3>1. \A i, j \in 1..m : i < j => ComesBefore(f[i], f[j])
      <4>1. \A i, j \in DOMAIN added : \A p, q \in T :
              i < j /\ From(added[i], p) /\ From(added[j], q) => ComesBefore(p, q)
        BY DEF Follows
      <4>2. DOMAIN added = 1..m
        BY <1>1
      <4> HIDE DEF f
      <4> QED BY <2>1, <4>1, <4>2
    <3> QED BY <2>1, <3>1, ComesBeforeFacts
  <2>5. f \in [1..m -> T]
    BY <2>1
  <2> HIDE DEF f
  <2>6. f \in Surjection(1..m, T)
    BY <2>1, <2>2, <2>3, <2>5 DEF Surjection
  <2>7. f \in Injection(1..m, T)
    <3>1. \A i, j \in 1..m : i # j => f[i] # f[j]
      BY <1>1, <2>4
    <3> QED BY <2>5, <3>1 DEF Injection, IsInjective
  <2>8. IsFiniteSet(1..m) /\ Cardinality(1..m) = m
    BY <1>1, FS_Interval
  <2> QED BY <2>6, <2>7, <2>8, FS_Surjection
<1>4. Cardinality(S \cup T) = c + m
  <2>1. S \cap T = {}
    BY DEF Follows
  <2>2. Cardinality(S \cap T) = 0
    BY <2>1, FS_EmptySet
  <2>3. Cardinality(S \cup T) = Cardinality(S) + Cardinality(T) - Cardinality(S \cap T)
    BY <1>2, <1>3, FS_Union
  <2>4. c \in Nat /\ m \in Nat /\ Cardinality(S) = c /\ Cardinality(T) = m
    BY <1>1, <1>2, <1>3, FS_CardinalityType
  <2> HIDE DEF c, m
  <2> QED BY <2>2, <2>3, <2>4
<1> HIDE DEF c, m
<1>5. \A i \in DOMAIN added : added[i].order = c + i - 1
  BY DEF c
<1>6. Orders(list) = 0..(c - 1)
  BY DEF Numbers, c
<1>7. Orders(more) = Orders(list) \cup {added[i].order : i \in DOMAIN added}
  <2>1. ASSUME NEW n \in DOMAIN list, NEW i \in DOMAIN list[n].spans
        PROVE  list[n].spans[i].order \in Orders(more)
    <3>1. i \in DOMAIN more[n].spans /\ more[n].spans[i] = list[n].spans[i]
      BY <1>1
    <3> QED BY <1>1, <3>1 DEF Orders
  <2>2. ASSUME NEW i \in DOMAIN added PROVE added[i].order \in Orders(more)
    <3>1. PICK n \in DOMAIN more : \E j \in DOMAIN more[n].spans : more[n].spans[j] = added[i]
      BY <1>1
    <3> QED BY <3>1 DEF Orders
  <2>3. ASSUME NEW n \in DOMAIN more, NEW i \in DOMAIN more[n].spans
        PROVE  more[n].spans[i].order \in Orders(list) \cup {added[k].order : k \in DOMAIN added}
    <3>1. CASE n \notin DOMAIN list
      BY <1>1, <3>1
    <3>2. CASE n \in DOMAIN list /\ (list[n].id # id \/ i \in DOMAIN list[n].spans)
      <4>1. i \in DOMAIN list[n].spans /\ more[n].spans[i] = list[n].spans[i]
        BY <1>1, <3>2
      <4> QED BY <3>2, <4>1 DEF Orders
    <3>3. CASE n \in DOMAIN list /\ list[n].id = id /\ i \notin DOMAIN list[n].spans
      <4>1. i - Len(list[n].spans) \in DOMAIN added
            /\ Len(list[n].spans) + (i - Len(list[n].spans)) = i
        BY <1>1, <3>3
      <4>2. more[n].spans[i] = added[i - Len(list[n].spans)]
        BY <1>1, <3>3, <4>1
      <4> QED BY <4>1, <4>2
    <3> QED BY <3>1, <3>2, <3>3
  <2> QED BY <2>1, <2>2, <2>3 DEF Orders
<1>8. Orders(more) = 0..(Cardinality(S \cup T) - 1)
  <2>1. {added[i].order : i \in DOMAIN added} = c..(c + m - 1)
    <3>1. \A k \in c..(c + m - 1) : k - c + 1 \in 1..m /\ c + (k - c + 1) - 1 = k
      BY <1>1, <1>2
    <3>2. \A i \in 1..m : c + i - 1 \in c..(c + m - 1)
      BY <1>1, <1>2
    <3>3. ASSUME NEW k \in c..(c + m - 1) PROVE k \in {added[i].order : i \in DOMAIN added}
      <4>1. k - c + 1 \in DOMAIN added /\ added[k - c + 1].order = k
        BY <1>1, <1>5, <3>1
      <4> QED BY <4>1
    <3> QED BY <1>1, <1>5, <3>2, <3>3
  <2>2. 0..(c - 1) \cup c..(c + m - 1) = 0..(c + m - 1)
    BY <1>1, <1>2
  <2>3. Cardinality(S \cup T) - 1 = c + m - 1
    BY <1>1, <1>2, <1>4
  <2>4. Orders(more) = 0..(c + m - 1)
    BY <1>6, <1>7, <2>1, <2>2
  <2> QED BY <2>3, <2>4
<1>9. ASSUME NEW n \in DOMAIN more, NEW i \in DOMAIN more[n].spans, NEW j \in DOMAIN more[n].spans, i < j
      PROVE  more[n].spans[i].order < more[n].spans[j].order
  <2>1. \A k, l \in DOMAIN added : k < l => added[k].order < added[l].order
    BY <1>1, <1>2, <1>5
  <2>2. CASE n \notin DOMAIN list
    BY <1>1, <1>9, <2>1, <2>2
  <2>3. \A k \in DOMAIN list : \A x, y \in DOMAIN list[k].spans :
          x < y => list[k].spans[x].order < list[k].spans[y].order
    BY DEF Numbers
  <2>4. CASE n \in DOMAIN list /\ list[n].id # id
    BY <1>1, <1>9, <2>3, <2>4
  <2>5. CASE n \in DOMAIN list /\ list[n].id = id
    <3> DEFINE k == Len(list[n].spans)
    <3>0. /\ k \in Nat /\ DOMAIN list[n].spans = 1..k /\ m \in Nat /\ DOMAIN added = 1..m
          /\ i \in 1..(k + m) /\ j \in 1..(k + m)
          /\ \A x \in 1..k : more[n].spans[x] = list[n].spans[x]
          /\ \A x \in 1..m : more[n].spans[k + x] = added[x]
      BY <1>1, <2>5
    <3> HIDE DEF k
    <3>1. CASE j <= k
      BY <1>9, <2>3, <2>5, <3>0, <3>1
    <3>2. CASE i <= k /\ ~(j <= k)
      <4>1. i \in 1..k /\ j - k \in 1..m /\ k + (j - k) = j
        BY <3>0, <3>2
      <4>2. more[n].spans[i].order \in 0..(c - 1)
        <5>1. list[n].spans[i].order \in Orders(list)
          BY <2>5, <3>0, <4>1 DEF Orders
        <5> QED BY <1>6, <3>0, <4>1, <5>1
      <4>3. more[n].spans[j].order = c + (j - k) - 1
        BY <1>5, <3>0, <4>1
      <4> QED BY <1>2, <3>0, <4>1, <4>2, <4>3
    <3>3. CASE ~(i <= k) /\ ~(j <= k)
      <4>1. i - k \in 1..m /\ k + (i - k) = i /\ j - k \in 1..m /\ k + (j - k) = j /\ i - k < j - k
        BY <1>9, <3>0, <3>3
      <4>2. more[n].spans[i] = added[i - k] /\ more[n].spans[j] = added[j - k]
        BY <3>0, <4>1
      <4> QED BY <2>1, <3>0, <4>1, <4>2
    <3> QED BY <3>0, <3>1, <3>2, <3>3
  <2> QED BY <2>2, <2>4, <2>5
<1>10. Numbers(more, S \cup T)
  BY <1>8, <1>9 DEF Numbers
<1> QED BY <1>10 DEF more
-----------------------------------------------------------------------------
(* Steps *)

\* What is said of the places depends on the stream only, which no step changes.
LEMMA Static ==
    ASSUME stream' = stream
    PROVE  /\ AllParts' = AllParts /\ Places' = Places /\ SpanPlaces' = SpanPlaces
           /\ \A n : InRecord(n)' = InRecord(n)
           /\ \A p : PartAt(p)' = PartAt(p) /\ TraceAt(p)' = TraceAt(p)
           /\ \A span, p : From(span, p)' <=> From(span, p)
           /\ \A S : /\ Unique(S)' <=> Unique(S)
                     /\ Identified(S)' = Identified(S)
                     /\ AllGood(S)' <=> AllGood(S)
           /\ \A list, S : /\ Gathers(list, S)' <=> Gathers(list, S)
                           /\ Collects(list, S)' <=> Collects(list, S)
           /\ Faulty' <=> Faulty
<1>1. AllParts' = AllParts
  BY DEF AllParts
<1>2. \A p : PartAt(p)' = PartAt(p)
  BY <1>1 DEF PartAt
<1>3. Places' = Places
  BY <1>1 DEF Places
<1>4. SpanPlaces' = SpanPlaces
  BY <1>2, <1>3 DEF SpanPlaces
<1>5. \A p : IdentityAt(p)' = IdentityAt(p)
  BY <1>2 DEF IdentityAt
<1>6. \A span, p : From(span, p)' <=> From(span, p)
  BY <1>2 DEF From
<1>7. \A p : TraceAt(p)' = TraceAt(p)
  BY <1>5 DEF TraceAt
<1>8. \A n : InRecord(n)' = InRecord(n)
  BY <1>4 DEF InRecord
<1>9. \A S : /\ Unique(S)' <=> Unique(S)
             /\ Identified(S)' = Identified(S)
             /\ AllGood(S)' <=> AllGood(S)
  BY <1>2, <1>5 DEF Unique, Identified, AllGood
<1>10. \A list, S : Gathers(list, S)' <=> Gathers(list, S)
  BY <1>6, <1>7 DEF Gathers, ComesBefore
<1>11. \A list, S : Collects(list, S)' <=> Collects(list, S)
  BY <1>9, <1>10 DEF Collects
<1>12. Faulty' <=> Faulty
  BY <1>2, <1>3, <1>4, <1>5 DEF Faulty
<1> QED BY <1>1, <1>2, <1>3, <1>4, <1>6, <1>7, <1>8, <1>9, <1>10, <1>11, <1>12

\* Places that are all different have as many identities.
LEMMA IdentifiedCount ==
    ASSUME NEW S, IsFiniteSet(S), Unique(S)
    PROVE  Cardinality(Identified(S)) = Cardinality(S)
<1> DEFINE f == [p \in S |-> IdentityAt(p)]
           T == Identified(S)
<1>1. f \in [S -> T] /\ \A p \in S : f[p] = IdentityAt(p)
  BY DEF Identified
<1> HIDE DEF f
<1>2. \A x \in T : \E p \in S : f[p] = x
  BY <1>1 DEF Identified
<1>3. \A p, q \in S : f[p] = f[q] => p = q
  BY <1>1 DEF Unique
<1> HIDE DEF T
<1>4. f \in Surjection(S, T)
  BY <1>1, <1>2 DEF Surjection
<1>5. f \in Injection(S, T)
  BY <1>1, <1>3 DEF Injection, IsInjective
<1>6. Cardinality(T) = Cardinality(S)
  BY <1>4, <1>5, FS_Surjection
<1> QED BY <1>6 DEF T

LEMMA ParseInitStep == ASSUME ParseInit PROVE ReadInv
<1>1. stream \in Streams /\ documents = <<>> /\ phase = "decode" /\ snapshot = <<>> /\ merged = {}
  BY DEF ParseInit
<1>2. IsSeq(documents) /\ Len(documents) = 0 /\ DOMAIN documents = {}
  BY <1>1, SeqOperators
<1> QED BY <1>1, <1>2 DEF ReadInv, Decoded, Converting, Merging, Finished

LEMMA RefuseStep == ASSUME ReadInv, RejectInput, Faulty PROVE ReadInv'
<1>1. /\ phase' = "rejected" /\ stream' = stream /\ documents' = documents
  BY DEF RejectInput
<1>2. Decoded'
  BY <1>1 DEF ReadInv, Decoded
<1>3. Converting' /\ Merging' /\ Finished'
  BY <1>1 DEF Converting, Merging, Finished
<1>4. Faulty'
  BY <1>1, Static
<1> QED BY <1>1, <1>2, <1>3, <1>4 DEF ReadInv

\* The numbers of the records.
LEMMA RecordFacts ==
    ASSUME ReadInv
    PROVE  /\ stream \in Streams /\ Len(stream) \in Nat /\ DOMAIN stream = 1..Len(stream)
           /\ IsSeq(documents) /\ Len(documents) \in Nat /\ DOMAIN documents = 1..Len(documents)
           /\ Len(documents) <= Len(stream)
           /\ \A n \in DOMAIN documents :
                stream[n].kind = "traces" /\ documents[n] = stream[n].resources
<1>1. stream \in Streams /\ IsSeq(documents) /\ Len(documents) <= Len(stream)
      /\ \A n \in DOMAIN documents :
           stream[n].kind = "traces" /\ documents[n] = stream[n].resources
  BY DEF ReadInv, Decoded
<1> QED BY <1>1, PartPlaces, IsSeqFacts

LEMMA DecodeRecordStep == ASSUME ReadInv, DecodeRecord PROVE ReadInv'
<1>1. /\ phase = "decode" /\ Len(documents) < Len(stream)
      /\ stream[Len(documents) + 1].kind = "traces"
      /\ documents' = Append(documents, stream[Len(documents) + 1].resources)
      /\ stream' = stream /\ phase' = phase /\ record' = record /\ snapshot' = snapshot /\ merged' = merged
  BY DEF DecodeRecord, Undecoded, NextRecord
<1>2. snapshot = <<>> /\ merged = {}
  BY <1>1 DEF ReadInv, Decoded
<1>3. /\ IsSeq(documents') /\ Len(documents') = Len(documents) + 1
      /\ \A n \in 1..Len(documents) : documents'[n] = documents[n]
      /\ documents'[Len(documents) + 1] = stream[Len(documents) + 1].resources
  BY <1>1, RecordFacts, SeqOperators
<1>4. DOMAIN documents' = 1..(Len(documents) + 1)
  BY <1>3, IsSeqFacts
<1>5. \A n \in DOMAIN documents' : stream[n].kind = "traces" /\ documents'[n] = stream[n].resources
  <2> SUFFICES ASSUME NEW n \in DOMAIN documents'
               PROVE  stream[n].kind = "traces" /\ documents'[n] = stream[n].resources
    OBVIOUS
  <2>1. CASE n = Len(documents) + 1
    BY <1>1, <1>3, <2>1
  <2>2. CASE n # Len(documents) + 1
    <3>1. n \in 1..Len(documents)
      BY <1>4, <2>2, RecordFacts
    <3> QED BY <1>3, <3>1, RecordFacts
  <2> QED BY <2>1, <2>2
<1>6. Len(documents') <= Len(stream)
  BY <1>1, <1>3, RecordFacts
<1>7. Decoded'
  BY <1>1, <1>2, <1>3, <1>5, <1>6, RecordFacts DEF Decoded
<1>8. Converting' /\ Merging' /\ Finished'
  BY <1>1 DEF Converting, Merging, Finished
<1> QED BY <1>1, <1>7, <1>8 DEF ReadInv

LEMMA RejectRecordStep == ASSUME ReadInv, RejectRecord PROVE ReadInv'
<1>1. /\ Len(documents) < Len(stream)
      /\ stream[Len(documents) + 1].kind
           \in {"malformed", "value", "othersignal", "envelope", "mistyped"}
      /\ RejectInput
  BY DEF RejectRecord, Undecoded, NextRecord
<1>2. Len(documents) + 1 \in DOMAIN stream
  BY <1>1, RecordFacts
<1>3. stream[Len(documents) + 1].kind # "traces"
  BY <1>1
<1>4. Faulty
  BY <1>2, <1>3 DEF Faulty
<1> QED BY <1>1, <1>4, RefuseStep

LEMMA RejectEmptyStep == ASSUME ReadInv, RejectEmpty PROVE ReadInv'
<1>1. Faulty /\ RejectInput
  BY DEF RejectEmpty, Faulty
<1> QED BY <1>1, RefuseStep
\* A document that is being converted, and the part that is next.
LEMMA ConvertFacts ==
    ASSUME ReadInv, phase = "convert"
    PROVE  /\ record \in DOMAIN stream /\ record \in Nat
           /\ Len(documents) = Len(stream) /\ documents # <<>>
           /\ IsSeq(work) /\ Len(work) \in Nat /\ DOMAIN work = 1..Len(work)
           /\ Over \in Nat /\ Over + Len(work) = Len(AllParts[record])
           /\ DOMAIN AllParts[record] = 1..(Over + Len(work))
           /\ \A k \in DOMAIN work : work[k] = AllParts[record][Over + k]
           /\ AllGood(Passed)
           /\ Collects(traces, Converted) /\ seen = Identified(Converted)
           /\ Collects(snapshot, Preceding) /\ merged = Identified(Preceding)
           /\ Converted \subseteq SpanPlaces /\ IsFiniteSet(Converted)
           /\ Cardinality(seen) = Cardinality(Converted)
           /\ \A p \in Converted : p[1] = record /\ p[2] \in Nat /\ p[2] <= Over
           /\ work # <<>> => Current \in Places /\ PartAt(Current) = Part
<1>1. record \in DOMAIN stream /\ Len(documents) = Len(stream) /\ documents # <<>>
  BY DEF ReadInv, Decoded
<1>2. /\ IsSeq(work) /\ Len(work) <= Len(AllParts[record])
      /\ \A k \in DOMAIN work : work[k] = AllParts[record][Over + k]
      /\ AllGood(Passed)
      /\ Collects(traces, Converted) /\ seen = Identified(Converted)
      /\ Collects(snapshot, Preceding) /\ merged = Identified(Preceding)
  BY DEF ReadInv, Converting
<1>3. record \in Nat
  BY <1>1, RecordFacts
<1>4. /\ Len(work) \in Nat /\ DOMAIN work = 1..Len(work)
      /\ Len(AllParts[record]) \in Nat /\ DOMAIN AllParts[record] = 1..Len(AllParts[record])
  BY <1>1, <1>2, RecordFacts, PartPlaces, IsSeqFacts
<1>5. Over \in Nat /\ Over + Len(work) = Len(AllParts[record])
  BY <1>2, <1>4 DEF Over
<1>6. Converted \subseteq SpanPlaces /\ IsFiniteSet(Converted)
  <2>1. Converted \subseteq SpanPlaces
    BY DEF Converted, InRecord
  <2> QED BY <2>1, PartPlaces, RecordFacts, FS_Subset
<1>7. Cardinality(seen) = Cardinality(Converted)
  BY <1>2, <1>6, IdentifiedCount DEF Collects
<1>8. \A p \in Converted : p[1] = record /\ p[2] \in Nat /\ p[2] <= Over
  BY RecordFacts, ComesBeforeFacts DEF Converted, InRecord
<1>9. ASSUME work # <<>> PROVE Current \in Places /\ PartAt(Current) = Part
  <2>1. Len(work) \in Nat \ {0} /\ Part = work[1]
    BY <1>2, <1>9, SeqOperators DEF Part
  <2>2. Over + 1 \in 1..Len(AllParts[record]) /\ 1 \in DOMAIN work
    BY <1>4, <1>5, <2>1
  <2>3. Current = <<record, Over + 1>> /\ Current[1] = record /\ Current[2] = Over + 1
    BY DEF Current
  <2>4. Current \in Places
    BY <1>1, <2>2, <2>3, PartPlaces, RecordFacts
  <2>5. PartAt(Current) = AllParts[record][Over + 1]
    BY <2>3 DEF PartAt
  <2> QED BY <1>2, <2>1, <2>2, <2>4, <2>5
<1> QED BY <1>1, <1>2, <1>3, <1>4, <1>5, <1>6, <1>7, <1>8, <1>9

\* The next part becomes one of those that are passed.
LEMMA AfterPart ==
    ASSUME ReadInv, phase = "convert", work # <<>>,
           stream' = stream, record' = record, work' = Tail(work)
    PROVE  /\ Over' = Over + 1
           /\ IsSeq(work') /\ Len(work') <= Len(AllParts[record])
           /\ \A k \in DOMAIN work' : work'[k] = AllParts[record][Over + 1 + k]
           /\ Passed' = Passed \cup {Current}
           /\ Preceding' = Preceding
           /\ Part.what = "span" => Converted' = Converted \cup {Current}
           /\ Part.what # "span" => Converted' = Converted
<1>1. /\ IsSeq(work') /\ Len(work') = Len(work) - 1 /\ Len(work) \in Nat \ {0}
      /\ \A k \in 1..(Len(work) - 1) : work'[k] = work[k + 1]
  BY ConvertFacts, SeqOperators
<1>2. DOMAIN work' = 1..(Len(work) - 1)
  BY <1>1, IsSeqFacts
<1>3. AllParts' = AllParts
  BY Static
<1>4. Over \in Nat /\ Over + Len(work) = Len(AllParts[record])
  BY ConvertFacts
<1>5. Over' = Over + 1 /\ Len(work') <= Len(AllParts[record])
  BY <1>1, <1>3, <1>4 DEF Over
<1>6. ASSUME NEW k \in DOMAIN work' PROVE work'[k] = AllParts[record][Over + 1 + k]
  <2>1. k + 1 \in DOMAIN work /\ Over + (k + 1) = Over + 1 + k /\ work'[k] = work[k + 1]
    <3>1. DOMAIN work = 1..Len(work)
      BY ConvertFacts
    <3> QED BY <1>1, <1>2, <1>4, <3>1
  <2>2. work[k + 1] = AllParts[record][Over + (k + 1)]
    BY <2>1, ConvertFacts
  <2> QED BY <2>1, <2>2
<1>7. Current = <<record, Over + 1>> /\ Current[1] = record /\ Current[2] = Over + 1 /\ Current \in Places
      /\ PartAt(Current) = Part
  BY ConvertFacts DEF Current
<1>8. ASSUME NEW p \in Places, p[1] = record, p[2] <= Over + 1, ~(p[2] <= Over) PROVE p = Current
  <2>1. p = <<p[1], p[2]>> /\ p[2] \in 1..Len(AllParts[record])
    BY <1>8, PartPlaces, RecordFacts
  <2>2. p[2] = Over + 1
    BY <1>4, <1>8, <2>1
  <2> QED BY <1>7, <1>8, <2>1, <2>2
<1>9. \A p \in Places : p[1] = record => p[2] \in Nat
  BY <1>4, PartPlaces, RecordFacts
<1>10. Passed' = Passed \cup {Current}
  <2>1. Passed' = {p \in Places : p[1] < record \/ (p[1] = record /\ p[2] <= Over + 1)}
    BY <1>5, Static DEF Passed
  <2> QED BY <1>4, <1>7, <1>8, <1>9, <2>1 DEF Passed
<1>11. Preceding' = Preceding
  BY Static DEF Preceding
<1>12. Converted' = {p \in SpanPlaces : p[1] = record /\ p[2] <= Over + 1}
  BY <1>5, Static DEF Converted, InRecord
<1>13. Converted = {p \in SpanPlaces : p[1] = record /\ p[2] <= Over}
  BY DEF Converted, InRecord
<1>14. \A p \in SpanPlaces : p \in Places /\ PartAt(p).what = "span"
  BY DEF SpanPlaces
<1>15. ASSUME Part.what = "span" PROVE Converted' = Converted \cup {Current}
  <2>1. Current \in SpanPlaces
    BY <1>7, <1>15 DEF SpanPlaces
  <2>2. Current \in Converted'
    BY <1>4, <1>7, <1>12, <2>1
  <2>3. Converted \subseteq Converted'
    BY <1>4, <1>9, <1>12, <1>13, <1>14
  <2>4. Converted' \subseteq Converted \cup {Current}
    BY <1>8, <1>12, <1>13, <1>14
  <2> QED BY <2>2, <2>3, <2>4
<1>16. ASSUME Part.what # "span" PROVE Converted' = Converted
  <2>1. Current \notin SpanPlaces
    BY <1>7, <1>16 DEF SpanPlaces
  <2> QED BY <1>4, <1>7, <1>8, <1>9, <1>12, <1>13, <1>14, <2>1
<1> QED BY <1>1, <1>5, <1>6, <1>10, <1>11, <1>15, <1>16

\* What is common to the two steps that accept a part.
LEMMA AcceptStep ==
    ASSUME ReadInv, phase = "convert", work # <<>>, ~Bad(Part),
           UNCHANGED <<stream, documents, phase, record, snapshot, merged>>, work' = Tail(work),
           Collects(traces', Converted'), seen' = Identified(Converted')
    PROVE  ReadInv'
<1>1. AllGood(Passed \cup {Current})
  <2>1. Good(PartAt(Current))
    BY ConvertFacts DEF Bad
  <2> QED BY <2>1, ConvertFacts DEF AllGood
<1>2. /\ Collects(traces, Converted)' /\ seen' = Identified(Converted)'
      /\ Collects(snapshot, Preceding)' /\ merged' = Identified(Preceding)' /\ AllGood(Passed)'
  BY <1>1, AfterPart, ConvertFacts, Static
<1>3. Converting'
  BY <1>2, AfterPart, Static DEF Converting
<1>4. Decoded'
  BY DEF ReadInv, Decoded
<1>5. Merging' /\ Finished' /\ phase' = "convert"
  BY DEF Merging, Finished
<1> QED BY <1>3, <1>4, <1>5 DEF ReadInv

LEMMA ConvertContextStep == ASSUME ReadInv, ConvertContext PROVE ReadInv'
<1>1. /\ phase = "convert" /\ work # <<>> /\ Part.what # "span" /\ ~Bad(Part) /\ work' = Tail(work)
      /\ UNCHANGED <<stream, documents, phase, record, traces, seen, snapshot, merged>>
  BY DEF ConvertContext
<1>2. Converted' = Converted
  BY <1>1, AfterPart
<1>3. Collects(traces', Converted') /\ seen' = Identified(Converted')
  BY <1>1, <1>2, ConvertFacts
<1> QED BY <1>1, <1>3, AcceptStep

LEMMA ConvertSpanStep == ASSUME ReadInv, ConvertSpan PROVE ReadInv'
<1> DEFINE span == Convert(Part, Cardinality(seen))
           S == Converted
           T == {Current}
<1>1. /\ phase = "convert" /\ work # <<>> /\ Part.what = "span" /\ ~Bad(Part) /\ work' = Tail(work)
      /\ traces' = AddSpans(traces, span.trace, <<span>>)
      /\ seen' = seen \cup {Identity(Part.span)}
      /\ UNCHANGED <<stream, documents, phase, record, snapshot, merged>>
  BY DEF ConvertSpan
<1>2. /\ Current \in SpanPlaces /\ Current[1] = record /\ Current[2] = Over + 1
      /\ IdentityAt(Current) = Identity(Part.span) /\ PartAt(Current) = Part
      /\ Over \in Nat
  BY <1>1, ConvertFacts DEF Current, SpanPlaces, IdentityAt
<1>3. From(span, Current) /\ span.order = Cardinality(S)
  BY <1>1, <1>2, ConvertFacts, FromFacts
<1>4. TraceAt(Current) = span.trace
  BY <1>3, FromFacts DEF TraceAt
<1> HIDE DEF span
<1>5. IdentityAt(Current) \notin Identified(S)
  BY <1>1, <1>2, ConvertFacts DEF Bad
<1>6. /\ Unique(S) /\ Gathers(traces, S) /\ Numbers(traces, S) /\ S \subseteq SpanPlaces
      /\ seen = Identified(S)
      /\ \A p \in S : p[1] = record /\ p[2] \in Nat /\ p[2] <= Over
  BY <1>1, ConvertFacts DEF Collects
<1>7. Follows(traces, S, span.trace, <<span>>, T)
  <2>1. Unique(S \cup T) /\ S \cap T = {}
    BY <1>5, <1>6 DEF Unique, Identified
  <2>2. IsSeq(<<span>>) /\ <<span>> # <<>> /\ DOMAIN <<span>> = {1} /\ <<span>>[1] = span
    BY SeqOperators
  <2>3. \A p \in S : ComesBefore(p, Current)
    BY <1>2, <1>6 DEF ComesBefore
  <2> QED BY <1>3, <1>4, <2>1, <2>2, <2>3 DEF Follows
<1>8. \A i \in DOMAIN <<span>> : <<span>>[i].order = Cardinality(S) + i - 1
  <2>1. DOMAIN <<span>> = {1} /\ <<span>>[1] = span
    OBVIOUS
  <2>2. Cardinality(S) \in Nat
    BY <1>1, ConvertFacts, FS_CardinalityType
  <2> QED BY <1>3, <2>1, <2>2
<1>9. T \subseteq SpanPlaces
  BY <1>2
<1>10. Gathers(traces', S \cup T) /\ Numbers(traces', S \cup T)
  <2>1. Gathers(AddSpans(traces, span.trace, <<span>>), S \cup T)
    BY <1>6, <1>7, AddingGathers
  <2>2. Numbers(AddSpans(traces, span.trace, <<span>>), S \cup T)
    BY <1>6, <1>7, <1>8, <1>9, AddingNumbers, RecordFacts
  <2> QED BY <1>1, <2>1, <2>2
<1>11. Converted' = S \cup T
  BY <1>1, AfterPart
<1>12. Collects(traces', Converted')
  BY <1>7, <1>10, <1>11 DEF Collects, Follows
<1>13. seen' = Identified(Converted')
  BY <1>1, <1>2, <1>6, <1>11 DEF Identified
<1> QED BY <1>1, <1>12, <1>13, AcceptStep

LEMMA RejectPartStep == ASSUME ReadInv, RejectPart PROVE ReadInv'
<1>1. phase = "convert" /\ work # <<>> /\ Bad(Part) /\ RejectInput
  BY DEF RejectPart
<1>2. Current \in Places /\ PartAt(Current) = Part /\ Current[2] = Over + 1 /\ Over \in Nat
  BY <1>1, ConvertFacts DEF Current
<1>3. CASE ~Good(Part)
  <2>1. Faulty
    BY <1>2, <1>3 DEF Faulty
  <2> QED BY <1>1, <2>1, RefuseStep
<1>4. CASE Part.what = "span" /\ Identity(Part.span) \in seen
  <2>1. Current \in SpanPlaces /\ IdentityAt(Current) \in Identified(Converted)
    BY <1>1, <1>2, <1>4, ConvertFacts DEF SpanPlaces, IdentityAt
  <2>2. PICK q \in Converted : IdentityAt(q) = IdentityAt(Current)
    BY <2>1 DEF Identified
  <2>3. q \in SpanPlaces /\ q # Current
    BY <1>1, <1>2, ConvertFacts
  <2>4. Faulty
    BY <2>1, <2>2, <2>3 DEF Faulty
  <2> QED BY <1>1, <2>4, RefuseStep
<1> QED BY <1>1, <1>3, <1>4 DEF Bad
\* A document is opened when all earlier ones are in the result.
LEMMA OpenStep ==
    ASSUME ReadInv, NEW n \in DOMAIN stream,
           Len(documents) = Len(stream), documents # <<>>,
           UNCHANGED <<stream, documents, snapshot, merged>>,
           phase' = "convert", record' = n, work' = Parts(documents[n]), traces' = <<>>, seen' = {},
           AllGood({p \in Places : p[1] < n}),
           Collects(snapshot, {p \in SpanPlaces : p[1] < n}),
           merged = Identified({p \in SpanPlaces : p[1] < n})
    PROVE  ReadInv'
<1>1. n \in Nat /\ documents[n] = stream[n].resources /\ stream \in Streams
  BY RecordFacts
<1>2. work' = AllParts[n] /\ IsSeq(work') /\ Len(work') \in Nat
  BY <1>1, PartPlaces
<1>3. AllParts' = AllParts /\ Places' = Places /\ SpanPlaces' = SpanPlaces
  BY Static
<1>4. Over' = 0
  BY <1>2, <1>3 DEF Over
<1>5. \A p \in Places : p[2] \in Nat /\ p[2] # 0
  BY <1>1, PartPlaces
<1>6. Passed' = {p \in Places : p[1] < n}
  <2>1. Passed' = {p \in Places : p[1] < n \/ (p[1] = n /\ p[2] <= 0)}
    BY <1>3, <1>4 DEF Passed
  <2> QED BY <1>5, <2>1
<1>7. Converted' = {}
  <2>1. Converted' = {p \in SpanPlaces : p[1] = n /\ p[2] <= 0}
    BY <1>3, <1>4 DEF Converted, InRecord
  <2> QED BY <1>5, <2>1 DEF SpanPlaces
<1>8. Preceding' = {p \in SpanPlaces : p[1] < n}
  BY <1>3 DEF Preceding
<1>9. Collects(traces', {}) /\ seen' = Identified({})
  BY NoneGathered DEF Collects, Identified
<1>10. /\ Collects(traces, Converted)' /\ seen' = Identified(Converted)'
       /\ Collects(snapshot, Preceding)' /\ merged' = Identified(Preceding)' /\ AllGood(Passed)'
  BY <1>6, <1>7, <1>8, <1>9, Static
<1>11. Converting'
  <2>1. Len(work') <= Len(AllParts'[record'])
    BY <1>2, <1>3
  <2>2. \A k \in DOMAIN work' : work'[k] = AllParts'[record'][Over' + k]
    <3>1. \A k \in DOMAIN work' : 0 + k = k
      BY <1>2, IsSeqFacts
    <3> QED BY <1>2, <1>3, <1>4, <3>1
  <2> QED BY <1>2, <1>10, <2>1, <2>2 DEF Converting
<1>12. Decoded'
  BY DEF ReadInv, Decoded
<1>13. Merging' /\ Finished'
  BY DEF Merging, Finished
<1> QED BY <1>11, <1>12, <1>13 DEF ReadInv

LEMMA EndOfInputStep == ASSUME ReadInv, EndOfInput PROVE ReadInv'
<1>1. /\ phase = "decode" /\ Len(documents) = Len(stream) /\ documents # <<>>
      /\ phase' = "convert" /\ record' = 1 /\ work' = Parts(documents[1])
      /\ traces' = <<>> /\ seen' = {}
      /\ UNCHANGED <<stream, documents, snapshot, merged>>
  BY DEF EndOfInput, Open
<1>2. snapshot = <<>> /\ merged = {}
  BY <1>1 DEF ReadInv, Decoded
<1>3. 1 \in DOMAIN stream
  BY <1>1, RecordFacts, SeqOperators
<1>4. \A p \in Places : ~(p[1] < 1)
  BY PartPlaces, RecordFacts
<1>5. {p \in Places : p[1] < 1} = {} /\ {p \in SpanPlaces : p[1] < 1} = {}
  BY <1>4 DEF SpanPlaces
<1>6. AllGood({}) /\ Collects(snapshot, {}) /\ merged = Identified({})
  BY <1>2, NoneGathered DEF AllGood, Collects, Identified
<1> QED BY <1>1, <1>3, <1>5, <1>6, OpenStep

\* All parts of the document are passed.
LEMMA Passing ==
    ASSUME ReadInv, phase = "convert", work = <<>>
    PROVE  Converted = InRecord(record) /\ Passed = {p \in Places : p[1] <= record}
<1>1. /\ Len(work) = 0 /\ Len(AllParts[record]) = Over /\ Over \in Nat
      /\ record \in Nat /\ stream \in Streams
  <2>1. Len(work) = 0 /\ Over \in Nat /\ Over + Len(work) = Len(AllParts[record]) /\ record \in Nat
    BY ConvertFacts, SeqOperators
  <2> QED BY <2>1, RecordFacts
<1>2. \A p \in Places : p[1] \in Nat /\ (p[1] = record => p[2] <= Over)
  BY <1>1, PartPlaces
<1>3. Converted = InRecord(record)
  BY <1>2 DEF Converted, InRecord, SpanPlaces
<1>4. Passed = {p \in Places : p[1] <= record}
  BY <1>1, <1>2 DEF Passed
<1> QED BY <1>3, <1>4

LEMMA ReturnSingleStep == ASSUME ReadInv, ReturnSingle PROVE ReadInv'
<1>1. /\ phase = "convert" /\ work = <<>> /\ Len(documents) = 1
      /\ snapshot' = traces /\ phase' = "done"
      /\ UNCHANGED <<stream, documents, record, work, traces, seen, merged>>
  BY DEF ReturnSingle
<1>2. Converted = InRecord(record) /\ Passed = {p \in Places : p[1] <= record}
  BY <1>1, Passing
<1>3. record = 1 /\ DOMAIN stream = 1..1
  BY <1>1, ConvertFacts, RecordFacts
<1>4. \A p \in Places : p[1] = 1
  BY <1>3, PartPlaces, RecordFacts
<1>5. Converted = SpanPlaces /\ Passed = Places
  BY <1>2, <1>3, <1>4 DEF InRecord, SpanPlaces
<1>6. Collects(snapshot', SpanPlaces) /\ AllGood(Places)
  BY <1>1, <1>5, ConvertFacts
<1>7. \A k \in DOMAIN stream : stream[k].kind = "traces"
  BY <1>1, <1>3, RecordFacts
<1>8. Finished'
  BY <1>1, <1>6, <1>7, Static DEF Finished
<1>9. Decoded'
  BY <1>1 DEF ReadInv, Decoded
<1>10. Converting' /\ Merging'
  BY <1>1 DEF Converting, Merging
<1> QED BY <1>1, <1>8, <1>9, <1>10 DEF ReadInv

\* The traces of a converted document are to be merged, all of them.
LEMMA StartMergeStep == ASSUME ReadInv, StartMerge PROVE ReadInv'
<1>1. /\ phase = "convert" /\ work = <<>> /\ phase' = "merge"
      /\ UNCHANGED <<stream, documents, record, work, traces, seen, snapshot, merged>>
  BY DEF StartMerge
<1>2. Converted = InRecord(record) /\ Passed = {p \in Places : p[1] <= record}
  BY <1>1, Passing
<1>3. /\ Collects(traces, InRecord(record)) /\ Collects(snapshot, Preceding) /\ merged = Identified(Preceding)
      /\ AllGood({p \in Places : p[1] <= record}) /\ record \in Nat
  BY <1>1, <1>2, ConvertFacts
<1>4. Remaining = InRecord(record)
  <2>1. ASSUME NEW p \in InRecord(record) PROVE \E n \in DOMAIN traces : traces[n].id = TraceAt(p)
    <3>1. PICK n \in DOMAIN traces : \E i \in DOMAIN traces[n].spans : From(traces[n].spans[i], p)
      BY <1>3 DEF Collects, Gathers
    <3>2. PICK i \in DOMAIN traces[n].spans : From(traces[n].spans[i], p)
      BY <3>1
    <3>3. PICK q \in InRecord(record) : From(traces[n].spans[i], q) /\ TraceAt(q) = traces[n].id
      BY <1>3 DEF Collects, Gathers
    <3>4. p = q
      BY <1>3, <3>2, <3>3, FromFacts DEF Collects
    <3> QED BY <3>3, <3>4
  <2> QED BY <2>1 DEF Remaining
<1>5. Merged = Preceding
  BY <1>4 DEF Merged
<1>6. \A p \in Preceding, q \in InRecord(record) : ComesBefore(p, q)
  BY DEF Preceding, InRecord, ComesBefore
<1>7. Remaining' = Remaining /\ Merged' = Merged
  <2>1. Remaining' = Remaining
    BY <1>1, Static DEF Remaining
  <2> QED BY <1>1, <2>1, Static DEF Merged, Preceding
<1>8. Merging'
  <2>1. AllGood({p \in Places : p[1] <= record})'
    <3>1. {p \in Places : p[1] <= record}' = {p \in Places : p[1] <= record}
      BY <1>1, Static
    <3> QED BY <1>1, <1>3, <3>1, Static
  <2>2. Unique(InRecord(record))' /\ Gathers(traces, Remaining)'
    BY <1>1, <1>3, <1>4, <1>7, Static DEF Collects
  <2>3. Collects(snapshot, Merged)' /\ merged' = Identified(Merged)'
    BY <1>1, <1>3, <1>5, <1>7, Static
  <2>4. (\A n \in DOMAIN snapshot : \A p \in Merged, q \in Remaining :
           From(snapshot[n].spans[1], p) => ComesBefore(p, q))'
    BY <1>4, <1>5, <1>6, <1>7
  <2> QED BY <2>1, <2>2, <2>3, <2>4 DEF Merging
<1>9. Decoded'
  BY <1>1 DEF ReadInv, Decoded
<1>10. Converting' /\ Finished'
  BY <1>1 DEF Converting, Finished
<1> QED BY <1>1, <1>8, <1>9, <1>10 DEF ReadInv
\* A document whose traces are being merged.
LEMMA MergeFacts ==
    ASSUME ReadInv, phase = "merge"
    PROVE  /\ record \in DOMAIN stream /\ record \in Nat
           /\ Len(documents) = Len(stream) /\ documents # <<>>
           /\ AllGood({p \in Places : p[1] <= record})
           /\ Unique(InRecord(record)) /\ Gathers(traces, Remaining)
           /\ Collects(snapshot, Merged) /\ merged = Identified(Merged)
           /\ \A n \in DOMAIN snapshot : \A p \in Merged, q \in Remaining :
                From(snapshot[n].spans[1], p) => ComesBefore(p, q)
           /\ Remaining \subseteq InRecord(record) /\ InRecord(record) \subseteq SpanPlaces
           /\ Merged \subseteq SpanPlaces /\ Merged \cap Remaining = {}
           /\ Cardinality(merged) = Cardinality(Merged) /\ Cardinality(Merged) \in Nat
<1>1. record \in DOMAIN stream /\ Len(documents) = Len(stream) /\ documents # <<>>
  BY DEF ReadInv, Decoded
<1>2. record \in Nat /\ stream \in Streams
  BY <1>1, RecordFacts
<1>3. /\ AllGood({p \in Places : p[1] <= record})
      /\ Unique(InRecord(record)) /\ Gathers(traces, Remaining)
      /\ Collects(snapshot, Merged) /\ merged = Identified(Merged)
      /\ \A n \in DOMAIN snapshot : \A p \in Merged, q \in Remaining :
           From(snapshot[n].spans[1], p) => ComesBefore(p, q)
  BY DEF ReadInv, Merging
<1>4. Remaining \subseteq InRecord(record) /\ InRecord(record) \subseteq SpanPlaces
  BY DEF Remaining, InRecord
<1>5. Merged \subseteq SpanPlaces
  BY <1>4 DEF Merged, Preceding
<1>6. Merged \cap Remaining = {}
  BY <1>2, <1>4 DEF Merged, Preceding, InRecord
<1>7. IsFiniteSet(Merged)
  BY <1>2, <1>5, PartPlaces, FS_Subset
<1>8. Cardinality(merged) = Cardinality(Merged) /\ Cardinality(Merged) \in Nat
  BY <1>3, <1>7, IdentifiedCount, FS_CardinalityType DEF Collects
<1> QED BY <1>1, <1>2, <1>3, <1>4, <1>5, <1>6, <1>8

\* All traces of the document are merged.
LEMMA AllMerged ==
    ASSUME ReadInv, phase = "merge", traces = <<>>
    PROVE  Merged = {p \in SpanPlaces : p[1] <= record}
<1>1. DOMAIN traces = {}
  BY SeqOperators
<1>2. Remaining = {}
  BY <1>1 DEF Remaining
<1>3. record \in Nat /\ \A p \in SpanPlaces : p[1] \in Nat
  BY MergeFacts, RecordFacts, ComesBeforeFacts
<1> QED BY <1>2, <1>3 DEF Merged, Preceding, InRecord

LEMMA NextDocumentStep == ASSUME ReadInv, NextDocument PROVE ReadInv'
<1>1. /\ phase = "merge" /\ traces = <<>> /\ record < Len(documents)
      /\ phase' = "convert" /\ record' = record + 1 /\ work' = Parts(documents[record + 1])
      /\ traces' = <<>> /\ seen' = {}
      /\ UNCHANGED <<stream, documents, snapshot, merged>>
  BY DEF NextDocument, Open
<1>2. /\ record \in Nat /\ Len(documents) = Len(stream) /\ documents # <<>>
      /\ AllGood({p \in Places : p[1] <= record})
      /\ Collects(snapshot, Merged) /\ merged = Identified(Merged)
  BY <1>1, MergeFacts
<1>3. record + 1 \in DOMAIN stream
  BY <1>1, <1>2, RecordFacts
<1>4. \A p \in Places : p[1] \in Nat
  BY PartPlaces, RecordFacts
<1>5. {p \in Places : p[1] < record + 1} = {p \in Places : p[1] <= record}
  BY <1>2, <1>4
<1>6. {p \in SpanPlaces : p[1] < record + 1} = Merged
  <2>1. {p \in SpanPlaces : p[1] < record + 1} = {p \in SpanPlaces : p[1] <= record}
    BY <1>2, <1>4 DEF SpanPlaces
  <2> QED BY <1>1, <2>1, AllMerged
<1> QED BY <1>1, <1>2, <1>3, <1>5, <1>6, OpenStep

LEMMA ReturnMergedStep == ASSUME ReadInv, ReturnMerged PROVE ReadInv'
<1>1. /\ phase = "merge" /\ traces = <<>> /\ record = Len(documents) /\ phase' = "done"
      /\ UNCHANGED <<stream, documents, record, work, traces, seen, snapshot, merged>>
  BY DEF ReturnMerged
<1>2. /\ Len(documents) = Len(stream) /\ AllGood({p \in Places : p[1] <= record})
      /\ Collects(snapshot, Merged)
  BY <1>1, MergeFacts
<1>3. \A p \in Places : p[1] <= record
  BY <1>1, <1>2, PartPlaces, RecordFacts
<1>4. {p \in Places : p[1] <= record} = Places /\ Merged = SpanPlaces
  BY <1>1, <1>3, AllMerged DEF SpanPlaces
<1>5. \A n \in DOMAIN stream : stream[n].kind = "traces"
  BY <1>2, RecordFacts
<1>6. Finished'
  BY <1>1, <1>2, <1>4, <1>5, Static DEF Finished
<1>7. Decoded'
  BY <1>1 DEF ReadInv, Decoded
<1>8. Converting' /\ Merging'
  BY <1>1 DEF Converting, Merging
<1> QED BY <1>1, <1>6, <1>7, <1>8 DEF ReadInv

\* The trace that is merged next, and the traces after it.
LEMMA HeadFacts ==
    ASSUME ReadInv, phase = "merge", traces # <<>>
    PROVE  /\ Len(traces) \in Nat \ {0} /\ DOMAIN traces = 1..Len(traces) /\ Head(traces) = traces[1]
           /\ OfHead \subseteq Remaining
           /\ IsSeq(traces[1].spans) /\ traces[1].spans # <<>>
           /\ \A n \in DOMAIN traces : \A i \in DOMAIN traces[n].spans : \A p \in Remaining :
                From(traces[n].spans[i], p) => TraceAt(p) = traces[n].id
           /\ \A p \in OfHead : TraceAt(p) = traces[1].id
                                /\ \E i \in DOMAIN traces[1].spans : From(traces[1].spans[i], p)
           /\ \A i \in DOMAIN traces[1].spans : \E p \in OfHead : From(traces[1].spans[i], p)
           /\ Identities(Head(traces)) = Identified(OfHead)
<1>1. IsSeq(traces)
  BY MergeFacts DEF Gathers, Listed
<1>2. Len(traces) \in Nat \ {0} /\ DOMAIN traces = 1..Len(traces) /\ Head(traces) = traces[1]
  BY <1>1, IsSeqFacts, SeqOperators
<1>3. 1 \in DOMAIN traces
  BY <1>2
<1>4. IsSeq(traces[1].spans) /\ traces[1].spans # <<>>
  BY <1>3, MergeFacts DEF Gathers
<1>5. OfHead \subseteq Remaining /\ \A p \in OfHead : TraceAt(p) = traces[1].id
  BY <1>2, <1>3 DEF OfHead, Remaining
<1>6. \A span : \A p, q \in Remaining : From(span, p) /\ From(span, q) => p = q
  <2>1. \A span : \A p, q \in InRecord(record) : From(span, p) /\ From(span, q) => p = q
    BY MergeFacts, FromFacts
  <2> QED BY <2>1, MergeFacts
<1>7. ASSUME NEW n \in DOMAIN traces, NEW i \in DOMAIN traces[n].spans, NEW p \in Remaining,
             From(traces[n].spans[i], p)
      PROVE  TraceAt(p) = traces[n].id
  <2>1. PICK q \in Remaining : From(traces[n].spans[i], q) /\ TraceAt(q) = traces[n].id
    BY MergeFacts DEF Gathers
  <2> QED BY <1>6, <1>7, <2>1
<1>8. ASSUME NEW p \in OfHead PROVE \E i \in DOMAIN traces[1].spans : From(traces[1].spans[i], p)
  <2>1. PICK n \in DOMAIN traces : \E i \in DOMAIN traces[n].spans : From(traces[n].spans[i], p)
    BY <1>5, MergeFacts DEF Gathers
  <2>2. traces[n].id = traces[1].id
    BY <1>5, <1>7, <2>1
  <2>3. n = 1
    BY <1>3, <2>2, MergeFacts DEF Gathers
  <2> QED BY <2>1, <2>3
<1>9. ASSUME NEW i \in DOMAIN traces[1].spans PROVE \E p \in OfHead : From(traces[1].spans[i], p)
  <2>1. PICK p \in Remaining : From(traces[1].spans[i], p) /\ TraceAt(p) = traces[1].id
    BY <1>3, MergeFacts DEF Gathers
  <2>2. p \in OfHead
    BY <1>2, <2>1, MergeFacts DEF OfHead
  <2> QED BY <2>1, <2>2
<1>10. ASSUME NEW p \in OfHead, NEW i \in DOMAIN traces[1].spans, From(traces[1].spans[i], p)
       PROVE  Identity(traces[1].spans[i]) = IdentityAt(p)
  <2>1. p \in SpanPlaces /\ p \in Places /\ p[1] = record
    BY <1>5, MergeFacts DEF InRecord, SpanPlaces
  <2>2. p[1] <= record
    BY <2>1, MergeFacts
  <2>3. Good(PartAt(p))
    BY <2>1, <2>2, MergeFacts DEF AllGood
  <2> QED BY <1>10, <2>1, <2>3, ConvertedFacts
<1>11. Identities(traces[1]) = Identified(OfHead)
  <2>1. \A i \in DOMAIN traces[1].spans : Identity(traces[1].spans[i]) \in Identified(OfHead)
    BY <1>9, <1>10 DEF Identified
  <2>2. \A p \in OfHead : \E i \in DOMAIN traces[1].spans : IdentityAt(p) = Identity(traces[1].spans[i])
    BY <1>8, <1>10
  <2> QED BY <2>1, <2>2 DEF Identities, Identified
<1> QED BY <1>2, <1>4, <1>5, <1>7, <1>8, <1>9, <1>11

LEMMA RejectDuplicateStep == ASSUME ReadInv, RejectDuplicate PROVE ReadInv'
<1>1. phase = "merge" /\ traces # <<>> /\ Identities(Head(traces)) \cap merged # {} /\ RejectInput
  BY DEF RejectDuplicate, MergeNext, Duplicate
<1>2. Identified(OfHead) \cap Identified(Merged) # {}
  BY <1>1, HeadFacts, MergeFacts
<1>3. PICK p \in OfHead, q \in Merged : IdentityAt(p) = IdentityAt(q)
  BY <1>2 DEF Identified
<1>4. p \in SpanPlaces /\ q \in SpanPlaces /\ p # q
  BY <1>1, HeadFacts, MergeFacts
<1>5. Faulty
  BY <1>3, <1>4 DEF Faulty
<1> QED BY <1>1, <1>5, RefuseStep

\* The other traces are as gathered as before.
LEMMA RestGathers ==
    ASSUME ReadInv, phase = "merge", traces # <<>>
    PROVE  Gathers(Tail(traces), Remaining \ OfHead)
<1> DEFINE rest == Tail(traces)
           S == Remaining \ OfHead
<1>1. /\ IsSeq(rest) /\ Len(traces) \in Nat \ {0} /\ Len(rest) = Len(traces) - 1
      /\ \A n \in 1..(Len(traces) - 1) : rest[n] = traces[n + 1]
      /\ DOMAIN traces = 1..Len(traces)
  <2>1. IsSeq(traces)
    BY MergeFacts DEF Gathers, Listed
  <2> QED BY <2>1, IsSeqFacts, SeqOperators
<1>2. DOMAIN rest = 1..(Len(traces) - 1)
  BY <1>1, IsSeqFacts
<1> HIDE DEF rest
<1>3. ASSUME NEW n \in DOMAIN rest PROVE n + 1 \in DOMAIN traces /\ rest[n] = traces[n + 1] /\ n + 1 # 1
  BY <1>1, <1>2
<1>4. ASSUME NEW n \in DOMAIN rest, NEW i \in DOMAIN rest[n].spans
      PROVE  \E p \in S : From(rest[n].spans[i], p) /\ TraceAt(p) = rest[n].id
  <2>1. PICK p \in Remaining : From(rest[n].spans[i], p) /\ TraceAt(p) = rest[n].id
    BY <1>3, MergeFacts DEF Gathers
  <2>2. rest[n].id # traces[1].id
    <3>1. 1 \in DOMAIN traces
      BY <1>1
    <3> QED BY <1>3, <3>1, MergeFacts DEF Gathers
  <2>3. p \notin OfHead
    BY <2>1, <2>2, HeadFacts
  <2> QED BY <2>1, <2>3
<1>5. ASSUME NEW p \in S PROVE \E n \in DOMAIN rest : \E i \in DOMAIN rest[n].spans : From(rest[n].spans[i], p)
  <2>1. PICK n \in DOMAIN traces : \E i \in DOMAIN traces[n].spans : From(traces[n].spans[i], p)
    BY MergeFacts DEF Gathers
  <2>2. n # 1
    <3>1. TraceAt(p) = traces[n].id
      BY <2>1, HeadFacts
    <3>2. TraceAt(p) # traces[1].id
      BY HeadFacts, MergeFacts DEF OfHead
    <3> QED BY <3>1, <3>2
  <2>3. n - 1 \in DOMAIN rest /\ rest[n - 1] = traces[n]
    <3>1. n \in 1..Len(traces)
      BY <1>1
    <3>2. n - 1 \in 1..(Len(traces) - 1) /\ (n - 1) + 1 = n
      BY <1>1, <2>2, <3>1
    <3> QED BY <1>1, <1>2, <3>2
  <2> QED BY <2>1, <2>3
<1>6. Listed(rest)
  <2>1. \A n \in DOMAIN traces : traces[n] = [id |-> traces[n].id, spans |-> traces[n].spans]
    BY MergeFacts DEF Gathers, Listed
  <2>2. ASSUME NEW n \in DOMAIN rest PROVE rest[n] = [id |-> rest[n].id, spans |-> rest[n].spans]
    <3>1. n + 1 \in DOMAIN traces /\ rest[n] = traces[n + 1]
      BY <1>3
    <3>2. traces[n + 1] = [id |-> traces[n + 1].id, spans |-> traces[n + 1].spans]
      BY <2>1, <3>1
    <3> QED BY <3>1, <3>2
  <2> QED BY <1>1, <2>2 DEF Listed
<1>7. \A n \in DOMAIN rest : IsSeq(rest[n].spans) /\ rest[n].spans # <<>>
  BY <1>3, MergeFacts DEF Gathers
<1>8. \A n \in DOMAIN rest : \A i, j \in DOMAIN rest[n].spans : \A p, q \in S :
        i < j /\ From(rest[n].spans[i], p) /\ From(rest[n].spans[j], q) => ComesBefore(p, q)
  BY <1>3, MergeFacts DEF Gathers
<1>9. ASSUME NEW m \in DOMAIN rest, NEW n \in DOMAIN rest, m < n PROVE m + 1 < n + 1
  BY <1>1, <1>2, <1>9
<1>10. \A m, n \in DOMAIN rest : \A p, q \in S :
         m < n /\ From(rest[m].spans[1], p) /\ From(rest[n].spans[1], q) => ComesBefore(p, q)
  BY <1>3, <1>9, MergeFacts DEF Gathers
<1>11. ASSUME NEW m \in DOMAIN rest, NEW n \in DOMAIN rest, rest[m].id = rest[n].id PROVE m = n
  <2>1. m + 1 = n + 1
    BY <1>3, <1>11, MergeFacts DEF Gathers
  <2> QED BY <1>1, <1>2, <2>1
<1>12. Gathers(rest, S)
  BY <1>4, <1>5, <1>6, <1>7, <1>8, <1>10, <1>11 DEF Gathers
<1> QED BY <1>12 DEF rest
\* The trace that is merged comes after what the result has.
LEMMA HeadFollows ==
    ASSUME ReadInv, phase = "merge", traces # <<>>, ~Duplicate
    PROVE  /\ Follows(snapshot, Merged, Head(traces).id, Renumbered(Head(traces)), OfHead)
           /\ \A i \in DOMAIN Renumbered(Head(traces)) :
                Renumbered(Head(traces))[i].order = Cardinality(Merged) + i - 1
           /\ \A p \in OfHead : From(Renumbered(Head(traces))[1], p) => From(traces[1].spans[1], p)
<1> DEFINE old == traces[1].spans
           new == Renumbered(Head(traces))
           id == Head(traces).id
           S == Merged
           T == OfHead
<1>0. /\ Head(traces) = traces[1] /\ IsSeq(old) /\ old # <<>>
      /\ Len(old) \in Nat \ {0} /\ DOMAIN old = 1..Len(old)
      /\ 1 \in DOMAIN traces
  BY HeadFacts, SeqOperators, IsSeqFacts
<1>1. new = [n \in DOMAIN old |-> [old[n] EXCEPT !.order = Cardinality(merged) + n - 1]]
  BY <1>0 DEF Renumbered
<1>2. DOMAIN new = DOMAIN old /\ IsSeq(new)
  <2>1. new = [n \in 1..Len(old) |-> new[n]] /\ DOMAIN new = 1..Len(old)
    BY <1>0, <1>1
  <2> HIDE DEF new, old
  <2> QED BY <1>0, <2>1, SeqOperators
<1>3. \A i \in DOMAIN old : new[i] = [old[i] EXCEPT !.order = Cardinality(Merged) + i - 1]
  BY <1>1, MergeFacts
<1>4. /\ T \subseteq Remaining /\ Remaining \subseteq InRecord(record) /\ S \cap Remaining = {}
      /\ \A p \in T : TraceAt(p) = id /\ \E i \in DOMAIN old : From(old[i], p)
      /\ \A i \in DOMAIN old : \E p \in T : From(old[i], p)
  BY <1>0, HeadFacts, MergeFacts
<1> HIDE DEF new, old, id, S, T
<1>5. new # <<>>
  <2>1. 1 \in DOMAIN new
    BY <1>0, <1>2
  <2>2. DOMAIN <<>> = {}
    BY SeqOperators
  <2> QED BY <2>1, <2>2
<1>6. \A i \in DOMAIN old : \A p : From(old[i], p) =>
        From(new[i], p) /\ new[i].order = Cardinality(Merged) + i - 1
  <2> SUFFICES ASSUME NEW i \in DOMAIN old, NEW p, From(old[i], p)
               PROVE  From(new[i], p) /\ new[i].order = Cardinality(Merged) + i - 1
    OBVIOUS
  <2> DEFINE k == Cardinality(Merged) + i - 1
  <2>1. new[i] = [old[i] EXCEPT !.order = k]
    BY <1>3
  <2> HIDE DEF k
  <2>2. From([old[i] EXCEPT !.order = k], p) /\ [old[i] EXCEPT !.order = k].order = k
    BY FromFacts
  <2> QED BY <2>1, <2>2 DEF k
<1>7. \A i \in DOMAIN old : new[i].order = Cardinality(Merged) + i - 1
  BY <1>4, <1>6
\* The places are different from those of the result.
<1>8. Unique(S \cup T) /\ S \cap T = {}
  <2>1. Unique(S) /\ Unique(InRecord(record))
    BY MergeFacts DEF Collects, S
  <2>2. Identified(T) \cap Identified(S) = {}
    BY HeadFacts, MergeFacts DEF Duplicate, S, T
  <2> QED BY <1>4, <2>1, <2>2 DEF Unique, Identified
<1>9. \A i \in DOMAIN old : \A p \in T : From(new[i], p) => From(old[i], p)
  <2> SUFFICES ASSUME NEW i \in DOMAIN old, NEW p \in T, From(new[i], p) PROVE From(old[i], p)
    OBVIOUS
  <2>1. PICK q \in T : From(old[i], q)
    BY <1>4
  <2>2. From(new[i], q)
    BY <1>6, <2>1
  <2>3. Unique(T)
    BY <1>8 DEF Unique
  <2>4. p = q
    BY <2>2, <2>3, FromFacts
  <2> QED BY <2>1, <2>4
<1>10. \A i \in DOMAIN new : \E p \in T : From(new[i], p)
  BY <1>2, <1>4, <1>6
<1>11. \A p \in T : TraceAt(p) = id /\ \E i \in DOMAIN new : From(new[i], p)
  BY <1>2, <1>4, <1>6
<1>12. \A i, j \in DOMAIN new : \A p, q \in T :
         i < j /\ From(new[i], p) /\ From(new[j], q) => ComesBefore(p, q)
  <2>1. \A i, j \in DOMAIN old : \A p, q \in Remaining :
          i < j /\ From(old[i], p) /\ From(old[j], q) => ComesBefore(p, q)
    BY <1>0, MergeFacts DEF Gathers, old
  <2> QED BY <1>2, <1>4, <1>9, <2>1
<1>13. \A p \in S, q \in T : TraceAt(p) = id => ComesBefore(p, q)
  <2> SUFFICES ASSUME NEW p \in S, NEW q \in T, TraceAt(p) = id PROVE ComesBefore(p, q)
    OBVIOUS
  <2>1. p \notin Remaining
    BY <1>4
  <2>2. p \notin InRecord(record)
    BY <1>0, <2>1 DEF Remaining, id
  <2>3. p[1] < record /\ q[1] = record
    BY <1>4, <2>2 DEF S, Merged, Preceding, InRecord
  <2> QED BY <2>3 DEF ComesBefore
<1>14. \A n \in DOMAIN snapshot : \A p \in S, q \in T :
         From(snapshot[n].spans[1], p) /\ From(new[1], q) => ComesBefore(p, q)
  BY <1>4, MergeFacts DEF S
<1>15. Follows(snapshot, S, id, new, T)
  BY <1>2, <1>5, <1>8, <1>10, <1>11, <1>12, <1>13, <1>14 DEF Follows
<1>16. 1 \in DOMAIN old
  BY <1>0
<1> QED BY <1>2, <1>7, <1>9, <1>15, <1>16 DEF new, old, id, S, T

\* A first span of the new result comes before all that is still to be merged.
LEMMA FirstsBefore ==
    ASSUME ReadInv, MergeTrace,
           NEW n \in DOMAIN snapshot', NEW p \in Merged \cup OfHead, NEW q \in Remaining \ OfHead,
           From(snapshot'[n].spans[1], p)
    PROVE  ComesBefore(p, q)
<1> DEFINE new == Renumbered(Head(traces))
           id == Head(traces).id
           more == snapshot'
           S == Merged
           T == OfHead
<1>1. /\ phase = "merge" /\ traces # <<>> /\ ~Duplicate
      /\ snapshot' = AddSpans(snapshot, id, new)
  BY DEF MergeTrace, MergeNext, MergeHead, MergedTraces
<1>2. Follows(snapshot, S, id, new, T) /\ Gathers(snapshot, S)
      /\ \A x \in T : From(new[1], x) => From(traces[1].spans[1], x)
  BY <1>1, HeadFollows, MergeFacts DEF Collects
<1> HIDE DEF new, id, more, S, T
<1>3. Spread(snapshot, id, new, more)
  <2>1. Extended(snapshot, id, new, AddSpans(snapshot, id, new)) /\ IsSeq(new) /\ new # <<>>
    BY <1>2, AddedList DEF Gathers, Follows
  <2>2. Spread(snapshot, id, new, AddSpans(snapshot, id, new))
    BY <1>2, <2>1, AddedSpans
  <2> QED BY <1>1, <2>2 DEF more
<1>4. \A span : \A x, y \in S \cup T : From(span, x) /\ From(span, y) => x = y
  BY <1>2, FromFacts DEF Follows
<1>5. p \in S \cup T /\ q \in Remaining /\ q \notin T /\ From(more[n].spans[1], p) /\ n \in DOMAIN more
  BY DEF S, T, more
<1>6. CASE n \in DOMAIN snapshot
  <2>1. 1 \in DOMAIN snapshot[n].spans
    BY <1>3, <1>6 DEF Spread
  <2>2. more[n].spans[1] = snapshot[n].spans[1]
    BY <1>3, <1>6, <2>1 DEF Spread
  <2>3. PICK x \in S : From(snapshot[n].spans[1], x)
    BY <1>2, <1>6, <2>1 DEF Gathers
  <2>4. p = x
    BY <1>4, <1>5, <2>2, <2>3
  <2> QED BY <1>1, <1>5, <1>6, <2>3, <2>4, MergeFacts DEF S
<1>7. CASE n \notin DOMAIN snapshot
  <2>1. more[n].spans = new
    BY <1>3, <1>5, <1>7 DEF Spread
  <2>2. 1 \in DOMAIN new
    BY <1>3 DEF Spread
  <2>3. PICK x \in T : From(new[1], x)
    BY <1>2, <2>2 DEF Follows
  <2>4. p = x /\ From(traces[1].spans[1], p)
    BY <1>2, <1>4, <1>5, <2>1, <2>3
  <2>5. PICK k \in DOMAIN traces : \E i \in DOMAIN traces[k].spans : From(traces[k].spans[i], q)
    BY <1>1, <1>5, MergeFacts DEF Gathers
  <2>6. PICK i \in DOMAIN traces[k].spans : From(traces[k].spans[i], q)
    BY <2>5
  <2>7. k # 1
    <3>1. TraceAt(q) = traces[k].id
      BY <1>1, <1>5, <2>6, HeadFacts
    <3>2. TraceAt(q) # traces[1].id
      BY <1>1, <1>5, HeadFacts, MergeFacts DEF OfHead, T
    <3> QED BY <3>1, <3>2
  <2>8. 1 \in DOMAIN traces /\ k \in Nat /\ 1 < k
    BY <1>1, <2>7, HeadFacts
  <2>9. IsSeq(traces[k].spans) /\ traces[k].spans # <<>>
    BY <1>1, MergeFacts DEF Gathers
  <2>10. 1 \in DOMAIN traces[k].spans /\ i \in Nat /\ (i # 1 => 1 < i)
    <3>1. DOMAIN traces[k].spans = 1..Len(traces[k].spans) /\ Len(traces[k].spans) \in Nat \ {0}
      BY <2>9, SeqOperators, IsSeqFacts
    <3> QED BY <3>1
  <2>11. PICK y \in Remaining : From(traces[k].spans[1], y)
    BY <1>1, <2>10, MergeFacts DEF Gathers
  <2>12. p \in Remaining
    BY <1>1, <2>3, <2>4, HeadFacts DEF T
  <2>13. ComesBefore(p, y)
    BY <1>1, <2>4, <2>8, <2>11, <2>12, MergeFacts DEF Gathers
  <2>14. y = q \/ ComesBefore(y, q)
    <3>1. CASE i = 1
      <4>1. \A span : \A a, b \in InRecord(record) : From(span, a) /\ From(span, b) => a = b
        BY <1>1, MergeFacts, FromFacts
      <4>2. y \in InRecord(record) /\ q \in InRecord(record)
        BY <1>1, <1>5, MergeFacts
      <4> QED BY <2>6, <2>11, <3>1, <4>1, <4>2
    <3>2. CASE i # 1
      BY <1>1, <1>5, <2>6, <2>10, <2>11, <3>2, MergeFacts DEF Gathers
    <3> QED BY <3>1, <3>2
  <2>15. p \in SpanPlaces /\ y \in SpanPlaces /\ q \in SpanPlaces
    BY <1>1, <1>5, <2>12, MergeFacts
  <2> QED BY <2>13, <2>14, <2>15, ComesBeforeFacts, RecordFacts
<1> QED BY <1>6, <1>7

LEMMA MergeTraceStep == ASSUME ReadInv, MergeTrace PROVE ReadInv'
<1> DEFINE new == Renumbered(Head(traces))
           id == Head(traces).id
           S == Merged
           T == OfHead
<1>1. /\ phase = "merge" /\ traces # <<>> /\ ~Duplicate
      /\ snapshot' = AddSpans(snapshot, id, new)
      /\ merged' = merged \cup Identities(Head(traces))
      /\ traces' = Tail(traces)
      /\ UNCHANGED <<stream, documents, phase, record, work, seen>>
  BY DEF MergeTrace, MergeNext, MergeHead, MergedTraces
<1>2. /\ Follows(snapshot, S, id, new, T)
      /\ \A i \in DOMAIN new : new[i].order = Cardinality(S) + i - 1
  BY <1>1, HeadFollows
<1>3. Gathers(snapshot, S) /\ Numbers(snapshot, S) /\ S \subseteq SpanPlaces /\ T \subseteq SpanPlaces
  BY <1>1, MergeFacts, HeadFacts DEF Collects
<1> HIDE DEF new, id, S, T
<1>4. Collects(snapshot', S \cup T)
  <2>1. Gathers(AddSpans(snapshot, id, new), S \cup T)
    BY <1>2, <1>3, AddingGathers
  <2>2. Numbers(AddSpans(snapshot, id, new), S \cup T)
    BY <1>2, <1>3, AddingNumbers, RecordFacts
  <2>3. Unique(S \cup T)
    BY <1>2 DEF Follows
  <2> QED BY <1>1, <2>1, <2>2, <2>3 DEF Collects
<1>5. merged' = Identified(S \cup T)
  <2>1. merged = Identified(S) /\ Identities(Head(traces)) = Identified(T)
    BY <1>1, MergeFacts, HeadFacts DEF S, T
  <2> QED BY <1>1, <2>1 DEF Identified
<1>6. Remaining' = Remaining \ T
  <2>1. Remaining' = {p \in InRecord(record) : \E n \in DOMAIN Tail(traces) : Tail(traces)[n].id = TraceAt(p)}
    BY <1>1, Static DEF Remaining
  <2>2. ASSUME NEW p \in Remaining \ T PROVE p \in Remaining'
    <3>1. Gathers(Tail(traces), Remaining \ T)
      BY <1>1, RestGathers DEF T
    <3>2. PICK n \in DOMAIN Tail(traces) : \E i \in DOMAIN Tail(traces)[n].spans :
                                             From(Tail(traces)[n].spans[i], p)
      BY <3>1 DEF Gathers
    <3>3. PICK i \in DOMAIN Tail(traces)[n].spans : From(Tail(traces)[n].spans[i], p)
      BY <3>2
    <3>4. PICK q \in Remaining \ T : /\ From(Tail(traces)[n].spans[i], q)
                                     /\ TraceAt(q) = Tail(traces)[n].id
      BY <3>1 DEF Gathers
    <3>5. p \in InRecord(record) /\ q \in InRecord(record)
      BY <1>1, MergeFacts
    <3>6. p = q
      BY <1>1, <3>3, <3>4, <3>5, FromFacts, MergeFacts
    <3> QED BY <2>1, <3>4, <3>5, <3>6
  <2>3. ASSUME NEW p \in Remaining' PROVE p \in Remaining \ T
    <3>1. p \in InRecord(record) /\ \E n \in DOMAIN Tail(traces) : Tail(traces)[n].id = TraceAt(p)
      BY <2>1
    <3>2. PICK n \in DOMAIN Tail(traces) : Tail(traces)[n].id = TraceAt(p)
      BY <3>1
    <3>3. n + 1 \in DOMAIN traces /\ Tail(traces)[n] = traces[n + 1] /\ n + 1 # 1 /\ 1 \in DOMAIN traces
      <4>1. /\ IsSeq(traces) /\ Len(traces) \in Nat \ {0} /\ IsSeq(Tail(traces))
            /\ Len(Tail(traces)) = Len(traces) - 1 /\ DOMAIN traces = 1..Len(traces)
            /\ \A k \in 1..(Len(traces) - 1) : Tail(traces)[k] = traces[k + 1]
        <5>1. IsSeq(traces)
          BY <1>1, MergeFacts DEF Gathers, Listed
        <5> QED BY <1>1, <5>1, SeqOperators, IsSeqFacts
      <4>2. n \in 1..(Len(traces) - 1)
        BY <4>1, IsSeqFacts
      <4> QED BY <4>1, <4>2
    <3>4. p \in Remaining
      BY <3>1, <3>2, <3>3 DEF Remaining
    <3>5. TraceAt(p) # traces[1].id
      BY <1>1, <3>2, <3>3, MergeFacts DEF Gathers
    <3>6. p \notin T
      BY <1>1, <3>5, HeadFacts DEF T
    <3> QED BY <3>4, <3>6
  <2> QED BY <2>2, <2>3
<1>7. Merged' = S \cup T
  <2>1. T \subseteq Remaining /\ Remaining \subseteq InRecord(record)
    BY <1>1, HeadFacts, MergeFacts DEF T
  <2>2. Merged' = Preceding \cup (InRecord(record) \ (Remaining \ T))
    BY <1>1, <1>6, Static DEF Merged, Preceding
  <2> QED BY <2>1, <2>2 DEF S, Merged
<1>8. Merging'
  <2>1. AllGood({p \in Places : p[1] <= record})'
    <3>1. {p \in Places : p[1] <= record}' = {p \in Places : p[1] <= record}
      BY <1>1, Static
    <3> QED BY <1>1, <3>1, MergeFacts, Static
  <2>2. Unique(InRecord(record))'
    BY <1>1, MergeFacts, Static
  <2>3. Gathers(traces, Remaining)'
    <3>1. Gathers(Tail(traces), Remaining \ T)
      BY <1>1, RestGathers DEF T
    <3> QED BY <1>1, <1>6, <3>1, Static
  <2>4. Collects(snapshot, Merged)' /\ merged' = Identified(Merged)'
    BY <1>1, <1>4, <1>5, <1>7, Static
  <2>5. (\A n \in DOMAIN snapshot : \A p \in Merged, q \in Remaining :
           From(snapshot[n].spans[1], p) => ComesBefore(p, q))'
    <3>1. \A n \in DOMAIN snapshot' : \A p \in S \cup T, q \in Remaining \ T :
            From(snapshot'[n].spans[1], p) => ComesBefore(p, q)
      BY FirstsBefore DEF S, T
    <3> QED BY <1>1, <1>6, <1>7, <3>1, Static
  <2> QED BY <2>1, <2>2, <2>3, <2>4, <2>5 DEF Merging
<1>9. Decoded'
  BY <1>1 DEF ReadInv, Decoded
<1>10. Converting' /\ Finished' /\ phase' = "merge"
  BY <1>1 DEF Converting, Finished
<1> QED BY <1>8, <1>9, <1>10 DEF ReadInv
-----------------------------------------------------------------------------
(* The invariant *)

LEMMA StutterStep == ASSUME ReadInv, UNCHANGED parseVars PROVE ReadInv'
<1>1. /\ stream' = stream /\ documents' = documents /\ phase' = phase /\ record' = record
      /\ work' = work /\ traces' = traces /\ seen' = seen /\ snapshot' = snapshot /\ merged' = merged
  BY DEF parseVars
<1>2. Over' = Over
  BY <1>1, Static DEF Over
<1>3. Passed' = Passed /\ Converted' = Converted /\ Preceding' = Preceding
  BY <1>1, <1>2, Static DEF Passed, Converted, Preceding
<1>4. Remaining' = Remaining
  BY <1>1, Static DEF Remaining
<1>5. Merged' = Merged
  BY <1>1, <1>3, <1>4, Static DEF Merged
<1>6. Decoded'
  BY <1>1 DEF ReadInv, Decoded
<1>7. Converting'
  BY <1>1, <1>2, <1>3, Static DEF ReadInv, Converting
<1>8. Merging'
  <2>1. CASE phase = "merge"
    <3>1. {p \in Places : p[1] <= record}' = {p \in Places : p[1] <= record}
      BY <1>1, Static
    <3>2. /\ AllGood({p \in Places : p[1] <= record})'
          /\ Unique(InRecord(record))' /\ Gathers(traces, Remaining)'
          /\ Collects(snapshot, Merged)' /\ merged' = Identified(Merged)'
      BY <1>1, <1>4, <1>5, <2>1, <3>1, Static DEF ReadInv, Merging
    <3>3. (\A n \in DOMAIN snapshot : \A p \in Merged, q \in Remaining :
             From(snapshot[n].spans[1], p) => ComesBefore(p, q))'
      BY <1>1, <1>4, <1>5, <2>1, Static DEF ReadInv, Merging
    <3> QED BY <3>2, <3>3 DEF Merging
  <2>2. CASE phase # "merge"
    BY <1>1, <2>2 DEF Merging
  <2> QED BY <2>1, <2>2
<1>9. Finished' /\ (phase' = "rejected" => Faulty')
  BY <1>1, Static DEF ReadInv, Finished
<1> QED BY <1>1, <1>6, <1>7, <1>8, <1>9 DEF ReadInv

LEMMA ParseNextStep == ASSUME ReadInv, [ParseNext]_parseVars PROVE ReadInv'
<1>1. CASE DecodeRecord BY <1>1, DecodeRecordStep
<1>2. CASE RejectRecord BY <1>2, RejectRecordStep
<1>3. CASE EndOfInput BY <1>3, EndOfInputStep
<1>4. CASE RejectEmpty BY <1>4, RejectEmptyStep
<1>5. CASE ConvertContext BY <1>5, ConvertContextStep
<1>6. CASE ConvertSpan BY <1>6, ConvertSpanStep
<1>7. CASE RejectPart BY <1>7, RejectPartStep
<1>8. CASE ReturnSingle BY <1>8, ReturnSingleStep
<1>9. CASE StartMerge BY <1>9, StartMergeStep
<1>10. CASE MergeTrace BY <1>10, MergeTraceStep
<1>11. CASE RejectDuplicate BY <1>11, RejectDuplicateStep
<1>12. CASE NextDocument BY <1>12, NextDocumentStep
<1>13. CASE ReturnMerged BY <1>13, ReturnMergedStep
<1>14. CASE UNCHANGED parseVars BY <1>14, StutterStep
<1> QED BY <1>1, <1>2, <1>3, <1>4, <1>5, <1>6, <1>7, <1>8, <1>9, <1>10, <1>11, <1>12, <1>13, <1>14
        DEF ParseNext

\* The documents decoded, the traces converted and the snapshot merged are always
\* those of the places that have been passed, and what is refused is faulty.
THEOREM ReadInvariance == ParseSpec => []ReadInv
<1>1. ParseInit => ReadInv
  BY ParseInitStep
<1>2. ReadInv /\ [ParseNext]_parseVars => ReadInv'
  BY ParseNextStep
<1> QED BY <1>1, <1>2, PTL DEF ParseSpec

-----------------------------------------------------------------------------
(* What it shows *)

LEMMA FaultsRefused == ASSUME ReadInv PROVE RejectedIfFaulty
<1>1. ASSUME phase = "done" PROVE ~Faulty
  <2>1. /\ AllGood(Places) /\ Unique(SpanPlaces)
        /\ \A n \in DOMAIN stream : stream[n].kind = "traces"
    BY <1>1 DEF ReadInv, Finished, Collects
  <2>2. stream # <<>>
    <3>1. documents # <<>> /\ Len(documents) = Len(stream)
      BY <1>1 DEF ReadInv, Decoded
    <3> QED BY <3>1, RecordFacts, SeqOperators
  <2> QED BY <2>1, <2>2 DEF Faulty, AllGood, Unique
<1>2. phase = "rejected" => Faulty
  BY DEF ReadInv
<1> QED BY <1>1, <1>2 DEF RejectedIfFaulty

LEMMA ClocksKept == ASSUME ReadInv PROVE DurationsExact
<1> SUFFICES ASSUME phase = "done", NEW n \in DOMAIN snapshot, NEW i \in DOMAIN snapshot[n].spans
             PROVE  \E p \in SpanPlaces :
                      /\ IdentityAt(p) = <<snapshot[n].spans[i].trace, snapshot[n].spans[i].id>>
                      /\ snapshot[n].spans[i].start = PartAt(p).span.start.value
                      /\ snapshot[n].spans[i].start + snapshot[n].spans[i].duration
                           = PartAt(p).span.end.value
  BY DEF DurationsExact
<1> DEFINE span == snapshot[n].spans[i]
<1>1. AllGood(Places) /\ Gathers(snapshot, SpanPlaces)
  BY DEF ReadInv, Finished, Collects
<1>2. PICK p \in SpanPlaces : From(span, p)
  BY <1>1 DEF Gathers
<1>3. Good(PartAt(p))
  BY <1>1 DEF AllGood, SpanPlaces
<1> HIDE DEF span
<1>4. /\ IdentityAt(p) = <<span.trace, span.id>>
      /\ span.start = PartAt(p).span.start.value
      /\ span.start + span.duration = PartAt(p).span.end.value
  BY <1>2, <1>3, FromFacts, ConvertedFacts
<1> QED BY <1>4 DEF span

LEMMA OneDocument == ASSUME ReadInv PROVE MergedAsOne
<1> SUFFICES ASSUME phase = "done" PROVE MergedAsOne
  BY DEF MergedAsOne
<1>1. Unique(SpanPlaces) /\ Gathers(snapshot, SpanPlaces) /\ Numbers(snapshot, SpanPlaces)
  BY DEF ReadInv, Finished, Collects
<1>2. ASSUME NEW span, NEW p \in SpanPlaces, From(span, p) PROVE Origin(span) = p
  <2>1. IdentityAt(p) = <<span.trace, span.id>>
    BY <1>2, FromFacts
  <2>2. Origin(span) \in SpanPlaces /\ IdentityAt(Origin(span)) = <<span.trace, span.id>>
    BY <2>1 DEF Origin
  <2> QED BY <1>1, <2>1, <2>2 DEF Unique
<1>3. ASSUME NEW n \in DOMAIN snapshot, NEW i \in DOMAIN snapshot[n].spans
      PROVE  /\ Origin(snapshot[n].spans[i]) \in SpanPlaces
             /\ From(snapshot[n].spans[i], Origin(snapshot[n].spans[i]))
             /\ TraceAt(Origin(snapshot[n].spans[i])) = snapshot[n].id
  <2>1. PICK p \in SpanPlaces : From(snapshot[n].spans[i], p) /\ TraceAt(p) = snapshot[n].id
    BY <1>1 DEF Gathers
  <2> QED BY <1>2, <2>1
<1>4. ASSUME NEW n \in DOMAIN snapshot PROVE 1 \in DOMAIN snapshot[n].spans
  <2>1. IsSeq(snapshot[n].spans) /\ snapshot[n].spans # <<>>
    BY <1>1 DEF Gathers
  <2>2. Len(snapshot[n].spans) \in Nat \ {0} /\ DOMAIN snapshot[n].spans = 1..Len(snapshot[n].spans)
    BY <2>1, SeqOperators, IsSeqFacts
  <2> QED BY <2>2
<1>5. ASSUME NEW p \in SpanPlaces
      PROVE  \E n \in DOMAIN snapshot : /\ snapshot[n].id = TraceAt(p)
                                      /\ \E i \in DOMAIN snapshot[n].spans : Origin(snapshot[n].spans[i]) = p
  <2>1. PICK n \in DOMAIN snapshot : \E i \in DOMAIN snapshot[n].spans : From(snapshot[n].spans[i], p)
    BY <1>1 DEF Gathers
  <2>2. PICK i \in DOMAIN snapshot[n].spans : From(snapshot[n].spans[i], p)
    BY <2>1
  <2>3. Origin(snapshot[n].spans[i]) = p
    BY <1>2, <2>2
  <2> QED BY <1>3, <2>3
<1>6. {snapshot[n].id : n \in DOMAIN snapshot} = {IdentityAt(p)[1] : p \in SpanPlaces}
  <2>1. \A n \in DOMAIN snapshot : \E p \in SpanPlaces : IdentityAt(p)[1] = snapshot[n].id
    BY <1>3, <1>4 DEF TraceAt
  <2>2. \A p \in SpanPlaces : \E n \in DOMAIN snapshot : IdentityAt(p)[1] = snapshot[n].id
    BY <1>5 DEF TraceAt
  <2> QED BY <2>1, <2>2
<1>7. \A m, n \in DOMAIN snapshot : m < n =>
        ComesBefore(Origin(snapshot[m].spans[1]), Origin(snapshot[n].spans[1]))
  BY <1>1, <1>3, <1>4 DEF Gathers
<1>8. ASSUME NEW n \in DOMAIN snapshot PROVE TraceWhole(snapshot[n])
  <2> DEFINE added == snapshot[n].spans
  <2>1. {Origin(added[i]) : i \in DOMAIN added} = {p \in SpanPlaces : IdentityAt(p)[1] = snapshot[n].id}
    <3>1. \A i \in DOMAIN added : Origin(added[i]) \in SpanPlaces
                                  /\ IdentityAt(Origin(added[i]))[1] = snapshot[n].id
      BY <1>3 DEF TraceAt
    <3>2. ASSUME NEW p \in SpanPlaces, IdentityAt(p)[1] = snapshot[n].id
          PROVE  \E i \in DOMAIN added : Origin(added[i]) = p
      <4>1. PICK m \in DOMAIN snapshot : /\ snapshot[m].id = TraceAt(p)
                                       /\ \E i \in DOMAIN snapshot[m].spans : Origin(snapshot[m].spans[i]) = p
        BY <1>5
      <4>2. m = n
        BY <1>1, <3>2, <4>1 DEF Gathers, TraceAt
      <4> QED BY <4>1, <4>2
    <3> QED BY <3>1, <3>2
  <2>2. \A i \in DOMAIN added : added[i] = Convert(PartAt(Origin(added[i])), added[i].order)
    BY <1>3 DEF From
  <2>3. \A i, j \in DOMAIN added : i < j =>
          ComesBefore(Origin(added[i]), Origin(added[j])) /\ added[i].order < added[j].order
    BY <1>1, <1>3 DEF Gathers, Numbers
  <2> QED BY <2>1, <2>2, <2>3 DEF TraceWhole
<1>9. UNION {{snapshot[n].spans[i].order : i \in DOMAIN snapshot[n].spans} : n \in DOMAIN snapshot}
        = 0..(Cardinality(SpanPlaces) - 1)
  BY <1>1 DEF Numbers, Orders
<1> QED BY <1>6, <1>7, <1>8, <1>9 DEF MergedAsOne

\* Parse refuses a file if and only if something is wrong with it, wherever it is.
THEOREM FaultyRejected == ParseSpec => []RejectedIfFaulty
<1>1. ReadInv => RejectedIfFaulty
  BY FaultsRefused
<1>2. ParseSpec => []ReadInv
  BY ReadInvariance
<1> QED BY <1>1, <1>2, PTL

\* convertSpan's durations are what the clocks say: no difference wraps around.
THEOREM ClocksExact == ParseSpec => []DurationsExact
<1>1. ReadInv => DurationsExact
  BY ClocksKept
<1>2. ParseSpec => []ReadInv
  BY ReadInvariance
<1> QED BY <1>1, <1>2, PTL

\* convertDocuments merges the records as if they were one document: the traces, their
\* spans and the order numbers are those of all resources in the order of the file.
THEOREM RecordsAsOne == ParseSpec => []MergedAsOne
<1>1. ReadInv => MergedAsOne
  BY OneDocument
<1>2. ParseSpec => []ReadInv
  BY ReadInvariance
<1> QED BY <1>1, <1>2, PTL
=============================================================================
