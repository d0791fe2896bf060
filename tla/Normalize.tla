------------------------------ MODULE Normalize ------------------------------
(***************************************************************************)
(* Normalization of one parsed trace: normalizeTrace of                    *)
(* internal/normalize/normalize.go.                                        *)
(*                                                                         *)
(* The spans of a trace arrive in the order of the input document, named   *)
(* by generated identifiers and stamped with absolute clocks.  They are    *)
(* indexed by identifier, their clocks replaced by dense ranks, their      *)
(* parents resolved, the parent chains walked for cycles, and the spans    *)
(* emitted in preorder, siblings by start rank and then by the digest of   *)
(* their subtrees.  Any malformed span rejects the trace.                  *)
(*                                                                         *)
(* A label stands for what a digest reads of a span besides its relations, *)
(* start rank and duration: SpanKey, status and selected attributes.  The  *)
(* error type is carried along; no digest reads it.                        *)
(***************************************************************************)
EXTENDS Integers, Sequences, FiniteSets, TLC

CONSTANTS Id, NoId,        \* span identifiers, and the empty one
          Root, External,  \* relations of a span without a parent in the trace
          Label, Error,    \* labels and error types
          Bucket,          \* Options.DurationBucket
          Inputs,          \* the parsed traces
          Before(_, _)     \* the order of two subtree digests

Parsed == [id : Id \cup {NoId}, parent : Id \cup {NoId}, start : Nat,
           label : Label, duration : Int, error : Error]

ASSUME NormalizeAssumption ==
    /\ NoId \notin Id
    /\ Root # External /\ Root \notin Nat /\ External \notin Nat
    /\ Bucket \in Nat
    /\ Inputs \subseteq Seq(Parsed)

VARIABLES spans,   \* the parsed trace
          stage,   \* "index" | "build" | "link" | "walk" | "done" | "rejected"
          link,    \* per span: its parent's index, Root or External
          mark,    \* per span: the walk's "unvisited" | "visiting" | "visited"
          stack,   \* the spans whose visit has not returned, the last one innermost
          result   \* the normalized spans

vars == <<spans, stage, link, mark, stack, result>>

Spans == DOMAIN spans
TopLevel == {Root, External}

-----------------------------------------------------------------------------
(* The checks *)

BadIds ==
    \/ \E i \in Spans : spans[i].id = NoId
    \/ \E i, j \in Spans : i # j /\ spans[i].id = spans[j].id

BadDurations == \E i \in Spans : spans[i].duration < 0

OwnParent == \E i \in Spans : spans[i].parent # NoId /\ spans[i].parent = spans[i].id

LinkOf(i) ==
    CASE spans[i].parent = NoId -> Root
      [] spans[i].parent # NoId /\ \A j \in Spans : spans[j].id # spans[i].parent -> External
      [] OTHER -> CHOOSE j \in Spans : spans[j].id = spans[i].parent

-----------------------------------------------------------------------------
(* The canonical order *)

\* denseStartOrders: equal clocks share a rank, ranks have no gaps.
Rank(i) == Cardinality({spans[j].start : j \in {k \in Spans : spans[k].start < spans[i].start}})

BucketDuration(d) == IF Bucket = 0 THEN d ELSE d - (d % Bucket)

Kind(i) == IF link[i] \in TopLevel THEN link[i] ELSE "span"

\* The children of a span, or the spans at the top.
Siblings(p) ==
    IF p \in TopLevel THEN {i \in Spans : link[i] \in TopLevel} ELSE {i \in Spans : link[i] = p}

\* What the digest of a subtree is computed from (computeSubtreeKey).  Equal
\* subtrees have equal digests, and different ones do not collide.
Subtrees ==
    LET subtree[i \in Spans] ==
          LET earlier(a, b) == IF a.start = b.start THEN Before(a, b) ELSE a.start < b.start
              below == Siblings(i)
              order == CHOOSE o \in [1..Cardinality(below) -> below] : {o[n] : n \in DOMAIN o} = below
          IN  [label |-> spans[i].label, kind |-> Kind(i), start |-> Rank(i),
               duration |-> BucketDuration(spans[i].duration),
               children |-> SortSeq([n \in DOMAIN order |-> subtree[order[n]]], earlier)]
    IN  subtree

\* The pairs of spans whose subtree digests are in this order.
Smaller ==
    LET tree == Subtrees
    IN  {p \in Spans \X Spans : Before(tree[p[1]], tree[p[2]])}

\* Only the order of the digests is used: a digest is its place among those of
\* the trace.
Digest(smaller, i) == Cardinality({j \in Spans : <<j, i>> \in smaller})

\* Mutant: siblings with one start rank are not told apart by their digests.
LessByRank(smaller, i, j) == Rank(i) < Rank(j)

\* lessNode.
Less(smaller, i, j) ==
    IF Rank(i) = Rank(j) THEN Digest(smaller, i) < Digest(smaller, j) ELSE Rank(i) < Rank(j)

Permuted == {t \in [Spans -> Spans] : \A i, j \in Spans : t[i] = t[j] => i = j}

\* A tie is an order of the siblings that lessNode does not tell apart: sort.Slice
\* promises none.
First(smaller, tie, i, j) == Less(smaller, i, j) \/ (~Less(smaller, j, i) /\ tie[i] < tie[j])

\* A span and the spans it hangs below: the least set with it and the parent of
\* each of its members.
Above ==
    [j \in Spans |->
        {i \in Spans : \A S \in SUBSET Spans :
            j \in S /\ (\A k \in S : link[k] \in TopLevel \cup S) => i \in S}]

\* Mutant: all spans in one list by start rank and digest.
ByStart(tie) ==
    LET smaller == Smaller
    IN  [i \in Spans |-> 1 + Cardinality({j \in Spans : First(smaller, tie, j, i)})]

\* A span comes before its descendants, and before the subtrees of its later
\* siblings.
Sooner(smaller, above, tie, i, j) ==
    \/ i # j /\ i \in above[j]
    \/ \E a \in above[i] \ above[j], b \in above[j] \ above[i] :
         b \in Siblings(link[a]) /\ First(smaller, tie, a, b)

\* The place of each span in the order of appendPreorder.
Preorder(tie) ==
    LET smaller == Smaller
        above == Above
    IN  [i \in Spans |-> 1 + Cardinality({j \in Spans : Sooner(smaller, above, tie, j, i)})]

\* Mutant: a parent is still named by its index in the input.
EmitSourceParents(place) ==
    [n \in Spans |->
        LET i == CHOOSE j \in Spans : place[j] = n
        IN  [label |-> spans[i].label,
             parent |-> link[i],
             start |-> Rank(i),
             duration |-> BucketDuration(spans[i].duration),
             error |-> spans[i].error]]

Emit(place) ==
    [n \in Spans |->
        LET i == CHOOSE j \in Spans : place[j] = n
        IN  [label |-> spans[i].label,
             parent |-> IF link[i] \in TopLevel THEN link[i] ELSE place[link[i]],
             start |-> Rank(i),
             duration |-> BucketDuration(spans[i].duration),
             error |-> spans[i].error]]

-----------------------------------------------------------------------------
Init ==
    /\ spans \in Inputs
    /\ stage = "index"
    /\ link = [i \in Spans |-> Root]
    /\ mark = [i \in Spans |-> "unvisited"]
    /\ stack = <<>>
    /\ result = <<>>

\* normalizeTrace returns an error.
Reject ==
    /\ stage' = "rejected"
    /\ UNCHANGED <<spans, link, mark, stack, result>>

\* Every span has an identifier of its own.
IndexSpans ==
    /\ stage = "index"
    /\ ~BadIds
    /\ stage' = "build"
    /\ UNCHANGED <<spans, link, mark, stack, result>>

RejectIds == stage = "index" /\ BadIds /\ Reject

\* No duration is negative.
BuildNodes ==
    /\ stage = "build"
    /\ ~BadDurations
    /\ stage' = "link"
    /\ UNCHANGED <<spans, link, mark, stack, result>>

RejectDurations == stage = "build" /\ BadDurations /\ Reject

\* Parents are resolved within the trace; an identifier not found is external.
LinkParents ==
    /\ stage = "link"
    /\ ~OwnParent
    /\ link' = [i \in Spans |-> LinkOf(i)]
    /\ stage' = "walk"
    /\ UNCHANGED <<spans, mark, stack, result>>

RejectOwnParent == stage = "link" /\ OwnParent /\ Reject

\* validateAcyclicParents visits the next span in input order that is not visited.
Visit(i) ==
    /\ stage = "walk"
    /\ stack = <<>>
    /\ mark[i] = "unvisited"
    /\ \A j \in Spans : j < i => mark[j] = "visited"
    /\ mark' = [mark EXCEPT ![i] = "visiting"]
    /\ stack' = <<i>>
    /\ UNCHANGED <<spans, stage, link, result>>

Top == stack[Len(stack)]

\* The visit goes on to the parent.
Climb ==
    /\ stage = "walk"
    /\ stack # <<>>
    /\ link[Top] \notin TopLevel
    /\ mark[link[Top]] = "unvisited"
    /\ mark' = [mark EXCEPT ![link[Top]] = "visiting"]
    /\ stack' = Append(stack, link[Top])
    /\ UNCHANGED <<spans, stage, link, result>>

\* Mutant: a visit returns without marking its span as visited.
SettleUnmarked ==
    /\ stage = "walk"
    /\ stack # <<>>
    /\ link[Top] \notin TopLevel => mark[link[Top]] = "visited"
    /\ stack' = SubSeq(stack, 1, Len(stack) - 1)
    /\ UNCHANGED <<spans, stage, link, mark, result>>

\* The parent is already visited, or there is none: the visit returns.
Settle ==
    /\ stage = "walk"
    /\ stack # <<>>
    /\ link[Top] \notin TopLevel => mark[link[Top]] = "visited"
    /\ mark' = [mark EXCEPT ![Top] = "visited"]
    /\ stack' = SubSeq(stack, 1, Len(stack) - 1)
    /\ UNCHANGED <<spans, stage, link, result>>

\* Mutant: any span seen before is taken for a cycle, shared parents included.
RejectSeenBefore ==
    /\ stage = "walk"
    /\ stack # <<>>
    /\ link[Top] \notin TopLevel
    /\ mark[link[Top]] # "unvisited"
    /\ Reject

\* The parent is still being visited.
RejectCycle ==
    /\ stage = "walk"
    /\ stack # <<>>
    /\ link[Top] \notin TopLevel
    /\ mark[link[Top]] = "visiting"
    /\ Reject

\* No cycle: the spans are ordered and emitted.
Arrange ==
    /\ stage = "walk"
    /\ stack = <<>>
    /\ \A i \in Spans : mark[i] = "visited"
    /\ \E place \in {Preorder(tie) : tie \in Permuted} : result' = Emit(place)
    /\ stage' = "done"
    /\ UNCHANGED <<spans, link, mark, stack>>

Next ==
    \/ IndexSpans \/ RejectIds
    \/ BuildNodes \/ RejectDurations
    \/ LinkParents \/ RejectOwnParent
    \/ \E i \in Spans : Visit(i)
    \/ Climb \/ Settle \/ RejectCycle
    \/ Arrange

Spec == Init /\ [][Next]_vars

\* normalizeTrace is one goroutine that never waits: a step it can take, it takes.
FairSpec == Spec /\ WF_vars(Next)

-----------------------------------------------------------------------------
(* Correctness *)

TypeOK ==
    /\ spans \in Seq(Parsed)
    /\ stage \in {"index", "build", "link", "walk", "done", "rejected"}
    /\ link \in [Spans -> TopLevel \cup Spans]
    /\ mark \in [Spans -> {"unvisited", "visiting", "visited"}]
    /\ stack \in Seq(Spans)
    /\ stage = "done" => DOMAIN result = Spans

\* Some spans have their parents among themselves only.
ClosedGroup ==
    \E S \in SUBSET Spans : S # {} /\ \A i \in S : \E j \in S : spans[j].id = spans[i].parent

(***************************************************************************)
(* A trace is rejected exactly when it is malformed: when identifiers are  *)
(* missing or repeat, a duration is negative, or following parents never   *)
(* leaves some group of spans.                                             *)
(***************************************************************************)
Malformed == BadIds \/ BadDurations \/ ClosedGroup

RejectedIfMalformed ==
    /\ stage = "done" => ~Malformed
    /\ stage = "rejected" => Malformed

(***************************************************************************)
(* The normalized trace is the parsed one under other names: some renaming *)
(* of the spans keeps label, error type and duration bucket, the order of  *)
(* the clocks, and every relation to a parent.                             *)
(***************************************************************************)
SameTrace ==
    stage = "done" =>
        \E name \in Permuted :
            /\ \A n, m \in Spans : result[n].start < result[m].start
                                     <=> spans[name[n]].start < spans[name[m]].start
            /\ \A n \in Spans :
                 /\ result[n].label = spans[name[n]].label
                 /\ result[n].error = spans[name[n]].error
                 /\ result[n].duration <= spans[name[n]].duration
                 /\ spans[name[n]].duration < result[n].duration + (IF Bucket = 0 THEN 1 ELSE Bucket)
                 /\ result[n].parent = Root <=> spans[name[n]].parent = NoId
                 /\ result[n].parent \in Spans <=>
                      \E i \in Spans : spans[i].id = spans[name[n]].parent
                 /\ result[n].parent \in Spans =>
                      spans[name[result[n].parent]].id = spans[name[n]].parent

\* The n-th emitted span and its ancestors.
Lineage(n) ==
    {m \in Spans : \A S \in SUBSET Spans :
        n \in S /\ (\A k \in S : result[k].parent \in TopLevel \cup S) => m \in S}

(***************************************************************************)
(* The normalized trace has the form the matchers rely on: parents come    *)
(* before their children, a subtree is listed in one piece, siblings by    *)
(* start rank, and the ranks in use are 0, 1, 2 and so on.                 *)
(***************************************************************************)
MatcherReady ==
    stage = "done" =>
        /\ \A n \in Spans : result[n].parent \in TopLevel \cup 1..(n - 1)
        /\ \A n \in Spans : result[n].parent \in Spans => result[n].parent \in Lineage(n - 1)
        /\ \A m, n \in Spans :
             /\ m < n
             /\ \/ {result[m].parent, result[n].parent} \subseteq TopLevel
                \/ result[m].parent = result[n].parent
             => result[m].start <= result[n].start
        /\ \A n \in Spans :
             result[n].start = Cardinality({result[m].start : m \in {k \in Spans :
                                               result[k].start < result[n].start}})

\* normalizeTrace returns: no chain of parents keeps it climbing.
Returns == <>(stage \in {"done", "rejected"})
=============================================================================
