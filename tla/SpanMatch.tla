------------------------------ MODULE SpanMatch ------------------------------
(***************************************************************************)
(* Span matching inside one pair of matched traces: pairSpans and          *)
(* pairSpanGroup of internal/match/match.go.                               *)
(*                                                                         *)
(* A first phase repeats parent-aware passes: unused spans are grouped by  *)
(* semantic key and by context (root, external parent, or the pair their   *)
(* parents form), and every group with spans on both sides is paired by    *)
(* start rank.  A span whose parent is unpaired waits.  When no group has  *)
(* spans on both sides, one fallback pass groups what is left by semantic  *)
(* key alone; the rest is removed or added.  A group whose remaining spans *)
(* share a start rank ends the comparison with a SpanAmbiguityError.       *)
(*                                                                         *)
(* A trace is the sequence of its normalized spans.  A span's key stands   *)
(* for its SpanKey and safe attributes, its start for the dense start rank *)
(* within the trace.  Status, error type and duration are left out: the    *)
(* code never reads them here.                                             *)
(***************************************************************************)
EXTENDS Naturals, Sequences, FiniteSets

CONSTANTS Semantic,        \* semantic span keys
          Root, External,  \* parents of top-level spans: none, or outside the trace
          Traces           \* the normalized traces that are compared

\* A normalized trace: parents come before their children (normalizeTrace
\* appends in preorder).
NormalizedTrace(t) ==
    /\ t \in Seq([key : Semantic, parent : {Root, External} \cup Nat, start : Nat])
    /\ \A i \in DOMAIN t : t[i].parent \in {Root, External} \cup 1..(i - 1)

ASSUME SpanMatchAssumption ==
    /\ Root # External
    /\ Root \notin Nat /\ External \notin Nat
    /\ \A t \in Traces : NormalizedTrace(t)

VARIABLES base, cand,       \* the spans of the matched traces
          paired,           \* Result.Paired: [base, cand, how]
          added, removed,   \* Result.Added and Result.Removed
          status            \* "aware" | "leftovers" | "done" | "ambiguous"

vars == <<base, cand, paired, added, removed, status>>

inputs == <<base, cand>>

UnusedBase == DOMAIN base \ {p.base : p \in paired}
UnusedCand == DOMAIN cand \ {p.cand : p \in paired}

-----------------------------------------------------------------------------
(* Groups of spans that may be paired (eligibleSpanGroups, sharedSortedKeys) *)

TopLevel == {Root, External}

\* Mutant: the two top-level relations are not told apart.
CandContextAnyTop(j) ==
    IF cand[j].parent \in TopLevel
    THEN TopLevel
    ELSE {p.base : p \in {q \in paired : q.cand = cand[j].parent}}

\* The context of a span: its top-level relation, or the pair of its parent,
\* named by the pair's baseline span; none while the parent is unpaired.
BaseContext(i) ==
    IF base[i].parent \in TopLevel
    THEN {base[i].parent}
    ELSE {p.base : p \in {q \in paired : q.base = base[i].parent}}

CandContext(j) ==
    IF cand[j].parent \in TopLevel
    THEN {cand[j].parent}
    ELSE {p.base : p \in {q \in paired : q.cand = cand[j].parent}}

AwareBase(g) == {i \in UnusedBase : g[1] \in BaseContext(i) /\ g[2] = base[i].key}
AwareCand(g) == {j \in UnusedCand : g[1] \in CandContext(j) /\ g[2] = cand[j].key}

\* Mutant: a group counts as progress although the candidate has no span for it.
BaselineGroups ==
    {g \in (TopLevel \cup DOMAIN base) \X Semantic : AwareBase(g) # {}}

AwareGroups ==
    {g \in (TopLevel \cup DOMAIN base) \X Semantic : AwareBase(g) # {} /\ AwareCand(g) # {}}

\* The groups of the fallback pass ignore the context.
KeyBase(k) == {i \in UnusedBase : base[i].key = k}
KeyCand(k) == {j \in UnusedCand : cand[j].key = k}

KeyGroups == {k \in Semantic : KeyBase(k) # {} /\ KeyCand(k) # {}}

-----------------------------------------------------------------------------
(* Pairing within a group (pairSpanGroup) *)

\* The spans of the group that start at the rank of span i of trace t.
AtStart(t, group, start) == {x \in group : t[x].start = start}

\* Mutant: every two spans at the same rank are paired.
AnySameStart(B, C) == {p \in B \X C : base[p[1]].start = cand[p[2]].start}

\* First the spans that are alone at a start rank on both sides.
SameStart(B, C) ==
    {p \in B \X C : /\ AtStart(base, B, base[p[1]].start) = {p[1]}
                    /\ AtStart(cand, C, base[p[1]].start) = {p[2]}}

RestBase(B, C) == B \ {p[1] : p \in SameStart(B, C)}
RestCand(B, C) == C \ {p[2] : p \in SameStart(B, C)}

\* Mutant: any two spans that are left are taken for duplicates.
SeveralLeft(t, group) == \E x, y \in group : x # y

DuplicateStart(t, group) == \E x, y \in group : x # y /\ t[x].start = t[y].start

\* Both sides have spans left and one side cannot put them in order.
Unresolved(B, C) ==
    /\ RestBase(B, C) # {} /\ RestCand(B, C) # {}
    /\ DuplicateStart(base, RestBase(B, C)) \/ DuplicateStart(cand, RestCand(B, C))

\* The place of span x among the spans of the group ordered by start rank.
Place(t, group, x) == Cardinality({y \in group : t[y].start < t[x].start})

\* Mutant: one side is ordered the other way round.
InReverse(B, C) ==
    {p \in RestBase(B, C) \X RestCand(B, C) :
        Place(base, RestBase(B, C), p[1]) + Place(cand, RestCand(B, C), p[2]) + 1
            = Cardinality(RestCand(B, C))}

\* Then the rest, first with first, as far as the shorter side goes.
InOrder(B, C) ==
    {p \in RestBase(B, C) \X RestCand(B, C) :
        Place(base, RestBase(B, C), p[1]) = Place(cand, RestCand(B, C), p[2])}

GroupPairs(B, C) == SameStart(B, C) \cup InOrder(B, C)

Evidence(pairs, how) == {[base |-> p[1], cand |-> p[2], how |-> how] : p \in pairs}

-----------------------------------------------------------------------------
Init ==
    /\ base \in Traces /\ cand \in Traces
    /\ paired = {} /\ added = {} /\ removed = {}
    /\ status = "aware"

\* One pass of the parent-aware loop.  The groups are those at its start and
\* have no span in common, so the order of their keys makes no difference.
AwarePass ==
    /\ status = "aware"
    /\ AwareGroups # {}
    /\ \A g \in AwareGroups : ~Unresolved(AwareBase(g), AwareCand(g))
    /\ paired' = paired \cup
         Evidence(UNION {GroupPairs(AwareBase(g), AwareCand(g)) : g \in AwareGroups}, "aware")
    /\ UNCHANGED <<inputs, added, removed, status>>

\* Mutant: spans whose relationship changed are not given a second pass.
NoFallback ==
    /\ status = "aware"
    /\ AwareGroups = {}
    /\ status' = "leftovers"
    /\ UNCHANGED <<inputs, paired, added, removed>>

\* The loop has made no progress: one relationship-change fallback pass.
FallbackPass ==
    /\ status = "aware"
    /\ AwareGroups = {}
    /\ \A k \in KeyGroups : ~Unresolved(KeyBase(k), KeyCand(k))
    /\ paired' = paired \cup
         Evidence(UNION {GroupPairs(KeyBase(k), KeyCand(k)) : k \in KeyGroups}, "fallback")
    /\ status' = "leftovers"
    /\ UNCHANGED <<inputs, added, removed>>

\* What no pass has used is removed or added.
Leftovers ==
    /\ status = "leftovers"
    /\ removed' = UnusedBase
    /\ added' = UnusedCand
    /\ status' = "done"
    /\ UNCHANGED <<inputs, paired>>

\* A group of either phase cannot be resolved: Spans returns an empty result.
Ambiguous ==
    /\ status = "aware"
    /\ \/ \E g \in AwareGroups : Unresolved(AwareBase(g), AwareCand(g))
       \/ AwareGroups = {} /\ \E k \in KeyGroups : Unresolved(KeyBase(k), KeyCand(k))
    /\ paired' = {}
    /\ status' = "ambiguous"
    /\ UNCHANGED <<inputs, added, removed>>

Next == AwarePass \/ FallbackPass \/ Leftovers \/ Ambiguous

Spec == Init /\ [][Next]_vars

\* Spans is one goroutine that never waits: a step it can take, it takes.
FairSpec == Spec /\ WF_vars(Next)

-----------------------------------------------------------------------------
(* Correctness *)

TypeOK ==
    /\ base \in Traces /\ cand \in Traces
    /\ paired \subseteq [base : DOMAIN base, cand : DOMAIN cand, how : {"aware", "fallback"}]
    /\ removed \subseteq DOMAIN base /\ added \subseteq DOMAIN cand
    /\ status \in {"aware", "leftovers", "done", "ambiguous"}

(***************************************************************************)
(* No span is in two pairs, only spans of one operation are paired, and    *)
(* the returned result accounts for every span of both traces once.        *)
(***************************************************************************)
SpansOnce ==
    /\ \A p, q \in paired : p.base = q.base <=> p.cand = q.cand
    /\ \A p \in paired : base[p.base].key = cand[p.cand].key
    /\ status = "done" =>
         /\ removed = DOMAIN base \ {p.base : p \in paired}
         /\ added = DOMAIN cand \ {p.cand : p \in paired}

\* The two spans are attached alike: both roots, both below the same outside
\* world, or below spans that a parent-aware pass paired with each other.
AttachedAlike(i, j) ==
    \/ base[i].parent \in TopLevel /\ cand[j].parent = base[i].parent
    \/ \E q \in paired : q.how = "aware" /\ q.base = base[i].parent /\ q.cand = cand[j].parent

(***************************************************************************)
(* The evidence of a pair is true.  A parent-aware pair is attached alike, *)
(* link by link up to the top; a pair claimed as a relationship change is  *)
(* not: the fallback never takes what a further pass could have paired.    *)
(***************************************************************************)
EvidenceTrue == \A p \in paired : p.how = "aware" <=> AttachedAlike(p.base, p.cand)

(***************************************************************************)
(* A result never removes and adds the same operation: a span that only    *)
(* moved in the trace is paired, or the comparison is refused.             *)
(***************************************************************************)
NoFalseReplacement ==
    status = "done" => \A i \in removed, j \in added : base[i].key # cand[j].key

(***************************************************************************)
(* Siblings of one operation that changed their start rank keep their      *)
(* order: of two parent-aware pairs with the same parents and operation,   *)
(* neither at an unchanged rank, the earlier span is paired earlier.       *)
(***************************************************************************)
OrderKept ==
    \A p, q \in paired :
        /\ p.how = "aware" /\ q.how = "aware"
        /\ base[p.base].key = base[q.base].key
        /\ base[p.base].parent = base[q.base].parent
        /\ base[p.base].start # cand[p.cand].start
        /\ base[q.base].start # cand[q.cand].start
        /\ base[p.base].start < base[q.base].start
        => cand[p.cand].start < cand[q.cand].start

(***************************************************************************)
(* A refusal has a reason: two spans of one trace with the same operation  *)
(* and the same start rank.  Traces without such twins are always matched. *)
(***************************************************************************)
Twins(t) == \E x, y \in DOMAIN t : x # y /\ t[x].key = t[y].key /\ t[x].start = t[y].start

AmbiguityNeedsTwins == status = "ambiguous" => Twins(base) \/ Twins(cand)

\* Spans returns, with a result or with a SpanAmbiguityError.
Returns == <>(status \in {"done", "ambiguous"})

(***************************************************************************)
(* docs/trace-matching.md: "Parent-child structure prevents two            *)
(* identically named spans under different parents from cross-pairing."    *)
(* Two pairs of one operation cross when the parents are paired the other  *)
(* way round.                                                              *)
(***************************************************************************)
ParentsPaired(i, j) == \E q \in paired : q.base = base[i].parent /\ q.cand = cand[j].parent

NoCrossPairing ==
    \A p, q \in paired :
        base[p.base].key = base[q.base].key /\ base[p.base].parent # base[q.base].parent =>
            ~(ParentsPaired(p.base, q.cand) /\ ParentsPaired(q.base, p.cand))
=============================================================================
