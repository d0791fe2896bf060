----------------------------- MODULE TraceMatch -----------------------------
(***************************************************************************)
(* Trace matching: Traces and matchTraceGroup of internal/match/match.go.  *)
(*                                                                         *)
(* The traces of two snapshots are put into groups by the operations at    *)
(* their roots.  A group with traces on one side only is added or removed  *)
(* as a whole.  A group with traces on both sides is matched: first every  *)
(* structure that occurs exactly once on each side, then, round by round,  *)
(* every pair of traces that are each other's unique best by structural    *)
(* overlap.  A round that pairs nothing while both sides have traces left  *)
(* ends the whole comparison with an AmbiguityError.                       *)
(*                                                                         *)
(* A snapshot is a function from trace names to shapes; the names whose    *)
(* shape is NoSpans are the traces describeTraces drops.  The code visits  *)
(* the groups in the order of their encoded keys; the model leaves that    *)
(* order open, so what holds here holds for every encoding.                *)
(***************************************************************************)
EXTENDS SpanShape

CONSTANTS BaseTrace,  \* names of the baseline's traces
          CandTrace,  \* names of the candidate's traces
          Catalog     \* the shapes the traces of a snapshot are drawn from

ASSUME TraceMatchAssumption ==
    /\ IsFiniteSet(BaseTrace)
    /\ IsFiniteSet(CandTrace)
    /\ Catalog \subseteq Shape

VARIABLES
    baseline, candidate,  \* the two snapshots: trace name -> shape
    todo,                 \* group keys Traces has not reached yet
    left, right,          \* the current group's unused baseline and candidate traces
    paired,               \* TraceResult.Paired
    added, removed,       \* TraceResult.Added and TraceResult.Removed
    status                \* "groups" | "rounds" | "done" | "ambiguous"

vars == <<baseline, candidate, todo, left, right, paired, added, removed, status>>

inputs == <<baseline, candidate>>

-----------------------------------------------------------------------------
(* Descriptors and groups *)

Described(names, snapshot) == {t \in names : snapshot[t] # NoSpans}

GroupOf(names, snapshot, key) ==
    {t \in Described(names, snapshot) : GroupKey(snapshot[t]) = key}

GroupKeys(names, snapshot) ==
    {GroupKey(snapshot[t]) : t \in Described(names, snapshot)}

BaseGroup(key) == GroupOf(BaseTrace, baseline, key)
CandGroup(key) == GroupOf(CandTrace, candidate, key)

\* A pair with the evidence that justified it.
Pair(b, c, how) ==
    [base |-> b, cand |-> c, how |-> how, overlap |-> Overlap(baseline[b], candidate[c])]

-----------------------------------------------------------------------------
(* The two ways a pair is found *)

\* The traces of a group with the given shape (indexesByStructure).
SameStructure(group, snapshot, shape) == {t \in group : snapshot[t] = shape}

\* Mutant: a structure that repeats in the candidate is paired all the same.
ExactPairsRepeated(key) ==
    {p \in BaseGroup(key) \X CandGroup(key) :
        /\ SameStructure(BaseGroup(key), baseline, baseline[p[1]]) = {p[1]}
        /\ candidate[p[2]] = baseline[p[1]]}

\* The pairs of traces whose structure occurs once on each side of the group.
ExactPairs(key) ==
    {p \in BaseGroup(key) \X CandGroup(key) :
        /\ SameStructure(BaseGroup(key), baseline, baseline[p[1]]) = {p[1]}
        /\ SameStructure(CandGroup(key), candidate, baseline[p[1]]) = {p[2]}}

\* Mutant: the search for the maximum starts at a score of 0.
UniquePositiveBest(shape, targets, snapshot) ==
    {t \in targets :
        /\ Overlap(shape, snapshot[t]) > 0
        /\ \A u \in targets \ {t} : Overlap(shape, snapshot[u]) < Overlap(shape, snapshot[t])}

\* The one target that overlaps most with the shape: {} when the maximum is shared.
UniqueBest(shape, targets, snapshot) ==
    {t \in targets :
        \A u \in targets \ {t} : Overlap(shape, snapshot[u]) < Overlap(shape, snapshot[t])}

\* Mutant: the candidate's own best is not asked for.
BaselineBest == {p \in left \X right : p[2] \in UniqueBest(baseline[p[1]], right, candidate)}

\* The pairs one round finds, all from the traces unused when the round began.
MutualBest ==
    {p \in left \X right :
        /\ p[2] \in UniqueBest(baseline[p[1]], right, candidate)
        /\ p[1] \in UniqueBest(candidate[p[2]], left, baseline)}

-----------------------------------------------------------------------------
Init ==
    /\ baseline \in [BaseTrace -> Catalog \cup {NoSpans}]
    /\ candidate \in [CandTrace -> Catalog \cup {NoSpans}]
    /\ todo = GroupKeys(BaseTrace, baseline) \cup GroupKeys(CandTrace, candidate)
    /\ left = {} /\ right = {}
    /\ paired = {} /\ added = {} /\ removed = {}
    /\ status = "groups"

\* A group that exists on one side only is added or removed as a whole.
OneSidedGroup(key) ==
    /\ status = "groups"
    /\ key \in todo
    /\ BaseGroup(key) = {} \/ CandGroup(key) = {}
    /\ todo' = todo \ {key}
    /\ added' = added \cup CandGroup(key)
    /\ removed' = removed \cup BaseGroup(key)
    /\ UNCHANGED <<inputs, left, right, paired, status>>

\* matchTraceGroup starts: unique exact structures are paired and used up.
ExactPass(key) ==
    /\ status = "groups"
    /\ key \in todo
    /\ BaseGroup(key) # {} /\ CandGroup(key) # {}
    /\ todo' = todo \ {key}
    /\ paired' = paired \cup {Pair(p[1], p[2], "exact") : p \in ExactPairs(key)}
    /\ left' = BaseGroup(key) \ {p[1] : p \in ExactPairs(key)}
    /\ right' = CandGroup(key) \ {p[2] : p \in ExactPairs(key)}
    /\ status' = "rounds"
    /\ UNCHANGED <<inputs, added, removed>>

\* Mutant: the pairs of a round are not marked as used.
RoundWithoutUse ==
    /\ status = "rounds"
    /\ left # {} /\ right # {}
    /\ MutualBest # {}
    /\ paired' = paired \cup {Pair(p[1], p[2], "overlap") : p \in MutualBest}
    /\ UNCHANGED <<inputs, todo, left, right, added, removed, status>>

\* One round of the loop makes progress.
OverlapRound ==
    /\ status = "rounds"
    /\ left # {} /\ right # {}
    /\ MutualBest # {}
    /\ paired' = paired \cup {Pair(p[1], p[2], "overlap") : p \in MutualBest}
    /\ left' = left \ {p[1] : p \in MutualBest}
    /\ right' = right \ {p[2] : p \in MutualBest}
    /\ UNCHANGED <<inputs, todo, added, removed, status>>

\* Mutant: the rest is given up without asking whether both sides have traces left.
LeftoversEarly ==
    /\ status = "rounds"
    /\ removed' = removed \cup left
    /\ added' = added \cup right
    /\ left' = {} /\ right' = {}
    /\ status' = "groups"
    /\ UNCHANGED <<inputs, todo, paired>>

\* One side of the group is used up: the rest of the other is added or removed.
Leftovers ==
    /\ status = "rounds"
    /\ left = {} \/ right = {}
    /\ removed' = removed \cup left
    /\ added' = added \cup right
    /\ left' = {} /\ right' = {}
    /\ status' = "groups"
    /\ UNCHANGED <<inputs, todo, paired>>

\* A round without progress: AmbiguityError, and Traces returns an empty result.
Ambiguous ==
    /\ status = "rounds"
    /\ left # {} /\ right # {}
    /\ MutualBest = {}
    /\ paired' = {} /\ added' = {} /\ removed' = {}
    /\ status' = "ambiguous"
    /\ UNCHANGED <<inputs, todo, left, right>>

\* Every group has been visited: Traces returns its result.
Return ==
    /\ status = "groups"
    /\ todo = {}
    /\ status' = "done"
    /\ UNCHANGED <<inputs, todo, left, right, paired, added, removed>>

Next ==
    \/ \E key \in todo : OneSidedGroup(key) \/ ExactPass(key)
    \/ OverlapRound
    \/ Leftovers
    \/ Ambiguous
    \/ Return

Spec == Init /\ [][Next]_vars

\* Traces is one goroutine that never waits: a step it can take, it takes.
FairSpec == Spec /\ WF_vars(Next)
-----------------------------------------------------------------------------
(* Correctness *)

TypeOK ==
    /\ baseline \in [BaseTrace -> Catalog \cup {NoSpans}]
    /\ candidate \in [CandTrace -> Catalog \cup {NoSpans}]
    /\ todo \subseteq GroupKeys(BaseTrace, baseline) \cup GroupKeys(CandTrace, candidate)
    /\ left \subseteq BaseTrace /\ right \subseteq CandTrace
    /\ removed \subseteq BaseTrace /\ added \subseteq CandTrace
    /\ \A p \in paired :
         \E b \in BaseTrace, c \in CandTrace, how \in {"exact", "overlap"} : p = Pair(b, c, how)
    /\ status \in {"groups", "rounds", "done", "ambiguous"}

(***************************************************************************)
(* The contract of TraceVerdict, read off the matcher's state: nothing is  *)
(* visible to the caller before Traces returns.                            *)
(***************************************************************************)
Outcome ==
    IF status \in {"done", "ambiguous"}
    THEN [kind |-> status, paired |-> paired, added |-> added, removed |-> removed]
    ELSE [kind |-> "running", paired |-> {}, added |-> {}, removed |-> {}]

Verdict == INSTANCE TraceVerdict WITH verdict <- Outcome

\* The traces a group not reached yet still holds, and those already in a pair.
WaitingBase == {b \in Described(BaseTrace, baseline) : GroupKey(baseline[b]) \in todo}
WaitingCand == {c \in Described(CandTrace, candidate) : GroupKey(candidate[c]) \in todo}
PairedBase  == {p.base : p \in paired}
PairedCand  == {p.cand : p \in paired}

Partition4(whole, w, x, y, z) ==
    /\ whole = w \cup x \cup y \cup z
    /\ w \cap x = {} /\ w \cap y = {} /\ w \cap z = {}
    /\ x \cap y = {} /\ x \cap z = {} /\ y \cap z = {}

(***************************************************************************)
(* Every described trace is in exactly one place at every moment: waiting  *)
(* in a group not reached, unused in the current group, paired, or left    *)
(* over as removed or added; and pairs are one-to-one between traces with  *)
(* the same root operations.  Traces loses and reuses no trace.            *)
(***************************************************************************)
EachTraceOnce ==
    status # "ambiguous" =>
        /\ Partition4(Described(BaseTrace, baseline), WaitingBase, left, PairedBase, removed)
        /\ Partition4(Described(CandTrace, candidate), WaitingCand, right, PairedCand, added)
        /\ \A p, q \in paired : p.base = q.base <=> p.cand = q.cand
        /\ \A p \in paired : GroupKey(baseline[p.base]) = GroupKey(candidate[p.cand])

(***************************************************************************)
(* The returned pairing is stable: no two traces with the same root        *)
(* operations would both rather be paired with each other than stay as     *)
(* they are.  Greedy rounds over shrinking sets must not lock in a pair    *)
(* that a later round could have beaten.                                   *)
(***************************************************************************)
NoBlockingPair == status = "done" => Verdict!NoBlockingPair(paired)

(***************************************************************************)
(* Traces of one snapshot that only differ in what identity ignores        *)
(* (status, duration, order) are never paired by guesswork, even when the  *)
(* other side has a trace of exactly that structure.                       *)
(***************************************************************************)
RepeatsUnpaired == status = "done" => Verdict!RepeatsUnpaired(paired)

(***************************************************************************)
(* An AmbiguityError has a reason: the snapshots have no stable pairing,   *)
(* and somewhere in the group two traces of one side score the same        *)
(* against a trace of the other.  Snapshots whose scores are all distinct  *)
(* are always matched.                                                     *)
(***************************************************************************)
AmbiguityNeedsTie == status = "ambiguous" => Verdict!RefusalJustified

\* The matcher implements its contract.
ImplementsVerdict == Verdict!Spec

\* Traces returns, with a result or with an AmbiguityError.
Returns == <>(status \in {"done", "ambiguous"})
=============================================================================
