------------------------------ MODULE Pipeline ------------------------------
(***************************************************************************)
(* One comparison from end to end: Compare of pkg/tracedelta, over         *)
(* Snapshot of internal/normalize, Traces and Spans of internal/match, and *)
(* Compare of internal/diff.                                               *)
(*                                                                         *)
(* The matchers and the diff are the modules TraceMatch, SpanMatch and     *)
(* Diff, each on variables of its own here; what one returns is handed to  *)
(* the next.  Ingest and Normalize model what happens to one document and  *)
(* to one trace.  A document is therefore Broken or a sequence of traces,  *)
(* and a trace is Malformed, without spans, or the normalized spans that   *)
(* normalizeTrace makes of it.                                             *)
(***************************************************************************)
EXTENDS Integers, Sequences, FiniteSets, SequencesExt

CONSTANTS Key, Label(_),                   \* span keys, as in Diff
          Semantic,                        \* pairs of a span key and its safe attributes
          Status, ErrorStatus, ErrorType,
          Root, External, NoParent,        \* parents of top-level spans
          MaxTraces, MaxCount,             \* bounds: traces of a snapshot, equal tokens of one
          Broken, Malformed,               \* what Parse and normalizeTrace reject
          Encoding(_),                     \* the place of a trace in the order of encodings
          Requests,                        \* records: baseline, candidate, bucket, keys,
                                           \* relative, absolute
          Percentages, Absolutes, Invalid,
          NoPair                           \* no pair of traces is being matched

NormalizedSpan ==
    [semantic : Semantic, parent : {Root, External} \cup Nat, start : Nat,
     status : Status, error : ErrorType, duration : Nat]

\* What normalizeTrace returns: parents come before their children.
NormalizedTrace(t) ==
    /\ t \in Seq(NormalizedSpan) /\ Len(t) <= MaxCount
    /\ \A i \in DOMAIN t : t[i].parent \in {Root, External} \cup 1..(i - 1)

ASSUME PipelineAssumption ==
    /\ \A k \in Key : Label(k) \in Nat
    /\ IsFiniteSet(Semantic) /\ \A s \in Semantic : s[1] \in Key
    /\ ErrorStatus \in Status
    /\ Root # External /\ Root \notin Nat /\ External \notin Nat /\ NoParent \notin Semantic
    /\ MaxTraces \in Nat \ {0} /\ MaxCount \in Nat
    /\ Percentages \subseteq Nat /\ Absolutes \subseteq Nat
    /\ Invalid \notin Percentages \cup Absolutes
    /\ NoPair \notin [base : 1..MaxTraces, cand : 1..MaxTraces,
                      how : {"exact", "overlap"}, overlap : Nat]

ASSUME RequestAssumption ==
    \A r \in Requests :
        /\ r.bucket \in Int /\ r.keys \in BOOLEAN
        /\ r.relative \in Percentages \cup {Invalid} /\ r.absolute \in Absolutes \cup {Invalid}
        /\ \A document \in {r.baseline, r.candidate} \ {Broken} :
             /\ Len(document) \in 0..MaxTraces /\ DOMAIN document = 1..Len(document)
             /\ \A n \in DOMAIN document :
                  \/ document[n] = Malformed
                  \/ /\ NormalizedTrace(document[n])
                     /\ document[n] # <<>> => Encoding(document[n]) \in Int

\* The traces of a request that are sorted.
Sortable(r) ==
    (UNION {ToSet(document) : document \in {r.baseline, r.candidate} \ {Broken}})
        \ {Malformed, <<>>}

\* A trace is sorted by its JSON, in which nothing of it is left out.
ASSUME EncodingAssumption ==
    \A r \in Requests : \A s, t \in Sortable(r) : Encoding(s) = Encoding(t) => s = t

VARIABLES
    request,       \* the documents and the Options
    at,            \* the call Compare is in, "done" or "failed"
    failure,       \* the call whose error Compare returns
    before, after, \* the normalized snapshots
    \* TraceMatch
    baseline, candidate, todo, left, right,
    pairedTraces, addedTraces, removedTraces, traceStatus,
    \* SpanMatch, for one pair of traces at a time
    rest, current, \* the pairs it has not come to, and the one it works on
    base, cand, pairedSpans, addedSpans, removedSpans, spanStatus,
    found,         \* Result of Spans: places of spans
    \* Diff
    matches, relative, absolute, next, changes, changedSpans, diffStage

snapshots == <<before, after>>
traceVars == <<baseline, candidate, todo, left, right, pairedTraces, addedTraces, removedTraces,
               traceStatus>>
spanVars  == <<base, cand, pairedSpans, addedSpans, removedSpans, spanStatus>>
pairVars  == <<rest, current, found>>
diffVars  == <<matches, relative, absolute, next, changes, changedSpans, diffStage>>
vars == <<request, at, failure, snapshots, traceVars, spanVars, pairVars, diffVars>>

Places == 1..MaxTraces

TraceMatcher == INSTANCE TraceMatch WITH
    Key <- Semantic, BaseTrace <- Places, CandTrace <- Places, Catalog <- {},
    paired <- pairedTraces, added <- addedTraces, removed <- removedTraces, status <- traceStatus

SpanMatcher == INSTANCE SpanMatch WITH
    Traces <- {}, paired <- pairedSpans, added <- addedSpans, removed <- removedSpans,
    status <- spanStatus

Differ == INSTANCE Diff WITH stage <- diffStage

-----------------------------------------------------------------------------
(* Normalization of a snapshot *)

Positions(snapshot) == UNION {{n} \X DOMAIN snapshot[n] : n \in DOMAIN snapshot}

SpanAt(snapshot, p) == snapshot[p[1]][p[2]]

Earlier(p, q) == p[1] < q[1] \/ (p[1] = q[1] /\ p[2] < q[2])

\* Mutant: every trace is numbered by itself.
NumberWithin(snapshot, p) ==
    Cardinality({q \in Positions(snapshot) :
        /\ Earlier(q, p) /\ q[1] = p[1]
        /\ SpanAt(snapshot, q).semantic[1] = SpanAt(snapshot, p).semantic[1]})

\* Occurrence: how many spans with the key come before it in the snapshot.
Occurrence(snapshot, p) ==
    Cardinality({q \in Positions(snapshot) :
        /\ Earlier(q, p)
        /\ SpanAt(snapshot, q).semantic[1] = SpanAt(snapshot, p).semantic[1]})

\* The members of a finite set as a list; the order is a set of pairs.
Listed(set, order) ==
    [n \in 1..Cardinality(set) |->
        CHOOSE x \in set : Cardinality({y \in set : <<y, x>> \in order}) = n - 1]

\* Traces without spans are dropped, the others sorted by their encoding; traces
\* with the same encoding are the same, so the order of these does not matter.
Kept(document) == {n \in DOMAIN document : document[n] # <<>>}

ByEncoding(document) ==
    {p \in Kept(document) \X Kept(document) :
        LET first == Encoding(document[p[1]])
            second == Encoding(document[p[2]])
        IN  first < second \/ (first = second /\ p[1] < p[2])}

Ordered(document) ==
    LET list == Listed(Kept(document), ByEncoding(document))
    IN  [n \in DOMAIN list |-> document[list[n]]]

Numbered(span, occurrence) ==
    [semantic |-> span.semantic, occurrence |-> occurrence, parent |-> span.parent,
     start |-> span.start, status |-> span.status, error |-> span.error,
     duration |-> span.duration]

Snapshot(document) ==
    LET sorted == Ordered(document)
    IN  [n \in DOMAIN sorted |-> [i \in DOMAIN sorted[n] |->
            Numbered(sorted[n][i], Occurrence(sorted, <<n, i>>))]]

-----------------------------------------------------------------------------
(* What the later stages see of a snapshot *)

TokenOf(trace, i) ==
    LET parent == trace[i].parent
    IN  CASE parent = Root -> TraceMatcher!TopToken(trace[i].semantic, "root")
          [] parent = External -> TraceMatcher!TopToken(trace[i].semantic, "external")
          [] OTHER -> TraceMatcher!ChildToken(trace[i].semantic, trace[parent].semantic)

Shapes(snapshot) ==
    [n \in Places |->
        IF n \notin DOMAIN snapshot THEN TraceMatcher!NoSpans
        ELSE [token \in TraceMatcher!Token |->
                Cardinality({i \in DOMAIN snapshot[n] : TokenOf(snapshot[n], i) = token})]]

Structure(trace) ==
    [i \in DOMAIN trace |->
        [key |-> trace[i].semantic, parent |-> trace[i].parent, start |-> trace[i].start]]

Visible(span) ==
    [key |-> span.semantic[1], occurrence |-> span.occurrence, status |-> span.status,
     error |-> span.error, duration |-> span.duration]

-----------------------------------------------------------------------------
Init ==
    /\ request \in Requests
    /\ at = "parse baseline" /\ failure = ""
    /\ before = <<>> /\ after = <<>>
    /\ baseline = <<>> /\ candidate = <<>>
    /\ todo = {} /\ left = {} /\ right = {}
    /\ pairedTraces = {} /\ addedTraces = {} /\ removedTraces = {} /\ traceStatus = "groups"
    /\ rest = {} /\ current = NoPair
    /\ base = <<>> /\ cand = <<>>
    /\ pairedSpans = {} /\ addedSpans = {} /\ removedSpans = {} /\ spanStatus = "done"
    /\ found = [paired |-> {}, added |-> {}, removed |-> {}]
    /\ matches = [paired |-> <<>>, added |-> <<>>, removed |-> <<>>]
    /\ relative = request.relative /\ absolute = request.absolute
    /\ next = 1 /\ changes = <<>> /\ changedSpans = 0 /\ diffStage = "options"

\* The calls before matching, in their order.
Calls == <<"parse baseline", "parse candidate", "redact baseline", "redact candidate",
           "normalize baseline", "normalize candidate", "match traces">>

Unfit(document) == request.bucket < 0 \/ \E n \in DOMAIN document : document[n] = Malformed

Fails(call) ==
    \/ call = "parse baseline" /\ request.baseline = Broken
    \/ call = "parse candidate" /\ request.candidate = Broken
    \/ call \in {"redact baseline", "redact candidate"} /\ ~request.keys
    \/ call = "normalize baseline" /\ Unfit(request.baseline)
    \/ call = "normalize candidate" /\ Unfit(request.candidate)

\* Compare returns Comparison{} and the error of the call it is in.
Fail ==
    /\ at' = "failed"
    /\ failure' = at
    /\ UNCHANGED <<request, snapshots, traceVars, spanVars, pairVars, diffVars>>

CallFails == Fails(at) /\ Fail

\* The first six calls; the last two make the normalized snapshots.
Prepare ==
    /\ \E n \in 1..6 : at = Calls[n] /\ ~Fails(at) /\ at' = Calls[n + 1]
    /\ before' = IF at = "normalize baseline" THEN Snapshot(request.baseline) ELSE before
    /\ after' = IF at = "normalize candidate" THEN Snapshot(request.candidate) ELSE after
    /\ UNCHANGED <<request, failure, traceVars, spanVars, pairVars, diffVars>>

\* Traces starts: the traces are described and grouped.
DescribeTraces ==
    /\ at = "match traces"
    /\ baseline = <<>>
    /\ baseline' = Shapes(before) /\ candidate' = Shapes(after)
    /\ todo' = TraceMatcher!GroupKeys(Places, Shapes(before))
         \cup TraceMatcher!GroupKeys(Places, Shapes(after))
    /\ UNCHANGED <<request, at, failure, snapshots, left, right, pairedTraces, addedTraces,
                   removedTraces, traceStatus, spanVars, pairVars, diffVars>>

MatchTraces ==
    /\ at = "match traces"
    /\ baseline # <<>>
    /\ TraceMatcher!Next
    /\ UNCHANGED <<request, at, failure, snapshots, spanVars, pairVars, diffVars>>

TracesAmbiguous == at = "match traces" /\ traceStatus = "ambiguous" /\ Fail

TracesMatched ==
    /\ at = "match traces"
    /\ traceStatus = "done"
    /\ at' = "match spans"
    /\ rest' = pairedTraces
    /\ UNCHANGED <<request, failure, snapshots, traceVars, spanVars, current, found, diffVars>>

\* pairSpans starts on a pair of traces.  The pairs have nothing in common, and
\* the result is sorted: their order is left open.
PairTraces(p) ==
    /\ at = "match spans"
    /\ current = NoPair
    /\ p \in rest
    /\ rest' = rest \ {p} /\ current' = p
    /\ base' = Structure(before[p.base]) /\ cand' = Structure(after[p.cand])
    /\ pairedSpans' = {} /\ addedSpans' = {} /\ removedSpans' = {} /\ spanStatus' = "aware"
    /\ UNCHANGED <<request, at, failure, snapshots, traceVars, found, diffVars>>

MatchSpans ==
    /\ at = "match spans"
    /\ current # NoPair
    /\ SpanMatcher!Next
    /\ UNCHANGED <<request, at, failure, snapshots, traceVars, pairVars, diffVars>>

SpansAmbiguous == at = "match spans" /\ spanStatus = "ambiguous" /\ Fail

\* pairSpans returns: what it found is appended to the result.
CollectSpans ==
    /\ at = "match spans"
    /\ current # NoPair
    /\ spanStatus = "done"
    /\ found' =
         [paired  |-> found.paired \cup {[base |-> <<current.base, p.base>>,
                                          cand |-> <<current.cand, p.cand>>] : p \in pairedSpans},
          added   |-> found.added \cup ({current.cand} \X addedSpans),
          removed |-> found.removed \cup ({current.base} \X removedSpans)]
    /\ current' = NoPair
    /\ UNCHANGED <<request, at, failure, snapshots, traceVars, spanVars, rest, diffVars>>

SpansOf(snapshot, traces) == {p \in Positions(snapshot) : p[1] \in traces}

\* Mutant: the spans of traces without a counterpart are left out.
UnmatchedPairsOnly == found

\* The result with the spans of the traces that have no counterpart.
WithUnmatched ==
    [found EXCEPT !.added = @ \cup SpansOf(after, addedTraces),
                  !.removed = @ \cup SpansOf(before, removedTraces)]

\* The result is sorted by the encodings of the spans.  Occurrence makes them all
\* different, so a list is a function of the set; here in the order of places.
ByPlace(places) == {r \in places \X places : Earlier(r[1], r[2])}
ByBase(pairs) == {r \in pairs \X pairs : Earlier(r[1].base, r[2].base)}

ListOf(places, snapshot) ==
    LET list == Listed(places, ByPlace(places))
    IN  [n \in DOMAIN list |-> Visible(SpanAt(snapshot, list[n]))]

ListOfPairs(pairs) ==
    LET list == Listed(pairs, ByBase(pairs))
    IN  [n \in DOMAIN list |-> [base |-> Visible(SpanAt(before, list[n].base)),
                                cand |-> Visible(SpanAt(after, list[n].cand))]]

SpansMatched ==
    /\ at = "match spans"
    /\ current = NoPair /\ rest = {}
    /\ at' = "compare traces"
    /\ found' = WithUnmatched
    /\ matches' = [paired  |-> ListOfPairs(WithUnmatched.paired),
                   added   |-> ListOf(WithUnmatched.added, after),
                   removed |-> ListOf(WithUnmatched.removed, before)]
    /\ UNCHANGED <<request, failure, snapshots, traceVars, spanVars, rest, current,
                   relative, absolute, next, changes, changedSpans, diffStage>>

CompareMatches ==
    /\ at = "compare traces"
    /\ Differ!Next
    /\ UNCHANGED <<request, at, failure, snapshots, traceVars, spanVars, pairVars>>

OptionsRejected == at = "compare traces" /\ diffStage = "rejected" /\ Fail

Return ==
    /\ at = "compare traces"
    /\ diffStage = "done"
    /\ at' = "done"
    /\ UNCHANGED <<request, failure, snapshots, traceVars, spanVars, pairVars, diffVars>>

Next ==
    \/ CallFails \/ Prepare
    \/ DescribeTraces \/ MatchTraces \/ TracesAmbiguous \/ TracesMatched
    \/ \E p \in rest : PairTraces(p)
    \/ MatchSpans \/ SpansAmbiguous \/ CollectSpans \/ SpansMatched
    \/ CompareMatches \/ OptionsRejected \/ Return

Spec == Init /\ [][Next]_vars

-----------------------------------------------------------------------------
(* Correctness *)

(***************************************************************************)
(* The contract of Comparison, read off the state of Compare: its caller   *)
(* sees nothing before it returns.                                         *)
(***************************************************************************)
Outcome ==
    [kind    |-> CASE at = "done" -> "compared" [] at = "failed" -> "refused" [] OTHER -> "pending",
     call    |-> failure,
     pairs   |-> IF at = "done" THEN found.paired ELSE {},
     changes |-> IF at = "done" THEN changes ELSE <<>>,
     changed |-> IF at = "done" THEN changedSpans ELSE 0]

Slower(b, c, percentage, least) == Differ!Slower(b, c, percentage, least)

Contract == INSTANCE Comparison WITH outcome <- Outcome

\* Compare answers as promised: it refuses by the first call that has a reason, or
\* reports exactly what differs under a pairing that mistakes no span for another.
ImplementsComparison == Contract!Spec

\* Of Diff, here for the results that matching produces.
FindingsExact == Differ!FindingsExact
OrderDetermined == Differ!OrderDetermined
CountsAgree == Differ!CountsAgree

(***************************************************************************)
(* No span is lost or told of twice between the stages: every span of the  *)
(* two normalized snapshots is in one pair, or removed, or added; the      *)
(* indexes of one pair of traces never reach the spans of another.         *)
(***************************************************************************)
SpansAccounted ==
    at = "done" =>
        /\ \A p, q \in found.paired : p.base = q.base <=> p.cand = q.cand
        /\ \A p \in found.paired : SpanAt(before, p.base).semantic = SpanAt(after, p.cand).semantic
        /\ found.removed = Positions(before) \ {p.base : p \in found.paired}
        /\ found.added = Positions(after) \ {p.cand : p \in found.paired}

(***************************************************************************)
(* A change names one span: its key and its occurrence are those of        *)
(* exactly one span of the snapshot it is about (the candidate for an      *)
(* added span, else the baseline), in whichever traces the key occurs, and *)
(* no change is reported twice.                                            *)
(***************************************************************************)
ChangesNameSpans ==
    at = "done" =>
        \A n \in DOMAIN changes :
            LET snapshot == IF changes[n].kind = "added" THEN after ELSE before
            IN  /\ Cardinality({p \in Positions(snapshot) :
                         /\ SpanAt(snapshot, p).semantic[1] = changes[n].key
                         /\ SpanAt(snapshot, p).occurrence = changes[n].occurrence}) = 1
                /\ \A m \in DOMAIN changes : changes[m] = changes[n] => m = n

\* The documents have the same traces, each as often, in any order.
SameTraces ==
    /\ Broken \notin {request.baseline, request.candidate}
    /\ \A t \in ToSet(request.baseline) \cup ToSet(request.candidate) :
         t # <<>> => Cardinality({n \in DOMAIN request.baseline : request.baseline[n] = t})
                       = Cardinality({n \in DOMAIN request.candidate : request.candidate[n] = t})

RepeatedShape ==
    \E m, n \in DOMAIN before : m # n /\ baseline[m] = baseline[n]

SiblingTwins ==
    \E p, q \in Positions(before) :
        /\ p # q /\ p[1] = q[1]
        /\ SpanAt(before, p).semantic = SpanAt(before, q).semantic
        /\ SpanAt(before, p).start = SpanAt(before, q).start

(***************************************************************************)
(* A comparison of the same behaviour reports nothing, whatever the order  *)
(* of the traces and the thresholds, zero included; and matching refuses   *)
(* it only when two traces have one shape or two spans of a trace cannot   *)
(* be told apart.                                                          *)
(***************************************************************************)
SameBehaviourSilent ==
    SameTraces =>
        /\ at = "done" => changes = <<>>
        /\ failure = "match traces" => RepeatedShape
        /\ failure = "match spans" => SiblingTwins
=============================================================================
