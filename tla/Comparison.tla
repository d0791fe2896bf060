----------------------------- MODULE Comparison -----------------------------
(***************************************************************************)
(* What Compare of pkg/tracedelta promises its caller, without saying how  *)
(* it is computed: one step from two documents and Options to an answer.   *)
(* The answer is a refusal by the first call that has a reason to refuse,  *)
(* or the changes between the two normalized snapshots under a pairing of  *)
(* their spans that never guesses.  Pipeline is shown to implement it.     *)
(***************************************************************************)
EXTENDS Naturals, Sequences, FiniteSets

CONSTANTS Broken, Malformed,      \* documents and traces that are no valid input
          Invalid,                \* a threshold that is none
          Semantic, Root, External, ErrorStatus,
          Label(_),               \* the place of a span key in byte order
          Snapshot(_),            \* the normalized traces of a document
          Slower(_, _, _, _)      \* durations that differ by both thresholds

VARIABLES request,  \* [baseline, candidate, bucket, keys, relative, absolute]
          outcome   \* [kind, call, pairs, changes, changed]

vars == <<request, outcome>>

Pending == [kind |-> "pending", call |-> "", pairs |-> {}, changes |-> <<>>, changed |-> 0]
Refusal(call) ==
    [kind |-> "refused", call |-> call, pairs |-> {}, changes |-> <<>>, changed |-> 0]

Spans(traces) == UNION {{n} \X DOMAIN traces[n] : n \in DOMAIN traces}
Span(traces, p) == traces[p[1]][p[2]]

-----------------------------------------------------------------------------
(* Reasons to refuse *)

\* How many spans of each operation a trace starts with.
Tops(trace, kind) ==
    [s \in Semantic |-> Cardinality({i \in DOMAIN trace : trace[i].parent = kind
                                                          /\ trace[i].semantic = s})]

Operations(trace) ==
    IF \E i \in DOMAIN trace : trace[i].parent = Root
    THEN Tops(trace, Root) ELSE Tops(trace, External)

\* Two traces that a trace of the other snapshot may both be compared with.
Rivals(traces, others) ==
    \E n \in DOMAIN traces, k, m \in DOMAIN others :
        /\ k # m
        /\ Operations(others[k]) = Operations(traces[n])
        /\ Operations(others[m]) = Operations(traces[n])

\* Two spans of a trace that nothing tells apart.
Twins(traces) ==
    \E p, q \in Spans(traces) :
        /\ p # q /\ p[1] = q[1]
        /\ Span(traces, p).semantic = Span(traces, q).semantic
        /\ Span(traces, p).start = Span(traces, q).start

Unfit(document) == request.bucket < 0 \/ \E n \in DOMAIN document : document[n] = Malformed

\* The calls of Compare in their order.
Calls == <<"parse baseline", "parse candidate", "redact baseline", "redact candidate",
           "normalize baseline", "normalize candidate", "match traces", "match spans",
           "compare traces">>

\* Matching may find an answer in spite of rivals and twins.
Matching == {"match traces", "match spans"}

Reason(call) ==
    CASE call = "parse baseline" -> request.baseline = Broken
      [] call = "parse candidate" -> request.candidate = Broken
      [] call \in {"redact baseline", "redact candidate"} -> ~request.keys
      [] call = "normalize baseline" -> Unfit(request.baseline)
      [] call = "normalize candidate" -> Unfit(request.candidate)
      [] call = "match traces" ->
            LET first == Snapshot(request.baseline)
                second == Snapshot(request.candidate)
            IN  Rivals(first, second) \/ Rivals(second, first)
      [] call = "match spans" ->
            Twins(Snapshot(request.baseline)) \/ Twins(Snapshot(request.candidate))
      [] call = "compare traces" -> Invalid \in {request.relative, request.absolute}

-----------------------------------------------------------------------------
(* The pairing *)

Removed(first, pairs) == Spans(first) \ {p.base : p \in pairs}
Added(second, pairs) == Spans(second) \ {p.cand : p \in pairs}

\* Traces are paired one-to-one, and so are their spans, within one operation.
OneToOne(first, second, pairs) ==
    /\ pairs \subseteq [base : Spans(first), cand : Spans(second)]
    /\ \A p, q \in pairs :
         /\ p.base = q.base <=> p.cand = q.cand
         /\ p.base[1] = q.base[1] <=> p.cand[1] = q.cand[1]
    /\ \A p \in pairs : Span(first, p.base).semantic = Span(second, p.cand).semantic

\* What is both removed and added has not just moved: between two traces that are
\* paired no operation is both, and of two traces that start with the same
\* operations one is paired.
NothingReplaced(first, second, pairs) ==
    \A r \in Removed(first, pairs), a \in Added(second, pairs) :
        /\ (\E p \in pairs : p.base[1] = r[1] /\ p.cand[1] = a[1])
             => Span(first, r).semantic # Span(second, a).semantic
        /\ Operations(first[r[1]]) = Operations(second[a[1]])
             => \E p \in pairs : p.base[1] = r[1] \/ p.cand[1] = a[1]

-----------------------------------------------------------------------------
(* The changes *)

Change(kind, field, span) ==
    [kind |-> kind, field |-> field, key |-> span.semantic[1], occurrence |-> span.occurrence]

Differs(field, b, c) ==
    CASE field = "status" -> b.status # c.status
      [] field = "error.type" ->
            b.status = ErrorStatus /\ c.status = ErrorStatus /\ b.error # c.error
      [] field = "duration" ->
            Slower(b.duration, c.duration, request.relative, request.absolute)

Differences(first, second, p) ==
    {field \in {"status", "error.type", "duration"} :
        Differs(field, Span(first, p.base), Span(second, p.cand))}

Findings(first, second, pairs) ==
    {Change("added", "", Span(second, a)) : a \in Added(second, pairs)}
        \cup {Change("removed", "", Span(first, r)) : r \in Removed(first, pairs)}
        \cup UNION {{Change("changed", field, Span(first, p.base)) :
                        field \in Differences(first, second, p)} : p \in pairs}

\* The order of the report: kind, service and name, occurrence, field.
Rank(c) ==
    <<CASE c.kind = "added" -> 0 [] c.kind = "removed" -> 1 [] c.kind = "changed" -> 2,
      Label(c.key), c.occurrence,
      CASE c.field = "status" -> 0 [] c.field = "error.type" -> 1 [] OTHER -> 2>>

Less(c, d) ==
    \E n \in 1..4 : Rank(c)[n] < Rank(d)[n] /\ \A k \in 1..(n - 1) : Rank(c)[k] = Rank(d)[k]

\* Every finding is reported, once, in order, and the spans of a pair that have
\* changed are counted.
Reported(first, second, answer) ==
    /\ {answer.changes[n] : n \in DOMAIN answer.changes}
         = Findings(first, second, answer.pairs)
    /\ \A m, n \in DOMAIN answer.changes : m < n =>
         /\ answer.changes[m] # answer.changes[n]
         /\ ~Less(answer.changes[n], answer.changes[m])
    /\ answer.changed = Cardinality({p \in answer.pairs : Differences(first, second, p) # {}})

-----------------------------------------------------------------------------
\* The caller may pass any request.
Init == outcome = Pending

Refuse ==
    /\ outcome = Pending
    /\ \E n \in DOMAIN Calls :
         /\ \A m \in 1..(n - 1) : Calls[m] \notin Matching => ~Reason(Calls[m])
         /\ Reason(Calls[n])
         /\ outcome' = Refusal(Calls[n])
    /\ UNCHANGED request

Report ==
    /\ outcome = Pending
    /\ \A n \in DOMAIN Calls : Calls[n] \notin Matching => ~Reason(Calls[n])
    /\ outcome'.kind = "compared"
    /\ LET first == Snapshot(request.baseline)
           second == Snapshot(request.candidate)
       IN  /\ OneToOne(first, second, outcome'.pairs)
           /\ NothingReplaced(first, second, outcome'.pairs)
           /\ Reported(first, second, outcome')
    /\ UNCHANGED request

Next == Refuse \/ Report

Spec == Init /\ [][Next]_vars
=============================================================================
