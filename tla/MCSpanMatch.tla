----------------------------- MODULE MCSpanMatch -----------------------------
(* SpanMatch on every small normalized trace over two operations. *)
EXTENDS SpanMatch, TLC

CONSTANTS k1, k2,     \* the operations
          MaxSpans    \* bound: most spans of a trace

\* The i-th span of a trace whose top-level spans have a parent in tops.  Matched
\* traces have the same root operation, so the first span's is fixed.
Span(i, tops) ==
    [key : IF i = 1 THEN {k1} ELSE {k1, k2}, parent : tops \cup 1..(i - 1), start : 0..(MaxSpans - 1)]

\* Start ranks are dense, and siblings are listed by start rank (lessNode).
Dense(t) == \E n \in 0..(MaxSpans - 1) : {t[i].start : i \in DOMAIN t} = 0..n
SiblingsOrdered(t) ==
    \A i, j \in DOMAIN t : i < j /\ t[i].parent = t[j].parent => t[i].start <= t[j].start

Listed(t) == Dense(t) /\ SiblingsOrdered(t)

Anywhere == {Root, External}
One == {t \in {<<a>> : a \in Span(1, Anywhere)} : Listed(t)}
Two == {t \in {<<a, b>> : a \in Span(1, Anywhere), b \in Span(2, Anywhere)} : Listed(t)}
Three ==
    {t \in {<<a, b, c>> : a \in Span(1, {Root}), b \in Span(2, {Root}), c \in Span(3, {Root})} :
        Listed(t)}

\* A root with three calls one after the other: room for two siblings of one
\* operation to both change their start rank.
Four ==
    {t \in {<<[key |-> k1, parent |-> Root, start |-> n],
              [key |-> k[1], parent |-> 1, start |-> s[1]],
              [key |-> k[2], parent |-> 1, start |-> s[2]],
              [key |-> k[3], parent |-> 1, start |-> s[3]]>> :
                n \in {0, 3}, k \in [1..3 -> {k1, k2}], s \in [1..3 -> 0..3]} :
        Listed(t) /\ Cardinality({t[i].start : i \in 1..4}) = 4}

MCTraces == One \cup Two \cup Three \cup Four

\* Two branches with a call each, before and after the trace lost its caller;
\* the calls run in the other order afterwards.
Branches(top, first, second) ==
    << [key |-> k1, parent |-> top, start |-> 0],
       [key |-> k2, parent |-> 1, start |-> first],
       [key |-> k1, parent |-> top, start |-> 1],
       [key |-> k2, parent |-> 3, start |-> second] >>

MovedBranches == {Branches(External, 2, 3), Branches(Root, 3, 2)}
=============================================================================
