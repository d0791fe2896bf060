----------------------------- MODULE MCNormalize -----------------------------
(* Normalize on every trace of up to three spans, well-formed or not. *)
EXTENDS Normalize

INSTANCE DigestOrder

CONSTANTS a, b, c,   \* identifiers of spans in the trace
          outside    \* the identifier of a span that was not exported

Span(ids, parents, starts, labels, durations) ==
    [id : ids, parent : parents, start : starts, label : labels, duration : durations, error : Error]

\* One or two spans in which anything may be wrong.
AnySpan == Span({NoId, a, b}, {NoId, a, b, outside}, {5, 9}, {1}, {-1, 7})
Malformable == {<<>>} \cup {<<s>> : s \in AnySpan} \cup {<<s, t>> : s, t \in AnySpan}

\* Three spans with good identifiers and durations, any relations, and two
\* labels or three clock values.
Anywhere == {NoId, a, b, c, outside}
Labels ==
    {<<r, s, t>> : r \in Span({a}, Anywhere, {5, 9}, Label, {7}),
                   s \in Span({b}, Anywhere, {5, 9}, Label, {7}),
                   t \in Span({c}, Anywhere, {5, 9}, Label, {7})}
Clocks ==
    {<<r, s, t>> : r \in Span({a}, Anywhere, {5, 6, 9}, {1}, {7}),
                   s \in Span({b}, Anywhere, {5, 6, 9}, {1}, {7}),
                   t \in Span({c}, Anywhere, {5, 6, 9}, {1}, {7})}

MCInputs == Malformable \cup Labels \cup Clocks
=============================================================================
