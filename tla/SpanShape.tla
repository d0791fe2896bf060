----------------------------- MODULE SpanShape -----------------------------
(***************************************************************************)
(* What the trace matcher looks at in a normalized trace.                  *)
(*                                                                         *)
(* internal/match/match.go reduces a trace to a bag of span-shape tokens   *)
(* (traceShape).  A token is a span's semantic key together with its       *)
(* relation to its parent: a root, a child of a span outside the trace, or *)
(* a child of a span with a given semantic key.  A Key here stands for the *)
(* code's pair of a SpanKey (service, name, kind) and the canonical safe   *)
(* attributes, which the matcher always compares together.  Status,        *)
(* duration, raw identifiers and clocks are not in a token.                *)
(***************************************************************************)
EXTENDS Naturals, FiniteSets

CONSTANTS Key,       \* semantic span keys: (SpanKey, encoded attributes)
          NoParent,  \* the parent key of a span whose parent is not in the trace
          MaxCount   \* bound: most spans of one token in a trace

ASSUME SpanShapeAssumption ==
    /\ IsFiniteSet(Key)
    /\ NoParent \notin Key
    /\ MaxCount \in Nat

\* A span without a parent in the trace, as a token.
TopToken(key, kind) == [key |-> key, kind |-> kind, parent |-> NoParent]

\* A span whose parent is a span of the same trace, as a token.
ChildToken(key, parent) == [key |-> key, kind |-> "span", parent |-> parent]

Token ==
    {TopToken(p[1], p[2]) : p \in Key \X {"root", "external"}}
        \cup {ChildToken(p[1], p[2]) : p \in Key \X Key}

\* The bags of tokens; the bag of a trace without spans is NoSpans.
Shape == [Token -> 0..MaxCount]

NoSpans == [t \in Token |-> 0]

(***************************************************************************)
(* The bag written out as a set: the i-th copy of token t is <<t, i>>.     *)
(* The common part of two bags is then a plain intersection, and the sum   *)
(* of minima that structuralOverlap computes is its cardinality.           *)
(***************************************************************************)
Copies(shape) == {p \in Token \X (1..MaxCount) : p[2] <= shape[p[1]]}

Overlap(left, right) == Cardinality(Copies(left) \cap Copies(right))

(***************************************************************************)
(* The key of the group a trace is compared within: the bag of its root    *)
(* spans' keys or, for a partial export without a root, the bag of its     *)
(* external-parent spans' keys.  Which of the two it was is not part of    *)
(* the key (traceRoots drops the parent kind).                             *)
(***************************************************************************)
TopKeys(shape, kind) == [k \in Key |-> shape[TopToken(k, kind)]]

HasRoot(shape) == \E k \in Key : shape[TopToken(k, "root")] > 0

GroupKey(shape) ==
    IF HasRoot(shape) THEN TopKeys(shape, "root") ELSE TopKeys(shape, "external")

(***************************************************************************)
(* The shapes a normalized trace can have.  Every parent chain of a trace  *)
(* ends in a root or an external-parent span (normalize.go rejects         *)
(* cycles), so every key that occurs hangs below a top-level key.          *)
(* Below(shape, n): the keys reached from the top in at most n links.      *)
(***************************************************************************)
Below(shape) ==
    LET top == {k \in Key : \E kind \in {"root", "external"} : shape[TopToken(k, kind)] > 0}
        reach[n \in 0..Cardinality(Key)] ==
            IF n = 0
            THEN top
            ELSE reach[n - 1] \cup
                 {k \in Key : \E p \in reach[n - 1] : shape[ChildToken(k, p)] > 0}
    IN  reach[Cardinality(Key)]

Realizable(shape) ==
    \A k, p \in Key : shape[ChildToken(k, p)] > 0 => p \in Below(shape)
=============================================================================
