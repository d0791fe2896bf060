--------------------------- MODULE NormalizeTwice ---------------------------
(***************************************************************************)
(* One trace normalized twice, from two exports that differ in everything  *)
(* a second run of the traced program changes: generated identifiers,      *)
(* absolute clocks, and the order of the spans in the document.  Each      *)
(* normalization is a run of Normalize of its own.                         *)
(***************************************************************************)
EXTENDS Integers, Sequences, FiniteSets, TLC

CONSTANTS Id, NoId, Root, External, Label, Error, Bucket, Inputs,
          Before(_, _),
          Renamed,     \* the other run's identifiers: a permutation of Id
          Later(_)     \* the other run's clock: a strictly increasing function

VARIABLES spans1, stage1, link1, mark1, stack1, result1,
          spans2, stage2, link2, mark2, stack2, result2

run1 == <<spans1, stage1, link1, mark1, stack1, result1>>
run2 == <<spans2, stage2, link2, mark2, stack2, result2>>
vars == <<run1, run2>>

One == INSTANCE Normalize WITH
    spans <- spans1, stage <- stage1, link <- link1, mark <- mark1, stack <- stack1,
    result <- result1

Two == INSTANCE Normalize WITH
    spans <- spans2, stage <- stage2, link <- link2, mark <- mark2, stack <- stack2,
    result <- result2

\* The same spans in the order given by a permutation, under other identifiers
\* and clocks.
OtherId(id) == IF id = NoId THEN NoId ELSE Renamed[id]

OtherExport(trace, order) ==
    [n \in DOMAIN trace |->
        [trace[order[n]] EXCEPT !.id = OtherId(@), !.parent = OtherId(@), !.start = Later(@)]]

Started(stage, link, mark, stack, result, n) ==
    /\ stage = "index"
    /\ link = [i \in 1..n |-> Root]
    /\ mark = [i \in 1..n |-> "unvisited"]
    /\ stack = <<>>
    /\ result = <<>>

Init ==
    /\ One!Init
    /\ \E order \in Permutations(DOMAIN spans1) : spans2 = OtherExport(spans1, order)
    /\ Started(stage2, link2, mark2, stack2, result2, Len(spans1))

\* The second normalization starts when the first has returned.
Next ==
    \/ One!Next /\ UNCHANGED run2
    \/ stage1 \in {"done", "rejected"} /\ Two!Next /\ UNCHANGED run1

Spec == Init /\ [][Next]_vars

(***************************************************************************)
(* docs/architecture.md: siblings are ordered "by canonical structural     *)
(* encodings rather than JSON array order", and docs/product-spec.md:      *)
(* identifiers, clocks and input order do not make equal behaviour compare *)
(* differently.  Both exports are normalized to the same trace, or both    *)
(* are rejected.  This holds of spans with one error type: no digest reads *)
(* it, so siblings that differ in nothing else stay in the input's order.  *)
(***************************************************************************)
Canonical ==
    {stage1, stage2} \subseteq {"done", "rejected"} => stage1 = stage2 /\ result1 = result2
=============================================================================
