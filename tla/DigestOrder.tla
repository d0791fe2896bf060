----------------------------- MODULE DigestOrder -----------------------------
(* An order of subtree digests for TLC.  The order of SHA-256 digests means     *)
(* nothing, but it has to be some strict total order on subtrees.               *)
EXTENDS Integers, Sequences

CONSTANTS Root, External

RelationRank(kind) == CASE kind = Root -> 0 [] kind = External -> 1 [] OTHER -> 2

Fields(t) == <<t.label, RelationRank(t.kind), t.start, t.duration, Len(t.children)>>

\* Field by field, then child by child.
RECURSIVE DigestBefore(_, _)
DigestBefore(s, t) ==
    \/ \E n \in 1..5 : Fields(s)[n] < Fields(t)[n] /\ \A m \in 1..(n - 1) : Fields(s)[m] = Fields(t)[m]
    \/ /\ Fields(s) = Fields(t)
       /\ \E n \in DOMAIN s.children :
            /\ DigestBefore(s.children[n], t.children[n])
            /\ \A m \in 1..(n - 1) : s.children[m] = t.children[m]
=============================================================================
