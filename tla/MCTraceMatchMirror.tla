------------------------- MODULE MCTraceMatchMirror -------------------------
(* TraceMatchMirror on shapes of two groups, one with a chain of overlaps. *)
EXTENDS TraceMatchMirror, TLC

CONSTANTS k1, k2

Bag(tokens) == [t \in Token |-> Cardinality({i \in DOMAIN tokens : tokens[i] = t})]

MCCatalog ==
    { Bag(<<TopToken(k1, "root")>>),
      Bag(<<TopToken(k1, "external")>>),
      Bag(<<TopToken(k1, "root"), ChildToken(k2, k1)>>),
      Bag(<<TopToken(k1, "root"), ChildToken(k2, k1), ChildToken(k2, k1)>>),
      Bag(<<TopToken(k2, "root"), ChildToken(k1, k2)>>) }

ASSUME CatalogRealizable == \A s \in MCCatalog : s # NoSpans /\ Realizable(s)

Symmetry == Permutations(Trace1) \cup Permutations(Trace2)
=============================================================================
