---------------------------- MODULE MCTraceMatch ----------------------------
(* TraceMatch on a small catalog of trace shapes. *)
EXTENDS TraceMatch, TLC

CONSTANTS k1, k2

\* A shape with the tokens of a sequence, each as often as it occurs in it.
Bag(tokens) == [t \in Token |-> Cardinality({i \in DOMAIN tokens : tokens[i] = t})]

MCCatalog ==
    { Bag(<<TopToken(k1, "root")>>),
      Bag(<<TopToken(k1, "external")>>),
      Bag(<<TopToken(k1, "root"), ChildToken(k2, k1)>>),
      Bag(<<TopToken(k1, "root"), ChildToken(k2, k1), ChildToken(k2, k1)>>),
      Bag(<<TopToken(k2, "root"), ChildToken(k1, k2)>>) }

ASSUME CatalogRealizable == \A s \in MCCatalog : s # NoSpans /\ Realizable(s)
=============================================================================
