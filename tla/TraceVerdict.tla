---------------------------- MODULE TraceVerdict ----------------------------
(***************************************************************************)
(* What trace matching promises, without saying how it is computed: one    *)
(* step from the two snapshots to a verdict.  The verdict is the only      *)
(* stable pairing of the snapshots, with the traces it leaves out, or a    *)
(* refusal when there is no such pairing; so it is a function of the two   *)
(* snapshots.  The parts of it are the contract that the comment of Traces *)
(* (internal/match/match.go) and docs/trace-matching.md state; TraceMatch  *)
(* is shown to implement it.                                               *)
(***************************************************************************)
EXTENDS Naturals

CONSTANTS BaseTrace, CandTrace,  \* names of the traces of the two snapshots
          Catalog, NoSpans,      \* the shapes of traces, and that of a dropped one
          GroupKey(_),           \* the root operations of a shape
          Overlap(_, _)          \* how much two shapes have in common

VARIABLES baseline, candidate,  \* the snapshots: trace name -> shape
          verdict               \* [kind, paired, added, removed]

vars == <<baseline, candidate, verdict>>

Undecided == [kind |-> "running", paired |-> {}, added |-> {}, removed |-> {}]
Refusal   == [kind |-> "ambiguous", paired |-> {}, added |-> {}, removed |-> {}]

Bases == {b \in BaseTrace : baseline[b] # NoSpans}
Cands == {c \in CandTrace : candidate[c] # NoSpans}

Score(b, c) == Overlap(baseline[b], candidate[c])

Comparable(b, c) == GroupKey(baseline[b]) = GroupKey(candidate[c])

\* A pair with its evidence: the same structure, or how much they have in common.
Match(b, c) ==
    [base |-> b, cand |-> c, overlap |-> Score(b, c),
     how |-> IF baseline[b] = candidate[c] THEN "exact" ELSE "overlap"]

Matches == {Match(p[1], p[2]) : p \in {q \in Bases \X Cands : Comparable(q[1], q[2])}}

-----------------------------------------------------------------------------
(* What makes a set of pairs a good one *)

OneToOne(pairs) == \A p, q \in pairs : p.base = q.base <=> p.cand = q.cand

\* Trace b (trace c) would rather be paired with c (with b): it is unpaired, or
\* its own pair scores lower, or scores no better on overlap alone.
Tempted(score, p) == score > p.overlap \/ (score = p.overlap /\ p.how = "overlap")

BaseTempted(pairs, b, c) == \A p \in pairs : p.base = b => Tempted(Score(b, c), p)
CandTempted(pairs, b, c) == \A p \in pairs : p.cand = c => Tempted(Score(b, c), p)

(***************************************************************************)
(* The pairing is stable: no two comparable traces that were not paired    *)
(* with each other would both rather have been.  In particular a removed   *)
(* and an added trace never have the same root operations.                 *)
(***************************************************************************)
NoBlockingPair(pairs) ==
    \A b \in Bases, c \in Cands :
        /\ Comparable(b, c)
        /\ BaseTempted(pairs, b, c)
        /\ CandTempted(pairs, b, c)
        => \E p \in pairs : p.base = b /\ p.cand = c

(***************************************************************************)
(* Of two traces of one snapshot that the matcher cannot tell apart,       *)
(* neither is ever paired: pairing one would be a guess.                   *)
(***************************************************************************)
RepeatsUnpaired(pairs) ==
    \A p \in pairs :
        /\ \A b \in BaseTrace \ {p.base} : baseline[b] # baseline[p.base]
        /\ \A c \in CandTrace \ {p.cand} : candidate[c] # candidate[p.cand]

StablePairing(pairs) ==
    OneToOne(pairs) /\ RepeatsUnpaired(pairs) /\ NoBlockingPair(pairs)

(***************************************************************************)
(* The two snapshots can be compared without a tie: no trace scores the    *)
(* same against two comparable traces of the other side.                   *)
(***************************************************************************)
TieFree ==
    /\ \A b \in Bases, c, d \in Cands :
         c # d /\ Comparable(b, c) /\ Comparable(b, d) => Score(b, c) # Score(b, d)
    /\ \A c \in Cands, b, d \in Bases :
         b # d /\ Comparable(b, c) /\ Comparable(d, c) => Score(b, c) # Score(d, c)

-----------------------------------------------------------------------------
(* The verdict *)

(***************************************************************************)
(* It accounts for every trace exactly once: a trace is in a pair, removed *)
(* (baseline) or added (candidate), never two of these.                    *)
(***************************************************************************)
Accounted ==
    /\ verdict.paired \subseteq Matches
    /\ verdict.removed = Bases \ {p.base : p \in verdict.paired}
    /\ verdict.added = Cands \ {p.cand : p \in verdict.paired}

(***************************************************************************)
(* The pairs are the only stable pairing there is, so the snapshots alone  *)
(* decide them, and traces are refused only when there is none.            *)
(***************************************************************************)
Pairing ==
    verdict.kind = "done" =>
        /\ Accounted
        /\ StablePairing(verdict.paired)
        /\ \A pairs \in SUBSET Matches : StablePairing(pairs) => pairs = verdict.paired

RefusalJustified ==
    verdict.kind = "ambiguous" =>
        /\ verdict = Refusal
        /\ ~TieFree
        /\ \A pairs \in SUBSET Matches : ~StablePairing(pairs)

-----------------------------------------------------------------------------
Init ==
    /\ baseline \in [BaseTrace -> Catalog \cup {NoSpans}]
    /\ candidate \in [CandTrace -> Catalog \cup {NoSpans}]
    /\ verdict = Undecided

Decide ==
    /\ verdict = Undecided
    /\ verdict'.kind \in {"done", "ambiguous"}
    /\ Pairing'
    /\ RefusalJustified'
    /\ UNCHANGED <<baseline, candidate>>

Spec == Init /\ [][Decide]_vars
=============================================================================
