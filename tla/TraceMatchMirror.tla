-------------------------- MODULE TraceMatchMirror --------------------------
(***************************************************************************)
(* Two comparisons of the same two snapshots, the second with the roles of *)
(* baseline and candidate exchanged.  Each is a run of TraceMatch of its   *)
(* own, and the groups of each are visited in any order, so a property of  *)
(* both results together says what the result is a function of.            *)
(***************************************************************************)
EXTENDS SpanShape

CONSTANTS Trace1, Trace2,  \* the traces of the first and of the second snapshot
          Catalog

ASSUME TraceMatchMirrorAssumption ==
    IsFiniteSet(Trace1) /\ IsFiniteSet(Trace2) /\ Catalog \subseteq Shape

VARIABLES first, second,                              \* the two snapshots
          todoF, leftF, rightF, pairedF, addedF, removedF, statusF,
          todoR, leftR, rightR, pairedR, addedR, removedR, statusR

forward == <<todoF, leftF, rightF, pairedF, addedF, removedF, statusF>>
reverse == <<todoR, leftR, rightR, pairedR, addedR, removedR, statusR>>
vars == <<first, second, forward, reverse>>

Forward == INSTANCE TraceMatch WITH
    BaseTrace <- Trace1, CandTrace <- Trace2, baseline <- first, candidate <- second,
    todo <- todoF, left <- leftF, right <- rightF, paired <- pairedF,
    added <- addedF, removed <- removedF, status <- statusF

Reverse == INSTANCE TraceMatch WITH
    BaseTrace <- Trace2, CandTrace <- Trace1, baseline <- second, candidate <- first,
    todo <- todoR, left <- leftR, right <- rightR, paired <- pairedR,
    added <- addedR, removed <- removedR, status <- statusR

Init == Forward!Init /\ Reverse!Init

\* The second comparison starts when the first has returned.
Next ==
    \/ Forward!Next /\ UNCHANGED reverse
    \/ statusF \in {"done", "ambiguous"} /\ Reverse!Next /\ UNCHANGED forward

Spec == Init /\ [][Next]_vars

(***************************************************************************)
(* Exchanging baseline and candidate mirrors the result: the same pairs    *)
(* with the same evidence, added and removed exchanged, and the same       *)
(* refusals.  Neither the direction of the comparison nor the order of the *)
(* groups ever decides a pair.                                             *)
(***************************************************************************)
Mirrored ==
    {statusF, statusR} \subseteq {"done", "ambiguous"} =>
        /\ statusF = statusR
        /\ pairedR = {[base |-> p.cand, cand |-> p.base, how |-> p.how, overlap |-> p.overlap] :
                        p \in pairedF}
        /\ addedR = removedF
        /\ removedR = addedF
=============================================================================
