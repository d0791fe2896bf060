-------------------------------- MODULE Diff --------------------------------
(***************************************************************************)
(* From matched spans to findings: Compare of internal/diff/diff.go, and   *)
(* the relative threshold as cmd/tracedelta/main.go reads it from its flag.*)
(*                                                                         *)
(* The added and the removed spans are listed, the pairs are compared one  *)
(* after the other by status, error type and duration, and the changes are *)
(* sorted.  A change shows the name, the service and the occurrence of its *)
(* span; the kind of the span, which is a part of its key, it does not.    *)
(***************************************************************************)
EXTENDS Binary64, FiniteSets

CONSTANTS Key,          \* span keys: service, name and span kind
          Label(_),     \* the place of a key's name and service in byte order
          Status, ErrorStatus,
          ErrorType,    \* values of error.type, and its absence
          Percentages,  \* --duration-threshold in tenths of a percent
          Absolutes,    \* --duration-threshold-absolute in nanoseconds
          Invalid       \* a threshold that is negative, or infinite or no number

Spans == [key : Key, occurrence : Nat, status : Status, error : ErrorType, duration : Nat]
Pairs == [base : Spans, cand : Spans]

\* Result of match.Spans.
Matches == [paired : Seq(Pairs), added : Seq(Spans), removed : Seq(Spans)]

VARIABLES matches, relative, absolute,  \* Result of match, and Options
          next,                         \* the pair that is compared next
          changes,                      \* Result.Changes
          changedSpans,                 \* Result.ChangedSpans
          stage                         \* "options" | "pairs" | "done" | "rejected"

vars == <<matches, relative, absolute, next, changes, changedSpans, stage>>
inputs == <<matches, relative, absolute>>

-----------------------------------------------------------------------------
(* The rules *)

\* parseDurationThreshold: the text is a decimal number, divided by 100.
Ratio(tenths) == Divide(Divide(FromNat(tenths), 10), 100)

\* Mutant: the increase has to exceed the absolute threshold.
DurationBeyond(base, cand) ==
    /\ cand > base
    /\ cand - base > absolute
    /\ base = 0 \/ AtLeast(Divide(FromNat(cand - base), base), Ratio(relative))

\* Mutant: an increase is not asked for, the thresholds decide alone.
DurationWithin(base, cand) ==
    /\ cand - base >= absolute
    /\ base = 0 \/ AtLeast(Divide(FromNat(cand - base), base), Ratio(relative))

Slower(base, cand, percentage, least) ==
    /\ cand > base
    /\ cand - base >= least
    /\ base = 0 \/ AtLeast(Divide(FromNat(cand - base), base), Ratio(percentage))

DurationChanged(base, cand) == Slower(base, cand, relative, absolute)

StatusChanged(p) == p.base.status # p.cand.status

\* Mutant: the error types of spans without an error are compared too.
ErrorTypeDiffers(p) == p.base.error # p.cand.error

ErrorTypeChanged(p) ==
    /\ p.base.status = ErrorStatus /\ p.cand.status = ErrorStatus
    /\ p.base.error # p.cand.error

Change(kind, field, span) ==
    [kind |-> kind, field |-> field, key |-> span.key, occurrence |-> span.occurrence]

\* The changes of a pair, in the order they are found.
Changed(p, field, holds) == IF holds THEN <<Change("changed", field, p.base)>> ELSE <<>>

PairChanges(p) ==
    Changed(p, "status", StatusChanged(p))
        \o Changed(p, "error.type", ErrorTypeChanged(p))
        \o Changed(p, "duration", DurationChanged(p.base.duration, p.cand.duration))

-----------------------------------------------------------------------------
(* The order of the changes *)

KindRank(kind) == CASE kind = "added" -> 0 [] kind = "removed" -> 1 [] kind = "changed" -> 2
FieldRank(field) == CASE field = "status" -> 0 [] field = "error.type" -> 1 [] OTHER -> 2

\* Mutant: occurrences are not compared.
LessByLabel(c, d) ==
    LET rank(x) == <<KindRank(x.kind), Label(x.key), FieldRank(x.field)>>
    IN  \E n \in 1..3 : rank(c)[n] < rank(d)[n] /\ \A k \in 1..(n - 1) : rank(c)[k] = rank(d)[k]

LessChange(c, d) ==
    LET rank(x) == <<KindRank(x.kind), Label(x.key), x.occurrence, FieldRank(x.field)>>
    IN  \E n \in 1..4 : rank(c)[n] < rank(d)[n] /\ \A k \in 1..(n - 1) : rank(c)[k] = rank(d)[k]

\* sort.SliceStable: where the i-th element of a list goes.
Place(list, i) ==
    Cardinality({j \in DOMAIN list :
        LessChange(list[j], list[i]) \/ (~LessChange(list[i], list[j]) /\ j <= i)})

Sorted(list) ==
    [n \in DOMAIN list |-> list[CHOOSE i \in DOMAIN list : Place(list, i) = n]]

-----------------------------------------------------------------------------
Init ==
    /\ matches \in Matches
    /\ relative \in Percentages \cup {Invalid}
    /\ absolute \in Absolutes \cup {Invalid}
    /\ next = 1 /\ changes = <<>> /\ changedSpans = 0
    /\ stage = "options"

RejectOptions ==
    /\ stage = "options"
    /\ Invalid \in {relative, absolute}
    /\ stage' = "rejected"
    /\ UNCHANGED <<inputs, next, changes, changedSpans>>

ListUnmatched ==
    /\ stage = "options"
    /\ Invalid \notin {relative, absolute}
    /\ changes' = [n \in DOMAIN matches.added |-> Change("added", "", matches.added[n])]
                    \o [n \in DOMAIN matches.removed |-> Change("removed", "", matches.removed[n])]
    /\ stage' = "pairs"
    /\ UNCHANGED <<inputs, next, changedSpans>>

ComparePair ==
    /\ stage = "pairs" /\ next <= Len(matches.paired)
    /\ LET found == PairChanges(matches.paired[next])
       IN  /\ changes' = changes \o found
           /\ changedSpans' = changedSpans + (IF found = <<>> THEN 0 ELSE 1)
    /\ next' = next + 1
    /\ UNCHANGED <<inputs, stage>>

SortChanges ==
    /\ stage = "pairs" /\ next > Len(matches.paired)
    /\ changes' = Sorted(changes)
    /\ stage' = "done"
    /\ UNCHANGED <<inputs, next, changedSpans>>

Next == RejectOptions \/ ListUnmatched \/ ComparePair \/ SortChanges

Spec == Init /\ [][Next]_vars

-----------------------------------------------------------------------------
(* Correctness *)

TypeOK ==
    /\ matches \in Matches
    /\ relative \in Percentages \cup {Invalid} /\ absolute \in Absolutes \cup {Invalid}
    /\ next \in 1..(Len(matches.paired) + 1)
    /\ changes \in Seq([kind : {"added", "removed", "changed"},
                        field : {"", "status", "error.type", "duration"},
                        key : Key, occurrence : Nat])
    /\ changedSpans \in 0..Len(matches.paired)
    /\ stage \in {"options", "pairs", "done", "rejected"}

\* The baseline span of a pair got slower by at least both thresholds, in exact
\* arithmetic.
Met(p) ==
    LET increase == p.cand.duration - p.base.duration
    IN  /\ p.cand.duration > p.base.duration
        /\ increase >= absolute
        /\ 1000 * increase >= relative * p.base.duration

Reported(p) == \E n \in DOMAIN changes : changes[n] = Change("changed", "duration", p.base)

ThePairs == {matches.paired[n] : n \in DOMAIN matches.paired}

(***************************************************************************)
(* Floating point reports no increase below a threshold, and misses none   *)
(* that meets a threshold of whole percents, not even by a nanosecond.     *)
(***************************************************************************)
FindingsExact ==
    stage = "done" =>
        \A p \in ThePairs :
            /\ Reported(p) => Met(p)
            /\ Met(p) /\ relative % 10 = 0 => Reported(p)

\* Two spans that differ in their kind only; a report cannot tell them apart.
Twins(c, d) == c.key # d.key /\ Label(c.key) = Label(d.key) /\ c.occurrence = d.occurrence

(***************************************************************************)
(* docs/cli-spec.md: "Changes are ordered deterministically".  But for     *)
(* twins, no two changes compare equal, so the sorted list depends on what *)
(* has changed and never on the order in which spans were matched.         *)
(***************************************************************************)
OrderDetermined ==
    stage = "done" =>
        \A m, n \in DOMAIN changes : m < n =>
            /\ ~LessChange(changes[n], changes[m])
            /\ LessChange(changes[m], changes[n]) \/ Twins(changes[m], changes[n])

(***************************************************************************)
(* The summary agrees with the list, and the sort has lost nothing: spans  *)
(* are counted, not changes, and each counted span has a change.           *)
(***************************************************************************)
ChangedOf(kind) ==
    {<<changes[n].key, changes[n].occurrence>> :
        n \in {m \in DOMAIN changes : changes[m].kind = kind}}

CountsAgree ==
    stage = "done" =>
        /\ Cardinality(ChangedOf("added")) = Len(matches.added)
        /\ Cardinality(ChangedOf("removed")) = Len(matches.removed)
        /\ Cardinality(ChangedOf("changed")) = changedSpans
=============================================================================
