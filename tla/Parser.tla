------------------------------- MODULE Parser -------------------------------
(***************************************************************************)
(* Reading a trace file: Parse, convertDocuments and convert of            *)
(* internal/otlp/parser.go.                                                *)
(*                                                                         *)
(* The input is a stream of JSON records, one (OTLP/HTTP JSON) or several  *)
(* (JSON Lines).  All of them are decoded before any is converted.  A      *)
(* record is converted part by part: resources, their scopes, and their    *)
(* spans, which are put into the traces they name.  A single record is the *)
(* result; several are merged trace by trace into one snapshot.  The first *)
(* error ends the parse with no result.                                    *)
(*                                                                         *)
(* Texts and attributes are opaque; a number is [form, value] as in        *)
(* AnyValue.  Messages of errors, the trace state, schema URLs and status  *)
(* messages, which are copied, are left out.                               *)
(***************************************************************************)
EXTENDS Integers, Sequences, FiniteSets, SequencesExt

CONSTANTS Streams,            \* the inputs
          Hex,                \* identifier texts of the right length, not all zeros
          Lower(_),           \* strings.ToLower
          NoText,             \* the empty identifier
          Blank,              \* an empty name or service name, of white space maybe
          GoodAttributes(_),  \* convertAttributes: does it succeed,
          Attributes(_),      \* and with what
          ServiceName,        \* the key service.name
          NoService,          \* the service name of a resource that has none
          ClockBits,          \* the width of timestamps: 64
          CountBits           \* the width of counts, flags and enum codes: 32

\* The identifiers and the inputs: every list of a document is a sequence.
IsSeq(s) == s \in Seq({s[n] : n \in DOMAIN s})

IsDocument(resources) ==
    /\ IsSeq(resources)
    /\ \A r \in DOMAIN resources :
         /\ IsSeq(resources[r].scopes)
         /\ \A s \in DOMAIN resources[r].scopes : IsSeq(resources[r].scopes[s].spans)

ASSUME ParserAssumption ==
    /\ ClockBits \in Nat \ {0} /\ CountBits \in Nat \ {0}
    /\ \A t \in Hex : Lower(t) \in Hex /\ Lower(Lower(t)) = Lower(t)
    /\ \A input \in Streams :
         IsSeq(input) /\ \A n \in DOMAIN input : IsDocument(input[n].resources)

VARIABLES
    stream,     \* the records of the input
    documents,  \* the decoded ones
    phase,      \* "decode" | "convert" | "merge" | "done" | "rejected"
    record,     \* the document that is converted or merged
    work,       \* the parts of it that are not converted yet
    traces,     \* its traces so far: [id, spans]
    seen,       \* the identities of their spans
    snapshot,   \* the merged traces
    merged      \* the identities of their spans

parseVars == <<stream, documents, phase, record, work, traces, seen, snapshot, merged>>

-----------------------------------------------------------------------------
(* Fields *)

Present(number) == number.form # "absent"

\* parseUnsignedInteger
Unsigned(number, bits) == number.form = "integer" /\ number.value \in 0..(2^bits - 1)

OptionalCount(number) == Present(number) => Unsigned(number, CountBits)

\* parseEnum: a number, or one of the names, whose codes are 0 to last.
GoodEnum(number, last) ==
    \/ ~Present(number)
    \/ number.form = "name" /\ number.value \in 0..last
    \/ Unsigned(number, CountBits) /\ number.value <= last

EnumCode(number) == IF Present(number) THEN number.value ELSE 0

GoodEvent(event) ==
    /\ Present(event.time) => Unsigned(event.time, ClockBits)
    /\ GoodAttributes(event.attributes)
    /\ OptionalCount(event.dropped)

GoodLink(link) ==
    /\ link.trace \in Hex \cup {NoText} /\ link.id \in Hex \cup {NoText}
    /\ GoodAttributes(link.attributes)
    /\ \A n \in DOMAIN link.counts : OptionalCount(link.counts[n])

\* Mutant: the duration is not compared with the largest time.Duration.
GoodOrder(span) ==
    /\ Unsigned(span.start, ClockBits) /\ Unsigned(span.end, ClockBits)
    /\ span.end.value >= span.start.value

GoodTimes(span) ==
    /\ Unsigned(span.start, ClockBits) /\ Unsigned(span.end, ClockBits)
    /\ span.end.value >= span.start.value
    /\ span.end.value - span.start.value <= 2^(ClockBits - 1) - 1

\* The checks of convertSpan.
GoodSpan(span) ==
    /\ span.trace \in Hex /\ span.id \in Hex /\ span.parent \in Hex \cup {NoText}
    /\ span.name # Blank
    /\ \A n \in DOMAIN span.events : GoodEvent(span.events[n])
    /\ \A n \in DOMAIN span.links : GoodLink(span.links[n])
    /\ GoodEnum(span.kind, 5) /\ GoodEnum(span.status, 2)
    /\ GoodTimes(span)
    /\ GoodAttributes(span.attributes)
    /\ \A n \in DOMAIN span.counts : OptionalCount(span.counts[n])

\* service.name is a text, and one that is not blank.
GoodResource(resource) ==
    /\ GoodAttributes(resource.attributes)
    /\ OptionalCount(resource.dropped)
    /\ \A n \in DOMAIN resource.attributes :
            resource.attributes[n].key = ServiceName =>
                /\ Attributes(resource.attributes)[ServiceName][1] = "string"
                /\ Attributes(resource.attributes)[ServiceName][2] # Blank

GoodScope(scope) == GoodAttributes(scope.attributes) /\ OptionalCount(scope.dropped)

Service(attributes) ==
    IF ServiceName \in DOMAIN attributes THEN attributes[ServiceName][2] ELSE NoService

\* time.Duration(end - start): a difference of unsigned numbers, read as a signed one.
Duration(start, end) ==
    LET difference == (end - start) % 2^ClockBits
    IN  IF difference < 2^(ClockBits - 1) THEN difference ELSE difference - 2^ClockBits

\* The span of a part; its order is the number of spans before it.
Convert(part, order) ==
    LET span == part.span
    IN  [trace |-> Lower(span.trace), id |-> Lower(span.id), parent |-> Lower(span.parent),
         name |-> span.name, service |-> Service(Attributes(part.resource.attributes)),
         kind |-> EnumCode(span.kind), status |-> EnumCode(span.status),
         start |-> span.start.value, duration |-> Duration(span.start.value, span.end.value),
         attributes |-> Attributes(span.attributes),
         resource |-> Attributes(part.resource.attributes),
         scope |-> Attributes(part.scope.attributes), order |-> order]

-----------------------------------------------------------------------------
(* Documents *)

(***************************************************************************)
(* The parts of a document in the order of the three loops of convert: a   *)
(* resource, its first scope, the spans of that, its next scope, ...       *)
(***************************************************************************)
ScopeParts(resource, scope) ==
    <<[what |-> "scope", resource |-> resource, scope |-> scope]>>
        \o [n \in DOMAIN scope.spans |->
               [what |-> "span", resource |-> resource, scope |-> scope, span |-> scope.spans[n]]]

ResourceParts(resource) ==
    <<[what |-> "resource", resource |-> resource]>>
        \o FlattenSeq([s \in DOMAIN resource.scopes |->
                          ScopeParts(resource, resource.scopes[s])])

Parts(document) == FlattenSeq([r \in DOMAIN document |-> ResourceParts(document[r])])

Good(part) ==
    CASE part.what = "resource" -> GoodResource(part.resource)
      [] part.what = "scope" -> GoodScope(part.scope)
      [] part.what = "span" -> GoodSpan(part.span)

Identity(span) == <<Lower(span.trace), Lower(span.id)>>

\* Spans of one trace are added to those it has; a new trace comes last.
AddSpans(list, id, spans) ==
    IF \E n \in DOMAIN list : list[n].id = id
    THEN [n \in DOMAIN list |-> IF list[n].id = id THEN [list[n] EXCEPT !.spans = @ \o spans]
                                                   ELSE list[n]]
    ELSE Append(list, [id |-> id, spans |-> spans])

-----------------------------------------------------------------------------
ParseInit ==
    /\ stream \in Streams
    /\ documents = <<>>
    /\ phase = "decode"
    /\ record = 1
    /\ work = <<>> /\ traces = <<>> /\ seen = {}
    /\ snapshot = <<>> /\ merged = {}

RejectInput ==
    /\ phase' = "rejected"
    /\ snapshot' = <<>>
    /\ UNCHANGED <<stream, documents, record, work, traces, seen, merged>>

Undecoded == phase = "decode" /\ Len(documents) < Len(stream)

NextRecord == stream[Len(documents) + 1]

DecodeRecord ==
    /\ Undecoded
    /\ NextRecord.kind = "traces"
    /\ documents' = Append(documents, NextRecord.resources)
    /\ UNCHANGED <<stream, phase, record, work, traces, seen, snapshot, merged>>

(***************************************************************************)
(* The record is no JSON, no object, has a field of another signal or of   *)
(* an envelope, or a field of the wrong type.                              *)
(***************************************************************************)
RejectRecord ==
    /\ Undecoded
    /\ NextRecord.kind \in {"malformed", "value", "othersignal", "envelope", "mistyped"}
    /\ RejectInput

\* The document is converted from its beginning.
Open(n) ==
    /\ phase' = "convert"
    /\ record' = n
    /\ work' = Parts(documents[n])
    /\ traces' = <<>> /\ seen' = {}

EndOfInput ==
    /\ phase = "decode" /\ Len(documents) = Len(stream)
    /\ documents # <<>>
    /\ Open(1)
    /\ UNCHANGED <<stream, documents, snapshot, merged>>

RejectEmpty == phase = "decode" /\ stream = <<>> /\ RejectInput

Part == Head(work)

Bad(part) == ~Good(part) \/ (part.what = "span" /\ Identity(part.span) \in seen)

\* A resource or a scope, whose attributes its spans share.
ConvertContext ==
    /\ phase = "convert" /\ work # <<>>
    /\ Part.what # "span" /\ ~Bad(Part)
    /\ work' = Tail(work)
    /\ UNCHANGED <<stream, documents, phase, record, traces, seen, snapshot, merged>>

ConvertSpan ==
    /\ phase = "convert" /\ work # <<>>
    /\ Part.what = "span" /\ ~Bad(Part)
    /\ LET span == Convert(Part, Cardinality(seen))
       IN  /\ traces' = AddSpans(traces, span.trace, <<span>>)
           /\ seen' = seen \cup {Identity(Part.span)}
    /\ work' = Tail(work)
    /\ UNCHANGED <<stream, documents, phase, record, snapshot, merged>>

RejectPart == phase = "convert" /\ work # <<>> /\ Bad(Part) /\ RejectInput

\* A single record is the whole result.
ReturnSingle ==
    /\ phase = "convert" /\ work = <<>>
    /\ Len(documents) = 1
    /\ snapshot' = traces
    /\ phase' = "done"
    /\ UNCHANGED <<stream, documents, record, work, traces, seen, merged>>

StartMerge ==
    /\ phase = "convert" /\ work = <<>>
    /\ Len(documents) > 1
    /\ phase' = "merge"
    /\ UNCHANGED <<stream, documents, record, work, traces, seen, snapshot, merged>>

Identities(trace) == {Identity(trace.spans[n]) : n \in DOMAIN trace.spans}

\* The next trace of the document goes into the result, under new order numbers.
MergeHead(list) ==
    /\ snapshot' = list
    /\ merged' = merged \cup Identities(Head(traces))
    /\ traces' = Tail(traces)
    /\ UNCHANGED <<stream, documents, phase, record, work, seen>>

Renumbered(trace) ==
    [n \in DOMAIN trace.spans |-> [trace.spans[n] EXCEPT !.order = Cardinality(merged) + n - 1]]

MergedTraces == AddSpans(snapshot, Head(traces).id, Renumbered(Head(traces)))

MergeNext == phase = "merge" /\ traces # <<>>
Duplicate == Identities(Head(traces)) \cap merged # {}

\* Mutants: a trace that continues in another record is listed again, and spans
\* of different records are not compared.
MergeApart == MergeNext /\ ~Duplicate /\ MergeHead(Append(snapshot, Head(traces)))
MergeUnchecked == MergeNext /\ MergeHead(MergedTraces)

MergeTrace == MergeNext /\ ~Duplicate /\ MergeHead(MergedTraces)

RejectDuplicate == MergeNext /\ Duplicate /\ RejectInput

NextDocument ==
    /\ phase = "merge" /\ traces = <<>>
    /\ record < Len(documents)
    /\ Open(record + 1)
    /\ UNCHANGED <<stream, documents, snapshot, merged>>

ReturnMerged ==
    /\ phase = "merge" /\ traces = <<>>
    /\ record = Len(documents)
    /\ phase' = "done"
    /\ UNCHANGED <<stream, documents, record, work, traces, seen, snapshot, merged>>

ParseNext ==
    \/ DecodeRecord \/ RejectRecord \/ EndOfInput \/ RejectEmpty
    \/ ConvertContext \/ ConvertSpan \/ RejectPart \/ ReturnSingle
    \/ StartMerge \/ MergeTrace \/ RejectDuplicate \/ NextDocument \/ ReturnMerged

ParseSpec == ParseInit /\ [][ParseNext]_parseVars

-----------------------------------------------------------------------------
(* Correctness *)

\* Where the parts of all records are: the record, and the place in it.
AllParts == [n \in DOMAIN stream |-> Parts(stream[n].resources)]
Places == UNION {{n} \X DOMAIN AllParts[n] : n \in DOMAIN stream}
PartAt(p) == AllParts[p[1]][p[2]]

SpanPlaces == {p \in Places : PartAt(p).what = "span"}
IdentityAt(p) == Identity(PartAt(p).span)

ComesBefore(p, q) == p[1] < q[1] \/ (p[1] = q[1] /\ p[2] < q[2])

\* The place that a span of the result is from.
Origin(span) == CHOOSE p \in SpanPlaces : IdentityAt(p) = <<span.trace, span.id>>

(***************************************************************************)
(* The result is that of one document with the resources of all records.   *)
(* There is one trace for each trace identifier, in the order in which     *)
(* they first appear; its spans are all spans of that trace, as they are   *)
(* in the file and in its order, whatever record they are in; and the      *)
(* order numbers of the spans are 0, 1, ..., increasing in each trace.     *)
(***************************************************************************)
TraceWhole(trace) ==
    LET spans == trace.spans
    IN  /\ {Origin(spans[i]) : i \in DOMAIN spans}
             = {p \in SpanPlaces : IdentityAt(p)[1] = trace.id}
        /\ \A i \in DOMAIN spans : spans[i] = Convert(PartAt(Origin(spans[i])), spans[i].order)
        /\ \A i, j \in DOMAIN spans : i < j =>
             ComesBefore(Origin(spans[i]), Origin(spans[j])) /\ spans[i].order < spans[j].order

MergedAsOne ==
    phase = "done" =>
        /\ {snapshot[n].id : n \in DOMAIN snapshot} = {IdentityAt(p)[1] : p \in SpanPlaces}
        /\ \A m, n \in DOMAIN snapshot : m < n =>
             ComesBefore(Origin(snapshot[m].spans[1]), Origin(snapshot[n].spans[1]))
        /\ \A n \in DOMAIN snapshot : TraceWhole(snapshot[n])
        /\ UNION {{snapshot[n].spans[i].order : i \in DOMAIN snapshot[n].spans} : n \in DOMAIN snapshot}
               = 0..(Cardinality(SpanPlaces) - 1)

(***************************************************************************)
(* A file is refused if and only if something is wrong with it, wherever   *)
(* it is: no record or one that is not trace data, an invalid resource,    *)
(* scope or span, or an identifier that two spans of one trace share, in   *)
(* one record or in two, in capital letters or in small ones.              *)
(***************************************************************************)
Faulty ==
    \/ stream = <<>>
    \/ \E n \in DOMAIN stream : stream[n].kind # "traces"
    \/ \E p \in Places : ~Good(PartAt(p))
    \/ \E p, q \in SpanPlaces : p # q /\ IdentityAt(p) = IdentityAt(q)

RejectedIfFaulty ==
    /\ phase = "done" => ~Faulty
    /\ phase = "rejected" => Faulty

(***************************************************************************)
(* Durations are what the clocks say: no difference of two timestamps      *)
(* wraps around on its way into the signed type, so none is negative.      *)
(***************************************************************************)
DurationsExact ==
    phase = "done" =>
        \A n \in DOMAIN snapshot : \A i \in DOMAIN snapshot[n].spans :
            LET span == snapshot[n].spans[i]
            IN  \E p \in SpanPlaces :
                    /\ IdentityAt(p) = <<span.trace, span.id>>
                    /\ span.start = PartAt(p).span.start.value
                    /\ span.start + span.duration = PartAt(p).span.end.value
=============================================================================
