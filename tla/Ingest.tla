------------------------------- MODULE Ingest -------------------------------
(***************************************************************************)
(* From a file to the redacted snapshot: Parse of internal/otlp/parser.go  *)
(* and then Snapshot of internal/redact/redact.go, as Compare of           *)
(* pkg/tracedelta calls them for each of its inputs.                       *)
(***************************************************************************)
EXTENDS Parser, AnyValue

CONSTANT AdditionalKeys   \* the sets of keys Options.RedactedAttributeKeys may list

ASSUME IngestAssumption ==
    /\ NoText \notin Hex
    /\ ServiceName \in Key
    /\ \A additional \in AdditionalKeys : additional \subseteq Key

AttributeLists(part) ==
    CASE part.what = "resource" -> {part.resource.attributes}
      [] part.what = "scope" -> {part.scope.attributes}
      [] part.what = "span" ->
           {part.span.attributes}
             \cup {part.span.events[n].attributes : n \in DOMAIN part.span.events}
             \cup {part.span.links[n].attributes : n \in DOMAIN part.span.links}

\* The parser converts attributes as AnyValue does, wherever it does.
ASSUME ConversionAssumption ==
    \A input \in Streams : \A n \in DOMAIN input :
        \A part \in Range(Parts(input[n].resources)) : \A list \in AttributeLists(part) :
            /\ GoodAttributes(list) <=> ValidAttributes(list)
            /\ ValidAttributes(list) => Attributes(list) = AttributeValues(list)

VARIABLES keys,      \* Options.AdditionalKeys
          redacted,  \* the traces that Snapshot returns
          outcome    \* "none" | "redacted" | "badkeys"

vars == <<parseVars, keys, redacted, outcome>>

Init ==
    /\ ParseInit
    /\ keys \in AdditionalKeys
    /\ redacted = <<>>
    /\ outcome = "none"

ParseStep == ParseNext /\ UNCHANGED <<keys, redacted, outcome>>

RedactSpan(span) ==
    [span EXCEPT !.attributes = RedactAttributes(keys, @),
                 !.resource = RedactAttributes(keys, @),
                 !.scope = RedactAttributes(keys, @),
                 !.service = IF Denied(keys, ServiceName) THEN NoService ELSE @]

RejectKeys ==
    /\ phase = "done" /\ outcome = "none"
    /\ ~GoodPolicy(keys)
    /\ outcome' = "badkeys"
    /\ UNCHANGED <<parseVars, keys, redacted>>

RedactSnapshot ==
    /\ phase = "done" /\ outcome = "none"
    /\ GoodPolicy(keys)
    /\ redacted' = [n \in DOMAIN snapshot |->
                       [snapshot[n] EXCEPT !.spans = [i \in DOMAIN @ |-> RedactSpan(@[i])]]]
    /\ outcome' = "redacted"
    /\ UNCHANGED <<parseVars, keys>>

Next == ParseStep \/ RejectKeys \/ RedactSnapshot

Spec == Init /\ [][Next]_vars

-----------------------------------------------------------------------------
(* Correctness *)

(***************************************************************************)
(* Redaction removes what is denied and nothing else.  Of a span, its      *)
(* resource and its scope, exactly the values remain on whose path, from   *)
(* the attribute through arrays and lists down, there is no denied key;    *)
(* and the service name goes if service.name is denied.                    *)
(***************************************************************************)
RedactionExact ==
    outcome = "redacted" =>
        /\ Len(redacted) = Len(snapshot)
        /\ \A n \in DOMAIN snapshot :
            /\ redacted[n].id = snapshot[n].id
            /\ Len(redacted[n].spans) = Len(snapshot[n].spans)
            /\ \A i \in DOMAIN snapshot[n].spans :
                LET before == snapshot[n].spans[i]
                    after == redacted[n].spans[i]
                    exact(a, b) == Contents(a) = Kept(keys, Contents(b))
                IN  /\ exact(after.attributes, before.attributes)
                    /\ exact(after.resource, before.resource)
                    /\ exact(after.scope, before.scope)
                    /\ after.service =
                         IF Denied(keys, ServiceName) THEN NoService ELSE before.service
                    /\ [after EXCEPT !.attributes = <<>>, !.resource = <<>>, !.scope = <<>>,
                                     !.service = <<>>]
                         = [before EXCEPT !.attributes = <<>>, !.resource = <<>>, !.scope = <<>>,
                                          !.service = <<>>]
=============================================================================
