------------------------------ MODULE MCIngest ------------------------------
(* Ingest on streams of records with two traces, on spans in which any     *)
(* field may be wrong, and on nested attributes; clocks have 3 bits.       *)
EXTENDS Ingest

MCFold(k) == IF k = "Extra" THEN "extra" ELSE k

MCLower(t) == CASE t = "A" -> "a" [] t = "T" -> "t" [] OTHER -> t

Number(form, value) == [form |-> form, value |-> value]
Absent == Number("absent", 0)
Integer(n) == Number("integer", n)
AnyNumber == {Absent, Number("other", 0)} \cup {Integer(n) : n \in {-1, 0, 1, 3, 4, 5, 7, 8}}

Attribute(key, value) == [key |-> key, value |-> value]
Text(text) == <<<<"string", text>>>>

Span(trace, id) ==
    [trace |-> trace, id |-> id, parent |-> "", name |-> "op", events |-> <<>>, links |-> <<>>,
     kind |-> Absent, status |-> Absent, start |-> Integer(1), end |-> Integer(3),
     attributes |-> <<>>, counts |-> <<Absent, Integer(2)>>]

Scope(attributes, spans) == [attributes |-> attributes, dropped |-> Absent, spans |-> spans]
Resource(attributes, scopes) == [attributes |-> attributes, dropped |-> Absent, scopes |-> scopes]
Traces(resources) == [kind |-> "traces", resources |-> resources]
Plain(spans) == Traces(<<Resource(<<>>, <<Scope(<<>>, spans)>>)>>)

\* Records of some spans of two traces, under identifiers in either case.
SomeSpans == {Span(t, i) : t \in {"t", "T", "u"}, i \in {"a", "A", "b"}}
Small == {Plain(<<>>)} \cup {Plain(<<s>>) : s \in SomeSpans}
Large == Small \cup {Plain(<<s, t>>) : s, t \in SomeSpans}
Merges ==
    {<<r>> : r \in Large}
        \cup {<<r, s>> : r \in Large, s \in Large}
        \cup {<<r, s, t>> : r \in Small, s \in Small, t \in Small}

\* Streams with records that are no trace data.
Kinds == {"malformed", "value", "othersignal", "envelope", "mistyped"}
AnyRecord == {[kind |-> k, resources |-> <<>>] : k \in Kinds} \cup {Plain(<<Span("t", "a")>>)}
Streamed == {<<>>} \cup {<<r>> : r \in AnyRecord} \cup {<<r, s>> : r, s \in AnyRecord}

\* One span with something that may be wrong.
Good1 == Span("t", "a")
Event(time) == [time |-> time, attributes |-> <<>>, dropped |-> Absent]
Link(trace, count) ==
    [trace |-> trace, id |-> "", attributes |-> <<>>, counts |-> <<count, Absent>>]
Enums == AnyNumber \cup {Number("name", 2), Number("name", 9)}
Fields ==
    {[Good1 EXCEPT !.trace = t, !.parent = p] : t \in {"", "x", "t"}, p \in {"", "x", "b"}}
        \cup {[Good1 EXCEPT !.id = i, !.name = n] : i \in {"", "x", "a"}, n \in {" ", "op"}}
        \cup {[Good1 EXCEPT !.start = s, !.end = e] : s, e \in AnyNumber}
        \cup {[Good1 EXCEPT !.kind = k, !.status = s] : k, s \in Enums}
        \cup {[Good1 EXCEPT !.events = <<Event(Absent), Event(t)>>] : t \in AnyNumber}
        \cup {[Good1 EXCEPT !.links = <<Link(t, c)>>] : t \in {"", "x", "u"}, c \in AnyNumber}
        \cup {[Good1 EXCEPT !.counts = <<c, d>>] : c, d \in AnyNumber}
Faults == {<<Plain(<<Good1, [s EXCEPT !.id = IF @ = "a" THEN "b" ELSE @]>>)>> : s \in Fields}

\* Attributes, on a span, its resource and its scope.
Leaves ==
    {<<>>, Text("v"), Text(" "), <<<<"int", Integer(4)>>>>, <<<<"int", Integer(3)>>>>,
     <<<<"string", "v">>, <<"bool", TRUE>>>>, <<<<"bytes", FALSE>>>>, <<<<"double", TRUE>>>>}
Array(list) == <<<<"array", list>>>>
List(list) == <<<<"kvlist", list>>>>
Nested(values, names) ==
    {Array(<<v, w>>) : v, w \in values}
        \cup {List(<<Attribute(k, v), Attribute(l, w)>>) : k, l \in names, v, w \in values}
Deep ==
    {Text("v"), Array(<<>>), List(<<>>), List(<<Attribute("secret", Text("v"))>>)}
Names == {" ", "k", "secret", "Extra", "extra"}
Values == Leaves \cup Nested(Deep, {"k", "extra"}) \cup Nested({Text("v")}, Names)
            \cup {Array(<<v>>) : v \in Nested(Deep, {"k"})}
Lists ==
    {<<Attribute(k, v)>> : k \in Names \cup {"service.name"}, v \in Values}
        \cup {<<Attribute(k, Text("v")), Attribute(l, Text("w"))>> :
                k, l \in Names \cup {"service.name"}}
Attributed ==
    {<<Plain(<<[Good1 EXCEPT !.attributes = a]>>)>> : a \in Lists}
        \cup {<<Traces(<<Resource(a, <<Scope(<<>>, <<Good1>>)>>)>>)>> : a \in Lists}
        \cup {<<Traces(<<Resource(<<>>, <<Scope(a, <<Good1>>), Scope(<<>>, <<>>)>>)>>)>> : a \in Lists}

MCStreams == Merges \cup Streamed \cup Faults \cup Attributed
MCAdditionalKeys == {{}, {"Extra"}, {"service.name"}, {"k", " "}}
=============================================================================
