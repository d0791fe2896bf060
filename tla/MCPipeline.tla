----------------------------- MODULE MCPipeline -----------------------------
(* Pipeline on pairs of small documents, some of them rejected, and on the  *)
(* durations around every threshold.                                        *)
EXTENDS Pipeline

CONSTANTS get, post, serve,  \* span keys; get and post share name and service
          plain, tagged,     \* attributes
          ok, failed, timeout, refused

MCLabel(k) == IF k = serve THEN 0 ELSE 1

Span(key, attributes, parent, start, status, error, duration) ==
    [semantic |-> <<key, attributes>>, parent |-> parent, start |-> start, status |-> status,
     error |-> error, duration |-> duration]

Fine(key, parent, start) == Span(key, plain, parent, start, ok, timeout, 1000)
Slow(key, parent, start) == Span(key, plain, parent, start, failed, refused, 2000)

Lone    == <<Fine(serve, Root, 0)>>
Partial == <<Fine(serve, External, 0)>>
Failing == <<Span(serve, plain, Root, 0, failed, timeout, 1000)>>
Refused == <<Span(serve, plain, Root, 0, failed, refused, 1000)>>
Calls1  == <<Fine(serve, Root, 0), Fine(get, 1, 1)>>
Calls2  == <<Fine(serve, Root, 0), Fine(get, 1, 1), Fine(post, 1, 2)>>
Moved   == <<Fine(serve, Root, 0), Fine(get, 1, 1), Fine(post, 2, 2)>>
Slower2 == <<Slow(serve, Root, 0), Slow(get, 1, 1), Slow(post, 1, 2)>>
Repeats == <<Fine(get, Root, 0), Fine(get, 1, 1), Fine(get, 1, 2)>>
Twins   == <<Fine(get, Root, 0), Fine(get, 1, 1), Slow(get, 1, 1)>>
Tagged  == <<Fine(serve, Root, 0), Span(get, tagged, 1, 1, ok, timeout, 1000)>>

MCSemantic == {<<get, plain>>, <<post, plain>>, <<serve, plain>>, <<get, tagged>>}

Timed(duration) == <<Span(get, plain, Root, 0, ok, timeout, duration)>>

Base == {0, 1, 7, 10, 1000}
Cand == 0..12 \cup (1098..1104) \cup (1198..1202)

\* The traces in any fixed order, which is that of their encodings.
Order == <<Lone, Partial, Failing, Refused, Calls1, Calls2, Moved, Slower2, Repeats, Twins, Tagged>>
Catalog == ToSet(Order)
MCEncoding(t) ==
    IF t \in Catalog THEN CHOOSE n \in DOMAIN Order : Order[n] = t ELSE Len(Order) + 1 + t[1].duration

Arriving == Catalog \cup {<<>>, Malformed}

Request(first, second, bucket, keys, rel, abs) ==
    [baseline |-> first, candidate |-> second, bucket |-> bucket, keys |-> keys,
     relative |-> rel, absolute |-> abs]

\* Documents of up to two traces, any on one side and fewer on the other.
Documents(traces) ==
    {Broken, <<>>} \cup {<<t>> : t \in Arriving} \cup {<<s, t>> : s, t \in traces}

Comparisons ==
    {Request(d, e, 0, TRUE, 200, 100) :
        d \in Documents(Arriving), e \in Documents({Lone, Failing, Calls2, Slower2, Repeats})}

Reordered == {Request(<<s, t>>, <<t, <<>>, s>>, 0, TRUE, 0, 0) : s, t \in Arriving}

\* Three traces, in two orders or with one of them replaced.
Larger ==
    {Request(<<r, s, t>>, <<t, s, u>>, 0, TRUE, 0, 0) :
        r \in {Lone, Twins, Calls1}, s \in {Repeats, Calls2}, t \in {Slower2, Tagged},
        u \in {Lone, Twins, Calls1, Failing}}

\* Options that are refused, now and at the end.
BadOptions ==
    {Request(d, <<Lone>>, b, k, r, a) : d \in {Broken, <<Lone>>}, b \in {-1, 0}, k \in BOOLEAN,
                                        r \in {Invalid, 200}, a \in {Invalid, 100}}

Boundaries ==
    {Request(<<Timed(b)>>, <<Timed(c)>>, 0, TRUE, r, a) :
        b \in Base, c \in Cand, r \in Percentages, a \in Absolutes}

MCRequests == Comparisons \cup Reordered \cup Larger \cup BadOptions \cup Boundaries
=============================================================================
