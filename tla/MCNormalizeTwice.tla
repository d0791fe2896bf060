-------------------------- MODULE MCNormalizeTwice --------------------------
(* NormalizeTwice on traces of three spans below one root or side by side. *)
EXTENDS NormalizeTwice

INSTANCE DigestOrder

CONSTANTS a, b, c, outside

Span(id, parents, starts) ==
    [id : {id}, parent : parents, start : starts, label : Label, duration : {7}, error : Error]

MCInputs ==
    {<<r, s, t>> : r \in Span(a, {NoId, c}, {5}),
                   s \in Span(b, {NoId, a, outside}, {5, 9}),
                   t \in Span(c, {NoId, a, b, outside}, {5, 9})}

MCRenamed == (a :> b @@ b :> c @@ c :> outside @@ outside :> a)
MCLater(start) == 2 * start + 1
=============================================================================
