------------------------------ MODULE AnyValue ------------------------------
(***************************************************************************)
(* OTLP attribute values: convertAttributes and convertAnyValueAtDepth of  *)
(* internal/otlp/parser.go, and how a value is walked by policy.value of   *)
(* internal/redact/redact.go.                                              *)
(*                                                                         *)
(* A value in a document is the sequence of the cases it has, <<kind,      *)
(* content>>; the one with exactly one case is converted to that case.  A  *)
(* list of attributes becomes a function from keys to values.  Numbers in  *)
(* a document are [form, value]: absent, an integer, the name of an enum   *)
(* constant, or something else.  Texts, doubles and bytes are opaque; the  *)
(* content of a double or of bytes says whether it can be parsed.          *)
(***************************************************************************)
EXTENDS Integers, Sequences, FiniteSets

CONSTANTS Key, BlankKey,   \* attribute keys, and one that is empty or white space
          ValueBits,       \* the width of intValue: 64
          MaxDepth,        \* maxAnyValueDepth: 64
          Fold(_),         \* normalizeKey of internal/redact: trimmed, in lower case
          BuiltIn          \* the folded keys the built-in rules deny

ASSUME AnyValueAssumption ==
    /\ BlankKey \in Key
    /\ ValueBits \in Nat \ {0} /\ MaxDepth \in Nat \ {0}
    /\ \A k \in Key : Fold(k) \in Key
    /\ BuiltIn \subseteq Key \ {BlankKey}

-----------------------------------------------------------------------------
(* Conversion *)

\* parseSignedInteger
GoodInt(number) ==
    /\ number.form = "integer"
    /\ number.value \in -(2^(ValueBits - 1))..(2^(ValueBits - 1) - 1)

RECURSIVE GoodValue(_, _)
GoodValue(value, depth) ==
    /\ depth < MaxDepth
    /\ Len(value) = 1
    /\ LET kind == value[1][1]  content == value[1][2]
       IN  /\ kind = "int" => GoodInt(content)
           /\ kind \in {"double", "bytes"} => content
           /\ kind = "array" => \A n \in DOMAIN content : GoodValue(content[n], depth + 1)
           /\ kind = "kvlist" => \A n \in DOMAIN content :
                content[n].key # BlankKey /\ GoodValue(content[n].value, depth + 1)

RECURSIVE Value(_)
Value(value) ==
    LET kind == value[1][1]  content == value[1][2]
    IN  CASE kind = "int" -> <<kind, content.value>>
          [] kind = "array" -> <<kind, [n \in DOMAIN content |-> Value(content[n])]>>
          [] kind = "kvlist" ->
               <<kind, [n \in DOMAIN content |->
                           [key |-> content[n].key, value |-> Value(content[n].value)]]>>
          [] OTHER -> value[1]

\* Keys are there, and once each.
ValidAttributes(list) ==
    /\ \A n \in DOMAIN list : list[n].key # BlankKey /\ GoodValue(list[n].value, 0)
    /\ \A m, n \in DOMAIN list : list[m].key = list[n].key => m = n

AttributeValues(list) ==
    [k \in {list[n].key : n \in DOMAIN list} |->
        Value(list[CHOOSE n \in DOMAIN list : list[n].key = k].value)]

-----------------------------------------------------------------------------
(* Redaction *)

\* newPolicy rejects an additional key that is blank.
GoodPolicy(keys) == \A k \in keys : Fold(k) # BlankKey

Denied(keys, key) == Fold(key) \in {Fold(k) : k \in keys} \cup BuiltIn

Allowed(keys, list) == SelectSeq(list, LAMBDA entry : ~Denied(keys, entry.key))

\* Mutant: the elements of an array are taken as they are.
RECURSIVE RedactLists(_, _)
RedactLists(keys, value) ==
    IF value[1] = "kvlist"
    THEN LET list == Allowed(keys, value[2])
         IN  <<"kvlist", [n \in DOMAIN list |->
                 [list[n] EXCEPT !.value = RedactLists(keys, @)]]>>
    ELSE value

RECURSIVE Redact(_, _)
Redact(keys, value) ==
    CASE value[1] = "array" ->
           <<"array", [n \in DOMAIN value[2] |-> Redact(keys, value[2][n])]>>
      [] value[1] = "kvlist" ->
           LET list == Allowed(keys, value[2])
           IN  <<"kvlist", [n \in DOMAIN list |-> [list[n] EXCEPT !.value = Redact(keys, @)]]>>
      [] OTHER -> value

RedactAttributes(keys, attributes) ==
    [k \in {key \in DOMAIN attributes : ~Denied(keys, key)} |-> Redact(keys, attributes[k])]

-----------------------------------------------------------------------------
(***************************************************************************)
(* What is in a set of attributes, for stating what is kept: every value,  *)
(* nested ones too, as <<path, kind, content>>.  A step of a path is the   *)
(* position in an array, under no key, or a key and the number of earlier  *)
(* entries of a list with that key.                                        *)
(***************************************************************************)
RECURSIVE Nodes(_, _)
Nodes(path, value) ==
    LET inner == value[2]
        earlier(n) == Cardinality({m \in 1..(n - 1) : inner[m].key = inner[n].key})
    IN  CASE value[1] = "array" ->
               {<<path, "array", "">>}
                 \cup UNION {Nodes(Append(path, <<BlankKey, n>>), inner[n]) : n \in DOMAIN inner}
          [] value[1] = "kvlist" ->
               {<<path, "kvlist", "">>}
                 \cup UNION {Nodes(Append(path, <<inner[n].key, earlier(n)>>), inner[n].value) :
                                n \in DOMAIN inner}
          [] OTHER -> {<<path, value[1], inner>>}

Contents(attributes) == UNION {Nodes(<<<<k, 0>>>>, attributes[k]) : k \in DOMAIN attributes}

\* The nodes whose path has no denied key.
Kept(keys, contents) ==
    {node \in contents : \A n \in DOMAIN node[1] : ~Denied(keys, node[1][n][1])}
=============================================================================
