---------------------------- MODULE MCQueryParams ----------------------------
(* Parameters and type maps that fill the pool, leave room in chunks and   *)
(* mix text, binary data, Strings and NULL.                                *)
EXTENDS QueryParams

Coder(enc, format) == [enc |-> enc, elem |-> "none", format |-> format]
Around(enc, elem, format) == [enc |-> enc, elem |-> elem, format |-> format]

Hash_(value, format) == [t |-> "hash", len |-> 20, value |-> value, format |-> format]

(* Encoders ask for more than they need, 23 bytes for a Float: one takes   *)
(* them all, the other one leaves room for more values in its chunk.       *)
Narrow == {Int_(99), Float_(TRUE, -308, 16), Float_(FALSE, 2, 1), Str_(6, 12, FALSE, FALSE), None}
Wide ==
  Narrow \cup
    {Int_(0), Int_(-1000000), Big_(20, 16), Float_(FALSE, -3, 5), Float_(TRUE, 0, 0),
     Str_(3, 0, TRUE, FALSE), Str_(3, 0, FALSE, TRUE), Time_(1700), Date_, Bool_,
     Hash_(Str_(3, 0, FALSE, FALSE), 1), Hash_(Int_(5), 0), Hash_(None, 0)}

(* Where the digits or the bits of an Integer become more, and Floats with *)
(* the longest texts of both formats.                                      *)
Edges ==
  {Int_(n) : n \in UNION {{10^k - 1, 10^k, -(10^k)} : k \in 0..9}
               \cup UNION {{2^k - 1, 2^k, 1 - 2^k} : k \in 1..30}}
    \cup {Float_(TRUE, e, d) : e \in {-324, -100, -5, -4, -1, 0, 14, 15, 308}, d \in {1, 2, 15, 16}}

(* Up to two parameters of all kinds, three and four of few kinds. *)
MCParamLists ==
  {<<>>} \cup {<<v>> : v \in Wide \cup Edges} \cup (Wide \X Narrow)
    \cup (Narrow \X Narrow \X Narrow) \cup [1..4 -> Narrow]

Types == {"nil", "int", "big", "float", "str", "time", "date", "bool", "hash"}
ByType(kind, coder) ==
  [kind |-> kind, convs |-> [t \in Types |-> IF t \in DOMAIN coder THEN coder[t] ELSE None]]

TextMap ==
  ByType("class", [int |-> Coder("integer", 0), big |-> Coder("numeric", 0),
                   float |-> Coder("float", 0), str |-> Coder("bytea", 0),
                   bool |-> Coder("boolean", 0), time |-> Coder("integer", 1),
                   date |-> Coder("ruby", 0), nil |-> ProcNil, hash |-> Coder("bytea", 0)])
BinaryMap ==
  ByType("mri", [int |-> Coder("int8", 1), big |-> Coder("int2", 1), float |-> Coder("float8", 1),
                 str |-> Coder("string", 1), bool |-> Coder("bin_boolean", 1),
                 time |-> Coder("timestamp", 1), date |-> Coder("date", 1)])
MixedMap ==
  ByType("class", [int |-> Coder("numeric", 0), float |-> Coder("float4", 1),
                   str |-> Around("to_base64", "bytea", 0), time |-> Coder("float", 0),
                   date |-> Coder("integer", 0), big |-> Coder("boolean", 0),
                   bool |-> Coder("int4", 1)])
ProcMap == ByType("mri", [nil |-> ProcNil])
ColumnsMap == [kind |-> "column", convs |-> <<None, Around("to_base64", "integer", 0)>>]
RubyMap(answer) == [kind |-> "ruby", answer |-> answer]

MCQueryMaps ==
  {<<>>, <<TextMap>>, <<BinaryMap, TextMap>>, <<MixedMap>>, <<ProcMap, ColumnsMap, TextMap>>,
   <<ColumnsMap, RubyMap(Inherit), BinaryMap>>, <<RubyMap(None), ColumnsMap>>,
   <<RubyMap(NotACoder)>>, <<RubyMap(Around("to_base64", "none", 0))>>, <<[kind |-> "oid"]>>}

(* FromBase64 around a coder that writes to the buffer itself. *)
FromBase64Maps == {<<RubyMap(Around("from_base64", "bytea", 1))>>}
=============================================================================
