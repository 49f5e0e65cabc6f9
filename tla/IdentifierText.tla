--------------------------- MODULE IdentifierText ---------------------------
(***************************************************************************)
(* PG::TextEncoder::Identifier (ext/pg_text_encoder.c), which is also      *)
(* PG::Connection.quote_ident, and PG::TextDecoder::Identifier             *)
(* (ext/pg_text_decoder.c).                                                *)
(***************************************************************************)
EXTENDS RowScanner

CONSTANTS
  Identifiers,       \* sequences of names to encode
  IdentifierTexts    \* other texts to decode

ASSUME IdentifierAssumption ==
  /\ Identifiers \subseteq Seq(Fields)
  /\ IdentifierTexts \subseteq Seq(Byte)

DOT == 46

IdentifierInit == CoderInit("identifier", Identifiers, IdentifierTexts, <<>>, "out")

(* pg_text_enc_identifier: the names in quotes, with a dot between them,   *)
(* and each quote doubled; a NUL is refused.                               *)
IdentifierSpecial == {QUOTE}
IdentifierEscape == [c \in IdentifierSpecial |-> c]

NulAhead == j \in 1..Len(value[i].str) /\ value[i].str[j] = NUL

pg_text_enc_identifier ==
  /\ codec = "identifier"
  /\ \/ EncodeString(<<DOT>>, <<QUOTE>>)
     \/ i <= Len(value) /\ ~NulAhead /\ EncodeByte(IdentifierSpecial, IdentifierEscape)
     \/ mode = "encode" /\ i <= Len(value) /\ NulAhead /\ Raise
     \/ EncodeStringEnd(<<QUOTE>>)
     \/ EncodeEnd(<<>>)

-----------------------------------------------------------------------------
(* pg_text_dec_identifier.  The states are those of openQuote: out for 0,  *)
(* quote for 1 and in for 2.                                               *)

IdentifierDecoding == codec = "identifier" /\ mode = "decode"
InName == IdentifierDecoding /\ cur <= Len(input)

IdentifierDot ==
  /\ InName
  /\ input[cur] = DOT /\ state # "in"
  /\ row' = Append(row, Str(word)) /\ word' = <<>>
  /\ state' = "out"
  /\ cur' = cur + 1
  /\ UNCHANGED <<codec, encVars, input, start, stack, mode>>

AfterQuote == IF state = "in" THEN "quote" ELSE "in"

IdentifierByte ==
  /\ InName
  /\ input[cur] = DOT => state = "in"
  /\ word' = IF input[cur] = QUOTE /\ state # "quote" THEN word ELSE Append(word, input[cur])
  /\ state' = IF input[cur] = QUOTE THEN AfterQuote ELSE state
  /\ cur' = cur + 1
  /\ UNCHANGED <<codec, encVars, input, start, stack, row, mode>>

IdentifierEnd ==
  /\ IdentifierDecoding /\ cur > Len(input)
  /\ row' = Append(row, Str(word)) /\ word' = <<>>
  /\ mode' = "done"
  /\ UNCHANGED <<codec, encVars, input, start, cur, state, stack>>

IdentifierNext ==
  pg_text_enc_identifier \/ IdentifierDot \/ IdentifierByte \/ IdentifierEnd

IdentifierSpec == IdentifierInit /\ [][IdentifierNext]_rowVars

(* The names are strings. *)
ASSUME IdentifierNames == \A v \in Identifiers : \A k \in DOMAIN v : v[k] = Str(v[k].str)

-----------------------------------------------------------------------------
(* Properties *)

(* Names come back from PG::TextDecoder::Identifier as they were quoted,   *)
(* dots and quotes in them included, and exactly the names with a NUL are  *)
(* refused.                                                                *)
IdentifierRoundTrip ==
  codec = "identifier" /\ value # <<>> =>
    /\ mode = "done" => row = value
    /\ mode \in {"done", "error"} =>
         (mode = "error" <=> \E k \in DOMAIN value : \E m \in DOMAIN value[k].str : value[k].str[m] = NUL)
=============================================================================
