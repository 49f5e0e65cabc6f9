---------------------------- MODULE CopyRowText ----------------------------
(***************************************************************************)
(* PG::TextEncoder::CopyRow and PG::TextDecoder::CopyRow of                *)
(* ext/pg_copy_coder.c.                                                    *)
(***************************************************************************)
EXTENDS RowScanner

CONSTANTS
  CopyRows,    \* rows to encode, with at least one field
  CopyTexts,   \* other texts to decode
  Delimiter,   \* the column separator
  NullString   \* the text of NULL

ASSUME CopyAssumption ==
  /\ CopyRows \subseteq Seq(Fields)
  /\ CopyTexts \subseteq Seq(Byte)
  /\ Delimiter \in Byte \ {NL, BACKSLASH}
  /\ NullString \in Seq(Byte)

(* The decoder compares a field with the text of NULL by strncmp, which    *)
(* would not look behind a NUL in it.                                      *)
ASSUME NullStringAssumption == \A k \in DOMAIN NullString : NullString[k] # NUL

CopyInit == CoderInit("copy", CopyRows, CopyTexts, <<>>, "scan")

-----------------------------------------------------------------------------
(* pg_text_enc_copy_row *)

CopySpecial == {BACKSLASH, NL, CR, Delimiter}
CopyEscape == [c \in CopySpecial |-> BACKSLASH]

pg_text_enc_copy_row ==
  /\ codec = "copy"
  /\ EncodeRow(<<Delimiter>>, NullString, <<>>, <<NL>>, CopySpecial, CopyEscape)

-----------------------------------------------------------------------------
(* pg_text_dec_copy_row *)

Octal(k) == At(k) \in 48..55

(* The value of a hexadecimal digit, or -1. *)
GetDecimalFromHex(c) ==
  CASE c \in 48..57 -> c - 48
    [] c \in 97..102 -> c - 87
    [] c \in 65..70 -> c - 55
    [] OTHER -> -1

(* The letters that stand for control characters: b f n r t v. *)
Control == [c \in {98, 102, 110, 114, 116, 118} |->
              CASE c = 98 -> 8 [] c = 102 -> FF [] c = 110 -> NL
                [] c = 114 -> CR [] c = 116 -> TAB [] c = 118 -> VT]

(* The byte that the escape sequence with its backslash at position k      *)
(* stands for, and the position after the sequence.                        *)
OctalEscape(k) ==
  LET d(n) == At(k + n) - 48 IN
  CASE Octal(k + 2) /\ Octal(k + 3) ->
         [c |-> (64 * d(1) + 8 * d(2) + d(3)) % 256, next |-> k + 4]
    [] Octal(k + 2) /\ ~Octal(k + 3) -> [c |-> 8 * d(1) + d(2), next |-> k + 3]
    [] OTHER -> [c |-> d(1), next |-> k + 2]

HexEscape(k) ==
  LET h(n) == GetDecimalFromHex(At(k + n)) IN
  CASE h(2) >= 0 /\ h(3) >= 0 -> [c |-> 16 * h(2) + h(3), next |-> k + 4]
    [] h(2) >= 0 /\ h(3) < 0 -> [c |-> h(2), next |-> k + 3]
    [] OTHER -> [c |-> At(k + 1), next |-> k + 2]

EscapeAt(k) ==
  CASE Octal(k + 1) -> OctalEscape(k)
    [] At(k + 1) = 120 -> HexEscape(k)
    [] At(k + 1) \in DOMAIN Control -> [c |-> Control[At(k + 1)], next |-> k + 2]
    [] OTHER -> [c |-> At(k + 1), next |-> k + 2]

Decoding(name) == codec = name /\ mode = "decode"

(* Scanning within a field: escapes are resolved speculatively. *)
CopyByte ==
  /\ Decoding("copy")
  /\ cur <= Len(input)
  /\ input[cur] \notin {Delimiter, NL}
  /\ IF input[cur] = BACKSLASH
     THEN /\ cur < Len(input)
          /\ word' = Append(word, EscapeAt(cur).c)
          /\ cur' = EscapeAt(cur).next
     ELSE word' = Append(word, input[cur]) /\ cur' = cur + 1
  /\ UNCHANGED <<codec, encVars, input, start, state, stack, row, mode>>

(* The field that ends before position e: its raw text decides whether it  *)
(* is NULL.                                                                *)
FieldOf_word(e) == IF word = NullString THEN Nil ELSE Str(word)
FieldOf(e) == IF SubSeq(input, start, e - 1) = NullString THEN Nil ELSE Str(word)

(* A delimiter ends the field, and another one follows. *)
CopyDelimiter ==
  /\ Decoding("copy")
  /\ cur <= Len(input)
  /\ input[cur] = Delimiter
  /\ row' = Append(row, FieldOf(cur)) /\ word' = <<>>
  /\ cur' = cur + 1
  /\ start' = cur + 1
  /\ UNCHANGED <<codec, encVars, input, state, stack, mode>>

(* The end of the text, a linefeed, or a backslash with nothing behind it  *)
(* ends the row; nothing may follow.                                       *)
CopyRowEnds ==
  \/ cur > Len(input)
  \/ At(cur) = NL
  \/ At(cur) = BACKSLASH /\ cur = Len(input)

CopyRowEnd ==
  /\ Decoding("copy")
  /\ CopyRowEnds
  /\ IF cur < Len(input)
     THEN Raise
     ELSE /\ row' = Append(row, FieldOf(cur)) /\ word' = <<>>
          /\ cur' = Len(input) + 1
          /\ mode' = "done"
          /\ UNCHANGED <<codec, encVars, input, start, state, stack>>

CopyNext == pg_text_enc_copy_row \/ CopyByte \/ CopyDelimiter \/ CopyRowEnd

CopySpec == CopyInit /\ [][CopyNext]_rowVars

(* Settings with which every row can be read back.  A delimiter that is    *)
(* part of an escape sequence is none there: COPY itself refuses the small *)
(* letters and the digits, and A to F would be read as part of a \x.  No   *)
(* string is written like the NULL string, be it a backslash sequence as   *)
(* \N, or a plain text that is none of the strings, as the empty one often *)
(* is.                                                                     *)
EscapeLetters == 48..55 \cup DOMAIN Control \cup {120}
NullIsEscape == \E c \in Byte : /\ NullString = <<BACKSLASH, c>>
                                 /\ c \notin CopySpecial \cup EscapeLetters
NullIsPlain ==
  /\ \A k \in DOMAIN NullString : NullString[k] \notin {Delimiter, NL, BACKSLASH}
  /\ \A r \in CopyRows : \A k \in DOMAIN r : r[k] # Str(NullString)

ASSUME CopyReadable ==
  /\ \A r \in CopyRows : IsRow(r)
  /\ Delimiter \notin EscapeLetters /\ GetDecimalFromHex(Delimiter) = -1
  /\ NullIsEscape \/ NullIsPlain

-----------------------------------------------------------------------------
(* Properties *)

(* A row comes back from PG::TextDecoder::CopyRow as it was encoded,       *)
(* whatever it contains: delimiters, linefeeds, backslashes and texts that *)
(* look like the NULL string.                                              *)
CopyRoundTrip == codec = "copy" => RoundTrip

(* The right to left loop of pg_text_enc_copy_row never overwrites a byte  *)
(* that it has still to move.                                              *)
CopyEscapeRoom == codec = "copy" => EscapeRoom(CopySpecial, 0)

(* The reference for any text: a delimiter or linefeed counts if an even   *)
(* number of backslashes precedes it.                                      *)
Escaped(k) ==
  \E n \in 1..(k - 1) :
    /\ n % 2 = 1
    /\ \A m \in (k - n)..(k - 1) : input[m] = BACKSLASH
    /\ k - n = 1 \/ input[k - n - 1] # BACKSLASH
Ends(C) == {k \in 1..Len(input) : input[k] \in C /\ ~Escaped(k)}
LastEnd ==     \* a backslash at the end of the text escapes nothing
  IF Len(input) \in Ends({BACKSLASH}) THEN Len(input) ELSE Len(input) + 1
RawFields ==   \* where the fields of the text begin and end
  {r \in (1..(Len(input) + 1)) \X (1..(Len(input) + 1)) :
     /\ r[1] <= r[2]
     /\ r[1] = 1 \/ r[1] - 1 \in Ends({Delimiter})
     /\ r[2] = LastEnd \/ r[2] \in Ends({Delimiter, NL})
     /\ \A k \in r[1]..(r[2] - 1) : k \notin Ends({Delimiter, NL})
     /\ r[1] = Len(input) + 1 => Len(input) \notin Ends({NL})}

(* The decoder accepts exactly the texts with no linefeed before their     *)
(* end, cuts them at the delimiters of the reference, and makes NULL of    *)
(* exactly the fields that are spelled like the NULL string before any     *)
(* escape is resolved.                                                     *)
CopyFieldsSplit ==
  codec = "copy" =>
    /\ mode = "error" => \E k \in Ends({NL}) : k < Len(input)
    /\ mode = "done" =>
         /\ \A k \in Ends({NL}) : k = Len(input)
         /\ Len(row) = Cardinality(RawFields)
         /\ Cardinality({n \in DOMAIN row : row[n].kind = "nil"})
              = Cardinality({r \in RawFields : SubSeq(input, r[1], r[2] - 1) = NullString})

(* The decoder stays within the text, never reads a byte twice, and        *)
(* returns a row only when all of the text is used.                        *)
CopyInBounds ==
  codec = "copy" /\ mode \in {"decode", "done", "error"} =>
    /\ cur \in 1..(Len(input) + 1)
    /\ start \in 1..cur
    /\ Len(word) <= cur - start
    /\ mode = "done" => cur = Len(input) + 1
=============================================================================
