----------------------------- MODULE RecordText -----------------------------
(***************************************************************************)
(* PG::TextEncoder::Record and PG::TextDecoder::Record of                  *)
(* ext/pg_record_coder.c.  The decoder knows the end of the text only by   *)
(* the NUL behind it.                                                      *)
(***************************************************************************)
EXTENDS RowScanner

CONSTANTS
  RecordRows,    \* records to encode, with at least one field
  RecordTexts    \* other texts to decode

ASSUME RecordAssumption ==
  /\ RecordRows \subseteq Seq(Fields)
  /\ RecordTexts \subseteq Seq(Byte)

OPEN == 40
CLOSE == 41

RecordInit == CoderInit("record", RecordRows, RecordTexts, <<OPEN>>, "lead")

-----------------------------------------------------------------------------
(* pg_text_enc_record: a quote or backslash is doubled. *)

RecordSpecial == {QUOTE, BACKSLASH}
RecordEscape == [c \in RecordSpecial |-> c]

pg_text_enc_record ==
  /\ codec = "record"
  /\ EncodeRow(<<COMMA>>, <<>>, <<QUOTE>>, <<CLOSE>>, RecordSpecial, RecordEscape)

-----------------------------------------------------------------------------
(* pg_text_dec_record.  The states: lead before the record, field at the   *)
(* start of a field, out and in within a field outside and inside quotes,  *)
(* trail behind the record.                                                *)

record_isspace(c) == c \in {SPACE, TAB, NL, CR, VT, FF}

RecordAt(s) == codec = "record" /\ mode = "decode" /\ state = s

(* Leading whitespace, then the left parenthesis. *)
RecordLead ==
  /\ RecordAt("lead")
  /\ \/ /\ record_isspace(At(cur))
        /\ cur' = cur + 1 /\ UNCHANGED state
        /\ UNCHANGED <<codec, encVars, input, start, word, stack, row, mode>>
     \/ /\ At(cur) = OPEN
        /\ cur' = cur + 1 /\ state' = "field"
        /\ UNCHANGED <<codec, encVars, input, start, word, stack, row, mode>>
     \/ ~record_isspace(At(cur)) /\ At(cur) # OPEN /\ Raise

FieldEnd(k) == At(k) \in {COMMA, CLOSE}

(* A field is complete: skip the comma, or the right parenthesis. *)
EndField(f) ==
  /\ row' = Append(row, f) /\ word' = <<>>
  /\ cur' = cur + 1
  /\ state' = IF At(cur) = COMMA THEN "field" ELSE "trail"
  /\ UNCHANGED <<codec, encVars, input, start, stack, mode>>

RecordNull ==
  /\ RecordAt("field")
  /\ IF FieldEnd(cur)
     THEN EndField(Nil)
     ELSE state' = "out" /\ UNCHANGED <<codec, encVars, input, start, cur, word, stack, row, mode>>

RecordField ==
  /\ RecordAt("out") /\ FieldEnd(cur)
  /\ EndField(Str(word))

(* A byte of a field. *)
Take(n, s) ==   \* add the byte n places ahead
  /\ word' = Append(word, At(cur + n))
  /\ cur' = cur + n + 1
  /\ state' = s
  /\ UNCHANGED <<codec, encVars, input, start, stack, row, mode>>

RecordByte ==
  /\ RecordAt("in") \/ (RecordAt("out") /\ ~FieldEnd(cur))
  /\ CASE At(cur) = NUL -> Raise
       [] At(cur) = BACKSLASH -> IF At(cur + 1) = NUL THEN Raise ELSE Take(1, state)
       [] At(cur) = QUOTE ->
            IF state = "in" /\ At(cur + 1) = QUOTE
            THEN Take(1, "in")
            ELSE /\ cur' = cur + 1
                 /\ state' = IF state = "in" THEN "out" ELSE "in"
                 /\ UNCHANGED <<codec, encVars, input, start, word, stack, row, mode>>
       [] OTHER -> Take(0, state)

(* Trailing whitespace up to the end of the text. *)
RecordTrail ==
  /\ RecordAt("trail")
  /\ CASE At(cur) = NUL ->
            mode' = "done" /\ UNCHANGED <<codec, encVars, input, start, decVars>>
       [] record_isspace(At(cur)) ->
            cur' = cur + 1 /\ UNCHANGED <<codec, encVars, input, start, word, state, stack, row, mode>>
       [] OTHER -> Raise

RecordNext ==
  pg_text_enc_record \/ RecordLead \/ RecordNull \/ RecordField \/ RecordByte \/ RecordTrail

RecordSpec == RecordInit /\ [][RecordNext]_rowVars

(* The records that can be read back: a text of PostgreSQL has no NUL. *)
ASSUME RecordReadable ==
  \A r \in RecordRows : IsRow(r) /\ \A k \in DOMAIN r : \A m \in DOMAIN r[k].str : r[k].str[m] # NUL

-----------------------------------------------------------------------------
(* Properties *)

(* A record comes back from PG::TextDecoder::Record as it was encoded: an  *)
(* empty string is not NULL, and quotes, commas and parentheses within a   *)
(* field do not end it.                                                    *)
RecordRoundTrip == codec = "record" => RoundTrip

(* The right to left loop of pg_text_enc_record never overwrites a byte    *)
(* that it has still to move.                                              *)
RecordEscapeRoom == codec = "record" => EscapeRoom(RecordSpecial, 0)

(* The decoder, which has no length to compare with, never moves past the  *)
(* NUL behind the text: not in a field that is cut off, nor behind a       *)
(* backslash or a quote at the very end.                                   *)
RecordInBounds ==
  codec = "record" /\ mode \in {"decode", "done", "error"} =>
    /\ cur \in 1..(Len(input) + 1)
    /\ Len(word) < cur
    /\ mode = "done" => At(cur) = NUL
=============================================================================
