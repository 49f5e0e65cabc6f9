--------------------------- MODULE CopyRowBinary ----------------------------
(***************************************************************************)
(* PG::BinaryEncoder::CopyRow and PG::BinaryDecoder::CopyRow of            *)
(* ext/pg_copy_coder.c.  A row is a count of fields in 16 bits and each    *)
(* field a length in 32 bits, -1 for NULL, and its bytes.                  *)
(***************************************************************************)
EXTENDS RowScanner

CONSTANTS
  BinaryRows,    \* rows to encode, with at least one field
  BinaryTexts    \* other texts to decode

ASSUME BinaryAssumption ==
  /\ BinaryRows \subseteq Seq(Fields)
  /\ BinaryTexts \subseteq Seq(Byte)

(* PGCOPY\n\377\r\n\0 *)
BinarySignature == <<80, 71, 67, 79, 80, 89, 10, 255, 13, 10, 0>>

BinaryInit == CoderInit("binary", BinaryRows, BinaryTexts, <<>>, "header")

-----------------------------------------------------------------------------
(* pg_bin_enc_copy_row *)

write_nbo16(n) == <<n \div 256, n % 256>>
write_nbo32(n) ==
  IF n = -1 THEN <<255, 255, 255, 255>>
  ELSE <<n \div 16777216, (n \div 65536) % 256, (n \div 256) % 256, n % 256>>

BinaryCount ==
  /\ codec = "binary" /\ mode = "encode" /\ input = <<>>
  /\ IF Len(value) >= 32768
     THEN Raise
     ELSE /\ input' = write_nbo16(Len(value))
          /\ UNCHANGED <<codec, encVars, start, decVars, mode>>

BinaryField ==
  /\ codec = "binary" /\ mode = "encode" /\ input # <<>> /\ i <= Len(value)
  /\ input' = input \o (IF value[i].kind = "nil"
                        THEN write_nbo32(-1)
                        ELSE write_nbo32(Len(value[i].str)) \o value[i].str)
  /\ i' = i + 1
  /\ UNCHANGED <<codec, value, j, ptr1, ptr2, start, decVars, mode>>

pg_bin_enc_copy_row ==
  BinaryCount \/ BinaryField \/ (codec = "binary" /\ input # <<>> /\ EncodeEnd(<<>>))

-----------------------------------------------------------------------------
(* pg_bin_dec_copy_row.  The states: header, count, field, and trailer     *)
(* when the row is nil.                                                    *)

read_nbo16(k) ==
  LET high == At(k) IN (IF high > 127 THEN high - 256 ELSE high) * 256 + At(k + 1)
read_nbo32(k) ==
  LET high == At(k) IN
  (IF high > 127 THEN high - 256 ELSE high) * 16777216
    + At(k + 1) * 65536 + At(k + 2) * 256 + At(k + 3)

(* line_end_ptr - cur_ptr, from position k *)
Left(k) == Len(input) + 1 - k
BinaryAt(s) == codec = "binary" /\ mode = "decode" /\ state = s

Move(n, s) ==
  /\ cur' = cur + n /\ state' = s
  /\ UNCHANGED <<codec, encVars, input, word, stack, mode>>

(* The signature, flags and extension of the file before the first row. *)
BinaryHeader ==
  /\ BinaryAt("header")
  /\ IF Left(cur) >= 11 /\ SubSeq(input, 1, 11) = BinarySignature
     THEN IF Left(cur) < 19 \/ read_nbo32(cur + 15) < 0
               \/ Left(cur) - 19 < read_nbo32(cur + 15)
          THEN Raise
          ELSE Move(19 + read_nbo32(cur + 15), "count") /\ UNCHANGED <<start, row>>
     ELSE Move(0, "count") /\ UNCHANGED <<start, row>>

(* The number of fields; -1 in place of it is the trailer of the file. *)
BinaryFieldCount ==
  /\ BinaryAt("count")
  /\ IF Left(cur) < 2 \/ read_nbo16(cur) < -1
     THEN Raise
     ELSE /\ start' = cur
          /\ Move(2, IF read_nbo16(cur) = -1 THEN "trailer" ELSE "field")
          /\ UNCHANGED row

nfields == read_nbo16(start)

BinaryFieldData ==
  LET input_len == read_nbo32(cur) IN
  /\ BinaryAt("field") /\ Len(row) < nfields
  /\ IF Left(cur) < 4 \/ input_len < -1 \/ Left(cur) - 4 < input_len
     THEN Raise
     ELSE /\ row' = Append(row, IF input_len = -1 THEN Nil
                                ELSE Str(SubSeq(input, cur + 4, cur + 3 + input_len)))
          /\ Move(IF input_len = -1 THEN 4 ELSE 4 + input_len, "field")
          /\ UNCHANGED start

BinaryEnd ==
  /\ BinaryAt("trailer") \/ (BinaryAt("field") /\ Len(row) >= nfields)
  /\ IF Left(cur) > 0
     THEN Raise
     ELSE mode' = "done" /\ UNCHANGED <<codec, encVars, input, start, decVars>>

pg_bin_dec_copy_row == BinaryHeader \/ BinaryFieldCount \/ BinaryFieldData \/ BinaryEnd

BinaryNext == pg_bin_enc_copy_row \/ pg_bin_dec_copy_row

BinarySpec == BinaryInit /\ [][BinaryNext]_rowVars

(* The rows that can be read back: a field of PostgreSQL is shorter than   *)
(* 1 GiB, so that its length is a positive number of 32 bits.  A row whose *)
(* count and first length are bytes of the signature has a longer one.     *)
MaxFieldSize == 1073741824
ASSUME BinaryReadable ==
  \A r \in BinaryRows :
    r # <<>> /\ IsRow(r) /\ \A k \in DOMAIN r : Len(r[k].str) < MaxFieldSize

-----------------------------------------------------------------------------
(* Properties *)

(* A row comes back from PG::BinaryDecoder::CopyRow as it was encoded, and *)
(* exactly the rows with more fields than a count has room for are         *)
(* refused.                                                                *)
BinaryRoundTrip ==
  codec = "binary" /\ value # <<>> =>
    /\ mode = "done" => row = value
    /\ mode \in {"done", "error"} => (mode = "error" <=> Len(value) >= 32768)

(* The reference: the text of fields k..Len(r), and of a row. *)
FieldText(f) ==
  IF f.kind = "nil" THEN write_nbo32(-1) ELSE write_nbo32(Len(f.str)) \o f.str
FieldsText(r) ==
  LET text[k \in 0..Len(r)] == IF k = 0 THEN <<>> ELSE text[k - 1] \o FieldText(r[k])
  IN  text[Len(r)]
BinaryText(r) == write_nbo16(Len(r)) \o FieldsText(r)

(* The decoder returns a row only for the text that encodes exactly this   *)
(* row: a text that was cut off, has other lengths in it or goes on after  *)
(* the row is refused, never read as a different row.                      *)
BinaryRowExact ==
  codec = "binary" =>
    /\ mode = "done" => SubSeq(input, start, Len(input)) =
                          IF state = "trailer" THEN <<255, 255>> ELSE BinaryText(row)
    /\ mode = "error" => \A r \in BinaryRows : Len(r) >= 32768 \/ BinaryText(r) # input

(* The decoder stays within the text, whatever lengths it finds there.     *)
BinaryInBounds ==
  codec = "binary" /\ mode \in {"decode", "done", "error"} =>
    cur \in 1..(Len(input) + 1) /\ start \in 1..cur
=============================================================================
