------------------------------- MODULE Codecs -------------------------------
(***************************************************************************)
(* The coders for rows, arrays and identifiers together: any one of them   *)
(* encodes and decodes one value, or decodes one text.                     *)
(***************************************************************************)
EXTENDS CopyRowText, CopyRowBinary, RecordText, ArrayText, ArrayBinary,
        IdentifierText

ASSUME CodersDistinct ==
  /\ (DOMAIN ArrayCoders \cup DOMAIN BinArrayCoders)
       \cap {"copy", "binary", "record", "identifier"} = {}
  /\ DOMAIN ArrayCoders \cap DOMAIN BinArrayCoders = {}

Init == CopyInit \/ BinaryInit \/ RecordInit \/ ArrayInit \/ BinArrayInit \/ IdentifierInit
Next == CopyNext \/ BinaryNext \/ RecordNext \/ ArrayNext \/ BinArrayNext \/ IdentifierNext
Spec == Init /\ [][Next]_rowVars

-----------------------------------------------------------------------------
(* Properties *)

(* Every row, every identifier and every array comes back from its decoder *)
(* as it was encoded, whatever it contains: delimiters, quotes,            *)
(* backslashes, line ends, texts that look like NULL, empty strings,       *)
(* nested arrays.  Only a binary row with too many fields, an identifier   *)
(* with a NUL in it and an array that the dimensions of its encoder do not *)
(* fit are refused.                                                        *)
ValuesComeBack ==
  /\ CopyRoundTrip
  /\ BinaryRoundTrip
  /\ RecordRoundTrip
  /\ IdentifierRoundTrip
  /\ ArrayRoundTrip

(* A uniform array comes back from PG::BinaryDecoder::Array, any other is  *)
(* refused by the encoder; and of other texts the decoder takes only those *)
(* with exactly as many items as their dimensions say.                     *)
BinaryArraysFit ==
  /\ BinArrayRoundTrip
  /\ BinArrayExact

(* A decoder returns a row or an array only for a text that spells it: a   *)
(* binary row that was cut off, has other counts or lengths in it, or goes *)
(* on behind its end is refused; a COPY row is cut where the reference     *)
(* cuts it; a text array is properly nested; and whatever the escapes in a *)
(* text say, what they stand for are bytes.                                *)
TextsReadExactly ==
  /\ BinaryRowExact
  /\ CopyFieldsSplit
  /\ ArrayWellNested
  /\ ~IsBinArray => row \in Seq(Fields) /\ word \in Seq(Byte)

(* The coders stay within their buffers.  The loops of                     *)
(* pg_text_enc_copy_row, pg_text_enc_record and quote_array_buffer, which  *)
(* escape a field in place from right to left, have room for every escape, *)
(* and never overwrite a byte that they have still to move.  The decoders  *)
(* of rows and of binary arrays stay within their text: the binary ones    *)
(* whatever lengths they find there, that of records, which has no length  *)
(* to compare with, at the NUL behind the text.                            *)
CodersInBounds ==
  /\ CopyEscapeRoom
  /\ RecordEscapeRoom
  /\ ArrayEscapeRoom
  /\ CopyInBounds
  /\ BinaryInBounds
  /\ BinArrayInBounds
  /\ RecordInBounds
=============================================================================
