----------------------------- MODULE RowScanner -----------------------------
(***************************************************************************)
(* What the coders for rows and arrays have in common (pg_copy_coder.c,    *)
(* pg_record_coder.c and the array coders in ext/): the encoder's loop     *)
(* over the fields of a value, the two ways in which it escapes a field,   *)
(* and the state of the decoders, which walk over the text with one        *)
(* pointer.  Characters are byte values.  A decoder reads the text that    *)
(* the encoder has produced, or any other text.                            *)
(***************************************************************************)
EXTENDS Integers, Sequences, FiniteSets

VARIABLES
  codec,    \* the coder at work
  value,    \* the fields to encode, <<>> when there are none
  i, j,     \* the encoder's position: field and byte, j = 0 before a field
  ptr1,     \* the number of bytes of input before ptr1 and before ptr2, while
  ptr2,     \* a field is escaped in place
  input,    \* the text: output of the encoder, input of the decoder
  cur,      \* cur_ptr, counted from 1
  start,    \* the first byte of the current field: start_ptr of the decoder,
            \* current_out while the encoder escapes in place
  word,     \* field_str up to output_ptr
  state,    \* where the decoder is: each of them has its own states
  stack,    \* the calls of the array decoder, the innermost last
  row,      \* the decoded fields
  mode      \* encode, escape, decode, done, or error when a coder has raised

encVars == <<value, i, j, ptr1, ptr2>>
decVars == <<cur, word, state, stack, row>>
rowVars == <<codec, encVars, input, start, decVars, mode>>

Byte == 0..255
NUL == 0
TAB == 9
NL == 10
VT == 11
FF == 12
CR == 13
SPACE == 32
QUOTE == 34
COMMA == 44
BACKSLASH == 92

(* A field of a row: SQL NULL or a string.  An array is the sequence of    *)
(* its elements with an Open and a Close around those of each (sub)array.  *)
Nil == [kind |-> "nil", str |-> <<>>]
Str(s) == [kind |-> "str", str |-> s]
Open == [kind |-> "open", str |-> <<>>]
Close == [kind |-> "close", str |-> <<>>]
Fields == [kind : {"nil", "str", "open", "close"}, str : Seq(Byte)]

(* The fields of a row are not arrays. *)
IsRow(v) == \A k \in DOMAIN v : v[k] = Nil \/ v[k] = Str(v[k].str)

(* The depth of the array that the k-th token of v is in. *)
Within(v, k) ==
  Cardinality({m \in 1..(k - 1) : v[m].kind = "open"})
    - Cardinality({m \in 1..(k - 1) : v[m].kind = "close"})

(* A value of Values is encoded and then decoded, or a text of Texts is    *)
(* decoded.                                                                *)
CoderInit(name, Values, Texts, prefix, first) ==
  /\ codec = name
  /\ i = 1 /\ j = 0 /\ ptr1 = 0 /\ ptr2 = 0
  /\ cur = 1 /\ start = 1 /\ word = <<>> /\ row = <<>>
  /\ state = first /\ stack = <<>>
  /\ \/ value \in Values /\ input = prefix /\ mode = "encode"
     \/ value = <<>> /\ input \in Texts /\ mode = "decode"

-----------------------------------------------------------------------------
(* The encoders *)

(* Positions of the bytes of s that have to be escaped. *)
Escapes_backslash(s, Special) == {k \in DOMAIN s : s[k] = BACKSLASH}
Escapes(s, Special) == {k \in DOMAIN s : s[k] \in Special}

(* The head of the loop writes the separator, then NULL or what opens a    *)
(* field.  The encoder of the element either returns a String, which is    *)
(* copied byte by byte, or writes into the output buffer, behind which     *)
(* there is room for the escapes.                                          *)
FieldStart(sep, open) == input \o (IF i = 1 THEN <<>> ELSE sep) \o open

EncodeNull(sep, null) ==
  /\ mode = "encode" /\ i <= Len(value) /\ j = 0
  /\ value[i].kind = "nil"
  /\ input' = FieldStart(sep, null)
  /\ i' = i + 1
  /\ UNCHANGED <<codec, value, j, ptr1, ptr2, start, decVars, mode>>

EncodeString(sep, open) ==
  /\ mode = "encode" /\ i <= Len(value) /\ j = 0
  /\ value[i].kind = "str"
  /\ input' = FieldStart(sep, open)
  /\ j' = 1
  /\ UNCHANGED <<codec, value, i, ptr1, ptr2, start, decVars, mode>>

EncodeBuffer(sep, open, Special) ==
  LET str == value[i].str
      backslashes == Cardinality(Escapes(str, Special))
  IN
  /\ mode = "encode" /\ i <= Len(value) /\ j = 0
  /\ value[i].kind = "str"
  /\ input' = FieldStart(sep, open) \o str \o [k \in 1..backslashes |-> NUL]
  /\ start' = Len(FieldStart(sep, open)) + 1
  /\ ptr1' = Len(FieldStart(sep, open)) + Len(str)
  /\ ptr2' = Len(FieldStart(sep, open)) + Len(str) + backslashes
  /\ mode' = "escape"
  /\ UNCHANGED <<codec, value, i, j, decVars>>

(* One byte of a returned String. *)
EncodeByte(Special, escape) ==
  /\ mode = "encode" /\ i <= Len(value)
  /\ j \in 1..Len(value[i].str)
  /\ LET c == value[i].str[j] IN
       input' = input \o (IF c \in Special THEN <<escape[c], c>> ELSE <<c>>)
  /\ j' = j + 1
  /\ UNCHANGED <<codec, value, i, ptr1, ptr2, start, decVars, mode>>

EncodeStringEnd(close) ==
  /\ mode = "encode" /\ i <= Len(value)
  /\ j > 0 /\ j = Len(value[i].str) + 1
  /\ input' = input \o close
  /\ i' = i + 1 /\ j' = 0
  /\ UNCHANGED <<codec, value, ptr1, ptr2, start, decVars, mode>>

(* One byte of the buffer, from right to left. *)
MoveByte(Special, escape) ==
  /\ mode = "escape"
  /\ LET c == input[ptr1] IN
       IF c \in Special
       THEN input' = [input EXCEPT ![ptr2] = c, ![ptr2 - 1] = escape[c]] /\ ptr2' = ptr2 - 2
       ELSE input' = [input EXCEPT ![ptr2] = c] /\ ptr2' = ptr2 - 1
  /\ ptr1' = ptr1 - 1
  /\ UNCHANGED <<codec, value, i, j, start, decVars, mode>>

(* The loop of the row encoders stops as soon as all escapes are placed. *)
EscapeByte(Special, escape) == ptr1 # ptr2 /\ MoveByte(Special, escape)

EscapeEnd(close) ==
  /\ mode = "escape" /\ ptr1 = ptr2
  /\ input' = input \o close
  /\ i' = i + 1 /\ mode' = "encode"
  /\ UNCHANGED <<codec, value, j, ptr1, ptr2, start, decVars>>

EncodeEnd(end) ==
  /\ mode = "encode" /\ i > Len(value)
  /\ input' = input \o end
  /\ start' = 1
  /\ mode' = "decode"
  /\ UNCHANGED <<codec, encVars, decVars>>

(* The whole encoder of a row. *)
EncodeRow(sep, null, quote, end, Special, escape) ==
  \/ EncodeNull(sep, null)
  \/ EncodeString(sep, quote)
  \/ EncodeBuffer(sep, quote, Special)
  \/ EncodeByte(Special, escape)
  \/ EncodeStringEnd(quote)
  \/ EscapeByte(Special, escape)
  \/ EscapeEnd(quote)
  \/ EncodeEnd(end)

-----------------------------------------------------------------------------
(* The decoders *)

(* The byte at position k, and the NUL that Ruby keeps behind the text.    *)
(* The lenient decoder of text arrays may look further than this one NUL,  *)
(* but goes on in the same way whatever it finds there (ArrayEnd).         *)
At(k) == IF k \in 1..Len(input) THEN input[k] ELSE NUL

Raise ==
  /\ mode' = "error"
  /\ UNCHANGED <<codec, encVars, input, start, decVars>>

-----------------------------------------------------------------------------
(* Properties of every coder *)

(* What was encoded comes back as it was: the decoder accepts the          *)
(* encoder's text and returns the same fields, whichever way each of them  *)
(* was escaped.                                                            *)
RoundTrip == value # <<>> /\ mode \in {"done", "error"} => mode = "done" /\ row = value

(* While a field is escaped in place, the room between the two pointers is *)
(* exactly what the bytes not yet moved need, and extra: no byte is        *)
(* overwritten before it is read.                                          *)
EscapeRoom(Special, extra) ==
  mode = "escape" =>
    /\ start - 1 <= ptr1 /\ ptr1 <= ptr2 /\ ptr2 <= Len(input)
    /\ ptr2 - ptr1 = extra + Cardinality({k \in start..ptr1 : input[k] \in Special})
    /\ \A k \in start..ptr1 : input[k] = value[i].str[k - start + 1]
=============================================================================
