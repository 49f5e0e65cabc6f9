--------------------------- MODULE ScalarEncoders ---------------------------
(***************************************************************************)
(* The encoders that write to memory of their caller, as the sizes they    *)
(* tell and use (ext/pg_text_encoder.c, ext/pg_binary_encoder.c).  They    *)
(* are called twice: the first call returns the size of the buffer that    *)
(* they ask for, or -1 if they made a String instead; the second one       *)
(* writes, and returns the length of what it wrote.                        *)
(*                                                                         *)
(* What is written is left out.  An encoder maps a value to                *)
(*   size    the result of the first call, Direct or Raises                *)
(*   len     the result of the second call, or Raises; the length of the   *)
(*           String                                                        *)
(*   extent  the bytes of the buffer that the second call writes to        *)
(***************************************************************************)
EXTENDS Integers

CONSTANT
  ClzOfZero   \* what __builtin_clzll(0) returns, which C leaves open

ASSUME ClzAssumption == ClzOfZero \in 0..64

Direct == -1
Raises == -2

(* Values: Fixnums, Bignums, Floats by their sign, decimal exponent and    *)
(* number of significant digits (none for an infinite one), Strings by     *)
(* their length, the number they begin with, whether they have to be       *)
(* transcoded and whether they have a NUL byte, and objects that respond   *)
(* to to_i (Time) or do not (true, Date, Hash).                            *)
Int_(n) == [t |-> "int", n |-> n]
Big_(len, digits) == [t |-> "big", len |-> len, digits |-> digits]
Float_(neg, exp10, digits) == [t |-> "float", neg |-> neg, exp10 |-> exp10, digits |-> digits]
Str_(len, n, foreign, nul) ==
  [t |-> "str", len |-> len, n |-> n, foreign |-> foreign, nul |-> nul]
Time_(n) == [t |-> "time", len |-> 25, n |-> n]
Date_ == [t |-> "date", len |-> 10]
Bool_ == [t |-> "bool", len |-> 4]

Fixed(n) == [size |-> n, len |-> n, extent |-> n]
Failing == [size |-> Raises, len |-> Raises, extent |-> 0]

RaisesLate(n) == [size |-> n, len |-> Raises, extent |-> 0]

Abs(n) == IF n < 0 THEN -n ELSE n
Larger(a, b) == IF a < b THEN b ELSE a

Bits[n \in Nat] == IF n = 0 THEN 0 ELSE 1 + Bits[n \div 2]
Digits[n \in Nat] == IF n < 10 THEN 1 ELSE 1 + Digits[n \div 10]

IntegerLen(n) == Digits[Abs(n)] + (IF n < 0 THEN 1 ELSE 0)

(* The digits without trailing zeros, the dot, and at least one digit      *)
(* behind it; or the exponent.                                             *)
FloatLen(v) ==
  LET sign == IF v.neg THEN 1 ELSE 0
      lz   == Larger(v.exp10, 0)
      last == CASE v.exp10 < 0 -> v.digits - v.exp10
                [] v.exp10 >= 0 /\ v.digits - 1 <= lz -> v.digits - 1
                [] OTHER -> v.digits
  IN  CASE v.digits = 0 -> sign + 8
        [] v.digits > 0 /\ v.exp10 \in -4..14 -> sign + Larger(last, lz + 2) + 1
        [] OTHER -> sign + v.digits + (IF v.digits > 1 THEN 1 ELSE 0) + 1 + IntegerLen(v.exp10)

(* The length of to_s, in the encoding of the connection. *)
TextLen(v) ==
  CASE v.t = "int" -> IntegerLen(v.n)
    [] v.t = "float" -> FloatLen(v)
    [] OTHER -> v.len

pg_coder_enc_to_s(v) == [size |-> Direct, len |-> TextLen(v), extent |-> 0]

-----------------------------------------------------------------------------
(* Text format *)

count_leading_zero_bits(n) == IF n = 0 THEN ClzOfZero ELSE 64 - Bits[n]

(* A decimal digit for every three bits, and one for the rest. *)
IntegerSize_bits(n) ==
  (64 - count_leading_zero_bits(Abs(n))) \div 4 + (IF n < 0 THEN 2 ELSE 1)
IntegerSize(n) ==
  (64 - count_leading_zero_bits(Abs(n))) \div 3 + (IF n < 0 THEN 2 ELSE 1)

(* Of to_i, which Date, Hash and true do not have. *)
pg_text_enc_integer(v) ==
  CASE v.t \in {"int", "str", "time"} ->
         [size |-> IntegerSize(v.n), len |-> IntegerLen(v.n), extent |-> IntegerLen(v.n)]
    [] v.t \in {"float", "big"} -> pg_coder_enc_to_s(v)
    [] OTHER -> Failing

(* NUM2LONG raises for a Bignum. *)
pg_text_enc_boolean(v) ==
  CASE v.t = "bool" -> Fixed(1)
    [] v.t = "big" -> Failing
    [] v.t = "int" -> IF v.n \in {0, 1} THEN Fixed(1) ELSE pg_text_enc_integer(v)
    [] OTHER -> pg_coder_enc_to_s(v)

(* NUM2DBL *)
AsFloat(v) ==
  CASE v.t = "float" -> v
    [] v.t = "int" -> Float_(v.n < 0, Digits[Abs(v.n)] - 1, 1)
    [] v.t = "big" -> Float_(FALSE, v.len - 1, v.digits)

MAX_DOUBLE_DIGITS == 16
FloatSize == 1 + MAX_DOUBLE_DIGITS + 1 + 1 + 1 + 3

(* The conversion to double is left to the second call. *)
pg_text_enc_float(v) ==
  IF v.t \in {"float", "int", "big"}
  THEN [size |-> FloatSize, len |-> FloatLen(AsFloat(v)), extent |-> FloatLen(AsFloat(v))]
  ELSE RaisesLate(FloatSize)

pg_text_enc_numeric(v) ==
  CASE v.t \in {"int", "big"} -> pg_text_enc_integer(v)
    [] v.t = "float" -> pg_text_enc_float(v)
    [] OTHER -> pg_coder_enc_to_s(v)

pg_text_enc_bytea(v) == Fixed(2 + 2 * TextLen(v))

-----------------------------------------------------------------------------
(* Binary format *)

pg_bin_enc_boolean(v) == IF v.t = "bool" THEN Fixed(1) ELSE Failing

(* A number that does not fit NUM2INT, NUM2LONG or NUM2LL raises in the     *)
(* second call; Floats are compared by their number of digits.             *)
BinaryInt(v, bytes, digits) ==
  CASE v.t \in {"int", "str", "time"} -> Fixed(bytes)
    [] v.t = "float" -> IF v.digits > 0 /\ v.exp10 < digits THEN Fixed(bytes) ELSE RaisesLate(bytes)
    [] v.t = "big" -> RaisesLate(bytes)
    [] OTHER -> Failing
pg_bin_enc_int2(v) == BinaryInt(v, 2, 9)
pg_bin_enc_int4(v) == BinaryInt(v, 4, 18)
pg_bin_enc_int8(v) == BinaryInt(v, 8, 18)

BinaryFloat(v, bytes) ==
  IF v.t \in {"float", "int", "big"} THEN Fixed(bytes) ELSE RaisesLate(bytes)
pg_bin_enc_float4(v) == BinaryFloat(v, 4)
pg_bin_enc_float8(v) == BinaryFloat(v, 8)

(* Strings are sent as they are, except those for infinity, which become   *)
(* true or false in the first call and are like Bool_ here.                *)
pg_bin_enc_timestamp(v) ==
  CASE v.t = "str" -> pg_coder_enc_to_s(v)
    [] v.t \in {"time", "int", "float", "bool"} -> Fixed(8)
    [] OTHER -> RaisesLate(8)
pg_bin_enc_date(v) ==
  CASE v.t = "str" -> pg_coder_enc_to_s(v)
    [] v.t \in {"date", "bool"} -> Fixed(4)
    [] OTHER -> RaisesLate(4)

-----------------------------------------------------------------------------
(* Encoders around another one: its output is written to the buffer and    *)
(* converted in place.                                                     *)

BASE64_ENCODED_SIZE(n) == ((n + 2) \div 3) * 4
BASE64_DECODED_SIZE(n) == ((n + 3) \div 4) * 3

pg_text_enc_to_base64(e) ==
  CASE e.size = Raises -> e
    [] e.size = Direct -> [e EXCEPT !.len = BASE64_ENCODED_SIZE(e.len)]
    [] e.size >= 0 /\ e.len < 0 -> [e EXCEPT !.size = BASE64_ENCODED_SIZE(e.size)]
    [] OTHER -> [size   |-> BASE64_ENCODED_SIZE(e.size),
                 len    |-> BASE64_ENCODED_SIZE(e.len),
                 extent |-> Larger(BASE64_ENCODED_SIZE(e.len), e.extent)]

(* The decoded length is that of text without other characters. *)
pg_bin_enc_from_base64(e) ==
  CASE e.size = Raises -> e
    [] e.size = Direct -> [e EXCEPT !.len = (e.len * 3) \div 4]
    [] e.size >= 0 /\ e.len < 0 -> [e EXCEPT !.size = BASE64_DECODED_SIZE(e.size)]
    [] OTHER -> [size   |-> BASE64_DECODED_SIZE(e.size),
                 len    |-> (e.len * 3) \div 4,
                 extent |-> e.extent]

-----------------------------------------------------------------------------
(* enc_func: what the encoder f does with value v. *)
SimpleEncode(f, v) ==
  CASE f = "boolean" -> pg_text_enc_boolean(v)
    [] f = "integer" -> pg_text_enc_integer(v)
    [] f = "float" -> pg_text_enc_float(v)
    [] f = "numeric" -> pg_text_enc_numeric(v)
    [] f = "bytea" -> pg_text_enc_bytea(v)
    [] f = "bin_boolean" -> pg_bin_enc_boolean(v)
    [] f = "int2" -> pg_bin_enc_int2(v)
    [] f = "int4" -> pg_bin_enc_int4(v)
    [] f = "int8" -> pg_bin_enc_int8(v)
    [] f = "float4" -> pg_bin_enc_float4(v)
    [] f = "float8" -> pg_bin_enc_float8(v)
    [] f = "timestamp" -> pg_bin_enc_timestamp(v)
    [] f = "date" -> pg_bin_enc_date(v)
    [] OTHER -> pg_coder_enc_to_s(v)

(* A coder has its function, its format, and that of its elements. *)
Encode(c, v) ==
  CASE c.enc = "to_base64" -> pg_text_enc_to_base64(SimpleEncode(c.elem, v))
    [] c.enc = "from_base64" -> pg_bin_enc_from_base64(SimpleEncode(c.elem, v))
    [] OTHER -> SimpleEncode(c.enc, v)
=============================================================================
