---------------------------- MODULE ArrayBinary -----------------------------
(***************************************************************************)
(* PG::BinaryEncoder::Array (ext/pg_binary_encoder.c) and                  *)
(* PG::BinaryDecoder::Array (ext/pg_binary_decoder.c).  The text has the   *)
(* number of dimensions, the size of each, and then all the items in one   *)
(* list, from which the decoder builds the nested arrays again.            *)
(***************************************************************************)
EXTENDS CopyRowBinary

CONSTANTS
  BinArrayCoders,    \* name -> dimensions, -1 when not set
  BinArrayValues,    \* arrays to encode, nowhere nested deeper than in their
                     \* first elements and than the dimensions
  BinArrayTexts,     \* other texts to decode
  ElemOid            \* the OID of the coder for the elements

ASSUME BinArrayAssumption ==
  /\ \A c \in DOMAIN BinArrayCoders : BinArrayCoders[c] \in Int
  /\ BinArrayValues \subseteq Seq(Fields)
  /\ BinArrayTexts \subseteq Seq(Byte)
  /\ ElemOid \in Nat

MAXDIM == 6
INT_MAX == 2147483647

IsBinArray == codec \in DOMAIN BinArrayCoders

BinArrayInit ==
  \E c \in DOMAIN BinArrayCoders : CoderInit(c, BinArrayValues, BinArrayTexts, <<>>, "ahead")

-----------------------------------------------------------------------------
(* pg_bin_enc_array *)

IsItem(v, k) == v[k].kind \in {"nil", "str"}

(* RARRAY_LEN of the array that is opened at p. *)
Size(v, p) ==
  LET end == CHOOSE q \in (p + 1)..Len(v) :
               /\ v[q].kind = "close" /\ Within(v, q) = Within(v, p) + 1
               /\ \A m \in (p + 1)..(q - 1) : Within(v, m) > Within(v, p)
  IN  Cardinality({m \in (p + 1)..(end - 1) :
                     Within(v, m) = Within(v, p) + 1 /\ v[m].kind # "close"})

(* The dimensions and their sizes, as the first elements have them. *)
ndim(v) ==
  IF v[2].kind = "close" THEN 0
  ELSE CHOOSE n \in 1..Len(v) : v[n].kind = "open" /\ v[n + 1].kind # "open"
                                  /\ \A m \in 1..n : v[m].kind = "open"
dim_sizes(v) == [d \in 1..ndim(v) |-> Size(v, d)]

LessBinDimensions(v) ==
  LET n == IF ndim(v) = 0 THEN 1 ELSE ndim(v)
  IN  BinArrayCoders[codec] >= 0 /\ n # BinArrayCoders[codec]

(* What the first pass checks on its way through the array: each array on  *)
(* the way to the items is there and has the size of the first one.        *)
SameSizes(v) ==
  \A k \in 2..Len(v) :
    /\ v[k].kind = "open" => Size(v, k) = dim_sizes(v)[Within(v, k) + 1]
    /\ IsItem(v, k) => Within(v, k) = ndim(v)

(* The tokens of a value are nested as in an array. *)
ASSUME BinArraysNested ==
  \A v \in BinArrayValues : ndim(v) \in Nat /\ \A d \in 1..ndim(v) : Size(v, d) \in Nat

(* The size and the lower bound of each dimension, eight bytes together. *)
DimsText(v) ==
  [k \in 1..(8 * ndim(v)) |->
     (write_nbo32(dim_sizes(v)[(k - 1) \div 8 + 1]) \o write_nbo32(1))[((k - 1) % 8) + 1]]

BinArrayHeader ==
  /\ IsBinArray /\ mode = "encode" /\ i = 1
  /\ IF ndim(value) > MAXDIM \/ LessBinDimensions(value) \/ ~SameSizes(value)
     THEN Raise
     ELSE /\ input' = write_nbo32(ndim(value)) \o write_nbo32(1)
                        \o write_nbo32(ElemOid) \o DimsText(value)
          /\ i' = 2
          /\ UNCHANGED <<codec, value, j, ptr1, ptr2, start, decVars, mode>>

BinArrayItem ==
  /\ IsBinArray /\ mode = "encode" /\ i \in 2..Len(value)
  /\ input' = CASE value[i].kind = "nil" -> input \o write_nbo32(-1)
                [] value[i].kind = "str" -> input \o write_nbo32(Len(value[i].str)) \o value[i].str
                [] OTHER -> input
  /\ i' = i + 1
  /\ UNCHANGED <<codec, value, j, ptr1, ptr2, start, decVars, mode>>

pg_bin_enc_array ==
  BinArrayHeader \/ BinArrayItem \/ (IsBinArray /\ i > 1 /\ EncodeEnd(<<>>))

-----------------------------------------------------------------------------
(* pg_bin_dec_array.  The states: ahead of the dimensions, dims, and items *)
(* in the list.  start is where the list begins, and the stack has the     *)
(* arrays that are open, idx being their lengths.                          *)

BinArrayAt(s) == IsBinArray /\ mode = "decode" /\ state = s

BinArrayAhead ==
  /\ BinArrayAt("ahead")
  /\ IF Left(cur) < 12 \/ read_nbo32(cur) \notin 0..MAXDIM \/ read_nbo32(cur + 4) \notin {0, 1}
     THEN Raise
     ELSE Move(12, "dims") /\ UNCHANGED <<start, row>>

dims == read_nbo32(1)
DimSize(d) == read_nbo32(13 + 8 * (d - 1))

(* The product of the sizes, -1 if one of them or the product is refused.  *)
nitems(n) ==
  LET prod[d \in 0..n] ==
        IF d = 0 THEN (IF n = 0 THEN 0 ELSE 1)
        ELSE IF prod[d - 1] = -1 \/ DimSize(d) < 0
                  \/ (prod[d - 1] > 0 /\ DimSize(d) > INT_MAX \div prod[d - 1])
             THEN -1
             ELSE prod[d - 1] * DimSize(d)
  IN  prod[n]

OpenArray(n) == [idx |-> n, openQuote |-> 0, escapeNext |-> FALSE]

(* All the sizes.  The arrays above the items get their first subarray     *)
(* when the first item comes.                                              *)
BinArrayDims ==
  /\ BinArrayAt("dims")
  /\ IF Left(cur) < 8 * dims \/ nitems(dims) = -1
     THEN Raise
     ELSE /\ cur' = cur + 8 * dims /\ start' = cur + 8 * dims
          /\ state' = "items"
          /\ row' = <<Open>> /\ stack' = <<OpenArray(0)>>
          /\ UNCHANGED <<codec, encVars, input, word, mode>>

Items(r) == Cardinality({k \in DOMAIN r : IsItem(r, k)})

(* Down to the arrays of items: a subarray is pushed to each. *)
Down == [d \in 1..dims |->
           IF d < Len(stack) THEN stack[d]
           ELSE OpenArray((IF d = Len(stack) THEN stack[d].idx ELSE 0) + 1)]

(* Up from the arrays that are full. *)
Up(arrays) ==
  CHOOSE k \in 1..dims :
    /\ \A d \in (k + 1)..dims : arrays[d].idx >= DimSize(d)
    /\ k = 1 \/ arrays[k].idx < DimSize(k)

BinArrayRead ==
  LET input_len == read_nbo32(cur)
      field == IF input_len = -1 THEN Nil ELSE Str(SubSeq(input, cur + 4, cur + 3 + input_len))
      keep == Up(Down)
  IN
  /\ BinArrayAt("items") /\ Items(row) < nitems(dims)
  /\ IF Left(cur) < 4 \/ input_len < -1 \/ Left(cur) - 4 < input_len
     THEN Raise
     ELSE /\ row' = row \o [d \in 1..(dims - Len(stack)) |-> Open]
                        \o <<field>> \o [d \in 1..(dims - keep) |-> Close]
          /\ stack' = SubSeq(Down, 1, keep)
          /\ cur' = cur + 4 + (IF input_len = -1 THEN 0 ELSE input_len)
          /\ UNCHANGED <<codec, encVars, input, start, word, state, mode>>

BinArrayEnd_rest ==
  /\ BinArrayAt("items") /\ Items(row) >= nitems(dims)
  /\ mode' = "done"
  /\ row' = Append(row, Close)
  /\ UNCHANGED <<codec, encVars, input, start, cur, word, state, stack>>
BinArrayEnd ==
  /\ BinArrayAt("items") /\ Items(row) >= nitems(dims)
  /\ IF Left(cur) > 0
     THEN Raise
     ELSE /\ mode' = "done"
          /\ row' = Append(row, Close)
          /\ UNCHANGED <<codec, encVars, input, start, cur, word, state, stack>>

pg_bin_dec_array == BinArrayAhead \/ BinArrayDims \/ BinArrayRead \/ BinArrayEnd

BinArrayNext == pg_bin_enc_array \/ pg_bin_dec_array

BinArraySpec == BinArrayInit /\ [][BinArrayNext]_rowVars

-----------------------------------------------------------------------------
(* Properties *)

(* Arrays of the same depth have the same size, and items the same depth. *)
Uniform(v) ==
  /\ \A p, q \in DOMAIN v :
       v[p].kind = "open" /\ v[q].kind = "open" /\ Within(v, p) = Within(v, q) => Size(v, p) = Size(v, q)
  /\ \A p, q \in DOMAIN v : IsItem(v, p) =>
       /\ IsItem(v, q) => Within(v, q) = Within(v, p)
       /\ v[q].kind = "open" => Within(v, q) < Within(v, p)

(* An array comes back from PG::BinaryDecoder::Array as it was encoded if  *)
(* it is uniform, and is refused otherwise; one without any items comes    *)
(* back as an empty array.                                                 *)
BinArrayRoundTrip ==
  IsBinArray /\ value # <<>> /\ mode \in {"done", "error"} =>
    /\ mode = "error" <=> ~Uniform(value) \/ LessBinDimensions(value)
    /\ mode = "done" => row = IF Items(value) = 0 THEN <<Open, Close>> ELSE value

(* The list of items of an array. *)
ItemsText(r) ==
  LET text[k \in 0..Len(r)] ==
        IF k = 0 THEN <<>> ELSE IF IsItem(r, k) THEN text[k - 1] \o FieldText(r[k]) ELSE text[k - 1]
  IN  text[Len(r)]

(* The decoder returns an array only for a text with exactly its items,    *)
(* and the array has the sizes that the text says.                         *)
BinArrayExact ==
  IsBinArray /\ mode = "done" =>
    /\ SubSeq(input, start, Len(input)) = ItemsText(row)
    /\ Items(row) = nitems(dims)
    /\ Items(row) > 0 => Uniform(row) /\ dim_sizes(row) = [d \in 1..dims |-> DimSize(d)]

(* The decoder stays within the text, whatever lengths it finds there.     *)
BinArrayInBounds ==
  IsBinArray /\ mode \in {"decode", "done", "error"} =>
    cur \in 1..(Len(input) + 1) /\ start \in 1..cur
=============================================================================
