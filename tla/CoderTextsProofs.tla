-------------------------- MODULE CoderTextsProofs --------------------------
(***************************************************************************)
(* What the coders of rows and arrays read, for all values, all texts and  *)
(* all settings: a decoder returns only what its text spells               *)
(* (TextsReadExactly), and text arrays, too, come back as they were        *)
(* encoded (ValuesComeBack).                                               *)
(*                                                                         *)
(* Of a text that no encoder wrote a decoder has read a prefix that spells *)
(* the fields so far.  That of an encoded array is a layout like those of  *)
(* rows, the brackets being tokens of their own.                           *)
(***************************************************************************)
EXTENDS CodecsProofs

-----------------------------------------------------------------------------
(* Nesting *)

(* The tokens of the kind before the k-th. *)
OfKind(v, k, kind) == {m \in 1..(k - 1) : v[m].kind = kind}

(* By how much a token changes the depth. *)
Deeper(kind) == IF kind = "open" THEN 1 ELSE IF kind = "close" THEN -1 ELSE 0

LEMMA OfKindFinite ==
  ASSUME NEW v, NEW k \in Int, NEW kind
  PROVE  IsFiniteSet(OfKind(v, k, kind)) /\ Cardinality(OfKind(v, k, kind)) \in Nat
<1>1. OfKind(v, k, kind) \in SUBSET (1..(k - 1)) /\ k - 1 \in Int
  BY DEF OfKind
<1>2. IsFiniteSet(OfKind(v, k, kind))
  BY <1>1, FS_Interval, FS_Subset
<1> QED
  BY <1>2, FS_CardinalityType

LEMMA OfKindNext ==
  ASSUME NEW v, NEW k \in Nat, k >= 1, NEW kind
  PROVE  Cardinality(OfKind(v, k + 1, kind)) =
           Cardinality(OfKind(v, k, kind)) + (IF v[k].kind = kind THEN 1 ELSE 0)
<1>1. IsFiniteSet(OfKind(v, k, kind)) /\ k \notin OfKind(v, k, kind)
  <2>1. k \notin OfKind(v, k, kind)
    BY DEF OfKind
  <2> QED
    BY <2>1, OfKindFinite
<1>2. CASE v[k].kind = kind
  <2>1. OfKind(v, k + 1, kind) = OfKind(v, k, kind) \cup {k}
    BY <1>2 DEF OfKind
  <2> QED
    BY <1>1, <1>2, <2>1, FS_AddElement
<1>3. CASE v[k].kind # kind
  <2>1. OfKind(v, k + 1, kind) = OfKind(v, k, kind)
    BY <1>3 DEF OfKind
  <2>2. Cardinality(OfKind(v, k, kind)) \in Nat
    BY OfKindFinite
  <2> QED
    BY <1>3, <2>1, <2>2
<1> QED
  BY <1>2, <1>3

LEMMA WithinType ==
  ASSUME NEW v, NEW k \in Int
  PROVE  Within(v, k) \in Int
<1>1. Cardinality(OfKind(v, k, "open")) \in Nat /\ Cardinality(OfKind(v, k, "close")) \in Nat
  BY OfKindFinite
<1> QED
  BY <1>1 DEF Within, OfKind

LEMMA WithinFirst ==
  ASSUME NEW v
  PROVE  Within(v, 1) = 0
<1>1. OfKind(v, 1, "open") = {} /\ OfKind(v, 1, "close") = {}
  BY DEF OfKind
<1>2. Cardinality({}) = 0
  BY FS_EmptySet
<1> QED
  BY <1>1, <1>2 DEF Within, OfKind

LEMMA WithinNext ==
  ASSUME NEW v, NEW k \in Nat, k >= 1
  PROVE  Within(v, k + 1) = Within(v, k) + Deeper(v[k].kind)
<1>1. PICK a, b, c, d : /\ a = Cardinality(OfKind(v, k, "open")) /\ b = Cardinality(OfKind(v, k, "close"))
                        /\ c = Cardinality(OfKind(v, k + 1, "open"))
                        /\ d = Cardinality(OfKind(v, k + 1, "close"))
  OBVIOUS
<1>2. a \in Nat /\ b \in Nat
  BY <1>1, OfKindFinite
<1>3. /\ c = a + (IF v[k].kind = "open" THEN 1 ELSE 0)
      /\ d = b + (IF v[k].kind = "close" THEN 1 ELSE 0)
  BY <1>1, OfKindNext
<1>4. Within(v, k) = a - b /\ Within(v, k + 1) = c - d
  BY <1>1 DEF Within, OfKind
<1> QED
  BY <1>2, <1>3, <1>4 DEF Deeper

LEMMA WithinSame ==
  ASSUME NEW u, NEW v, NEW k \in Int, \A m \in 1..(k - 1) : u[m] = v[m]
  PROVE  Within(u, k) = Within(v, k)
<1>1. /\ OfKind(u, k, "open") = OfKind(v, k, "open")
      /\ OfKind(u, k, "close") = OfKind(v, k, "close")
  BY DEF OfKind
<1> QED
  BY <1>1 DEF Within, OfKind

(* The tokens of r are nested in n arrays that are still open. *)
Nested(r, n) ==
  /\ r \in Seq(Fields) /\ Len(r) >= 1
  /\ Within(r, Len(r) + 1) = n
  /\ \A k \in 2..Len(r) : Within(r, k) > 0

LEMMA NestedAppend ==
  ASSUME NEW r, NEW n \in Nat, n >= 1, Nested(r, n), NEW f \in Fields
  PROVE  Nested(Append(r, f), n + Deeper(f.kind))
<1>1. PICK s : s = Append(r, f)
  OBVIOUS
<1>2. PICK l : l = Len(r)
  OBVIOUS
<1>3. r \in Seq(Fields) /\ l \in Nat /\ l >= 1
  BY <1>2 DEF Nested
<1>4. /\ s \in Seq(Fields) /\ Len(s) = l + 1 /\ s[l + 1] = f
      /\ \A m \in 1..l : s[m] = r[m]
  BY <1>1, <1>2, <1>3
<1>5. \A k \in 1..(l + 1) : Within(s, k) = Within(r, k)
  BY <1>3, <1>4, WithinSame
<1>6. Within(s, l + 1) = n /\ Within(s, l + 2) = Within(s, l + 1) + Deeper(f.kind)
  <2>1. Within(s, l + 1) = n
    BY <1>2, <1>3, <1>5 DEF Nested
  <2>2. l + 1 \in Nat /\ l + 1 >= 1 /\ l + 2 = (l + 1) + 1
    BY <1>3
  <2> QED
    BY <1>4, <2>1, <2>2, WithinNext
<1>7. \A k \in 2..(l + 1) : Within(s, k) > 0
  BY <1>2, <1>3, <1>5, <1>6 DEF Nested
<1> QED
  BY <1>1, <1>3, <1>4, <1>6, <1>7 DEF Nested

-----------------------------------------------------------------------------
(* Arrays that are read *)

Calls == [idx : Nat, openQuote : {-1, 0, 1}, escapeNext : BOOLEAN]
BeforeArray == {"dims", "dims1", "item", "item1", "assign", "space", "brace"}

(* The calls of read_array_without_dim, and the shared buffer. *)
CallsOK ==
  /\ stack \in Seq(Calls) /\ word \in Seq(Byte)
  /\ \A k \in 1..Len(stack) : stack[k].idx <= Len(word)

(* The tokens that were read so far. *)
ReadNested ==
  /\ state \in BeforeArray \cup {"read", "end"}
  /\ state \in BeforeArray => row = <<>> /\ stack = <<>>
  /\ state = "read" => Len(stack) >= 1 /\ Nested(row, Len(stack))
  /\ state = "end" => Nested(row, 0)

ArrayCursor ==
  /\ cur \in Nat /\ cur >= 1
  /\ state \in {"item", "item1", "dims1", "assign"} => cur >= 2

BraceEnds ==
  \E k \in 1..Len(input) :
    input[k] = RBRACE /\ \A m \in (k + 1)..Len(input) : array_isspace(input[m])

NestInv ==
  IsArray =>
    /\ CallsOK /\ ReadNested /\ ArrayCursor
    /\ mode = "done" => state = "end" /\ (Strict => BraceEnds)
    /\ mode \in {"encode", "escape"} => state = "dims"

LEMMA FreshCall == Call \in Calls /\ Call.idx = 0
BY DEF Call, Calls

LEMMA BytesCut ==
  ASSUME NEW s \in Seq(Byte), NEW n \in Nat, n <= Len(s)
  PROVE  SubSeq(s, 1, n) \in Seq(Byte) /\ Len(SubSeq(s, 1, n)) = n
<1>1. PICK l : l = Len(s)
  OBVIOUS
<1>2. \A m \in 1..n : s[m] \in Byte
  BY <1>1
<1> QED
  BY <1>2, SubSeqProperties

(* What a call adds to the array. *)
LEMMA ElementAdds ==
  ASSUME CallsOK, Len(stack) >= 1
  PROVE  \/ Element = <<>>
         \/ \E f \in Fields : Element = <<f>> /\ Deeper(f.kind) = 0
<1>1. top \in Calls /\ top.idx \in Nat /\ top.idx <= Len(word) /\ word \in Seq(Byte)
  <2>1. PICK l : l = Len(stack)
    OBVIOUS
  <2>2. l \in 1..Len(stack) /\ stack[l] \in Calls
    BY <2>1 DEF CallsOK
  <2> QED
    BY <2>1, <2>2 DEF top, CallsOK, Calls
<1>2. Word \in Seq(Byte)
  BY <1>1, BytesCut DEF Word
<1>3. Nil \in Fields /\ Str(Word) \in Fields
  <2>1. <<>> \in Seq(Byte)
    OBVIOUS
  <2> QED
    BY <1>2, <2>1 DEF Nil, Str, Fields
<1>4. Deeper(Nil.kind) = 0 /\ Deeper(Str(Word).kind) = 0
  BY DEF Deeper, Nil, Str
<1> QED
  BY <1>3, <1>4 DEF Element

LEMMA BracesAreTokens ==
  /\ Open \in Fields /\ Close \in Fields
  /\ Deeper(Open.kind) = 1 /\ Deeper(Close.kind) = -1
<1>1. <<>> \in Seq(Byte)
  OBVIOUS
<1> QED
  BY <1>1 DEF Open, Close, Fields, Deeper

(* The row with an element, or none, and with a brace behind it. *)
LEMMA ElementNested ==
  ASSUME CallsOK, Len(stack) >= 1, NEW n \in Nat, n >= 1, NEW r, Nested(r, n)
  PROVE  Nested(r \o Element, n) /\ Nested(r \o Element \o <<Close>>, n - 1)
<1>1. Nested(r \o Element, n)
  <2>1. r \in Seq(Fields)
    BY DEF Nested
  <2>2. CASE Element = <<>>
    BY <2>1, <2>2, ConcatEmptySeq
  <2>3. CASE Element # <<>>
    <3>1. PICK f \in Fields : Element = <<f>> /\ Deeper(f.kind) = 0
      BY <2>3, ElementAdds
    <3>2. r \o <<f>> = Append(r, f)
      BY <2>1
    <3>3. Nested(Append(r, f), n)
      <4>1. n + Deeper(f.kind) = n
        BY <3>1
      <4> QED
        BY <4>1, NestedAppend
    <3> QED
      BY <3>1, <3>2, <3>3
  <2> QED
    BY <2>2, <2>3
<1>2. PICK s : s = r \o Element
  OBVIOUS
<1>3. s \o <<Close>> = Append(s, Close)
  BY <1>1, <1>2 DEF Nested
<1>4. Nested(Append(s, Close), n + (-1))
  BY <1>1, <1>2, BracesAreTokens, NestedAppend
<1> QED
  BY <1>1, <1>2, <1>3, <1>4

LEMMA LocalsOK ==
  ASSUME CallsOK, Len(stack) >= 1, NEW call \in Calls, Locals(call),
         word' \in Seq(Byte), Len(word) <= Len(word'), call.idx <= Len(word')
  PROVE  CallsOK' /\ Len(stack') = Len(stack)
<1>1. PICK n : n = Len(stack)
  OBVIOUS
<1>2. stack \in Seq(Calls) /\ n \in Nat /\ n >= 1 /\ stack' = [stack EXCEPT ![n] = call]
  BY <1>1 DEF CallsOK, Locals
<1>3. stack' \in Seq(Calls) /\ Len(stack') = n
  BY <1>1, <1>2, ExceptSeq
<1>4. ASSUME NEW k \in 1..n PROVE stack'[k].idx <= Len(word')
  <2>1. CASE k = n
    BY <1>1, <1>2, <2>1
  <2>2. CASE k # n
    <3>1. stack'[k] = stack[k] /\ stack[k].idx <= Len(word) /\ stack[k] \in Calls
      BY <1>1, <1>2, <2>2 DEF CallsOK
    <3>2. stack[k].idx \in Nat /\ Len(word) \in Nat /\ Len(word') \in Nat
      BY <3>1 DEF CallsOK, Calls
    <3> QED
      BY <3>1, <3>2
  <2> QED
    BY <2>1, <2>2
<1> QED
  BY <1>1, <1>3, <1>4 DEF CallsOK

LEMMA TopIsCall ==
  ASSUME CallsOK, Len(stack) >= 1
  PROVE  top \in Calls /\ top.idx \in Nat /\ top.idx <= Len(word) /\ Len(stack) \in Nat
<1>1. PICK l : l = Len(stack)
  OBVIOUS
<1>2. l \in 1..Len(stack) /\ stack[l] \in Calls
  BY <1>1 DEF CallsOK
<1> QED
  BY <1>1, <1>2 DEF top, CallsOK, Calls

LEMMA ReturnNested ==
  ASSUME CallsOK, state = "read", Len(stack) >= 1, ArrayCursor,
         NEW CONSTANT fields, Return(fields), Nested(row \o fields \o <<Close>>, Len(stack) - 1),
         word' \in Seq(Byte), Len(word) <= Len(word')
  PROVE  CallsOK' /\ ReadNested' /\ ArrayCursor' /\ UNCHANGED <<codec, input, mode>>
<1>1. PICK n : n = Len(stack)
  OBVIOUS
<1>2. stack \in Seq(Calls) /\ word \in Seq(Byte) /\ n \in Nat /\ n >= 1
  BY <1>1 DEF CallsOK
<1>3. Nested(row', n - 1) /\ UNCHANGED <<codec, input, mode>>
  BY <1>1 DEF Return
<1>4. CASE n = 1
  <2>1. state' = "end" /\ stack' = <<>> /\ cur' = cur
    BY <1>1, <1>4 DEF Return
  <2>2. <<>> \in Seq(Calls) /\ Len(<<>>) = 0
    OBVIOUS
  <2>3. CallsOK'
    BY <1>2, <1>3, <2>1, <2>2 DEF CallsOK
  <2> QED
    BY <1>3, <1>4, <2>1, <2>3 DEF ReadNested, ArrayCursor, BeforeArray
<1>5. CASE n # 1
  <2>1. /\ stack' = [k \in 1..(n - 1) |->
                       IF k = n - 1 THEN [stack[k] EXCEPT !.escapeNext = TRUE] ELSE stack[k]]
        /\ cur' = cur + 1 /\ state' = state
    BY <1>1, <1>5 DEF Return
  <2>2. ASSUME NEW k \in 1..(n - 1)
        PROVE  stack'[k] \in Calls /\ stack'[k].idx = stack[k].idx /\ stack[k].idx <= Len(word)
    <3>1. stack[k] \in Calls /\ stack[k].idx <= Len(word)
      BY <1>1, <1>2 DEF CallsOK
    <3> QED
      BY <2>1, <3>1 DEF Calls
  <2>3. stack' \in Seq(Calls) /\ Len(stack') = n - 1
    <3>1. PICK m : m = n - 1
      OBVIOUS
    <3>a. m \in Nat /\ \A k \in 1..m : stack'[k] \in Calls
      BY <1>2, <2>2, <3>1
    <3>b. stack' = [k \in 1..m |-> stack'[k]]
      BY <2>1, <3>1
    <3>2. m \in Nat /\ stack' \in [1..m -> Calls]
      BY <3>a, <3>b
    <3>3. stack' \in Seq(Calls) /\ DOMAIN stack' = 1..m
      BY <3>2
    <3>4. Len(stack') = m
      BY <3>2, <3>3
    <3> QED
      BY <3>1, <3>3, <3>4
  <2>4. CallsOK'
    <3>1. ASSUME NEW k \in 1..(n - 1) PROVE stack'[k].idx <= Len(word')
      <4>1. stack'[k] \in Calls /\ stack'[k].idx <= Len(word)
        BY <2>2
      <4>2. stack'[k].idx \in Nat
        BY <4>1 DEF Calls
      <4>3. Len(word) \in Nat /\ Len(word') \in Nat
        BY <1>2
      <4> QED
        BY <4>1, <4>2, <4>3
    <3> QED
      BY <1>2, <2>3, <3>1 DEF CallsOK
  <2> QED
    BY <1>2, <1>3, <1>5, <2>1, <2>3, <2>4 DEF ReadNested, ArrayCursor, BeforeArray
<1> QED
  BY <1>4, <1>5

LEMMA EncodeKeepsNest ==
  ASSUME NestInv, pg_text_enc_array
  PROVE  NestInv'
<1>1. /\ IsArray /\ mode \in {"encode", "escape"} /\ codec' = codec /\ UNCHANGED decVars
      /\ mode' \in {"encode", "escape", "decode", "error"}
  <2>1. CASE WriteOpen \/ WriteClose \/ WriteNull
    BY <2>1 DEF WriteOpen, WriteClose, WriteNull, AtElement, Emit, Raise
  <2>2. CASE WriteString
    <3>1. IsArray /\ mode = "encode"
      BY <2>2 DEF WriteString, AtElement
    <3>2. Raise \/ Emit(Separator \o value[i].str) \/ (mode' = "escape" /\ UNCHANGED <<codec, value, i, j, decVars>>)
      BY <2>2 DEF WriteString
    <3> QED
      BY <3>1, <3>2 DEF Emit, Raise
  <2>3. CASE QuoteByte \/ QuoteEnd
    BY <2>3 DEF QuoteByte, QuoteEnd, MoveByte
  <2>4. CASE IsArray /\ EncodeEnd(<<>>)
    BY <2>4 DEF EncodeEnd
  <2> QED
    BY <2>1, <2>2, <2>3, <2>4 DEF pg_text_enc_array
<1>2. CallsOK /\ ReadNested /\ ArrayCursor /\ state = "dims"
  BY <1>1 DEF NestInv
<1>3. CallsOK' /\ ReadNested' /\ ArrayCursor' /\ state' = "dims"
  BY <1>1, <1>2 DEF decVars, CallsOK, ReadNested, Nested, ArrayCursor
<1> QED
  BY <1>1, <1>3 DEF NestInv

LEMMA DimsKeepNest ==
  ASSUME NestInv, SkipSpace \/ DimStart \/ DimItem \/ DimAssign \/ SpaceEnd
  PROVE  NestInv'
<1>1. /\ IsArray /\ mode = "decode" /\ state \in BeforeArray /\ codec' = codec
      /\ CallsOK /\ ReadNested /\ ArrayCursor
  <2>1. IsArray /\ mode = "decode" /\ state \in BeforeArray
    BY DEF SkipSpace, DimStart, DimItem, DimAssign, SpaceEnd, ArrayAt, BeforeArray
  <2>2. codec' = codec
    BY DEF SkipSpace, DimStart, DimItem, DimAssign, SpaceEnd, GoTo, Raise
  <2> QED
    BY <2>1, <2>2 DEF NestInv
<1>2. \/ Raise
      \/ \E pos \in {cur, cur + 1}, s \in BeforeArray :
           GoTo(pos, s) /\ (s \in {"item", "item1", "dims1", "assign"} => pos >= 2)
      \/ GoTo(cur - 1, "space") /\ cur >= 2
  <2> USE <1>1 DEF ArrayCursor, BeforeArray
  <2>1. CASE SkipSpace \/ SpaceEnd
    BY <2>1 DEF SkipSpace, SpaceEnd, ArrayAt
  <2>2. CASE DimStart
    BY <2>2 DEF DimStart, AfterDims, ArrayAt
  <2>3. CASE DimItem
    BY <2>3 DEF DimItem, AfterDims, ArrayAt
  <2>4. CASE DimAssign
    BY <2>4 DEF DimAssign, ArrayAt
  <2> QED
    BY <2>1, <2>2, <2>3, <2>4
<1>3. CASE Raise
  <2>1. CallsOK' /\ ReadNested' /\ ArrayCursor' /\ mode' = "error"
    BY <1>1, <1>3 DEF Raise, decVars, CallsOK, ReadNested, Nested, ArrayCursor
  <2> QED
    BY <1>1, <2>1 DEF NestInv
<1>4. ASSUME NEW pos \in Nat, NEW s \in BeforeArray, GoTo(pos, s), pos >= 1,
             s \in {"item", "item1", "dims1", "assign"} => pos >= 2
      PROVE  NestInv'
  <2>1. CallsOK' /\ ReadNested' /\ ArrayCursor' /\ mode' = "decode"
    BY <1>1, <1>4 DEF GoTo, CallsOK, ReadNested, ArrayCursor, BeforeArray
  <2> QED
    BY <1>1, <2>1 DEF NestInv
<1>5. cur \in Nat /\ cur >= 1 /\ "space" \in BeforeArray /\ cur + 1 \in Nat
      /\ (cur >= 2 => cur - 1 \in Nat /\ cur - 1 >= 1)
  BY <1>1 DEF ArrayCursor, BeforeArray
<1> QED
  BY <1>2, <1>3, <1>4, <1>5

LEMMA TwoBehind ==
  ASSUME NEW S, NEW r \in Seq(S), NEW a, NEW b
  PROVE  r \o <<a, b>> = Append(Append(r, a), b)
OBVIOUS

LEMMA PairAppend ==
  ASSUME NEW a, NEW b
  PROVE  Append(<<a>>, b) = <<a, b>>
<1>1. PICK S : S = {a, b}
  OBVIOUS
<1>2. <<>> \in Seq(S) /\ a \in S /\ b \in S
  BY <1>1
<1>3. <<>> \o <<a, b>> = Append(Append(<<>>, a), b)
  BY <1>2, TwoBehind
<1>4. <<a, b>> \in Seq(S) /\ <<a>> = Append(<<>>, a)
  BY <1>2
<1> QED
  BY <1>3, <1>4, ConcatEmptySeq

LEMMA OpenNested ==
  /\ Nested(<<Open>>, 1) /\ Nested(<<Open, Close>>, 0)
  /\ \A r, n : n \in Nat /\ n >= 1 /\ Nested(r, n) =>
       Nested(Append(r, Open), n + 1) /\ Nested(r \o <<Open, Close>>, n)
<1>1. Nested(<<Open>>, 1)
  <2>1. PICK r : r = <<Open>>
    OBVIOUS
  <2>2. r \in Seq(Fields) /\ Len(r) = 1 /\ r[1] = Open
    BY <2>1, BracesAreTokens
  <2>3. Within(r, 1 + 1) = Within(r, 1) + Deeper(r[1].kind)
    BY WithinNext
  <2>4. Within(r, 1) = 0
    BY WithinFirst
  <2> QED
    BY <2>1, <2>2, <2>3, <2>4, BracesAreTokens DEF Nested
<1>2. ASSUME NEW r, NEW n \in Nat, n >= 1, Nested(r, n)
      PROVE  Nested(Append(r, Open), n + 1) /\ Nested(r \o <<Open, Close>>, n)
  <2>1. Nested(Append(r, Open), n + 1)
    BY <1>2, NestedAppend, BracesAreTokens
  <2>2. PICK s : s = Append(r, Open)
    OBVIOUS
  <2>3. Nested(Append(s, Close), (n + 1) + (-1))
    BY <2>1, <2>2, NestedAppend, BracesAreTokens
  <2>4. r \o <<Open, Close>> = Append(s, Close)
    <3>1. r \in Seq(Fields)
      BY <1>2 DEF Nested
    <3> QED
      BY <2>2, <3>1, TwoBehind
  <2>5. (n + 1) + (-1) = n
    OBVIOUS
  <2> QED
    BY <2>1, <2>3, <2>4, <2>5
<1>3. Nested(<<Open, Close>>, 0)
  <2>1. PICK r : r = <<Open>>
    OBVIOUS
  <2>2. Nested(Append(r, Close), 1 + (-1))
    <3>1. 1 \in Nat /\ 1 >= 1
      OBVIOUS
    <3> QED
      BY <1>1, <2>1, <3>1, NestedAppend, BracesAreTokens
  <2>3. Append(r, Close) = <<Open, Close>>
    BY <2>1, PairAppend
  <2>4. 1 + (-1) = 0
    OBVIOUS
  <2> QED
    BY <2>2, <2>3, <2>4
<1> QED
  BY <1>1, <1>2, <1>3

(* A byte put into the buffer at n. *)
LEMMA WordPut ==
  ASSUME NEW w \in Seq(Byte), NEW n \in Nat, n <= Len(w), NEW b \in Byte
  PROVE  LET u == SubSeq(w, 1, n) \o <<b>> \o SubSeq(w, n + 2, Len(w))
         IN  /\ u \in Seq(Byte) /\ Len(u) >= n + 1 /\ Len(u) >= Len(w)
             /\ \A m \in 1..n : u[m] = w[m]
             /\ u[n + 1] = b
<1>1. PICK l \in Nat : l = Len(w)
  OBVIOUS
<1>2. PICK x, y : x = SubSeq(w, 1, n) /\ y = SubSeq(w, n + 2, l)
  OBVIOUS
<1>3. x \in Seq(Byte) /\ Len(x) = n /\ \A m \in 1..n : x[m] = w[m]
  <2>1. x \in Seq(Byte) /\ Len(x) = n
    BY <1>2, BytesCut
  <2>2. \A m \in 1..n : x[m] = w[m]
    BY <1>1, <1>2
  <2> QED
    BY <2>1, <2>2
<1>4. y \in Seq(Byte) /\ Len(y) = IF n + 2 <= l THEN l - n - 1 ELSE 0
  BY <1>1, <1>2
<1>5. PICK u : u = x \o <<b>> \o y
  OBVIOUS
<1>6. /\ u \in Seq(Byte) /\ Len(u) = n + 1 + Len(y)
      /\ \A m \in 1..n : u[m] = x[m]
      /\ u[n + 1] = b
  <2>1. PICK z : z = x \o <<b>>
    OBVIOUS
  <2>2. z \in Seq(Byte) /\ Len(z) = n + 1 /\ z[n + 1] = b /\ \A m \in 1..n : z[m] = x[m]
    BY <1>3, <2>1
  <2>3. u \in Seq(Byte) /\ Len(u) = n + 1 + Len(y) /\ \A m \in 1..(n + 1) : u[m] = z[m]
    <3>1. u = z \o y
      BY <1>5, <2>1
    <3>2. y \in Seq(Byte)
      BY <1>4
    <3>3. u \in Seq(Byte) /\ Len(u) = Len(z) + Len(y)
      BY <2>2, <3>1, <3>2, ConcatProperties
    <3>4. \A m \in 1..Len(z) : u[m] = z[m]
      BY <2>2, <3>1, <3>2
    <3> QED
      BY <2>2, <3>3, <3>4
  <2> QED
    BY <2>2, <2>3
<1>7. Len(u) >= n + 1 /\ Len(u) >= l
  <2>1. PICK k : k = Len(y)
    OBVIOUS
  <2>2. PICK o : o = Len(u)
    OBVIOUS
  <2>3. o = n + 1 + k /\ k = IF n + 2 <= l THEN l - n - 1 ELSE 0
    BY <1>4, <1>6, <2>1, <2>2
  <2>4. o >= n + 1 /\ o >= l
    <3>1. CASE n + 2 <= l
      BY <1>1, <2>3, <3>1
    <3>2. CASE ~(n + 2 <= l)
      <4>1. k = 0 /\ o = n + 1 + k
        BY <2>3, <3>2
      <4> QED
        BY <1>1, <3>2, <4>1
    <3> QED
      BY <3>1, <3>2
  <2> QED
    BY <2>2, <2>4
<1>8. u = SubSeq(w, 1, n) \o <<b>> \o SubSeq(w, n + 2, Len(w)) /\ \A m \in 1..n : u[m] = w[m]
  BY <1>1, <1>2, <1>3, <1>5, <1>6
<1> QED
  BY <1>1, <1>6, <1>7, <1>8

(* One step of reading within the braces. *)
LEMMA ReadingKeepsNest ==
  ASSUME NestInv, input \in Seq(Byte),
         ArrayStart \/ ReadElement \/ ReadSubarray \/ ReadPremature \/ ReadByte \/ ArrayEnd
  PROVE  NestInv'
<1>0. IsArray /\ mode = "decode" /\ CallsOK /\ ReadNested /\ ArrayCursor
  <2>1. IsArray /\ mode = "decode"
    BY DEF ArrayStart, ReadElement, ReadSubarray, ReadPremature, ReadByte, ArrayEnd, Reading, ArrayAt
  <2> QED
    BY <2>1 DEF NestInv
<1>1. CASE Raise
  <2>1. CallsOK' /\ ReadNested' /\ ArrayCursor' /\ mode' = "error" /\ codec' = codec
    BY <1>0, <1>1 DEF Raise, decVars, CallsOK, ReadNested, Nested, ArrayCursor
  <2> QED
    BY <1>0, <2>1 DEF NestInv
<1>2. SUFFICES ASSUME ~Raise PROVE NestInv'
  BY <1>1
<1>3. ASSUME CallsOK', ReadNested', ArrayCursor', mode' = "decode", codec' = codec
      PROVE  NestInv'
  BY <1>0, <1>3 DEF NestInv
<1>4. CASE ArrayStart
  <2>1. /\ cur' = cur + 1 /\ word' = word /\ mode' = "decode" /\ codec' = codec /\ state \in BeforeArray
        /\ \/ row' = <<Open, Close>> /\ state' = "end" /\ stack' = stack
           \/ row' = <<Open>> /\ state' = "read" /\ stack' = <<Call>>
    BY <1>0, <1>2, <1>4 DEF ArrayStart, ArrayAt, BeforeArray
  <2>2. ArrayCursor'
    BY <1>0, <2>1 DEF ArrayCursor
  <2>3. CASE row' = <<Open, Close>> /\ state' = "end" /\ stack' = stack
    <3>1. CallsOK' /\ ReadNested'
      BY <1>0, <2>1, <2>3, OpenNested DEF CallsOK, ReadNested, BeforeArray
    <3> QED
      BY <1>3, <2>1, <2>2, <3>1
  <2>4. CASE row' = <<Open>> /\ state' = "read" /\ stack' = <<Call>>
    <3>1. Call \in Calls /\ Call.idx = 0
      BY DEF Call, Calls
    <3>2. PICK s : s = <<Call>>
      OBVIOUS
    <3>3. s \in Seq(Calls) /\ Len(s) = 1 /\ s[1] = Call
      BY <3>1, <3>2
    <3>4. Len(word) >= 0 /\ Len(word) \in Nat
      BY <1>0 DEF CallsOK
    <3>5. CallsOK'
      <4>1. \A k \in 1..Len(s) : s[k].idx <= Len(word)
        BY <3>1, <3>3, <3>4
      <4> QED
        BY <1>0, <2>1, <2>4, <3>2, <3>3, <4>1 DEF CallsOK
    <3>6. ReadNested'
      BY <2>4, <3>2, <3>3, OpenNested DEF ReadNested, BeforeArray
    <3> QED
      BY <1>3, <2>1, <2>2, <3>5, <3>6
  <2> QED
    BY <2>1, <2>3, <2>4
<1>5. CASE ArrayEnd
  <2>1. /\ state = "end" /\ mode' = "done" /\ UNCHANGED <<codec, encVars, input, start, decVars>>
        /\ Strict => At(cur) = RBRACE /\ \A k \in (cur + 1)..Len(input) : array_isspace(input[k])
    BY <1>2, <1>5 DEF ArrayEnd, ArrayAt
  <2>2. Strict => BraceEnds
    <3>1. At(cur) = RBRACE => cur \in 1..Len(input) /\ input[cur] = RBRACE
      BY DEF At, RBRACE, NUL
    <3> QED
      BY <2>1, <3>1 DEF BraceEnds
  <2>3. Strict' = Strict /\ BraceEnds' = BraceEnds /\ state' = "end"
    BY <2>1 DEF Strict, BraceEnds, decVars
  <2>4. CallsOK' /\ ReadNested' /\ ArrayCursor'
    BY <1>0, <2>1 DEF decVars, CallsOK, ReadNested, Nested, ArrayCursor
  <2> QED
    BY <2>1, <2>2, <2>3, <2>4 DEF NestInv
<1>6. ASSUME state = "read" PROVE /\ Len(stack) >= 1 /\ Nested(row, Len(stack))
                                  /\ Len(stack) \in Nat /\ top \in Calls /\ top.idx <= Len(word)
  BY <1>0, <1>6, TopIsCall DEF ReadNested, BeforeArray
<1>7. CASE ReadElement
  <2>1. state = "read" /\ Len(stack) >= 1 /\ Len(stack) \in Nat /\ Nested(row, Len(stack))
    BY <1>6, <1>7 DEF ReadElement, Reading, ArrayAt
  <2>2. PICK e : e = Element
    OBVIOUS
  <2>3. Nested(row \o e, Len(stack)) /\ Nested(row \o e \o <<Close>>, Len(stack) - 1)
    BY <1>0, <2>1, <2>2, ElementNested
  <2>6. word' \in Seq(Byte) /\ Len(word) <= Len(word')
    <3>1. PICK n \in Nat : n = top.idx /\ n <= Len(word)
      BY <1>6, <2>1 DEF Calls
    <3>2. word \in Seq(Byte) /\ NUL \in Byte
      BY <1>0 DEF CallsOK, NUL, Byte
    <3>3. word' = word \/ word' = WordWith(n, NUL)
      BY <1>7, <3>1 DEF ReadElement
    <3>4. CASE word' = word
      BY <3>2, <3>4
    <3>5. CASE word' = WordWith(n, NUL)
      BY <3>1, <3>2, <3>5, WordPut DEF WordWith
    <3> QED
      BY <3>3, <3>4, <3>5
  <2>4. CASE input[cur] = RBRACE
    <3>1. Return(e)
      BY <1>7, <2>2, <2>4 DEF ReadElement
    <3>2. CallsOK' /\ ReadNested' /\ ArrayCursor' /\ UNCHANGED <<codec, input, mode>>
      BY <1>0, <2>1, <2>3, <2>6, <3>1, ReturnNested
    <3> QED
      BY <1>0, <1>3, <3>2
  <2>5. CASE input[cur] # RBRACE
    <3>1. /\ row' = row \o e /\ Locals(Call) /\ cur' = cur + 1
          /\ UNCHANGED <<codec, encVars, input, start, state, mode>>
      BY <1>7, <2>2, <2>5 DEF ReadElement
    <3>2. PICK c \in Calls : c = Call /\ c.idx = 0
      BY FreshCall
    <3>3. CallsOK' /\ Len(stack') = Len(stack)
      <4>1. word' \in Seq(Byte) /\ Len(word) <= Len(word') /\ 0 <= Len(word')
        BY <2>6
      <4> QED
        BY <1>0, <2>1, <3>1, <3>2, <4>1, LocalsOK
    <3>4. ReadNested' /\ ArrayCursor'
      BY <1>0, <2>1, <2>3, <3>1, <3>3 DEF ReadNested, ArrayCursor, BeforeArray
    <3> QED
      BY <1>0, <1>3, <3>1, <3>3, <3>4
  <2> QED
    BY <2>4, <2>5
<1>8. CASE ReadPremature
  <2>1. state = "read" /\ Len(stack) >= 1 /\ Len(stack) \in Nat /\ Nested(row, Len(stack))
    BY <1>6, <1>8 DEF ReadPremature, ArrayAt
  <2>2. Return(<<>>) /\ word' = word
    BY <1>2, <1>8 DEF ReadPremature
  <2>3. Nested(row \o <<>> \o <<Close>>, Len(stack) - 1)
    <3>1. row \in Seq(Fields)
      BY <2>1 DEF Nested
    <3>2. row \o <<>> \o <<Close>> = Append(row, Close)
      BY <3>1, ConcatEmptySeq
    <3>3. Len(stack) + (-1) = Len(stack) - 1
      BY <2>1
    <3> QED
      BY <2>1, <3>2, <3>3, NestedAppend, BracesAreTokens
  <2>4. PICK e : e = <<>>
    OBVIOUS
  <2>5. CallsOK' /\ ReadNested' /\ ArrayCursor' /\ UNCHANGED <<codec, input, mode>>
    <3>1. word' \in Seq(Byte) /\ Len(word) <= Len(word')
      BY <1>0, <2>2 DEF CallsOK
    <3> QED
      BY <1>0, <2>1, <2>2, <2>3, <2>4, <3>1, ReturnNested
  <2> QED
    BY <1>0, <1>3, <2>5
<1>9. CASE ReadSubarray
  <2>1. state = "read" /\ Len(stack) >= 1 /\ Len(stack) \in Nat /\ Nested(row, Len(stack))
        /\ top \in Calls /\ top.idx <= Len(word)
    BY <1>6, <1>9 DEF ReadSubarray, Reading, ArrayAt
  <2>2. /\ UNCHANGED <<codec, encVars, input, start, word, state, mode>>
        /\ \/ /\ row' = row \o <<Open, Close>> /\ cur' = cur + 2
              /\ Locals([top EXCEPT !.escapeNext = TRUE])
           \/ row' = Append(row, Open) /\ stack' = Append(stack, Call) /\ cur' = cur + 1
    BY <1>9 DEF ReadSubarray
  <2>3. ArrayCursor'
    BY <1>0, <2>1, <2>2 DEF ArrayCursor
  <2>4. CASE /\ row' = row \o <<Open, Close>>
             /\ Locals([top EXCEPT !.escapeNext = TRUE])
    <3>1. PICK c : c = [top EXCEPT !.escapeNext = TRUE]
      OBVIOUS
    <3>2. c \in Calls /\ c.idx = top.idx
      BY <2>1, <3>1 DEF Calls
    <3>3. word' \in Seq(Byte) /\ Len(word) <= Len(word') /\ c.idx <= Len(word')
      <4>1. word \in Seq(Byte) /\ word' = word
        BY <1>0, <2>2 DEF CallsOK
      <4>2. Len(word) <= Len(word')
        BY <4>1
      <4> QED
        BY <2>1, <3>2, <4>1, <4>2
    <3>4. CallsOK' /\ Len(stack') = Len(stack)
      BY <1>0, <2>1, <2>4, <3>1, <3>2, <3>3, LocalsOK
    <3>5. Nested(row', Len(stack))
      BY <2>1, <2>4, OpenNested
    <3>6. ReadNested'
      BY <2>1, <2>2, <3>4, <3>5 DEF ReadNested, BeforeArray
    <3> QED
      BY <1>0, <1>3, <2>2, <2>3, <3>4, <3>6
  <2>5. CASE row' = Append(row, Open) /\ stack' = Append(stack, Call)
    <3>1. PICK c \in Calls : c = Call /\ c.idx = 0
      BY FreshCall
    <3>2. PICK n \in Nat : n = Len(stack)
      BY <2>1
    <3>3. stack' \in Seq(Calls) /\ Len(stack') = n + 1 /\ stack'[n + 1] = c
          /\ \A k \in 1..n : stack'[k] = stack[k]
      BY <1>0, <2>5, <3>1, <3>2 DEF CallsOK
    <3>4. CallsOK'
      <4>1. \A k \in 1..(n + 1) : stack'[k].idx <= Len(word)
        <5>1. Len(word) \in Nat /\ \A k \in 1..n : stack[k].idx <= Len(word)
          BY <1>0, <3>2 DEF CallsOK
        <5>2. \A k \in 1..(n + 1) : k = n + 1 \/ k \in 1..n
          OBVIOUS
        <5> QED
          BY <3>1, <3>3, <5>1, <5>2
      <4> QED
        BY <1>0, <2>2, <3>3, <4>1 DEF CallsOK
    <3>5. Nested(row', n + 1)
      BY <2>1, <2>5, <3>2, OpenNested
    <3>6. ReadNested'
      BY <2>1, <2>2, <3>2, <3>3, <3>5 DEF ReadNested, BeforeArray
    <3> QED
      BY <1>0, <1>3, <2>2, <2>3, <3>4, <3>6
  <2> QED
    BY <2>2, <2>4, <2>5
<1>10. CASE ReadByte
  <2>1. /\ state = "read" /\ Len(stack) >= 1 /\ Len(stack) \in Nat /\ Nested(row, Len(stack))
        /\ top \in Calls /\ top.idx <= Len(word) /\ cur <= Len(input)
    BY <1>6, <1>10 DEF ReadByte, Reading, ArrayAt
  <2>2. /\ cur' = cur + 1 /\ UNCHANGED <<codec, encVars, input, start, state, row, mode>>
        /\ \/ \E q \in {1, -1} : Locals([top EXCEPT !.openQuote = q]) /\ word' = word
           \/ Locals([top EXCEPT !.escapeNext = TRUE]) /\ word' = word
           \/ PutWord(top)
           \/ PutWord([top EXCEPT !.escapeNext = FALSE])
    BY <1>10 DEF ReadByte
  <2>3. ArrayCursor'
    BY <1>0, <2>1, <2>2 DEF ArrayCursor
  <2>4. CASE word' = word /\ \/ \E q \in {1, -1} : Locals([top EXCEPT !.openQuote = q])
                             \/ Locals([top EXCEPT !.escapeNext = TRUE])
    <3>1. PICK c : /\ Locals(c)
                   /\ \/ \E q \in {1, -1} : c = [top EXCEPT !.openQuote = q]
                      \/ c = [top EXCEPT !.escapeNext = TRUE]
      BY <2>4
    <3>2. c \in Calls /\ c.idx = top.idx
      BY <2>1, <3>1 DEF Calls
    <3>3. word' \in Seq(Byte) /\ Len(word) <= Len(word') /\ c.idx <= Len(word')
      <4>1. word \in Seq(Byte) /\ word' = word
        BY <1>0, <2>4 DEF CallsOK
      <4>2. Len(word) <= Len(word')
        BY <4>1
      <4> QED
        BY <2>1, <3>2, <4>1, <4>2
    <3>4. CallsOK' /\ Len(stack') = Len(stack)
      BY <1>0, <2>1, <3>1, <3>2, <3>3, LocalsOK
    <3>5. ReadNested'
      BY <2>1, <2>2, <3>4 DEF ReadNested, BeforeArray, Nested
    <3> QED
      BY <1>0, <1>3, <2>2, <2>3, <3>4, <3>5
  <2>5. CASE PutWord(top) \/ PutWord([top EXCEPT !.escapeNext = FALSE])
    <3>1. PICK call : PutWord(call) /\ (call = top \/ call = [top EXCEPT !.escapeNext = FALSE])
      BY <2>5
    <3>2. call \in Calls /\ call.idx = top.idx
      BY <2>1, <3>1 DEF Calls
    <3>3. PICK n : n = call.idx
      OBVIOUS
    <3>4. n \in Nat /\ n <= Len(word) /\ word \in Seq(Byte)
      BY <1>0, <2>1, <3>2, <3>3 DEF Calls, CallsOK
    <3>5. PICK b : b = input[cur]
      OBVIOUS
    <3>6. b \in Byte
      BY <1>0, <2>1, <3>5 DEF ArrayCursor
    <3>7. word' = SubSeq(word, 1, n) \o <<b>> \o SubSeq(word, n + 2, Len(word))
      BY <3>1, <3>3, <3>5 DEF PutWord, WordWith
    <3>8. word' \in Seq(Byte) /\ Len(word') >= n + 1 /\ Len(word') >= Len(word)
      BY <3>4, <3>6, <3>7, WordPut
    <3>9. PICK c : c = [call EXCEPT !.idx = @ + 1]
      OBVIOUS
    <3>10. c \in Calls /\ c.idx = n + 1
      BY <3>2, <3>3, <3>9 DEF Calls
    <3>11. Locals(c)
      BY <3>1, <3>9 DEF PutWord
    <3>12. CallsOK' /\ Len(stack') = Len(stack)
      <4>1. Len(word) <= Len(word') /\ c.idx <= Len(word')
        BY <3>4, <3>8, <3>10
      <4> QED
        BY <1>0, <2>1, <3>8, <3>10, <3>11, <4>1, LocalsOK
    <3>13. ReadNested'
      BY <2>1, <2>2, <3>12 DEF ReadNested, BeforeArray, Nested
    <3> QED
      BY <1>0, <1>3, <2>2, <2>3, <3>12, <3>13
  <2> QED
    BY <2>2, <2>4, <2>5
<1> QED
  BY <1>4, <1>5, <1>7, <1>8, <1>9, <1>10

-----------------------------------------------------------------------------
(* Texts are bytes *)

LEMMA Joins ==
  ASSUME NEW s \in Seq(Byte), NEW t \in Seq(Byte)
  PROVE  s \o t \in Seq(Byte)
BY ConcatProperties

LEMMA PutByte ==
  ASSUME NEW s \in Seq(Byte), NEW p, NEW b \in Byte
  PROVE  [s EXCEPT ![p] = b] \in Seq(Byte)
<1>1. PICK u : u = [s EXCEPT ![p] = b]
  OBVIOUS
<1>2. PICK n \in Nat : n = Len(s)
  OBVIOUS
<1>3. DOMAIN s = 1..n /\ \A k \in 1..n : s[k] \in Byte
  BY <1>2
<1>4. u = [k \in 1..n |-> u[k]] /\ \A k \in 1..n : u[k] \in Byte
  BY <1>1, <1>3
<1>5. u \in [1..n -> Byte]
  BY <1>4
<1>6. u \in Seq(Byte)
  BY <1>5
<1> QED
  BY <1>1, <1>6

LEMMA ZeroBytes ==
  ASSUME NEW n \in Nat
  PROVE  [k \in 1..n |-> NUL] \in Seq(Byte)
BY DEF NUL, Byte

LEMMA AtIsByte ==
  ASSUME input \in Seq(Byte), NEW k
  PROVE  At(k) \in Byte
<1>1. CASE k \in 1..Len(input)
  <2>1. input[k] \in Byte
    BY <1>1
  <2> QED
    BY <1>1, <2>1 DEF At
<1>2. CASE k \notin 1..Len(input)
  BY <1>2 DEF At, NUL, Byte
<1> QED
  BY <1>1, <1>2

LEMMA MoveKeepsBytes ==
  ASSUME NEW CONSTANT Special, NEW CONSTANT escape, \A c \in Special : escape[c] \in Byte,
         NEW CONSTANT extra, Base, EscapeRoom(Special, extra), ptr1 >= start,
         input \in Seq(Byte), MoveByte(Special, escape)
  PROVE  input' \in Seq(Byte)
<1>1. ptr1 \in 1..Len(input)
  <2>1. mode = "escape" /\ start \in Nat /\ start >= 1 /\ ptr1 \in Nat /\ ptr2 \in Nat /\ Len(input) \in Nat
    BY DEF MoveByte, Base
  <2>2. ptr1 <= ptr2 /\ ptr2 <= Len(input)
    BY <2>1 DEF EscapeRoom
  <2> QED
    BY <2>1, <2>2
<1>2. PICK c : c = input[ptr1]
  OBVIOUS
<1>3. c \in Byte
  BY <1>1, <1>2
<1>4. CASE c \in Special
  <2>1. PICK s : s = [input EXCEPT ![ptr2] = c]
    OBVIOUS
  <2>2. s \in Seq(Byte)
    BY <1>3, <2>1, PutByte
  <2>3. input' = [s EXCEPT ![ptr2 - 1] = escape[c]]
    BY <1>2, <1>4, <2>1 DEF MoveByte
  <2> QED
    BY <1>4, <2>2, <2>3, PutByte
<1>5. CASE c \notin Special
  <2>1. input' = [input EXCEPT ![ptr2] = c]
    BY <1>2, <1>5 DEF MoveByte
  <2> QED
    BY <1>3, <2>1, PutByte
<1> QED
  BY <1>4, <1>5

LEMMA RowKeepsBytes ==
  ASSUME NEW CONSTANT sep \in Seq(Byte), NEW CONSTANT null \in Seq(Byte),
         NEW CONSTANT quote \in Seq(Byte), NEW CONSTANT end \in Seq(Byte),
         NEW CONSTANT Special, NEW CONSTANT escape, \A c \in Special : escape[c] \in Byte,
         Base, EscapeRoom(Special, 0), input \in Seq(Byte),
         EncodeRow(sep, null, quote, end, Special, escape)
  PROVE  input' \in Seq(Byte)
<1>1. \A open \in Seq(Byte) : FieldStart(sep, open) \in Seq(Byte)
  <2> TAKE open \in Seq(Byte)
  <2>1. (IF i = 1 THEN <<>> ELSE sep) \in Seq(Byte)
    OBVIOUS
  <2> QED
    BY <2>1, Joins DEF FieldStart
<1>2. CASE EncodeNull(sep, null)
  BY <1>1, <1>2 DEF EncodeNull
<1>3. CASE EncodeString(sep, quote)
  BY <1>1, <1>3 DEF EncodeString
<1>4. CASE EncodeBuffer(sep, quote, Special)
  <2>1. i <= Len(value)
    BY <1>4 DEF EncodeBuffer
  <2>2. PICK str, s : str = value[i].str /\ s = FieldStart(sep, quote)
    OBVIOUS
  <2>3. str \in Seq(Byte) /\ str \in Seq(Nat) /\ s \in Seq(Byte)
    BY <1>1, <2>1, <2>2, FieldStrings
  <2>4. PICK n : n = Cardinality(Escapes(str, Special))
    OBVIOUS
  <2>5. n \in Nat
    BY <2>3, <2>4, EscapesCount
  <2>6. [k \in 1..n |-> NUL] \in Seq(Byte)
    BY <2>5, ZeroBytes
  <2>7. input' = (s \o str) \o [k \in 1..n |-> NUL]
    BY <1>4, <2>2, <2>4 DEF EncodeBuffer
  <2> QED
    BY <2>3, <2>6, <2>7, Joins
<1>5. CASE EncodeByte(Special, escape)
  <2>1. i <= Len(value) /\ j \in 1..Len(value[i].str)
    BY <1>5 DEF EncodeByte
  <2>2. PICK c : c = value[i].str[j]
    OBVIOUS
  <2>3. c \in Byte
    BY <2>1, <2>2, FieldStrings, ElementOfSeq
  <2>4. input' = input \o (IF c \in Special THEN <<escape[c], c>> ELSE <<c>>)
    BY <1>5, <2>2 DEF EncodeByte
  <2>5. (IF c \in Special THEN <<escape[c], c>> ELSE <<c>>) \in Seq(Byte)
    BY <2>3
  <2> QED
    BY <2>4, <2>5, Joins
<1>6. CASE EncodeStringEnd(quote)
  BY <1>6, Joins DEF EncodeStringEnd
<1>7. CASE EscapeByte(Special, escape)
  <2>1. MoveByte(Special, escape) /\ ptr1 # ptr2 /\ mode = "escape"
    BY <1>7 DEF EscapeByte, MoveByte
  <2>2. ptr1 >= start
    <3> SUFFICES ASSUME start > ptr1 PROVE FALSE
      BY DEF Base
    <3>1. Cardinality(Marked(input, start, ptr1, Special)) = 0
      BY MarkedNone DEF Base
    <3> QED
      BY <2>1, <3>1 DEF EscapeRoom, Marked, Base
  <2> QED
    BY <2>1, <2>2, MoveKeepsBytes
<1>8. CASE EscapeEnd(quote)
  BY <1>8, Joins DEF EscapeEnd
<1>9. CASE EncodeEnd(end)
  BY <1>9, Joins DEF EncodeEnd
<1> QED
  BY <1>2, <1>3, <1>4, <1>5, <1>6, <1>7, <1>8, <1>9 DEF EncodeRow

LEMMA EscapeOfBytes ==
  ASSUME NEW k \in Int, NEW a \in Byte, NEW b \in Byte, NEW c \in Byte
  PROVE  EscapeOf(k, a, b, c).c \in Byte
<1> USE DEF Byte, IsOctal
<1>1. CASE IsOctal(a)
  <2>1. EscapeOf(k, a, b, c) = OctalOf(k, a, b, c)
    <3>1. a # 120 /\ a \notin DOMAIN Control
      BY <1>1 DEF Control
    <3> QED
      BY <1>1, <3>1 DEF EscapeOf
  <2>2. CASE IsOctal(b) /\ IsOctal(c)
    <3>1. OctalOf(k, a, b, c).c = (64 * (a - 48) + 8 * (b - 48) + (c - 48)) % 256
      BY <2>2 DEF OctalOf
    <3> QED
      BY <1>1, <2>1, <2>2, <3>1
  <2>3. CASE IsOctal(b) /\ ~IsOctal(c)
    <3>1. OctalOf(k, a, b, c).c = 8 * (a - 48) + (b - 48)
      BY <2>3 DEF OctalOf
    <3> QED
      BY <1>1, <2>1, <2>3, <3>1
  <2>4. CASE ~IsOctal(b)
    <3>1. OctalOf(k, a, b, c).c = a - 48
      BY <2>4 DEF OctalOf
    <3> QED
      BY <1>1, <2>1, <3>1
  <2> QED
    BY <2>2, <2>3, <2>4
<1>2. CASE ~IsOctal(a) /\ a = 120
  <2>1. EscapeOf(k, a, b, c) = HexOf(k, a, b, c)
    <3>1. a \notin DOMAIN Control
      BY <1>2 DEF Control
    <3> QED
      BY <1>2, <3>1 DEF EscapeOf
  <2>2. \A d \in Byte : GetDecimalFromHex(d) \in -1..15
    BY DEF GetDecimalFromHex
  <2>3. PICK g, h : g = GetDecimalFromHex(b) /\ h = GetDecimalFromHex(c)
    OBVIOUS
  <2>4. g \in -1..15 /\ h \in -1..15
    BY <2>2, <2>3
  <2>5. HexOf(k, a, b, c) =
          CASE g >= 0 /\ h >= 0 -> [c |-> 16 * g + h, next |-> k + 4]
            [] g >= 0 /\ h < 0 -> [c |-> g, next |-> k + 3]
            [] OTHER -> [c |-> a, next |-> k + 2]
    BY <2>3 DEF HexOf
  <2>6. HexOf(k, a, b, c).c \in {16 * g + h, g, a}
        /\ (HexOf(k, a, b, c).c = a \/ g >= 0)
        /\ (HexOf(k, a, b, c).c \in {a, g} \/ h >= 0)
    BY <2>4, <2>5
  <2> QED
    BY <2>1, <2>4, <2>6
<1>3. CASE ~IsOctal(a) /\ a # 120 /\ a \in DOMAIN Control
  <2>1. Control[a] \in Byte
    BY <1>3, SMTT(60) DEF Control, FF, NL, CR, TAB, VT
  <2>2. EscapeOf(k, a, b, c).c = Control[a]
    BY <1>3 DEF EscapeOf
  <2> QED
    BY <2>1, <2>2
<1>4. CASE ~IsOctal(a) /\ a # 120 /\ a \notin DOMAIN Control
  <2>1. EscapeOf(k, a, b, c).c = a
    BY <1>4 DEF EscapeOf
  <2> QED
    BY <2>1
<1> QED
  BY <1>1, <1>2, <1>3, <1>4

LEMMA EscapeIsByte ==
  ASSUME input \in Seq(Byte), NEW k \in Int
  PROVE  EscapeAt(k).c \in Byte
<1>1. EscapeAt(k) = EscapeOf(k, At(k + 1), At(k + 2), At(k + 3))
  BY DEF EscapeAt, EscapeOf, OctalEscape, OctalOf, HexEscape, HexOf, Octal, IsOctal
<1>2. PICK a, b, c : a = At(k + 1) /\ b = At(k + 2) /\ c = At(k + 3)
  OBVIOUS
<1>3. a \in Byte /\ b \in Byte /\ c \in Byte
  BY <1>2, AtIsByte
<1> QED
  BY <1>1, <1>2, <1>3, EscapeOfBytes

LEMMA FieldsOfWords ==
  ASSUME NEW s \in Seq(Byte)
  PROVE  Str(s) \in Fields /\ Nil \in Fields
<1>1. <<>> \in Seq(Byte)
  OBVIOUS
<1> QED
  BY <1>1 DEF Str, Nil, Fields

(* The text and what was read of it. *)
ByteInv == ~IsBinArray => input \in Seq(Byte) /\ word \in Seq(Byte) /\ row \in Seq(Fields)

LEMMA CopyBytes ==
  ASSUME Base, CopyInv, input \in Seq(Byte), word \in Seq(Byte), row \in Seq(Fields), CopyNext
  PROVE  input' \in Seq(Byte) /\ word' \in Seq(Byte) /\ row' \in Seq(Fields)
<1>1. CASE pg_text_enc_copy_row
  <2>1. codec = "copy" /\ EncodeRow(<<Delimiter>>, NullString, <<>>, <<NL>>, CopySpecial, CopyEscape)
    BY <1>1 DEF pg_text_enc_copy_row
  <2>2. <<Delimiter>> \in Seq(Byte) /\ NullString \in Seq(Byte) /\ <<>> \in Seq(Byte) /\ <<NL>> \in Seq(Byte)
    BY CopyAssumption DEF NL, Byte
  <2>3. \A c \in CopySpecial : CopyEscape[c] \in Byte
    BY DEF CopyEscape, BACKSLASH, Byte
  <2>4. EscapeRoom(CopySpecial, 0)
    BY <2>1 DEF CopyInv
  <2>5. input' \in Seq(Byte)
    BY <2>1, <2>2, <2>3, <2>4, RowKeepsBytes
  <2>6. word' = word /\ row' = row
    BY <2>1 DEF EncodeRow, EncodeNull, EncodeString, EncodeBuffer, EncodeByte, EncodeStringEnd,
                EscapeByte, MoveByte, EscapeEnd, EncodeEnd, decVars
  <2> QED
    BY <2>5, <2>6
<1>2. CASE CopyByte
  <2>1. codec = "copy" /\ cur \in Int /\ cur >= 1 /\ cur <= Len(input) /\ input' = input /\ row' = row
    BY <1>2 DEF CopyByte, Decoding, CopyInv, CopyInBounds, Base
  <2>2. EscapeAt(cur).c \in Byte /\ input[cur] \in Byte
    BY <2>1, EscapeIsByte
  <2>3. word' = Append(word, EscapeAt(cur).c) \/ word' = Append(word, input[cur])
    BY <1>2 DEF CopyByte
  <2>4. PICK b \in Byte : word' = Append(word, b)
    BY <2>2, <2>3
  <2> QED
    BY <2>1, <2>4
<1>3. CASE CopyDelimiter \/ CopyRowEnd
  <2>1. PICK f \in Fields : f = FieldOf(cur)
    BY FieldsOfWords DEF FieldOf
  <2>2. (row' = row /\ word' = word) \/ (row' = Append(row, f) /\ word' = <<>>)
    BY <1>3, <2>1 DEF CopyDelimiter, CopyRowEnd, Raise, decVars
  <2>3. input' = input
    BY <1>3 DEF CopyDelimiter, CopyRowEnd, Raise
  <2>4. Append(row, f) \in Seq(Fields) /\ <<>> \in Seq(Byte)
    OBVIOUS
  <2> QED
    BY <2>2, <2>3, <2>4
<1> QED
  BY <1>1, <1>2, <1>3 DEF CopyNext

LEMMA RecordBytes ==
  ASSUME Base, RecordInv, input \in Seq(Byte), word \in Seq(Byte), row \in Seq(Fields), RecordNext
  PROVE  input' \in Seq(Byte) /\ word' \in Seq(Byte) /\ row' \in Seq(Fields)
<1>1. CASE pg_text_enc_record
  <2>1. codec = "record" /\ EncodeRow(<<COMMA>>, <<>>, <<QUOTE>>, <<CLOSE>>, RecordSpecial, RecordEscape)
    BY <1>1 DEF pg_text_enc_record
  <2>2. <<COMMA>> \in Seq(Byte) /\ <<>> \in Seq(Byte) /\ <<QUOTE>> \in Seq(Byte) /\ <<CLOSE>> \in Seq(Byte)
    BY DEF COMMA, QUOTE, CLOSE, Byte
  <2>3. \A c \in RecordSpecial : RecordEscape[c] \in Byte
    BY DEF RecordSpecial, RecordEscape, QUOTE, BACKSLASH, Byte
  <2>4. EscapeRoom(RecordSpecial, 0)
    BY <2>1 DEF RecordInv
  <2>5. input' \in Seq(Byte)
    BY <2>1, <2>2, <2>3, <2>4, RowKeepsBytes
  <2>6. word' = word /\ row' = row
    BY <2>1 DEF EncodeRow, EncodeNull, EncodeString, EncodeBuffer, EncodeByte, EncodeStringEnd,
                EscapeByte, MoveByte, EscapeEnd, EncodeEnd, decVars
  <2> QED
    BY <2>5, <2>6
<1>2. CASE RecordLead \/ RecordTrail
  BY <1>2 DEF RecordLead, RecordTrail, Raise, decVars
<1>3. ASSUME NEW f \in Fields, EndField(f)
      PROVE  input' \in Seq(Byte) /\ word' \in Seq(Byte) /\ row' \in Seq(Fields)
  BY <1>3 DEF EndField
<1>4. CASE RecordNull \/ RecordField
  <2>1. \/ EndField(Nil) \/ EndField(Str(word))
        \/ UNCHANGED <<codec, encVars, input, start, cur, word, stack, row, mode>>
    BY <1>4 DEF RecordNull, RecordField
  <2> QED
    BY <1>3, <2>1, FieldsOfWords
<1>5. CASE RecordByte
  <2>1. \/ Raise \/ UNCHANGED <<codec, encVars, input, start, word, stack, row, mode>>
        \/ \E n \in {0, 1} : \E s : Take(n, s)
    BY <1>5 DEF RecordByte
  <2>2. ASSUME NEW n \in {0, 1}, NEW s, Take(n, s)
        PROVE  input' \in Seq(Byte) /\ word' \in Seq(Byte) /\ row' \in Seq(Fields)
    <3>1. PICK b : b = At(cur + n)
      OBVIOUS
    <3>2. b \in Byte
      BY <3>1, AtIsByte
    <3> QED
      BY <2>2, <3>1, <3>2 DEF Take
  <2> QED
    BY <2>1, <2>2 DEF Raise, decVars
<1> QED
  BY <1>1, <1>2, <1>4, <1>5 DEF RecordNext

LEMMA IdentifierBytes ==
  ASSUME Base, input \in Seq(Byte), word \in Seq(Byte), row \in Seq(Fields),
         mode = "decode" => cur \in Nat \ {0}, IdentifierNext
  PROVE  input' \in Seq(Byte) /\ word' \in Seq(Byte) /\ row' \in Seq(Fields)
<1>1. CASE pg_text_enc_identifier
  <2>1. word' = word /\ row' = row
    BY <1>1 DEF pg_text_enc_identifier, EncodeString, EncodeByte, EncodeStringEnd, EncodeEnd, Raise, decVars
  <2>2. <<DOT>> \in Seq(Byte) /\ <<QUOTE>> \in Seq(Byte) /\ <<>> \in Seq(Byte)
    BY DEF DOT, QUOTE, Byte
  <2>3. CASE EncodeString(<<DOT>>, <<QUOTE>>)
    <3>1. (IF i = 1 THEN <<>> ELSE <<DOT>>) \in Seq(Byte)
      BY <2>2
    <3>2. FieldStart(<<DOT>>, <<QUOTE>>) \in Seq(Byte)
      BY <2>2, <3>1, Joins DEF FieldStart
    <3> QED
      BY <2>1, <2>3, <3>2 DEF EncodeString
  <2>4. CASE EncodeByte(IdentifierSpecial, IdentifierEscape)
    <3>1. i <= Len(value) /\ j \in 1..Len(value[i].str)
      BY <2>4 DEF EncodeByte
    <3>2. PICK c : c = value[i].str[j]
      OBVIOUS
    <3>3. c \in Byte /\ (c \in IdentifierSpecial => IdentifierEscape[c] \in Byte)
      <4>1. c \in Byte
        BY <3>1, <3>2, FieldStrings, ElementOfSeq
      <4> QED
        BY <4>1 DEF IdentifierEscape
    <3>4. input' = input \o (IF c \in IdentifierSpecial THEN <<IdentifierEscape[c], c>> ELSE <<c>>)
      BY <2>4, <3>2 DEF EncodeByte
    <3>5. (IF c \in IdentifierSpecial THEN <<IdentifierEscape[c], c>> ELSE <<c>>) \in Seq(Byte)
      BY <3>3
    <3> QED
      BY <2>1, <3>4, <3>5, Joins
  <2>5. CASE EncodeStringEnd(<<QUOTE>>) \/ EncodeEnd(<<>>) \/ Raise
    BY <2>1, <2>2, <2>5, Joins DEF EncodeStringEnd, EncodeEnd, Raise
  <2> QED
    BY <1>1, <2>3, <2>4, <2>5 DEF pg_text_enc_identifier
<1>2. CASE IdentifierDot \/ IdentifierEnd
  <2>1. PICK f \in Fields : f = Str(word)
    BY FieldsOfWords
  <2>2. row' = Append(row, f) /\ word' = <<>> /\ input' = input
    BY <1>2, <2>1 DEF IdentifierDot, IdentifierEnd
  <2> QED
    BY <2>2
<1>3. CASE IdentifierByte
  <2>1. cur \in Nat \ {0} /\ cur <= Len(input) /\ input' = input /\ row' = row
    BY <1>3 DEF IdentifierByte, InName, IdentifierDecoding
  <2>2. PICK b : b = input[cur]
    OBVIOUS
  <2>3. b \in Byte
    BY <2>1, <2>2
  <2>4. word' = word \/ word' = Append(word, b)
    BY <1>3, <2>2 DEF IdentifierByte
  <2> QED
    BY <2>1, <2>3, <2>4, SMTT(60)
<1> QED
  BY <1>1, <1>2, <1>3 DEF IdentifierNext

LEMMA NumberBytes ==
  /\ write_nbo32(-1) \in Seq(Byte)
  /\ \A n \in Nat : n < MaxFieldSize => write_nbo32(n) \in Seq(Byte)
  /\ \A n \in Nat : n < 32768 => write_nbo16(n) \in Seq(Byte)
<1>1. write_nbo32(-1) \in Seq(Byte)
  BY SMT DEF write_nbo32, Byte
<1>2. ASSUME NEW n \in Nat, n < MaxFieldSize PROVE write_nbo32(n) \in Seq(Byte)
  <2>1. n <= 2147483647
    BY <1>2, SMT DEF MaxFieldSize
  <2>2. PICK a, b, c, d : /\ a = n \div 16777216 /\ b = (n \div 65536) % 256
                          /\ c = (n \div 256) % 256 /\ d = n % 256
    BY SMT
  <2>3. a \in 0..127 /\ b \in 0..255 /\ c \in 0..255 /\ d \in 0..255
    BY <2>1, <2>2, Bytes32, SMT
  <2>4. write_nbo32(n) = <<a, b, c, d>>
    BY <2>2, SMT DEF write_nbo32
  <2>5. <<a, b, c, d>> \in Seq(Byte)
    BY <2>3, SMT DEF Byte
  <2> QED
    BY <2>4, <2>5, SMT
<1>3. ASSUME NEW n \in Nat, n < 32768 PROVE write_nbo16(n) \in Seq(Byte)
  <2>1. n <= 32767
    BY <1>3, SMT
  <2>2. PICK a, b : a = n \div 256 /\ b = n % 256
    OBVIOUS
  <2>3. a \in 0..127 /\ b \in 0..255
    BY <2>1, <2>2, Bytes16, SMT
  <2>4. write_nbo16(n) = <<a, b>>
    BY <2>2, SMT DEF write_nbo16
  <2>5. <<a, b>> \in Seq(Byte)
    BY <2>3, SMT DEF Byte
  <2> QED
    BY <2>4, <2>5, SMT
<1> QED
  BY <1>1, <1>2, <1>3, SMT

LEMMA BinaryBytes ==
  ASSUME Base, BinaryInv, codec = "binary" /\ value # <<>> => value \in BinaryRows,
         input \in Seq(Byte), word \in Seq(Byte), row \in Seq(Fields), BinaryNext
  PROVE  input' \in Seq(Byte) /\ word' \in Seq(Byte) /\ row' \in Seq(Fields)
<1>1. CASE BinaryCount
  <2>1. word' = word /\ row' = row
    BY <1>1, SMT DEF BinaryCount, Raise, decVars
  <2>2. Len(value) \in Nat
    BY DEF Base
  <2>3. input' = input \/ (Len(value) < 32768 /\ input' = write_nbo16(Len(value)))
    BY <1>1, <2>2, SMT DEF BinaryCount, Raise
  <2> QED
    BY <2>1, <2>2, <2>3, NumberBytes, SMT
<1>2. CASE BinaryField
  <2>1. word' = word /\ row' = row /\ codec = "binary" /\ i <= Len(value)
    BY <1>2 DEF BinaryField, decVars
  <2>2. i \in 1..Len(value) /\ value # <<>>
    BY <2>1 DEF Base
  <2>3. PICK str : str = value[i].str
    OBVIOUS
  <2>4. str \in Seq(Byte) /\ Len(str) \in Nat
    BY <2>1, <2>3, FieldStrings
  <2>5. Len(str) < MaxFieldSize
    BY <2>1, <2>2, <2>3, BinaryReadable DEF Base
  <2>6. write_nbo32(-1) \in Seq(Byte) /\ write_nbo32(Len(str)) \in Seq(Byte)
    BY <2>4, <2>5, NumberBytes
  <2>7. input' = input \o write_nbo32(-1) \/ input' = input \o (write_nbo32(Len(str)) \o str)
    BY <1>2, <2>3 DEF BinaryField
  <2> QED
    BY <2>1, <2>4, <2>6, <2>7, Joins
<1>3. CASE EncodeEnd(<<>>)
  <2>1. <<>> \in Seq(Byte)
    OBVIOUS
  <2> QED
    BY <1>3, <2>1, Joins DEF EncodeEnd, decVars
<1>4. CASE BinaryHeader \/ BinaryFieldCount \/ BinaryEnd
  BY <1>4 DEF BinaryHeader, BinaryFieldCount, BinaryEnd, Raise, Move, decVars
<1>5. CASE BinaryFieldData
  <2>1. codec = "binary" /\ mode = "decode"
    BY <1>5 DEF BinaryFieldData, BinaryAt
  <2>2. cur \in Nat \ {0} /\ Len(input) \in Nat
    BY <2>1 DEF BinaryInv, BinaryInBounds, Base
  <2>3. PICK n : n = read_nbo32(cur)
    OBVIOUS
  <2>4. n \in Int
    BY <2>2, <2>3, NumbersRead DEF Base
  <2>5. PICK f : f = IF n = -1 THEN Nil ELSE Str(SubSeq(input, cur + 4, cur + 3 + n))
    OBVIOUS
  <2>6. CASE Raise
    BY <2>6 DEF Raise, decVars
  <2>7. CASE ~Raise
    <3>1. /\ ~(Left(cur) < 4 \/ n < -1 \/ Left(cur) - 4 < n)
          /\ row' = Append(row, f) /\ word' = word /\ input' = input
      BY <1>5, <2>3, <2>5, <2>7 DEF BinaryFieldData, Move
    <3>2. cur + 3 + n <= Len(input)
      BY <2>2, <2>4, <3>1 DEF Left
    <3>3. PICK a, b : a = cur + 4 /\ b = cur + 3 + n
      OBVIOUS
    <3>4. a \in Int /\ b \in Int /\ a >= 1 /\ b <= Len(input)
      BY <2>2, <2>4, <3>2, <3>3
    <3>5. \A m \in a..b : input[m] \in Byte
      BY <2>2, <3>4
    <3>6. SubSeq(input, a, b) \in Seq(Byte)
      BY <3>4, <3>5, SubSeqProperties
    <3>7. f \in Fields
      BY <2>5, <3>3, <3>6, FieldsOfWords
    <3> QED
      BY <3>1, <3>7
  <2> QED
    BY <2>6, <2>7
<1> QED
  BY <1>1, <1>2, <1>3, <1>4, <1>5 DEF BinaryNext, pg_bin_enc_copy_row, pg_bin_dec_copy_row

LEMMA ArrayBytes ==
  ASSUME Base, ArrayInv, input \in Seq(Byte), ArrayNext
  PROVE  input' \in Seq(Byte)
<1>1. Separator \in Seq(Byte) /\ <<LBRACE>> \in Seq(Byte) /\ <<RBRACE>> \in Seq(Byte) /\ NULL \in Seq(Byte)
      /\ <<QUOTE>> \in Seq(Byte) /\ <<>> \in Seq(Byte) /\ QUOTE \in Byte
  <2>1. <<ArrayDelimiter>> \in Seq(Byte) /\ <<>> \in Seq(Byte)
    BY ArrayAssumption
  <2>2. Separator \in Seq(Byte)
    BY <2>1 DEF Separator
  <2>3. /\ <<LBRACE>> \in Seq(Byte) /\ <<RBRACE>> \in Seq(Byte) /\ NULL \in Seq(Byte)
        /\ <<QUOTE>> \in Seq(Byte) /\ QUOTE \in Byte
    BY DEF LBRACE, RBRACE, NULL, QUOTE, Byte
  <2> QED
    BY <2>1, <2>2, <2>3
<1>2. ASSUME NEW t \in Seq(Byte), Emit(t) PROVE input' \in Seq(Byte)
  BY <1>2, Joins DEF Emit
<1>3. CASE WriteOpen \/ WriteClose \/ WriteNull
  <2>1. Separator \o <<LBRACE>> \in Seq(Byte) /\ Separator \o NULL \in Seq(Byte)
    BY <1>1, Joins
  <2>2. Raise \/ Emit(Separator \o <<LBRACE>>) \/ Emit(<<RBRACE>>) \/ Emit(Separator \o NULL)
    BY <1>3 DEF WriteOpen, WriteClose, WriteNull
  <2> QED
    BY <1>1, <1>2, <2>1, <2>2 DEF Raise
<1>4. CASE WriteString
  <2>1. PICK str : str = value[i].str
    OBVIOUS
  <2>2. str \in Seq(Byte) /\ str \in Seq(Nat)
    BY <1>4, <2>1, FieldStrings DEF WriteString, AtElement
  <2>3. PICK n : n = Cardinality(Escapes(str, ArraySpecial))
    OBVIOUS
  <2>4. n \in Nat /\ n + 1 \in Nat
    BY <2>2, <2>3, EscapesCount
  <2>5. [k \in 1..(n + 1) |-> NUL] \in Seq(Byte)
    BY <2>4, ZeroBytes
  <2>6. Separator \o str \in Seq(Byte)
    BY <1>1, <2>2, Joins
  <2>7. \/ Raise \/ Emit(Separator \o str)
        \/ input' = ((input \o Separator) \o str \o [k \in 1..(n + 1) |-> NUL]) \o <<QUOTE>>
    BY <1>4, <2>1, <2>3 DEF WriteString
  <2>8. PICK z : z = [k \in 1..(n + 1) |-> NUL]
    OBVIOUS
  <2>9. input \o Separator \in Seq(Byte)
    BY <1>1, Joins
  <2>10. (input \o Separator) \o str \in Seq(Byte)
    BY <2>2, <2>9, Joins
  <2>11. ((input \o Separator) \o str) \o z \in Seq(Byte)
    BY <2>5, <2>8, <2>10, Joins
  <2>12. (((input \o Separator) \o str) \o z) \o <<QUOTE>> \in Seq(Byte)
    BY <1>1, <2>11, Joins
  <2> QED
    BY <1>2, <2>6, <2>7, <2>8, <2>12 DEF Raise
<1>5. CASE QuoteByte
  <2>1. MoveByte(ArraySpecial, ArrayEscape) /\ IsArray /\ ptr1 # start - 1 /\ mode = "escape"
    BY <1>5 DEF QuoteByte, MoveByte
  <2>2. ptr1 >= start /\ EscapeRoom(ArraySpecial, 1)
    BY <2>1 DEF EscapeRoom, ArrayInv, Base
  <2>3. \A c \in ArraySpecial : ArrayEscape[c] \in Byte
    BY DEF ArrayEscape, BACKSLASH, Byte
  <2> QED
    BY <2>1, <2>2, <2>3, MoveKeepsBytes
<1>6. CASE QuoteEnd
  BY <1>1, <1>6, PutByte DEF QuoteEnd
<1>7. CASE IsArray /\ EncodeEnd(<<>>)
  BY <1>1, <1>7, Joins DEF EncodeEnd
<1>8. CASE pg_text_dec_array
  <2>1. input' = input
    <3>1. CASE SkipSpace \/ DimStart \/ DimItem \/ DimAssign \/ SpaceEnd
      BY <3>1 DEF SkipSpace, DimStart, DimItem, DimAssign, SpaceEnd, GoTo, Raise
    <3>2. CASE ArrayStart \/ ReadSubarray \/ ReadByte \/ ArrayEnd
      BY <3>2 DEF ArrayStart, ReadSubarray, ReadByte, ArrayEnd, Raise
    <3>3. CASE ReadElement \/ ReadPremature
      BY <3>3 DEF ReadElement, ReadPremature, Return, Raise
    <3> QED
      BY <1>8, <3>1, <3>2, <3>3 DEF pg_text_dec_array
  <2> QED
    BY <2>1
<1> QED
  BY <1>3, <1>4, <1>5, <1>6, <1>7, <1>8 DEF ArrayNext, pg_text_enc_array

-----------------------------------------------------------------------------
(* The texts of binary rows *)

LEMMA LeastOf ==
  ASSUME NEW T \in SUBSET Nat, T # {}
  PROVE  \E n \in T : \A k \in T : n <= k
<1>1. PICK n \in T : \A k \in T : <<k, n>> \notin OpToRel(<, Nat)
  BY WFMin, NatLessThanWellFounded
<1>2. \A k \in T : ~(k < n)
  BY <1>1 DEF OpToRel
<1> QED
  BY <1>2

(* g has the texts of the first k fields of r, up to n. *)
Texts(g, r, n) ==
  g = [k \in 0..n |-> IF k = 0 THEN <<>> ELSE g[k - 1] \o FieldText(r[k])]
TextStep(g, r, k) == g[k] = g[k - 1] \o FieldText(r[k])

LEMMA TextsOf ==
  ASSUME NEW g, NEW r, NEW n \in Nat, Texts(g, r, n)
  PROVE  g[0] = <<>>
<1>1. 0 \in 0..n
  OBVIOUS
<1> QED
  BY <1>1 DEF Texts

LEMMA TextsSteps ==
  ASSUME NEW g, NEW r, NEW n \in Nat, Texts(g, r, n), NEW k \in 1..n
  PROVE  TextStep(g, r, k)
<1>1. k \in 0..n /\ k # 0
  OBVIOUS
<1> QED
  BY <1>1 DEF Texts, TextStep

LEMMA TextsFrom ==
  ASSUME NEW g, NEW r, NEW n \in Nat, g = [k \in 0..n |-> g[k]], g[0] = <<>>,
         \A k \in 1..n : TextStep(g, r, k)
  PROVE  Texts(g, r, n)
<1>1. ASSUME NEW k \in 0..n PROVE g[k] = IF k = 0 THEN <<>> ELSE g[k - 1] \o FieldText(r[k])
  <2>1. CASE k = 0
    BY <2>1
  <2>2. CASE k # 0
    <3>1. k \in 1..n
      BY <2>2
    <3>2. TextStep(g, r, k)
      BY <3>1
    <3> QED
      BY <2>2, <3>2 DEF TextStep
  <2> QED
    BY <2>1, <2>2
<1>2. [k \in 0..n |-> g[k]] = [k \in 0..n |-> IF k = 0 THEN <<>> ELSE g[k - 1] \o FieldText(r[k])]
  BY <1>1
<1> QED
  BY <1>2 DEF Texts

LEMMA TextsExist ==
  ASSUME NEW r, NEW n \in Nat
  PROVE  \E g : Texts(g, r, n)
<1> DEFINE T == {m \in Nat : ~ \E g : Texts(g, r, m)}
<1>1. SUFFICES ASSUME T # {} PROVE FALSE
  OBVIOUS
<1>2. PICK m \in T : \A k \in T : m <= k
  <2>1. T \in SUBSET Nat
    OBVIOUS
  <2> HIDE DEF T
  <2> QED
    BY <1>1, <2>1, LeastOf
<1>3. m \in Nat /\ ~ \E g : Texts(g, r, m)
  OBVIOUS
<1>4. CASE m = 0
  <2>1. PICK g : g = [k \in 0..0 |-> <<>>]
    OBVIOUS
  <2>2. g = [k \in 0..0 |-> g[k]] /\ g[0] = <<>> /\ 1..0 = {}
    BY <2>1
  <2>3. Texts(g, r, 0)
    BY <2>2, TextsFrom
  <2> QED
    BY <1>3, <1>4, <2>3
<1>5. CASE m # 0
  <2>1. m - 1 \in Nat /\ ~(m <= m - 1)
    BY <1>3, <1>5
  <2>2. m - 1 \notin T
    BY <1>2, <2>1
  <2>3. PICK g : Texts(g, r, m - 1)
    BY <2>1, <2>2
  <2>4. /\ g[0] = <<>>
        /\ \A k \in 1..(m - 1) : TextStep(g, r, k)
    <3>1. PICK q \in Nat : q = m - 1
      BY <2>1
    <3>2. Texts(g, r, q)
      BY <2>3, <3>1
    <3>3. g[0] = <<>> /\ \A k \in 1..q : TextStep(g, r, k)
      BY <3>2, TextsOf, TextsSteps
    <3> QED
      BY <3>1, <3>3
  <2>5. PICK h : h = [k \in 0..m |-> IF k = m THEN g[m - 1] \o FieldText(r[m]) ELSE g[k]]
    OBVIOUS
  <2>6. h = [k \in 0..m |-> h[k]] /\ h[m] = g[m - 1] \o FieldText(r[m]) /\ \A k \in 0..(m - 1) : h[k] = g[k]
    BY <1>3, <1>5, <2>5
  <2>7. h[0] = <<>>
    <3>1. 0 \in 0..(m - 1)
      BY <2>1
    <3> QED
      BY <2>4, <2>6, <3>1
  <2>8. ASSUME NEW k \in 1..m PROVE TextStep(h, r, k)
    <3>1. k - 1 \in 0..(m - 1) /\ (k = m \/ (k \in 1..(m - 1) /\ k \in 0..(m - 1)))
      BY <1>3
    <3>2. h[k - 1] = g[k - 1]
      BY <2>6, <3>1
    <3>3. CASE k = m
      BY <2>6, <3>2, <3>3 DEF TextStep
    <3>4. CASE k \in 1..(m - 1) /\ k \in 0..(m - 1)
      BY <2>4, <2>6, <3>2, <3>4 DEF TextStep
    <3> QED
      BY <3>1, <3>3, <3>4
  <2>9. Texts(h, r, m)
    BY <1>3, <2>6, <2>7, <2>8, TextsFrom
  <2> QED
    BY <1>3, <2>9
<1> QED
  BY <1>4, <1>5

LEMMA TextsAlike ==
  ASSUME NEW g, NEW r, NEW n \in Nat, Texts(g, r, n), NEW h, NEW s, NEW m \in Nat, Texts(h, s, m), m <= n,
         \A k \in 1..m : s[k] = r[k]
  PROVE  \A k \in 0..m : h[k] = g[k]
<1> DEFINE T == {k \in 0..m : h[k] # g[k]}
<1>1. SUFFICES ASSUME T # {} PROVE FALSE
  OBVIOUS
<1>2. PICK k \in T : \A q \in T : k <= q
  <2>1. T \in SUBSET Nat
    OBVIOUS
  <2> HIDE DEF T
  <2> QED
    BY <1>1, <2>1, LeastOf
<1>3. k \in 0..m /\ h[k] # g[k]
  OBVIOUS
<1>4. h[0] = <<>> /\ g[0] = <<>>
  BY TextsOf
<1>5. k # 0
  BY <1>3, <1>4
<1>6. k \in 1..m /\ k \in 1..n /\ k - 1 \in 0..m /\ ~(k <= k - 1)
  BY <1>3, <1>5
<1>7. PICK q : q = k - 1
  OBVIOUS
<1>8. h[k] = h[q] \o FieldText(s[k]) /\ g[k] = g[q] \o FieldText(r[k])
  <2>1. TextStep(h, s, k) /\ TextStep(g, r, k)
    BY <1>6, TextsSteps
  <2> QED
    BY <1>7, <2>1 DEF TextStep
<1>9. h[q] = g[q]
  BY <1>2, <1>6, <1>7
<1> QED
  BY <1>3, <1>6, <1>8, <1>9

LEMMA FieldsTextOf ==
  ASSUME NEW r \in Seq(Fields), NEW g, Texts(g, r, Len(r))
  PROVE  FieldsText(r) = g[Len(r)]
<1>1. PICK h : h = CHOOSE f : Texts(f, r, Len(r))
  OBVIOUS
<1>2. Texts(h, r, Len(r))
  BY <1>1
<1>3. FieldsText(r) = h[Len(r)]
  BY <1>1 DEF FieldsText, Texts
<1>4. Len(r) \in Nat /\ Len(r) \in 0..Len(r) /\ Len(r) <= Len(r)
  OBVIOUS
<1>5. h[Len(r)] = g[Len(r)]
  BY <1>2, <1>4, TextsAlike
<1> QED
  BY <1>3, <1>5

(* The text of a row that grows by one field. *)
LEMMA FieldsTextGrows ==
  ASSUME NEW r \in Seq(Fields), NEW f \in Fields
  PROVE  FieldsText(Append(r, f)) = FieldsText(r) \o FieldText(f)
<1>1. PICK s : s = Append(r, f)
  OBVIOUS
<1>2. PICK n \in Nat : n = Len(r)
  OBVIOUS
<1>3. s \in Seq(Fields) /\ Len(s) = n + 1 /\ s[n + 1] = f /\ \A k \in 1..n : r[k] = s[k]
  BY <1>1, <1>2
<1>4. n + 1 \in Nat /\ n <= n + 1 /\ n + 1 \in 1..(n + 1) /\ n \in 0..n /\ (n + 1) - 1 = n
  OBVIOUS
<1>5. PICK g : Texts(g, s, n + 1)
  BY <1>4, TextsExist
<1>6. PICK h : Texts(h, r, n)
  BY TextsExist
<1>7. h[n] = g[n]
  BY <1>3, <1>4, <1>5, <1>6, TextsAlike
<1>8. g[n + 1] = g[n] \o FieldText(s[n + 1])
  <2>1. PICK m \in Nat : m = n + 1
    BY <1>4
  <2>2. Texts(g, s, m) /\ m \in 1..m /\ n = m - 1
    BY <1>4, <1>5, <2>1
  <2>3. TextStep(g, s, m)
    BY <2>2, TextsSteps
  <2> QED
    BY <2>1, <2>2, <2>3 DEF TextStep
<1> QED
  BY <1>1, <1>2, <1>3, <1>5, <1>6, <1>7, <1>8, FieldsTextOf

LEMMA NoFieldsText == FieldsText(<<>>) = <<>>
<1>1. PICK r : r = <<>>
  OBVIOUS
<1>2. r \in Seq(Fields) /\ Len(r) = 0 /\ 0 \in Nat
  BY <1>1
<1>3. PICK g : Texts(g, r, 0)
  BY <1>2, TextsExist
<1>4. g[0] = <<>>
  BY <1>2, <1>3, TextsOf
<1> QED
  BY <1>1, <1>2, <1>3, <1>4, FieldsTextOf

-----------------------------------------------------------------------------
(* pg_bin_dec_copy_row, whatever the text *)

LEMMA HasJoined ==
  ASSUME NEW text, NEW a \in Nat \ {0}, NEW s \in Seq(Nat), NEW t \in Seq(Nat),
         Has(text, a, s), Has(text, a + Len(s), t)
  PROVE  Has(text, a, s \o t)
<1>1. /\ Len(s \o t) = Len(s) + Len(t) /\ Len(s) \in Nat /\ Len(t) \in Nat
      /\ \A q \in 1..(Len(s) + Len(t)) : (s \o t)[q] = IF q <= Len(s) THEN s[q] ELSE t[q - Len(s)]
  BY ConcatProperties
<1>2. ASSUME NEW q \in 1..(Len(s) + Len(t)) PROVE text[a + q - 1] = (s \o t)[q]
  <2>1. CASE q <= Len(s)
    <3>1. q \in 1..Len(s)
      BY <1>1, <2>1
    <3> QED
      BY <1>1, <2>1, <3>1 DEF Has
  <2>2. CASE ~(q <= Len(s))
    <3>1. PICK m : m = q - Len(s)
      OBVIOUS
    <3>2. m \in 1..Len(t) /\ (a + Len(s)) + m - 1 = a + q - 1
      BY <1>1, <2>2, <3>1
    <3>3. text[(a + Len(s)) + m - 1] = t[m]
      BY <3>2 DEF Has
    <3> QED
      BY <1>1, <2>2, <3>1, <3>2, <3>3
  <2> QED
    BY <2>1, <2>2
<1> QED
  BY <1>1, <1>2 DEF Has

LEMMA HasFourBytes ==
  ASSUME NEW text, NEW k \in Nat, NEW a, NEW b, NEW c, NEW d, Four(text, k, a, b, c, d)
  PROVE  Has(text, k, <<a, b, c, d>>)
<1>1. PICK s : s = <<a, b, c, d>>
  OBVIOUS
<1>2. Len(s) = 4 /\ s[1] = a /\ s[2] = b /\ s[3] = c /\ s[4] = d
  BY <1>1
<1>3. k + 1 - 1 = k /\ k + 2 - 1 = k + 1 /\ k + 3 - 1 = k + 2 /\ k + 4 - 1 = k + 3
  OBVIOUS
<1>4. text[k + 1 - 1] = s[1] /\ text[k + 2 - 1] = s[2] /\ text[k + 3 - 1] = s[3] /\ text[k + 4 - 1] = s[4]
  BY <1>2, <1>3 DEF Four
<1>5. \A m \in 1..4 : m = 1 \/ m = 2 \/ m = 3 \/ m = 4
  OBVIOUS
<1>6. \A m \in 1..4 : text[k + m - 1] = s[m]
  BY <1>4, <1>5
<1> QED
  BY <1>1, <1>2, <1>6 DEF Has

LEMMA HasTwoBytes ==
  ASSUME NEW text, NEW k \in Nat, NEW a, NEW b, text[k] = a, text[k + 1] = b
  PROVE  Has(text, k, <<a, b>>)
<1>1. PICK s : s = <<a, b>>
  OBVIOUS
<1>2. Len(s) = 2 /\ s[1] = a /\ s[2] = b
  BY <1>1
<1>3. k + 1 - 1 = k /\ k + 2 - 1 = k + 1
  OBVIOUS
<1>4. text[k + 1 - 1] = s[1] /\ text[k + 2 - 1] = s[2]
  BY <1>2, <1>3
<1>5. \A m \in 1..2 : m = 1 \/ m = 2
  OBVIOUS
<1>6. \A m \in 1..2 : text[k + m - 1] = s[m]
  BY <1>4, <1>5
<1> QED
  BY <1>1, <1>2, <1>6 DEF Has

(* The bytes a number is read from are those it is written as. *)
Signed32(n, a, b, c, d) == n = (IF a > 127 THEN a - 256 ELSE a) * 16777216 + b * 65536 + c * 256 + d

LEMMA WrittenAsRead32 ==
  ASSUME NEW a \in Byte, NEW b \in Byte, NEW c \in Byte, NEW d \in Byte, NEW n \in Int,
         Signed32(n, a, b, c, d), n >= -1
  PROVE  write_nbo32(n) = <<a, b, c, d>>
<1>0. a \in 0..255 /\ b \in 0..255 /\ c \in 0..255 /\ d \in 0..255
  BY DEF Byte
<1>1. CASE a > 127
  <2>1. n = (a - 256) * 16777216 + b * 65536 + c * 256 + d
    BY <1>0, <1>1, SMT DEF Signed32
  <2>2. a = 255 /\ b = 255 /\ c = 255 /\ d = 255 /\ n = -1
    BY <1>0, <1>1, <2>1, SMT
  <2> QED
    BY <2>2, SMT DEF write_nbo32
<1>2. CASE ~(a > 127)
  <2>1. n = a * 16777216 + b * 65536 + c * 256 + d /\ n # -1
    BY <1>0, <1>2, SMT DEF Signed32
  <2>2. n % 256 = d /\ n \div 256 = a * 65536 + b * 256 + c
    BY <1>0, <2>1, SMT
  <2>3. n \div 65536 = a * 256 + b /\ n \div 16777216 = a
    BY <1>0, <2>1, SMT
  <2>4. (a * 65536 + b * 256 + c) % 256 = c /\ (a * 256 + b) % 256 = b
    BY <1>0, SMT
  <2>5. (n \div 256) % 256 = c /\ (n \div 65536) % 256 = b
    BY <2>2, <2>3, <2>4, SMT
  <2> QED
    BY <2>1, <2>2, <2>3, <2>5, SMT DEF write_nbo32
<1> QED
  BY <1>1, <1>2

LEMMA LengthSpelled ==
  ASSUME input \in Seq(Byte), NEW k \in Nat \ {0}, k + 3 <= Len(input), NEW n \in Int, n = read_nbo32(k), n >= -1
  PROVE  Has(input, k, write_nbo32(n))
<1>1. PICK a, b, c, d : a = input[k] /\ b = input[k + 1] /\ c = input[k + 2] /\ d = input[k + 3]
  OBVIOUS
<1>2. k \in 1..Len(input) /\ k + 1 \in 1..Len(input) /\ k + 2 \in 1..Len(input) /\ k + 3 \in 1..Len(input)
  <2>1. Len(input) \in Nat
    OBVIOUS
  <2> QED
    BY <2>1
<1>3. a \in Byte /\ b \in Byte /\ c \in Byte /\ d \in Byte
  BY <1>1, <1>2, ElementOfSeq, Zenon
<1>4. At(k) = a /\ At(k + 1) = b /\ At(k + 2) = c /\ At(k + 3) = d
  BY <1>1, <1>2 DEF At
<1>5. Signed32(n, a, b, c, d)
  BY <1>4, SMT DEF read_nbo32, Signed32
<1>6. write_nbo32(n) = <<a, b, c, d>>
  BY <1>3, <1>5, WrittenAsRead32
<1>7. Four(input, k, a, b, c, d)
  BY <1>1 DEF Four
<1> QED
  BY <1>6, <1>7, HasFourBytes

(* The count of a row, or the trailer in place of it. *)
Trailer == <<255, 255>>
Count16(n) == n \in Nat /\ n < 32768

LEMMA CountSpelled ==
  ASSUME input \in Seq(Byte), NEW k \in Nat \ {0}, k + 1 <= Len(input), NEW n \in Int, n = read_nbo16(k), n >= -1
  PROVE  /\ n = -1 => Has(input, k, Trailer)
         /\ n # -1 => Count16(n) /\ Has(input, k, write_nbo16(n))
<1>1. PICK a, b : a = input[k] /\ b = input[k + 1]
  OBVIOUS
<1>2. k \in 1..Len(input) /\ k + 1 \in 1..Len(input)
  <2>1. Len(input) \in Nat
    OBVIOUS
  <2> QED
    BY <2>1
<1>3. a \in 0..255 /\ b \in 0..255
  BY <1>1, <1>2, ElementOfSeq, Zenon DEF Byte
<1>4. At(k) = a /\ At(k + 1) = b
  BY <1>1, <1>2 DEF At
<1>5. n = (IF a > 127 THEN a - 256 ELSE a) * 256 + b
  BY <1>4, SMT DEF read_nbo16
<1>6. Has(input, k, <<a, b>>)
  BY <1>1, HasTwoBytes
<1>7. CASE a > 127
  <2>1. n = -1 /\ a = 255 /\ b = 255
    BY <1>3, <1>5, <1>7, SMT
  <2> QED
    BY <1>6, <2>1 DEF Trailer
<1>8. CASE ~(a > 127)
  <2>1. n = a * 256 + b
    BY <1>3, <1>5, <1>8, SMT
  <2>2. n \in Nat /\ n < 32768 /\ n \div 256 = a /\ n % 256 = b /\ n # -1
    BY <1>3, <1>8, <2>1, SMT
  <2>3. write_nbo16(n) = <<a, b>>
    BY <2>2, SMT DEF write_nbo16
  <2> QED
    BY <1>6, <2>2, <2>3, SMT DEF Count16
<1> QED
  BY <1>7, <1>8

(* What the decoder makes of the field at position k. *)
ReadField(k, n) == IF n = -1 THEN Nil ELSE Str(SubSeq(input, k + 4, k + 3 + n))

LEMMA FieldOfText ==
  ASSUME input \in Seq(Byte), NEW k \in Nat \ {0}, NEW n \in Int, n = read_nbo32(k),
         ~(Left(k) < 4), ~(n < -1), ~(Left(k) - 4 < n), NEW f, f = ReadField(k, n)
  PROVE  /\ f \in Fields /\ Has(input, k, FieldText(f))
         /\ Len(FieldText(f)) = (IF n = -1 THEN 4 ELSE 4 + n)
<1>1. PICK e : e = Len(input)
  OBVIOUS
<1>2. e \in Nat /\ Left(k) = e + 1 - k
  BY <1>1 DEF Left
<1>3. k + 3 <= e /\ n >= -1 /\ k + 3 + n <= e /\ (n # -1 => n \in Nat)
  BY <1>2
<1>4. Has(input, k, write_nbo32(n))
  BY <1>1, <1>3, LengthSpelled
<1>5. CASE n = -1
  <2>1. f = Nil /\ f.kind = "nil"
    BY <1>5 DEF ReadField, Nil
  <2>2. f \in Fields
    BY <2>1 DEF Nil, Fields
  <2>3. Len(FieldText(f)) = 4
    BY <2>1, <2>2, FieldSpelled DEF FieldSize
  <2>4. FieldText(f) = write_nbo32(n)
    BY <1>5, <2>1 DEF FieldText
  <2> QED
    BY <1>4, <1>5, <2>2, <2>3, <2>4
<1>6. CASE n # -1
  <2>1. PICK x, z : x = k + 4 /\ z = k + 3 + n
    OBVIOUS
  <2>2. PICK s : s = SubSeq(input, x, z)
    OBVIOUS
  <2>3. n \in Nat /\ x \in Nat \ {0} /\ z \in Int /\ z <= e /\ z - x + 1 = n /\ (x <= z <=> n # 0)
    <3>1. n \in Nat /\ k \in Nat /\ e \in Nat /\ k + 3 + n <= e
      BY <1>2, <1>3, <1>6
    <3>2. x \in Nat \ {0} /\ z \in Int /\ z <= e
      BY <2>1, <3>1
    <3>3. z - x + 1 = n /\ (x <= z <=> n # 0)
      BY <2>1, <3>1, <3>2, SMTT(60)
    <3> QED
      BY <3>1, <3>2, <3>3
  <2>4. \A q \in x..z : input[q] \in Byte
    <3> TAKE q \in x..z
    <3>1. q \in 1..Len(input)
      BY <1>1, <1>2, <2>3
    <3> QED
      BY <3>1, ElementOfSeq
  <2>5. /\ s \in Seq(Byte) /\ Len(s) = (IF x <= z THEN z - x + 1 ELSE 0)
        /\ \A q \in 1..(z - x + 1) : s[q] = input[x + q - 1]
    BY <2>2, <2>3, <2>4, SubSeqProperties
  <2>6. Len(s) = n /\ \A q \in 1..n : s[q] = input[x + q - 1]
    BY <2>3, <2>5
  <2>7. f = Str(s) /\ f.kind # "nil" /\ f.str = s
    BY <1>6, <2>1, <2>2 DEF ReadField, Str
  <2>8. f \in Fields
    BY <2>5, <2>7 DEF Str, Fields
  <2>9. Len(FieldText(f)) = 4 + n
    BY <2>6, <2>7, <2>8, FieldSpelled DEF FieldSize
  <2>10. FieldText(f) = write_nbo32(n) \o s
    BY <2>6, <2>7 DEF FieldText
  <2>11. PICK w : w = write_nbo32(n)
    OBVIOUS
  <2>12. w \in Seq(Nat) /\ Len(w) = 4
    BY <2>3, <2>11, NumbersWritten, NumberSize, Zenon
  <2>13. Has(input, x, s)
    BY <2>6 DEF Has
  <2>14. Has(input, k, w \o s)
    <3>1. s \in Seq(Nat)
      BY <2>5, BytesCount
    <3>2. k + Len(w) = x
      BY <2>1, <2>12
    <3> QED
      BY <1>4, <2>11, <2>12, <2>13, <3>1, <3>2, HasJoined
  <2> QED
    BY <1>6, <2>8, <2>9, <2>10, <2>11, <2>14
<1> QED
  BY <1>5, <1>6

LEMMA FieldsTextNumbers ==
  ASSUME NEW r \in Seq(Fields)
  PROVE  FieldsText(r) \in Seq(Nat)
<1> DEFINE T == {m \in Nat : \E s \in Seq(Fields) : Len(s) = m /\ FieldsText(s) \notin Seq(Nat)}
<1>1. SUFFICES ASSUME T # {} PROVE FALSE
  <2>1. Len(r) \in Nat
    OBVIOUS
  <2> QED
    BY <2>1
<1>2. PICK m \in T : \A k \in T : m <= k
  <2>1. T \in SUBSET Nat
    OBVIOUS
  <2> HIDE DEF T
  <2> QED
    BY <1>1, <2>1, LeastOf
<1>3. PICK s \in Seq(Fields) : Len(s) = m /\ FieldsText(s) \notin Seq(Nat)
  OBVIOUS
<1>4. m \in Nat
  OBVIOUS
<1>5. s # <<>>
  <2>1. <<>> \in Seq(Nat)
    OBVIOUS
  <2> QED
    BY <1>3, <2>1, NoFieldsText
<1>6. PICK q, f : q = SubSeq(s, 1, Len(s) - 1) /\ f = s[Len(s)]
  OBVIOUS
<1>7. m # 0 /\ m - 1 \in Nat /\ ~(m <= m - 1) /\ Len(s) \in 1..Len(s)
  BY <1>3, <1>4, <1>5, EmptySeq
<1>8. q \in Seq(Fields) /\ f \in Fields /\ s = Append(q, f) /\ Len(q) = m - 1
  <2>1. f \in Fields
    BY <1>3, <1>6, <1>7, ElementOfSeq
  <2>2. PICK z : z = m - 1
    OBVIOUS
  <2>3. z \in Nat /\ z - 1 + 1 = z /\ m = z + 1
    BY <1>7, <2>2
  <2>4. \A x \in 1..z : s[x] \in Fields
    BY <1>3, <2>3
  <2>5. /\ q \in Seq(Fields) /\ Len(q) = z /\ \A x \in 1..z : q[x] = s[x]
    <3>1. q = SubSeq(s, 1, z)
      BY <1>3, <1>6, <2>2
    <3>2. /\ SubSeq(s, 1, z) \in Seq(Fields)
          /\ Len(SubSeq(s, 1, z)) = IF 1 <= z THEN z - 1 + 1 ELSE 0
          /\ \A x \in 1..(z - 1 + 1) : SubSeq(s, 1, z)[x] = s[1 + x - 1]
      <4>1. 1 \in Int /\ z \in Int
        BY <2>3
      <4> QED
        BY <2>4, <4>1, SubSeqProperties
    <3>3. Len(q) = z
      BY <2>3, <3>1, <3>2
    <3>4. ASSUME NEW x \in 1..z PROVE q[x] = s[x]
      <4>1. 1 + x - 1 = x /\ x \in 1..(z - 1 + 1)
        BY <2>3
      <4> QED
        BY <3>1, <3>2, <4>1
    <3> QED
      BY <3>1, <3>2, <3>3, <3>4
  <2>6. PICK t : t = Append(q, f)
    OBVIOUS
  <2>7. t \in Seq(Fields) /\ Len(t) = z + 1 /\ t[z + 1] = f /\ \A x \in 1..z : t[x] = q[x]
    BY <2>1, <2>5, <2>6
  <2>8. \A x \in 1..Len(s) : s[x] = t[x]
    <3> TAKE x \in 1..Len(s)
    <3>1. x \in 1..z \/ x = z + 1
      BY <1>3, <2>3
    <3> QED
      BY <1>3, <1>6, <2>3, <2>5, <2>7, <3>1
  <2>9. s = t
    BY <1>3, <2>3, <2>7, <2>8, SeqEqual
  <2> QED
    BY <2>1, <2>2, <2>5, <2>6, <2>9
<1>9. FieldsText(q) \in Seq(Nat)
  <2>1. m - 1 \notin T
    BY <1>2, <1>7
  <2> QED
    BY <1>7, <1>8, <2>1
<1>10. FieldsText(s) = FieldsText(q) \o FieldText(f)
  BY <1>8, FieldsTextGrows
<1>11. FieldsText(s) \in Seq(Nat)
  <2>1. FieldText(f) \in Seq(Nat)
    BY <1>8, FieldSpelled
  <2> QED
    BY <1>9, <1>10, <2>1, ConcatProperties
<1> QED
  BY <1>3, <1>11

(* The fields read so far are what the text says from start on. *)
RowRead(n) ==
  /\ n = nfields /\ Count16(n) /\ Len(row) <= n
  /\ Has(input, start, write_nbo16(n) \o FieldsText(row))
  /\ cur = start + 2 + Len(FieldsText(row))

BinaryExact ==
  codec = "binary" /\ mode \in {"encode", "decode", "done"} =>
    /\ state \in {"header", "count", "field", "trailer"}
    /\ mode = "encode" => state = "header"
    /\ state \in {"header", "count"} => row = <<>> /\ mode # "done"
    /\ state = "trailer" => Has(input, start, Trailer) /\ cur = start + 2
    /\ state = "field" => \E n : RowRead(n)
    /\ mode = "done" => cur = Len(input) + 1
    /\ mode = "done" /\ state = "field" => Len(row) = nfields

LEMMA ReadsSame ==
  ASSUME NEW CONSTANT k, input' = input
  PROVE  read_nbo16(k)' = read_nbo16(k) /\ read_nbo32(k)' = read_nbo32(k) /\ Left(k)' = Left(k)
<1>1. ASSUME NEW CONSTANT q PROVE At(q)' = At(q)
  BY DEF At
<1> QED
  BY <1>1, SMT DEF read_nbo16, read_nbo32, Left

LEMMA CountIsTwo ==
  ASSUME NEW n \in Nat
  PROVE  write_nbo16(n) \in Seq(Nat) /\ Len(write_nbo16(n)) = 2
<1>1. write_nbo16(n) \in Seq(Nat)
  BY NumbersWritten, Zenon
<1>2. PICK a, b : write_nbo16(n) = <<a, b>>
  BY SMT DEF write_nbo16
<1> QED
  BY <1>1, <1>2

LEMMA BinaryExactCount ==
  ASSUME Base, BinaryInv, input \in Seq(Byte), BinaryExact, BinaryFieldCount
  PROVE  BinaryExact'
<1>1. codec = "binary" /\ mode = "decode" /\ state = "count" /\ row = <<>>
  BY DEF BinaryFieldCount, BinaryAt, BinaryExact
<1>2. PICK k : k = cur
  OBVIOUS
<1>3. PICK e : e = Len(input)
  OBVIOUS
<1>4. e \in Nat /\ k \in Nat \ {0} /\ k <= e + 1 /\ Left(k) = e + 1 - k
  BY <1>1, <1>2, <1>3 DEF BinaryInv, BinaryInBounds, Left
<1>5. PICK n : n = read_nbo16(k)
  OBVIOUS
<1>6. n \in Int
  <2>1. k \in Int /\ input \in Seq(Nat)
    BY <1>4 DEF Base
  <2> QED
    BY <1>5, <2>1, NumbersRead
<1>7. CASE Left(k) < 2 \/ n < -1
  <2>1. Raise
    BY <1>2, <1>5, <1>7 DEF BinaryFieldCount
  <2> QED
    BY <2>1 DEF Raise, BinaryExact
<1>8. CASE ~(Left(k) < 2 \/ n < -1)
  <2>1. /\ start' = k /\ row' = row /\ cur' = k + 2 /\ input' = input /\ mode' = mode /\ codec' = codec
        /\ state' = IF n = -1 THEN "trailer" ELSE "field"
    BY <1>2, <1>5, <1>8 DEF BinaryFieldCount, Move
  <2>2. k + 1 <= Len(input) /\ n >= -1
    BY <1>3, <1>4, <1>6, <1>8
  <2>3. /\ n = -1 => Has(input, k, Trailer)
        /\ n # -1 => Count16(n) /\ Has(input, k, write_nbo16(n))
    BY <1>4, <1>5, <1>6, <2>2, CountSpelled
  <2>4. CASE n = -1
    <3>1. state' = "trailer" /\ Has(input, k, Trailer)'
      BY <2>1, <2>3, <2>4
    <3> QED
      BY <1>1, <2>1, <3>1 DEF BinaryExact
  <2>5. CASE n # -1
    <3>1. state' = "field" /\ Count16(n) /\ Has(input, k, write_nbo16(n))
      BY <2>1, <2>3, <2>5
    <3>2. n \in Nat
      BY <3>1 DEF Count16
    <3>3. write_nbo16(n) \o <<>> = write_nbo16(n)
      BY <3>2, CountIsTwo, ConcatEmptySeq
    <3>4. row' = <<>> /\ FieldsText(row') = <<>> /\ Len(<<>>) = 0
      BY <1>1, <2>1, NoFieldsText
    <3>5. nfields' = n
      BY <1>5, <2>1, ReadsSame DEF nfields
    <3>6. Has(input', start', write_nbo16(n) \o FieldsText(row'))
      BY <2>1, <3>1, <3>3, <3>4
    <3>7. cur' = start' + 2 + Len(FieldsText(row')) /\ Len(row') <= n
      <4>1. k + 2 = k + 2 + 0 /\ 0 <= n
        BY <1>4, <3>2
      <4> QED
        BY <2>1, <3>4, <4>1
    <3>8. RowRead(n)'
      BY <3>1, <3>5, <3>6, <3>7 DEF RowRead
    <3> QED
      BY <1>1, <2>1, <3>1, <3>8 DEF BinaryExact
  <2> QED
    BY <2>4, <2>5
<1> QED
  BY <1>7, <1>8

LEMMA ThreeTexts ==
  ASSUME NEW w \in Seq(Nat), NEW s \in Seq(Nat), NEW t \in Seq(Nat)
  PROVE  /\ w \o s \in Seq(Nat) /\ Len(w \o s) = Len(w) + Len(s) /\ Len(s \o t) = Len(s) + Len(t)
         /\ Len(s) \in Nat /\ Len(t) \in Nat /\ (w \o s) \o t = w \o (s \o t)
<1>1. w \o s \in Seq(Nat) /\ Len(w \o s) = Len(w) + Len(s) /\ Len(s \o t) = Len(s) + Len(t)
  BY ConcatProperties
<1>2. (w \o s) \o t = w \o (s \o t)
  BY ConcatAssociative, SMTT(60)
<1> QED
  BY <1>1, <1>2, LenProperties

LEMMA BinaryExactData ==
  ASSUME Base, BinaryInv, input \in Seq(Byte), row \in Seq(Fields), BinaryExact, BinaryFieldData
  PROVE  BinaryExact'
<1>1. codec = "binary" /\ mode = "decode" /\ state = "field" /\ Len(row) < nfields
  BY DEF BinaryFieldData, BinaryAt
<1>2. PICK n : RowRead(n)
  BY <1>1 DEF BinaryExact
<1>3. PICK k : k = cur
  OBVIOUS
<1>4. k \in Nat \ {0} /\ start \in Nat \ {0}
  BY <1>1, <1>3 DEF BinaryInv, BinaryInBounds
<1>5. PICK m : m = read_nbo32(k)
  OBVIOUS
<1>6. m \in Int
  <2>1. k \in Int /\ input \in Seq(Nat)
    BY <1>4 DEF Base
  <2> QED
    BY <1>5, <2>1, NumbersRead
<1>7. CASE Left(k) < 4 \/ m < -1 \/ Left(k) - 4 < m
  <2>1. Raise
    BY <1>3, <1>5, <1>7 DEF BinaryFieldData
  <2> QED
    BY <2>1 DEF Raise, BinaryExact
<1>8. CASE ~(Left(k) < 4 \/ m < -1 \/ Left(k) - 4 < m)
  <2>1. PICK f : f = ReadField(k, m)
    OBVIOUS
  <2>2. PICK z : z = IF m = -1 THEN 4 ELSE 4 + m
    OBVIOUS
  <2>3. /\ start' = start /\ row' = Append(row, f) /\ cur' = k + z /\ input' = input /\ mode' = mode
        /\ codec' = codec /\ state' = "field"
    BY <1>3, <1>5, <1>8, <2>1, <2>2 DEF BinaryFieldData, Move, ReadField
  <2>4. f \in Fields /\ Has(input, k, FieldText(f)) /\ Len(FieldText(f)) = z
    BY <1>4, <1>5, <1>6, <1>8, <2>1, <2>2, FieldOfText
  <2>5. PICK s, t, w : s = FieldsText(row) /\ t = FieldText(f) /\ w = write_nbo16(n)
    OBVIOUS
  <2>6. n \in Nat /\ n = nfields /\ Len(row) <= n /\ Has(input, start, w \o s) /\ k = start + 2 + Len(s)
    BY <1>2, <1>3, <2>5 DEF RowRead, Count16
  <2>7. s \in Seq(Nat) /\ t \in Seq(Nat) /\ w \in Seq(Nat) /\ Len(w) = 2 /\ Len(t) = z
    BY <2>4, <2>5, <2>6, FieldsTextNumbers, FieldSpelled, CountIsTwo
  <2>8. FieldsText(row') = s \o t
    BY <2>3, <2>4, <2>5, FieldsTextGrows
  <2>9. Len(w \o s) = 2 + Len(s) /\ w \o s \in Seq(Nat) /\ Len(s \o t) = Len(s) + z /\ Len(s) \in Nat /\ z \in Nat
    BY <2>7, ThreeTexts, ZenonT(60)
  <2>10. (w \o s) \o t = w \o (s \o t)
    BY <2>7, ThreeTexts
  <2>11. Has(input, start, (w \o s) \o t)
    <3>1. start + Len(w \o s) = k
      BY <1>4, <2>6, <2>9
    <3> QED
      BY <1>4, <2>4, <2>5, <2>7, <2>9, <2>6, <3>1, HasJoined
  <2>12. Has(input', start', write_nbo16(n) \o FieldsText(row'))
    BY <2>3, <2>5, <2>8, <2>10, <2>11
  <2>13. k + z = start + 2 + Len(s \o t)
    BY <1>4, <2>6, <2>9
  <2>14. cur' = start' + 2 + Len(FieldsText(row'))
    BY <2>3, <2>8, <2>13
  <2>15. nfields' = n
    <3>1. PICK q : q = start
      OBVIOUS
    <3>2. read_nbo16(q)' = read_nbo16(q)
      BY <2>3, ReadsSame
    <3> QED
      BY <2>3, <2>6, <3>1, <3>2 DEF nfields
  <2>16. Len(row') <= n
    <3>1. Len(row') = Len(row) + 1 /\ Len(row) \in Nat
      BY <2>3, <2>4
    <3> QED
      BY <1>1, <2>6, <3>1
  <2>17. RowRead(n)'
    BY <1>2, <2>12, <2>14, <2>15, <2>16 DEF RowRead
  <2> QED
    BY <1>1, <2>3, <2>17 DEF BinaryExact
<1> QED
  BY <1>7, <1>8

LEMMA BinaryExactStep ==
  ASSUME Base, BinaryInv, input \in Seq(Byte), row \in Seq(Fields), BinaryExact, BinaryNext
  PROVE  BinaryExact'
<1>1. CASE BinaryCount
  <2>1. codec = "binary" /\ mode = "encode" /\ mode' \in {"encode", "error"} /\ state' = state /\ row' = row
    BY <1>1, SMT DEF BinaryCount, Raise, decVars
  <2> QED
    BY <2>1 DEF BinaryExact
<1>2. CASE BinaryField
  <2>1. codec = "binary" /\ mode = "encode" /\ mode' = mode /\ state' = state /\ row' = row
    BY <1>2 DEF BinaryField, decVars
  <2> QED
    BY <2>1 DEF BinaryExact
<1>3. CASE codec = "binary" /\ input # <<>> /\ EncodeEnd(<<>>)
  <2>1. codec = "binary" /\ mode = "encode" /\ mode' = "decode" /\ state' = state /\ row' = row
    BY <1>3 DEF EncodeEnd, decVars
  <2> QED
    BY <2>1 DEF BinaryExact
<1>4. CASE BinaryHeader
  <2>1. codec = "binary" /\ mode = "decode" /\ state = "header" /\ row = <<>>
    BY <1>4 DEF BinaryHeader, BinaryAt, BinaryExact
  <2>2. mode' = "error" \/ (mode' = "decode" /\ state' = "count" /\ row' = row)
    <3>1. Raise \/ (\E n : Move(n, "count") /\ UNCHANGED <<start, row>>)
      BY <1>4 DEF BinaryHeader
    <3> QED
      BY <2>1, <3>1 DEF Raise, Move
  <2> QED
    BY <2>1, <2>2 DEF BinaryExact
<1>5. CASE BinaryFieldCount
  BY <1>5, BinaryExactCount
<1>6. CASE BinaryFieldData
  BY <1>6, BinaryExactData
<1>7. CASE BinaryEnd
  <2>1. codec = "binary" /\ mode = "decode" /\ (state = "trailer" \/ (state = "field" /\ Len(row) >= nfields))
    BY <1>7 DEF BinaryEnd, BinaryAt
  <2>2. CASE Left(cur) > 0
    <3>1. mode' = "error"
      BY <1>7, <2>2 DEF BinaryEnd, Raise
    <3> QED
      BY <3>1 DEF BinaryExact
  <2>3. CASE ~(Left(cur) > 0)
    <3>1. /\ mode' = "done" /\ codec' = codec /\ start' = start /\ input' = input
          /\ cur' = cur /\ state' = state /\ row' = row
      BY <1>7, <2>3 DEF BinaryEnd, decVars
    <3>2. cur = Len(input) + 1
      <4>1. PICK e, c : e = Len(input) /\ c = cur
        OBVIOUS
      <4>2. e \in Nat /\ c \in 1..(e + 1) /\ ~(e + 1 - c > 0)
        BY <2>1, <2>3, <4>1 DEF BinaryInv, BinaryInBounds, Left
      <4> QED
        BY <4>1, <4>2
    <3>3. state = "field" => Len(row) = nfields
      <4> SUFFICES ASSUME state = "field" PROVE Len(row) = nfields
        OBVIOUS
      <4>1. PICK n : RowRead(n)
        BY <2>1 DEF BinaryExact
      <4>2. PICK m : m = Len(row)
        OBVIOUS
      <4>3. n \in Nat /\ n = nfields /\ m <= n /\ m \in Nat /\ m >= n
        BY <2>1, <4>1, <4>2 DEF RowRead, Count16
      <4> QED
        BY <4>2, <4>3
    <3>4. nfields' = nfields
      <4>1. PICK q : q = start
        OBVIOUS
      <4>2. read_nbo16(q)' = read_nbo16(q)
        BY <3>1, ReadsSame
      <4> QED
        BY <3>1, <4>1, <4>2 DEF nfields
    <3>5. ASSUME NEW CONSTANT n PROVE RowRead(n) => RowRead(n)'
      BY <3>1, <3>4 DEF RowRead
    <3> QED
      BY <2>1, <3>1, <3>2, <3>3, <3>4, <3>5 DEF BinaryExact
  <2> QED
    BY <2>2, <2>3
<1> QED
  BY <1>1, <1>2, <1>3, <1>4, <1>5, <1>6, <1>7 DEF BinaryNext, pg_bin_enc_copy_row, pg_bin_dec_copy_row

(* The text of a row is laid out as the encoder does it. *)
LEMMA TextLaid ==
  ASSUME NEW r \in BinaryRows, NEW text, BinaryText(r) = text
  PROVE  IsText(text) /\ Laid(BinaryPlan(r), text, Len(r), Len(text) + 1)
<1>1. r # <<>>
  BY BinaryReadable, Zenon
<1>2. PICK P : P = BinaryPlan(r)
  OBVIOUS
<1>3. BinaryPlanned(P, r)
  BY <1>1, <1>2, BinaryPlanning
<1>4. PICK n : n = Len(r)
  OBVIOUS
<1>5. /\ PlanOK(P) /\ P.n = n /\ n \in Nat /\ r \in Seq(Fields) /\ P.prefix = write_nbo16(n)
      /\ \A k \in 1..n : Lead(P, k) = FieldText(r[k]) /\ Body(P, k) = <<>> /\ Trail(P, k) = <<>>
      /\ \A k \in 1..n : FieldText(r[k]) \in Seq(Nat)
  <2>1. /\ PlanOK(P) /\ P.n = n /\ r \in Seq(Fields) /\ P.prefix = write_nbo16(n)
        /\ \A k \in 1..n : Lead(P, k) = FieldText(r[k]) /\ Body(P, k) = <<>> /\ Trail(P, k) = <<>>
        /\ \A k \in 1..n : r[k] \in Fields
    BY <1>3, <1>4 DEF BinaryPlanned
  <2>2. \A k \in 1..n : FieldText(r[k]) \in Seq(Nat)
    BY <2>1, FieldSpelled
  <2> QED
    BY <1>4, <2>1, <2>2, LenProperties
<1>6. PICK g : Texts(g, r, n)
  BY <1>5, TextsExist
<1>7. PICK w : w = write_nbo16(n)
  OBVIOUS
<1>8. w \in Seq(Nat)
  BY <1>5, <1>7, CountIsTwo
<1> DEFINE Good(m) == g[m] \in Seq(Nat) /\ Laid(P, w \o g[m], m, Len(w \o g[m]) + 1)
           T == {m \in 0..n : ~Good(m)}
<1>9. Good(0)
  <2>1. g[0] = <<>> /\ <<>> \in Seq(Nat)
    BY <1>5, <1>6, TextsOf
  <2>2. w \o <<>> = w
    BY <1>8, ConcatEmptySeq
  <2>3. Laid(P, w, 0, Len(w) + 1)
    BY <1>5, <1>7, LaidStarts
  <2> QED
    BY <2>1, <2>2, <2>3
<1>10. ASSUME NEW m \in 1..n, Good(m - 1) PROVE Good(m)
  <2>1. PICK s, t : s = g[m - 1] /\ t = FieldText(r[m])
    OBVIOUS
  <2>2. g[m] = s \o t
    <3>1. TextStep(g, r, m)
      BY <1>5, <1>6, TextsSteps
    <3> QED
      BY <2>1, <3>1 DEF TextStep
  <2>3. s \in Seq(Nat) /\ t \in Seq(Nat)
    BY <1>5, <1>10, <2>1
  <2>4. PICK x, y : x = w \o s /\ y = w \o (s \o t)
    OBVIOUS
  <2>5. IsText(x) /\ Joined(y, x, t) /\ s \o t \in Seq(Nat)
    <3>1. x \in Seq(Nat) /\ y = x \o t
      BY <1>8, <2>3, <2>4, ThreeTexts
    <3>2. s \o t \in Seq(Nat)
      BY <2>3, ConcatProperties
    <3> QED
      BY <3>1, <3>2 DEF IsText, Joined
  <2>6. Laid(P, x, m - 1, Len(x) + 1)
    BY <1>10, <2>1, <2>4
  <2>7. /\ m \in 1..P.n /\ Lead(P, m) = t /\ Body(P, m) = <<>> /\ Trail(P, m) = <<>>
    BY <1>5, <2>1
  <2>8. IsText(y) /\ Opened(P, y, m, 0, Len(y) + 1)
    BY <1>5, <2>5, <2>6, <2>7, OpenStarts
  <2>9. Joined(y, y, Trail(P, m)) /\ Len(Body(P, m)) = 0
    <3>1. y \o <<>> = y
      BY <2>8, ConcatEmptySeq DEF IsText
    <3> QED
      BY <2>7, <3>1 DEF Joined
  <2>10. Laid(P, y, m, Len(y) + 1)
    BY <1>5, <2>7, <2>8, <2>9, OpenEnds
  <2> QED
    BY <2>2, <2>4, <2>5, <2>10
<1>11. Good(n)
  <2>1. SUFFICES ASSUME T # {} PROVE FALSE
    <3>1. n \in 0..n
      BY <1>5
    <3> QED
      BY <3>1
  <2>2. PICK m \in T : \A k \in T : m <= k
    <3>1. T \in SUBSET Nat
      OBVIOUS
    <3> HIDE DEF T
    <3> QED
      BY <2>1, <3>1, LeastOf
  <2>3. m \in 0..n /\ ~Good(m)
    OBVIOUS
  <2> HIDE DEF Good
  <2>4. m \in 1..n /\ m - 1 \in 0..n /\ ~(m <= m - 1)
    <3>1. m # 0
      BY <1>9, <2>3
    <3> QED
      BY <1>5, <2>3, <3>1
  <2>5. Good(m - 1)
    BY <2>2, <2>4
  <2> QED
    BY <1>10, <2>3, <2>4, <2>5
<1>12. text = w \o g[n]
  <2>1. FieldsText(r) = g[n]
    BY <1>4, <1>5, <1>6, FieldsTextOf
  <2> QED
    BY <1>4, <1>7, <2>1 DEF BinaryText
<1>13. IsText(text)
  <2>1. g[n] \in Seq(Nat)
    BY <1>11
  <2>2. w \o g[n] \in Seq(Nat)
    BY <1>8, <2>1, ConcatProperties
  <2> QED
    BY <1>12, <2>2 DEF IsText
<1> QED
  BY <1>2, <1>4, <1>11, <1>12, <1>13

LEMMA TextNotEmpty ==
  ASSUME NEW r \in BinaryRows
  PROVE  BinaryText(r) # <<>>
<1>1. r \in Seq(Fields)
  BY BinaryAssumption
<1>2. PICK n, s, w : n = Len(r) /\ s = FieldsText(r) /\ w = write_nbo16(n)
  OBVIOUS
<1>3. n \in Nat /\ s \in Seq(Nat)
  BY <1>1, <1>2, FieldsTextNumbers, LenProperties
<1>4. w \in Seq(Nat) /\ Len(w) = 2
  BY <1>2, <1>3, CountIsTwo
<1>5. Len(w \o s) = 2 + Len(s) /\ Len(s) \in Nat
  BY <1>3, <1>4, ThreeTexts
<1>6. Len(w \o s) # 0
  BY <1>5
<1>7. BinaryText(r) = w \o s
  BY <1>2 DEF BinaryText
<1> QED
  BY <1>6, <1>7

(* The decoder never refuses the text of a row. *)
OwnText(r) == Countable(r) /\ BinaryText(r) = input
BinaryAccepts ==
  codec = "binary" =>
    \A r \in BinaryRows : OwnText(r) =>
      /\ mode = "decode" => \E at, pos : BinarySpot(BinaryPlan(r), r, at, pos)
      /\ mode # "error"

LEMMA TextLayout ==
  ASSUME NEW r \in BinaryRows, NEW text, BinaryText(r) = text, NEW P, P = BinaryPlan(r)
  PROVE  \E at, pos : Layout(P, text, at, pos, P.n, Len(text) + 1)
<1>1. r # <<>>
  BY BinaryReadable, Zenon
<1>2. P.n = Len(r)
  BY <1>1, BinaryPlanning DEF BinaryPlanned
<1>3. Laid(P, text, P.n, Len(text) + 1)
  BY <1>2, TextLaid
<1> QED
  BY <1>3 DEF Laid

LEMMA BinaryAcceptsStep ==
  ASSUME Base, BinaryExact, BinaryAccepts, BinaryNext
  PROVE  BinaryAccepts'
<1>0. SUFFICES ASSUME codec' = "binary", NEW CONSTANT r \in BinaryRows, OwnText(r)'
      PROVE  /\ mode' = "decode" => \E at, pos : BinarySpot(BinaryPlan(r), r, at, pos)'
             /\ mode' # "error"
  BY DEF BinaryAccepts
<1>1. CASE BinaryCount
  <2>1. CASE Raise
    <3>1. input' = <<>>
      BY <1>1, <2>1 DEF BinaryCount, Raise
    <3> QED
      BY <1>0, <3>1, TextNotEmpty DEF OwnText
  <2>2. CASE ~Raise
    <3>1. mode' = "encode"
      BY <1>1, <2>2, SMT DEF BinaryCount
    <3> QED
      BY <3>1
  <2> QED
    BY <2>1, <2>2
<1>2. CASE BinaryField
  BY <1>2 DEF BinaryField
<1>3. CASE codec = "binary" /\ input # <<>> /\ EncodeEnd(<<>>)
  <2>1. mode = "encode" /\ mode' = "decode" /\ state' = state /\ row' = row /\ cur' = cur
    BY <1>3 DEF EncodeEnd, decVars
  <2>2. state' = "header" /\ cur' = 1 /\ row' = <<>>
    BY <1>3, <2>1 DEF BinaryExact, Base
  <2>3. BinaryText(r) = input'
    BY <1>0 DEF OwnText
  <2>4. PICK P : P = BinaryPlan(r)
    OBVIOUS
  <2>5. PICK at, pos : Layout(P, input', at, pos, P.n, Len(input') + 1)
    BY <2>3, <2>4, TextLayout
  <2>6. BinarySpot(P, r, at, pos)'
    BY <2>2, <2>5 DEF BinarySpot
  <2> QED
    BY <2>1, <2>4, <2>6
<1>4. CASE pg_bin_dec_copy_row
  <2>1. codec = "binary" /\ mode = "decode"
    BY <1>4 DEF pg_bin_dec_copy_row, BinaryHeader, BinaryFieldCount, BinaryFieldData, BinaryEnd, BinaryAt
  <2>2. input' = input
    <3>1. \/ BinaryHeader \/ BinaryFieldCount \/ BinaryFieldData \/ BinaryEnd
      BY <1>4 DEF pg_bin_dec_copy_row
    <3>2. Raise \/ (\E n, s : Move(n, s)) \/ UNCHANGED <<codec, encVars, input, start, decVars>>
      BY <3>1 DEF BinaryHeader, BinaryFieldCount, BinaryFieldData, BinaryEnd
    <3> QED
      BY <3>2 DEF Raise, Move
  <2>3. Countable(r) /\ OwnText(r)
    BY <1>0, <2>2 DEF OwnText
  <2>4. PICK P : P = BinaryPlan(r)
    OBVIOUS
  <2>5. PICK at, pos : BinarySpot(P, r, at, pos)
    BY <2>1, <2>3, <2>4 DEF BinaryAccepts
  <2>6. r # <<>>
    BY BinaryReadable, Zenon
  <2>7. BinaryPlanned(P, r)
    BY <2>4, <2>6, BinaryPlanning
  <2>8. PICK k : k = Len(row) + 1
    OBVIOUS
  <2>9. \/ mode' = "decode" /\ BinarySpot(P, r, at, pos)'
        \/ mode' = "done" /\ row' = r
    BY <1>4, <2>3, <2>5, <2>7, <2>8, BinaryReads
  <2> QED
    BY <2>4, <2>9
<1> QED
  BY <1>1, <1>2, <1>3, <1>4 DEF BinaryNext, pg_bin_enc_copy_row

(* The rest of the text from position a on. *)
LEMMA RestOfText ==
  ASSUME NEW text \in Seq(Nat), NEW a \in Nat \ {0}, NEW s \in Seq(Nat), Has(text, a, s),
         a + Len(s) = Len(text) + 1
  PROVE  SubSeq(text, a, Len(text)) = s
<1>1. PICK n, z : n = Len(s) /\ z = Len(text)
  OBVIOUS
<1>2. n \in Nat /\ z \in Nat /\ z = a + n - 1 /\ z - a + 1 = n /\ (a <= z <=> n # 0)
  <2>1. n \in Nat /\ z \in Nat /\ a + n = z + 1
    BY <1>1, LenProperties
  <2> QED
    BY <2>1
<1>3. \A x \in a..z : text[x] \in Nat
  <2> TAKE x \in a..z
  <2>1. x \in 1..z
    BY <1>2
  <2> QED
    BY <1>1, <2>1, ElementOfSeq
<1>4. PICK t : t = SubSeq(text, a, z)
  OBVIOUS
<1>5. /\ t \in Seq(Nat) /\ Len(t) = (IF a <= z THEN z - a + 1 ELSE 0)
      /\ \A x \in 1..(z - a + 1) : t[x] = text[a + x - 1]
  <2>1. a \in Int /\ z \in Int
    BY <1>2
  <2> QED
    BY <1>3, <1>4, <2>1, SubSeqProperties, SMTT(60)
<1>6. Len(t) = n
  BY <1>2, <1>5
<1>7. \A x \in 1..n : t[x] = s[x]
  BY <1>1, <1>2, <1>5 DEF Has
<1>8. t = s
  BY <1>1, <1>5, <1>6, <1>7, SeqEqual
<1> QED
  BY <1>1, <1>4, <1>8

LEMMA BinaryExactly ==
  ASSUME Base, BinaryExact, BinaryAccepts, row \in Seq(Fields)
  PROVE  BinaryRowExact
<1>1. SUFFICES ASSUME codec = "binary" PROVE BinaryRowExact
  BY DEF BinaryRowExact
<1>2. ASSUME mode = "error", NEW r \in BinaryRows PROVE Len(r) >= 32768 \/ BinaryText(r) # input
  <2>1. ~OwnText(r)
    BY <1>1, <1>2 DEF BinaryAccepts
  <2>2. Len(r) \in Nat
    BY BinaryAssumption, LenProperties
  <2>3. Countable(r) \/ Len(r) >= 32768
    BY <2>2, SMT DEF Countable
  <2> QED
    BY <2>1, <2>3 DEF OwnText
<1>3. ASSUME mode = "done", state = "trailer" PROVE SubSeq(input, start, Len(input)) = Trailer
  <2>1. Has(input, start, Trailer) /\ cur = start + 2 /\ cur = Len(input) + 1
    BY <1>1, <1>3 DEF BinaryExact
  <2>2. Trailer \in Seq(Nat) /\ Len(Trailer) = 2
    BY SMT DEF Trailer
  <2>3. input \in Seq(Nat) /\ start \in Nat \ {0}
    BY DEF Base
  <2> QED
    BY <2>1, <2>2, <2>3, RestOfText
<1>4. ASSUME mode = "done", state # "trailer" PROVE SubSeq(input, start, Len(input)) = BinaryText(row)
  <2>1. state = "field" /\ cur = Len(input) + 1 /\ Len(row) = nfields
    BY <1>1, <1>4 DEF BinaryExact
  <2>2. PICK n : RowRead(n)
    BY <1>1, <1>4, <2>1 DEF BinaryExact
  <2>3. PICK w, s : w = write_nbo16(n) /\ s = FieldsText(row)
    OBVIOUS
  <2>4. n = Len(row) /\ n \in Nat /\ Has(input, start, w \o s) /\ start + 2 + Len(s) = Len(input) + 1
    BY <2>1, <2>2, <2>3 DEF RowRead, Count16
  <2>5. w \in Seq(Nat) /\ s \in Seq(Nat) /\ Len(w) = 2
    BY <2>3, <2>4, CountIsTwo, FieldsTextNumbers
  <2>6. w \o s \in Seq(Nat) /\ Len(w \o s) = 2 + Len(s) /\ Len(s) \in Nat
    <3>1. Len(s) \in Nat
      BY <2>5, LenProperties
    <3>2. w \o s \in Seq(Nat) /\ Len(w \o s) = Len(w) + Len(s)
      BY <2>5, ConcatProperties
    <3> QED
      BY <2>5, <3>1, <3>2
  <2>7. input \in Seq(Nat) /\ start \in Nat \ {0}
    BY DEF Base
  <2>8. start + Len(w \o s) = Len(input) + 1
    BY <2>4, <2>6, <2>7
  <2>9. SubSeq(input, start, Len(input)) = w \o s
    BY <2>4, <2>6, <2>7, <2>8, RestOfText
  <2> QED
    BY <2>3, <2>4, <2>9 DEF BinaryText
<1>5. mode = "done" => SubSeq(input, start, Len(input)) = IF state = "trailer" THEN Trailer ELSE BinaryText(row)
  BY <1>3, <1>4
<1>6. mode = "error" => \A r \in BinaryRows : Len(r) >= 32768 \/ BinaryText(r) # input
  BY <1>2, SMT
<1>7. BinaryRowExact <=>
        (codec = "binary" =>
          /\ mode = "done" => SubSeq(input, start, Len(input)) = IF state = "trailer" THEN Trailer ELSE BinaryText(row)
          /\ mode = "error" => \A r \in BinaryRows : Len(r) >= 32768 \/ BinaryText(r) # input)
  BY SMT DEF BinaryRowExact, Trailer
<1> QED
  BY <1>5, <1>6, <1>7, SMT

-----------------------------------------------------------------------------
(* Which delimiters count *)

(* Exactly n backslashes are before position k. *)
Slashes(k, n) ==
  /\ n \in 0..(k - 1)
  /\ \A m \in (k - n)..(k - 1) : input[m] = BACKSLASH
  /\ k - n = 1 \/ input[k - n - 1] # BACKSLASH

LEMMA EscapedBy ==
  ASSUME NEW k \in Nat \ {0}
  PROVE  Escaped(k) <=> \E n : Slashes(k, n) /\ n % 2 = 1
<1>1. ASSUME NEW n, Slashes(k, n), n % 2 = 1 PROVE n \in 1..(k - 1)
  <2>1. n \in 0..(k - 1)
    BY <1>1 DEF Slashes
  <2>2. n # 0
    BY <1>1, <2>1
  <2> QED
    BY <2>1, <2>2
<1>2. \A n : n \in 1..(k - 1) => n \in 0..(k - 1)
  OBVIOUS
<1>3. ASSUME Escaped(k) PROVE \E n : Slashes(k, n) /\ n % 2 = 1
  BY <1>2, <1>3, Zenon DEF Escaped, Slashes
<1>4. ASSUME NEW n, Slashes(k, n), n % 2 = 1 PROVE Escaped(k)
  <2>1. n \in 1..(k - 1)
    BY <1>1, <1>4
  <2> QED
    BY <1>4, <2>1, Zenon DEF Escaped, Slashes
<1> QED
  BY <1>3, <1>4

LEMMA SlashesNone ==
  ASSUME NEW k \in Nat \ {0}, k = 1 \/ input[k - 1] # BACKSLASH
  PROVE  Slashes(k, 0)
<1>1. 0 \in 0..(k - 1) /\ k - 0 = k /\ (k - 0)..(k - 1) = {}
  OBVIOUS
<1> QED
  BY <1>1 DEF Slashes

LEMMA SlashesMore ==
  ASSUME NEW k \in Nat \ {0}, NEW n, Slashes(k, n), input[k] = BACKSLASH
  PROVE  Slashes(k + 1, n + 1)
<1>1. n \in 0..(k - 1)
  BY DEF Slashes
<1>2. n + 1 \in 0..((k + 1) - 1) /\ (k + 1) - (n + 1) = k - n /\ (k + 1) - 1 = k
  BY <1>1
<1>3. ASSUME NEW m \in (k - n)..k PROVE input[m] = BACKSLASH
  <2>1. m = k \/ m \in (k - n)..(k - 1)
    BY <1>1
  <2> QED
    BY <2>1 DEF Slashes
<1> QED
  BY <1>2, <1>3 DEF Slashes

LEMMA SlashesLess ==
  ASSUME NEW k \in Nat \ {0}, NEW n, Slashes(k + 1, n), n # 0
  PROVE  Slashes(k, n - 1) /\ input[k] = BACKSLASH /\ n \in Nat
<1>1. n \in 0..((k + 1) - 1)
  BY DEF Slashes
<1>2. n - 1 \in 0..(k - 1) /\ k - (n - 1) = (k + 1) - n /\ k \in ((k + 1) - n)..((k + 1) - 1) /\ n \in Nat
  BY <1>1
<1>3. ASSUME NEW m \in (k - (n - 1))..(k - 1) PROVE input[m] = BACKSLASH
  <2>1. m \in ((k + 1) - n)..((k + 1) - 1)
    BY <1>1
  <2> QED
    BY <2>1 DEF Slashes
<1>4. input[k] = BACKSLASH
  BY <1>2 DEF Slashes
<1>5. k - (n - 1) = 1 \/ input[k - (n - 1) - 1] # BACKSLASH
  BY <1>2 DEF Slashes
<1> QED
  BY <1>2, <1>3, <1>4, <1>5 DEF Slashes

LEMMA SlashesExist ==
  ASSUME NEW k \in Nat \ {0}
  PROVE  \E n : Slashes(k, n)
<1> DEFINE T == {q \in Nat \ {0} : ~ \E n : Slashes(q, n)}
<1>1. SUFFICES ASSUME T # {} PROVE FALSE
  OBVIOUS
<1>2. PICK q \in T : \A m \in T : q <= m
  <2>1. T \in SUBSET Nat
    OBVIOUS
  <2> HIDE DEF T
  <2> QED
    BY <1>1, <2>1, LeastOf
<1>3. q \in Nat \ {0} /\ ~ \E n : Slashes(q, n)
  OBVIOUS
<1>4. q # 1
  <2>1. Slashes(1, 0)
    BY SlashesNone
  <2> QED
    BY <1>3, <2>1
<1>5. PICK p \in Nat \ {0} : q = p + 1
  <2>1. q - 1 \in Nat \ {0} /\ q = (q - 1) + 1
    BY <1>3, <1>4
  <2> QED
    BY <2>1
<1>6. p \notin T
  <2>1. ~(q <= p)
    BY <1>5
  <2> QED
    BY <1>2, <2>1
<1>7. PICK n : Slashes(p, n)
  BY <1>6
<1>8. CASE input[p] = BACKSLASH
  <2>1. Slashes(p + 1, n + 1)
    BY <1>7, <1>8, SlashesMore
  <2> QED
    BY <1>3, <1>5, <2>1
<1>9. CASE input[p] # BACKSLASH
  <2>1. q - 1 = p
    BY <1>5
  <2>2. Slashes(q, 0)
    BY <1>3, <1>9, <2>1, SlashesNone
  <2> QED
    BY <1>3, <2>2
<1> QED
  BY <1>8, <1>9

LEMMA SlashesNotFewer ==
  ASSUME NEW k \in Nat \ {0}, NEW n, NEW m, Slashes(k, n), Slashes(k, m)
  PROVE  ~(n < m)
<1>1. n \in 0..(k - 1) /\ m \in 0..(k - 1)
  BY DEF Slashes
<1>2. SUFFICES ASSUME n < m PROVE FALSE
  OBVIOUS
<1>3. k - n # 1 /\ k - n - 1 \in (k - m)..(k - 1)
  BY <1>1, <1>2
<1> QED
  BY <1>3 DEF Slashes

LEMMA SlashesSame ==
  ASSUME NEW k \in Nat \ {0}, NEW n, NEW m, Slashes(k, n), Slashes(k, m)
  PROVE  n = m
<1>1. n \in 0..(k - 1) /\ m \in 0..(k - 1)
  BY DEF Slashes
<1>2. ~(n < m) /\ ~(m < n)
  BY SlashesNotFewer
<1> QED
  BY <1>1, <1>2

LEMMA FirstNotEscaped == ~Escaped(1)
<1>1. 1..(1 - 1) = {}
  OBVIOUS
<1> QED
  BY <1>1 DEF Escaped

(* A byte is escaped behind a backslash that is not. *)
LEMMA EscapedNext ==
  ASSUME NEW k \in Nat \ {0}
  PROVE  Escaped(k + 1) <=> input[k] = BACKSLASH /\ ~Escaped(k)
<1>1. k + 1 \in Nat \ {0}
  OBVIOUS
<1>2. PICK q : q = k + 1
  OBVIOUS
<1>3. q \in Nat \ {0}
  BY <1>1, <1>2
<1>4. ASSUME Escaped(q) PROVE input[k] = BACKSLASH /\ ~Escaped(k)
  <2>1. PICK n : Slashes(q, n) /\ n % 2 = 1
    BY <1>3, <1>4, EscapedBy
  <2>2. n \in Nat
    BY <2>1, <1>3 DEF Slashes
  <2>3. n # 0
    BY <2>1, <2>2
  <2>4. Slashes(k, n - 1) /\ input[k] = BACKSLASH
    BY <1>2, <2>1, <2>3, SlashesLess
  <2>5. ASSUME Escaped(k) PROVE FALSE
    <3>1. PICK m : Slashes(k, m) /\ m % 2 = 1
      BY <2>5, EscapedBy
    <3>2. m = n - 1
      BY <2>4, <3>1, SlashesSame
    <3> QED
      BY <2>1, <2>2, <2>3, <3>1, <3>2
  <2> QED
    BY <2>4, <2>5
<1>5. ASSUME input[k] = BACKSLASH, ~Escaped(k) PROVE Escaped(q)
  <2>1. PICK n : Slashes(k, n)
    BY SlashesExist
  <2>2. n \in Nat
    BY <2>1 DEF Slashes
  <2>3. ~(n % 2 = 1)
    BY <1>5, <2>1, EscapedBy
  <2>4. (n + 1) % 2 = 1
    BY <2>2, <2>3
  <2>5. Slashes(q, n + 1)
    BY <1>2, <1>5, <2>1, SlashesMore
  <2> QED
    BY <1>3, <2>4, <2>5, EscapedBy
<1> QED
  BY <1>2, <1>4, <1>5

-----------------------------------------------------------------------------
(* The escape sequences of COPY *)

Digits == 48..57 \cup 97..102 \cup 65..70

LEMMA DigitsOnly ==
  /\ \A c \in Nat : c \in 48..55 \/ GetDecimalFromHex(c) >= 0 => c \in Digits
  /\ BACKSLASH \notin Digits /\ NL \notin Digits /\ NUL \notin Digits /\ Delimiter \notin Digits
<1>1. \A c \in Nat : c \in 48..55 \/ GetDecimalFromHex(c) >= 0 => c \in Digits
  BY SMT DEF GetDecimalFromHex, Digits
<1>2. BACKSLASH \notin Digits /\ NL \notin Digits /\ NUL \notin Digits
  BY SMT DEF BACKSLASH, NL, NUL, Digits
<1>3. Delimiter \in Nat /\ GetDecimalFromHex(Delimiter) = -1
  BY CopyAssumption, CopyReadable DEF Byte
<1>4. \A c \in Nat : c \in Digits => GetDecimalFromHex(c) # -1
  BY SMT DEF GetDecimalFromHex, Digits
<1>5. Delimiter \notin Digits
  BY <1>3, <1>4
<1> QED
  BY <1>1, <1>2, <1>5

(* Behind a backslash, the byte it escapes, there are only digits. *)
EscapeSpan(k, x) ==
  \/ x = k + 2
  \/ x = k + 3 /\ At(k + 2) \in Digits
  \/ x = k + 4 /\ At(k + 2) \in Digits /\ At(k + 3) \in Digits

LEMMA EscapeSpans ==
  ASSUME input \in Seq(Nat), NEW k \in Nat \ {0}
  PROVE  EscapeSpan(k, EscapeAt(k).next)
<1>1. At(k + 2) \in Nat /\ At(k + 3) \in Nat
  <2>1. k + 2 \in Int /\ k + 3 \in Int
    OBVIOUS
  <2> QED
    BY <2>1, AtCounts
<1>2. /\ Octal(k + 2) => At(k + 2) \in Digits
      /\ Octal(k + 3) => At(k + 3) \in Digits
      /\ GetDecimalFromHex(At(k + 2)) >= 0 => At(k + 2) \in Digits
      /\ GetDecimalFromHex(At(k + 3)) >= 0 => At(k + 3) \in Digits
  BY <1>1, DigitsOnly DEF Octal
<1>3. \/ OctalEscape(k).next = k + 4 /\ Octal(k + 2) /\ Octal(k + 3)
      \/ OctalEscape(k).next = k + 3 /\ Octal(k + 2)
      \/ OctalEscape(k).next = k + 2
  <2>1. CASE Octal(k + 2) /\ Octal(k + 3)
    BY <2>1 DEF OctalEscape
  <2>2. CASE Octal(k + 2) /\ ~Octal(k + 3)
    BY <2>2 DEF OctalEscape
  <2>3. CASE ~Octal(k + 2)
    BY <2>3 DEF OctalEscape
  <2> QED
    BY <2>1, <2>2, <2>3
<1>4. PICK h, g : h = GetDecimalFromHex(At(k + 2)) /\ g = GetDecimalFromHex(At(k + 3))
  OBVIOUS
<1>5. h \in Int /\ g \in Int
  <2>1. \A c \in Nat : GetDecimalFromHex(c) \in Int
    BY SMTT(60) DEF GetDecimalFromHex
  <2> QED
    BY <1>1, <1>4, <2>1
<1>6. \/ HexEscape(k).next = k + 4 /\ h >= 0 /\ g >= 0
      \/ HexEscape(k).next = k + 3 /\ h >= 0
      \/ HexEscape(k).next = k + 2
  <2>1. CASE h >= 0 /\ g >= 0
    BY <1>4, <2>1 DEF HexEscape
  <2>2. CASE h >= 0 /\ g < 0
    <3>1. ~(g >= 0)
      BY <1>5, <2>2
    <3> QED
      BY <1>4, <2>2, <3>1 DEF HexEscape
  <2>3. CASE ~(h >= 0)
    BY <1>4, <2>3 DEF HexEscape
  <2> QED
    BY <1>5, <2>1, <2>2, <2>3
<1>7. EscapeSpan(k, OctalEscape(k).next)
  BY <1>2, <1>3 DEF EscapeSpan
<1>8. EscapeSpan(k, HexEscape(k).next)
  BY <1>2, <1>4, <1>6 DEF EscapeSpan
<1>9. \/ EscapeAt(k) = OctalEscape(k)
      \/ EscapeAt(k) = HexEscape(k)
      \/ EscapeAt(k).next = k + 2
  <2>1. CASE Octal(k + 1)
    BY <2>1, SMT DEF EscapeAt, Octal
  <2>2. CASE ~Octal(k + 1)
    BY <2>2 DEF EscapeAt
  <2> QED
    BY <2>1, <2>2
<1> QED
  BY <1>7, <1>8, <1>9 DEF EscapeSpan

-----------------------------------------------------------------------------
(* Where the fields of a COPY row begin and end *)

(* No delimiter or linefeed that counts is in the current field. *)
InField(s, c) ==
  /\ s \in Nat \ {0} /\ c \in Nat /\ s <= c /\ c <= Len(input) + 1
  /\ s = 1 \/ s - 1 \in Ends({Delimiter})
  /\ \A k \in s..(c - 1) : k \notin Ends({Delimiter, NL})

(* All that is known of a raw field, one fact at a time. *)
LEMMA RawField ==
  ASSUME NEW r \in RawFields
  PROVE  /\ r = <<r[1], r[2]>> /\ r[1] \in 1..(Len(input) + 1) /\ r[2] \in 1..(Len(input) + 1) /\ r[1] <= r[2]
         /\ r[1] = 1 \/ r[1] - 1 \in Ends({Delimiter})
         /\ r[2] = LastEnd \/ r[2] \in Ends({Delimiter, NL})
         /\ \A k \in r[1]..(r[2] - 1) : k \notin Ends({Delimiter, NL})
<1>1. PICK S : S = 1..(Len(input) + 1)
  OBVIOUS
<1>2. r \in S \X S
  BY <1>1 DEF RawFields
<1>3. r = <<r[1], r[2]>> /\ r[1] \in S /\ r[2] \in S
  BY <1>2
<1>4. /\ r[1] <= r[2]
      /\ r[1] = 1 \/ r[1] - 1 \in Ends({Delimiter})
      /\ r[2] = LastEnd \/ r[2] \in Ends({Delimiter, NL})
      /\ \A k \in r[1]..(r[2] - 1) : k \notin Ends({Delimiter, NL})
  BY DEF RawFields
<1> QED
  BY <1>1, <1>3, <1>4

LEMMA RawFieldIs ==
  ASSUME NEW a \in 1..(Len(input) + 1), NEW b \in 1..(Len(input) + 1), a <= b,
         a = 1 \/ a - 1 \in Ends({Delimiter}), b = LastEnd \/ b \in Ends({Delimiter, NL}),
         \A k \in a..(b - 1) : k \notin Ends({Delimiter, NL}),
         a = Len(input) + 1 => Len(input) \notin Ends({NL})
  PROVE  <<a, b>> \in RawFields
<1>1. PICK r : r = <<a, b>>
  OBVIOUS
<1>2. r[1] = a /\ r[2] = b /\ r \in (1..(Len(input) + 1)) \X (1..(Len(input) + 1))
  BY <1>1
<1>3. r \in RawFields
  BY <1>2 DEF RawFields
<1> QED
  BY <1>1, <1>3

LEMMA DelimitersEnd == \A k : k \in Ends({Delimiter}) => k \in Ends({Delimiter, NL})
  BY DEF Ends

(* The field that ends where the decoder is began at start. *)
LEMMA SameField ==
  ASSUME input \in Seq(Nat), NEW s, NEW c, InField(s, c), NEW r \in RawFields, r[2] = c
  PROVE  r = <<s, c>>
<1>1. PICK a : a = r[1]
  OBVIOUS
<1>2. s \in Nat \ {0} /\ c \in Nat /\ s <= c
  BY DEF InField
<1>3. r = <<a, c>> /\ a \in Nat \ {0} /\ a <= c
  <2>1. r = <<a, c>> /\ a \in 1..(Len(input) + 1) /\ a <= c
    BY <1>1, RawField
  <2>2. Len(input) \in Nat
    OBVIOUS
  <2> QED
    BY <2>1, <2>2
<1>4. a = 1 \/ a - 1 \in Ends({Delimiter})
  BY <1>1, RawField
<1>5. \A k \in a..(c - 1) : k \notin Ends({Delimiter, NL})
  BY <1>1, RawField
<1>6. ~(a > s)
  <2> SUFFICES ASSUME a > s PROVE FALSE
    OBVIOUS
  <2>1. a # 1 /\ a - 1 \in s..(c - 1)
    BY <1>2, <1>3
  <2>2. a - 1 \in Ends({Delimiter, NL})
    BY <1>4, <2>1, DelimitersEnd
  <2> QED
    BY <2>1, <2>2 DEF InField
<1>7. ~(a < s)
  <2> SUFFICES ASSUME a < s PROVE FALSE
    OBVIOUS
  <2>1. s # 1 /\ s - 1 \in a..(c - 1)
    BY <1>2, <1>3
  <2>2. s - 1 \in Ends({Delimiter, NL})
    BY <2>1, DelimitersEnd DEF InField
  <2> QED
    BY <1>5, <2>1, <2>2
<1>8. a = s
  BY <1>2, <1>3, <1>6, <1>7
<1> QED
  BY <1>3, <1>8

LEMMA LastEndIs ==
  ASSUME input \in Seq(Nat)
  PROVE  /\ LastEnd = Len(input) \/ LastEnd = Len(input) + 1
         /\ Len(input) \in Ends({BACKSLASH}) => LastEnd = Len(input)
         /\ ~(Len(input) \in Ends({BACKSLASH})) => LastEnd = Len(input) + 1
  BY DEF LastEnd

(* The raw fields that end before position s. *)
RawBefore(s) == {r \in RawFields : r[2] < s}
NullSpelled == {r \in RawFields : SubSeq(input, r[1], r[2] - 1) = NullString}

LEMMA DelimiterCuts ==
  ASSUME input \in Seq(Nat), NEW s, NEW c, InField(s, c), c <= Len(input), c \in Ends({Delimiter})
  PROVE  RawBefore(c + 1) = RawBefore(s) \cup {<<s, c>>} /\ <<s, c>> \in RawFields
<1>1. PICK e : e = Len(input)
  OBVIOUS
<1>2. e \in Nat /\ s \in Nat \ {0} /\ c \in Nat /\ s <= c /\ c <= e
  BY <1>1 DEF InField
<1>3. <<s, c>> \in RawFields
  <2>1. s \in 1..(e + 1) /\ c \in 1..(e + 1) /\ s # e + 1
    BY <1>2
  <2>2. c \in Ends({Delimiter, NL})
    BY DelimitersEnd
  <2>3. (s = 1 \/ s - 1 \in Ends({Delimiter})) /\ \A k \in s..(c - 1) : k \notin Ends({Delimiter, NL})
    BY DEF InField
  <2> QED
    BY <1>1, <1>2, <2>1, <2>2, <2>3, RawFieldIs
<1>4. ASSUME NEW r \in RawFields, r[2] < c + 1 PROVE r[2] < s \/ r = <<s, c>>
  <2>1. PICK b : b = r[2]
    OBVIOUS
  <2>2. b \in Nat
    <3>1. b \in 1..(e + 1)
      BY <1>1, <2>1, RawField
    <3> QED
      BY <1>2, <3>1
  <2>3. CASE b = c
    BY <2>1, <2>3, SameField
  <2>4. CASE b \in s..(c - 1)
    <3>1. b \notin Ends({Delimiter, NL})
      BY <2>4 DEF InField
    <3>2. b = LastEnd
      BY <2>1, <3>1, RawField
    <3>3. b = e \/ b = e + 1
      BY <1>1, <3>2, LastEndIs
    <3> QED
      BY <1>2, <2>4, <3>3
  <2>5. b < s \/ b = c \/ b \in s..(c - 1)
    BY <1>2, <1>4, <2>1, <2>2
  <2> QED
    BY <2>1, <2>3, <2>4, <2>5
<1>5. ASSUME NEW r \in RawFields, r[2] < s PROVE r[2] < c + 1
  <2>1. PICK b : b = r[2]
    OBVIOUS
  <2>2. b \in 1..(e + 1)
    BY <1>1, <2>1, RawField
  <2> QED
    BY <1>2, <1>5, <2>1, <2>2
<1>6. PICK x : x = <<s, c>>
  OBVIOUS
<1>7. x[2] < c + 1
  BY <1>2, <1>6
<1>8. RawBefore(c + 1) = RawBefore(s) \cup {x}
  BY <1>3, <1>4, <1>5, <1>6, <1>7 DEF RawBefore
<1> QED
  BY <1>3, <1>6, <1>8

(* The last field ends at the end of the text, at a linefeed there, or at  *)
(* a backslash that has nothing behind it.                                 *)
LastOfText(c) ==
  \/ c = Len(input) + 1
  \/ c = Len(input) /\ input[c] = NL
  \/ c = Len(input) /\ input[c] = BACKSLASH

LEMMA RowEndCuts ==
  ASSUME input \in Seq(Nat), NEW s, NEW c, InField(s, c), ~Escaped(c), LastOfText(c),
         \A k \in Ends({NL}) : k >= c
  PROVE  RawFields = RawBefore(s) \cup {<<s, c>>} /\ <<s, c>> \in RawFields
<1>1. PICK e : e = Len(input)
  OBVIOUS
<1>2. e \in Nat /\ s \in Nat \ {0} /\ c \in Nat /\ s <= c /\ c <= e + 1 /\ (c = e \/ c = e + 1)
  BY <1>1 DEF InField, LastOfText
<1>3. \/ c = LastEnd
      \/ c = e /\ e \in Ends({Delimiter, NL}) /\ e \notin Ends({Delimiter}) /\ e \notin Ends({BACKSLASH})
  <2>1. CASE c = e + 1
    <3>1. e \notin Ends({BACKSLASH})
      <4> SUFFICES ASSUME e \in Ends({BACKSLASH}) PROVE FALSE
        OBVIOUS
      <4>1. e \in Nat \ {0} /\ input[e] = BACKSLASH /\ ~Escaped(e)
        BY <1>1, <1>2 DEF Ends
      <4> QED
        BY <2>1, <4>1, EscapedNext
    <3> QED
      BY <1>1, <2>1, <3>1, LastEndIs
  <2>2. CASE c = e /\ input[c] = NL
    <3>1. e \in 1..Len(input)
      BY <1>1, <1>2, <2>2
    <3>2. NL # Delimiter /\ NL # BACKSLASH
      BY CopyAssumption DEF NL, BACKSLASH
    <3> QED
      BY <2>2, <3>1, <3>2 DEF Ends
  <2>3. CASE c = e /\ input[c] = BACKSLASH
    <3>1. e \in 1..Len(input)
      BY <1>1, <1>2, <2>3
    <3>2. e \in Ends({BACKSLASH})
      BY <2>3, <3>1 DEF Ends
    <3> QED
      BY <1>1, <2>3, <3>2, LastEndIs
  <2> QED
    BY <1>1, <2>1, <2>2, <2>3 DEF LastOfText
<1>4. <<s, c>> \in RawFields
  <2>1. s \in 1..(e + 1) /\ c \in 1..(e + 1)
    BY <1>2
  <2>2. c = LastEnd \/ c \in Ends({Delimiter, NL})
    BY <1>3
  <2>3. (s = 1 \/ s - 1 \in Ends({Delimiter})) /\ \A k \in s..(c - 1) : k \notin Ends({Delimiter, NL})
    BY DEF InField
  <2>4. s = e + 1 => e \notin Ends({NL})
    <3>1. s = e + 1 => ~(e >= c)
      BY <1>2
    <3> QED
      BY <3>1
  <2> QED
    BY <1>1, <1>2, <2>1, <2>2, <2>3, <2>4, RawFieldIs
<1>5. ASSUME NEW r \in RawFields PROVE r[2] < s \/ r = <<s, c>>
  <2>1. PICK a, b : a = r[1] /\ b = r[2]
    OBVIOUS
  <2>2. a \in 1..(e + 1) /\ b \in 1..(e + 1) /\ a <= b
    BY <1>1, <2>1, RawField
  <2>3. CASE b = c
    BY <2>1, <2>3, SameField
  <2>4. CASE b \in s..(c - 1)
    <3>1. b \notin Ends({Delimiter, NL})
      BY <2>4 DEF InField
    <3>2. b = LastEnd
      BY <2>1, <3>1, RawField
    <3>3. b = e \/ b = e + 1
      BY <1>1, <3>2, LastEndIs
    <3>4. b = e /\ c = e + 1
      BY <1>2, <2>4, <3>3
    <3> QED
      BY <1>3, <3>2, <3>4, <1>2
  <2>5. CASE b = e + 1 /\ c = e
    <3>1. b \notin Ends({Delimiter, NL})
      <4>1. ~(b \in 1..e)
        BY <1>2, <2>5
      <4> QED
        BY <1>1, <4>1 DEF Ends
    <3>2. b = LastEnd
      BY <2>1, <3>1, RawField
    <3>3. e \in Ends({Delimiter, NL}) /\ e \notin Ends({Delimiter})
      <4>1. c # LastEnd
        BY <1>2, <2>5, <3>2
      <4> QED
        BY <1>3, <4>1
    <3>4. e \notin a..(b - 1)
      <4>1. \A k \in a..(b - 1) : k \notin Ends({Delimiter, NL})
        BY <2>1, RawField
      <4> QED
        BY <3>3, <4>1
    <3>5. a = e + 1 /\ a # 1 /\ a - 1 = e
      BY <1>2, <2>2, <2>5, <3>4
    <3>6. a = 1 \/ a - 1 \in Ends({Delimiter})
      BY <2>1, RawField
    <3> QED
      BY <3>3, <3>5, <3>6
  <2>6. b < s \/ b = c \/ b \in s..(c - 1) \/ (b = e + 1 /\ c = e)
    BY <1>2, <2>2
  <2> QED
    BY <2>1, <2>3, <2>4, <2>5, <2>6
<1>6. PICK x : x = <<s, c>>
  OBVIOUS
<1>7. RawFields = RawBefore(s) \cup {x}
  BY <1>4, <1>5, <1>6 DEF RawBefore
<1> QED
  BY <1>4, <1>6, <1>7

LEMMA RawFinite ==
  ASSUME input \in Seq(Nat)
  PROVE  IsFiniteSet(RawFields)
<1>1. PICK S : S = 1..(Len(input) + 1)
  OBVIOUS
<1>2. Len(input) + 1 \in Int /\ 1 \in Int
  OBVIOUS
<1>3. IsFiniteSet(S)
  BY <1>1, <1>2, FS_Interval
<1>4. IsFiniteSet(S \X S)
  BY <1>3, FS_Product
<1>5. RawFields \in SUBSET (S \X S)
  BY <1>1 DEF RawFields
<1> QED
  BY <1>4, <1>5, FS_Subset

Adds(U, T, x) == U = T \cup {x} /\ x \notin T
CountsOneMore(U, T, x, N) ==
  /\ Cardinality(U) = Cardinality(T) + 1
  /\ Cardinality(U \cap N) = Cardinality(T \cap N) + (IF x \in N THEN 1 ELSE 0)

LEMMA OneMore ==
  ASSUME NEW T, IsFiniteSet(T), NEW x, NEW U, Adds(U, T, x), NEW N
  PROVE  CountsOneMore(U, T, x, N)
<1>1. IsFiniteSet(T)
  OBVIOUS
<1>2. Cardinality(U) = Cardinality(T) + 1
  BY <1>1, FS_AddElement DEF Adds
<1>3. IsFiniteSet(T \cap N) /\ x \notin T \cap N
  <2>1. T \cap N \in SUBSET T
    OBVIOUS
  <2> QED
    BY <1>1, <2>1, FS_Subset DEF Adds
<1>4. Cardinality(T \cap N) \in Nat
  BY <1>3, FS_CardinalityType
<1>5. CASE x \in N
  <2>1. U \cap N = (T \cap N) \cup {x}
    BY <1>5 DEF Adds
  <2>2. Cardinality(U \cap N) = Cardinality(T \cap N) + 1
    BY <1>3, <2>1, FS_AddElement
  <2> QED
    BY <1>2, <1>5, <2>2 DEF CountsOneMore
<1>6. CASE x \notin N
  <2>1. U \cap N = T \cap N
    BY <1>6 DEF Adds
  <2>2. PICK n \in Nat : n = Cardinality(T \cap N)
    BY <1>4
  <2>3. n = n + 0
    OBVIOUS
  <2> QED
    BY <1>2, <1>6, <2>1, <2>2, <2>3 DEF CountsOneMore
<1> QED
  BY <1>5, <1>6

(* The number of NULLs in a row. *)
Nils(r) == {n \in DOMAIN r : r[n].kind = "nil"}

LEMMA NilsGrow ==
  ASSUME NEW r \in Seq(Fields), NEW f \in Fields, NEW s, s = Append(r, f)
  PROVE  Cardinality(Nils(s)) = Cardinality(Nils(r)) + (IF f.kind = "nil" THEN 1 ELSE 0)
<1>1. PICK n \in Nat : n = Len(r)
  OBVIOUS
<1>2. s \in Seq(Fields) /\ Len(s) = n + 1 /\ s[n + 1] = f /\ \A k \in 1..n : s[k] = r[k]
  BY <1>1
<1>3. DOMAIN r = 1..n /\ DOMAIN s = 1..(n + 1)
  BY <1>1, <1>2
<1>4. Nils(r) \in SUBSET (1..n)
  BY <1>3 DEF Nils
<1>5. IsFiniteSet(Nils(r))
  <2>1. 1 \in Int /\ n \in Int
    OBVIOUS
  <2> QED
    BY <1>4, <2>1, FS_Interval, FS_Subset
<1>6. n + 1 \notin Nils(r)
  BY <1>4
<1>7. \A k : k \in 1..(n + 1) <=> k \in 1..n \/ k = n + 1
  OBVIOUS
<1>8. Cardinality(Nils(r)) \in Nat
  BY <1>5, FS_CardinalityType
<1>9. CASE f.kind = "nil"
  <2>1. Nils(s) = Nils(r) \cup {n + 1}
    BY <1>2, <1>3, <1>7, <1>9, Zenon DEF Nils
  <2>2. Cardinality(Nils(s)) = Cardinality(Nils(r)) + 1
    <3>1. PICK x : x = n + 1
      OBVIOUS
    <3>2. x \notin Nils(r) /\ Nils(s) = Nils(r) \cup {x}
      BY <1>6, <2>1, <3>1
    <3> QED
      BY <1>5, <3>2, FS_AddElement
  <2> QED
    BY <1>9, <2>2
<1>10. CASE f.kind # "nil"
  <2>1. Nils(s) = Nils(r)
    BY <1>2, <1>3, <1>7, <1>10, Zenon DEF Nils
  <2> QED
    BY <1>8, <1>10, <2>1
<1> QED
  BY <1>9, <1>10

-----------------------------------------------------------------------------
(* pg_text_dec_copy_row *)

(* One byte of a field, or an escape sequence, is no end of the field. *)
LEMMA ByteNoEnd ==
  ASSUME input \in Seq(Nat), NEW c \in Nat \ {0}, ~Escaped(c), c <= Len(input), input[c] \notin {Delimiter, NL},
         NEW x \in Nat, x <= Len(input) + 1,
         (input[c] # BACKSLASH /\ x = c + 1) \/ (input[c] = BACKSLASH /\ EscapeSpan(c, x))
  PROVE  x > c /\ ~Escaped(x) /\ \A k \in c..(x - 1) : k \notin Ends({Delimiter, NL})
<1>1. c \notin Ends({Delimiter, NL})
  BY DEF Ends
<1>2. CASE input[c] # BACKSLASH /\ x = c + 1
  <2>1. ~Escaped(x)
    BY <1>2, EscapedNext
  <2>2. x > c /\ \A k \in c..(x - 1) : k = c
    BY <1>2
  <2> QED
    BY <1>1, <2>1, <2>2
<1>3. CASE input[c] = BACKSLASH /\ EscapeSpan(c, x)
  <2>1. PICK p, q, t : p = c + 1 /\ q = c + 2 /\ t = c + 3
    OBVIOUS
  <2>2. p \in Nat \ {0} /\ q \in Nat \ {0} /\ t \in Nat \ {0} /\ q = p + 1 /\ t = q + 1
    BY <2>1
  <2>3. Escaped(p)
    BY <1>3, <2>1, EscapedNext
  <2>4. ~Escaped(q)
    BY <2>2, <2>3, EscapedNext
  <2>5. p \notin Ends({Delimiter, NL})
    BY <2>3 DEF Ends
  <2>6. ASSUME NEW k \in Nat \ {0}, At(k) \in Digits PROVE k \notin Ends({Delimiter, NL}) /\ ~Escaped(k + 1)
    <3>1. At(k) # NUL
      BY <2>6, DigitsOnly
    <3>2. input[k] = At(k)
      BY <3>1 DEF At
    <3>3. input[k] \notin {Delimiter, NL, BACKSLASH}
      BY <2>6, <3>2, DigitsOnly
    <3>4. ~Escaped(k + 1)
      BY <3>3, EscapedNext
    <3> QED
      BY <3>3, <3>4 DEF Ends
  <2>7. CASE x = q
    <3>1. x > c /\ \A k \in c..(x - 1) : k = c \/ k = p
      BY <2>1, <2>2, <2>7
    <3> QED
      BY <1>1, <2>4, <2>5, <2>7, <3>1
  <2>8. CASE x = t /\ At(q) \in Digits
    <3>1. x > c /\ \A k \in c..(x - 1) : k = c \/ k = p \/ k = q
      BY <2>1, <2>2, <2>8
    <3>2. q \notin Ends({Delimiter, NL}) /\ ~Escaped(x)
      BY <2>2, <2>6, <2>8
    <3> QED
      BY <1>1, <2>5, <3>1, <3>2
  <2>9. CASE x = t + 1 /\ At(q) \in Digits /\ At(t) \in Digits
    <3>1. x > c /\ \A k \in c..(x - 1) : k = c \/ k = p \/ k = q \/ k = t
      BY <2>1, <2>2, <2>9
    <3>2. q \notin Ends({Delimiter, NL}) /\ t \notin Ends({Delimiter, NL}) /\ ~Escaped(x)
      BY <2>2, <2>6, <2>9
    <3> QED
      BY <1>1, <2>5, <3>1, <3>2
  <2>10. x = q \/ (x = t /\ At(q) \in Digits) \/ (x = t + 1 /\ At(q) \in Digits /\ At(t) \in Digits)
    <3>1. c + 4 = t + 1
      BY <2>1
    <3> QED
      BY <1>3, <2>1, <3>1 DEF EscapeSpan
  <2> QED
    BY <2>7, <2>8, <2>9, <2>10
<1> QED
  BY <1>2, <1>3

(* The fields read so far are the raw fields of X. *)
CountsMatch(X) ==
  /\ Len(row) = Cardinality(X)
  /\ Cardinality(Nils(row)) = Cardinality(X \cap NullSpelled)

Grown(r, q, f) == r = Append(q, f)
RowCounts(r, X) == Len(r) = Cardinality(X) /\ Cardinality(Nils(r)) = Cardinality(X \cap NullSpelled)

LEMMA CountsGrow ==
  ASSUME input \in Seq(Nat), row \in Seq(Fields), word \in Seq(Byte), NEW s, s \in Nat, NEW c, c \in Nat, s <= c,
         start = s, NEW f, f = FieldOf(c),
         CountsMatch(RawBefore(s)), NEW X, NEW x, x = <<s, c>>, Adds(X, RawBefore(s), x), x \in RawFields,
         NEW r, Grown(r, row, f)
  PROVE  RowCounts(r, X)
<1>3. IsFiniteSet(RawFields) /\ RawBefore(s) \in SUBSET RawFields
  BY RawFinite DEF RawBefore
<1>4. /\ Cardinality(X) = Cardinality(RawBefore(s)) + 1
      /\ Cardinality(X \cap NullSpelled) = Cardinality(RawBefore(s) \cap NullSpelled) + (IF x \in NullSpelled THEN 1 ELSE 0)
  <2>1. PICK T, N : T = RawBefore(s) /\ N = NullSpelled
    OBVIOUS
  <2>2. IsFiniteSet(T) /\ Adds(X, T, x)
    BY <1>3, <2>1, FS_Subset
  <2>3. CountsOneMore(X, T, x, N)
    BY <2>2, OneMore
  <2> QED
    BY <2>1, <2>3 DEF CountsOneMore
<1>5. f \in Fields /\ (f.kind = "nil" <=> SubSeq(input, s, c - 1) = NullString)
  <2>1. Str(word) \in Fields /\ Nil \in Fields
    BY FieldsOfWords
  <2> QED
    BY <2>1 DEF FieldOf, Str, Nil
<1>6. x \in NullSpelled <=> f.kind = "nil"
  <2>1. x[1] = s /\ x[2] = c
    OBVIOUS
  <2> QED
    BY <1>5, <2>1 DEF NullSpelled
<1>7. Cardinality(Nils(r)) = Cardinality(Nils(row)) + (IF f.kind = "nil" THEN 1 ELSE 0)
  BY <1>5, NilsGrow DEF Grown
<1>8. Len(r) = Len(row) + 1
  BY <1>5 DEF Grown
<1> QED
  BY <1>4, <1>6, <1>7, <1>8 DEF CountsMatch, RowCounts

(* Where the decoder is: nothing before start is left to cut. *)
CopyCutting ==
  /\ InField(start, cur) /\ ~Escaped(cur)
  /\ \A k \in Ends({NL}) : k >= cur
  /\ CountsMatch(RawBefore(start))

CopySplit ==
  codec = "copy" =>
    /\ mode \in {"encode", "escape"} => row = <<>>
    /\ mode = "decode" => CopyCutting
    /\ mode = "error" => \E k \in Ends({NL}) : k < Len(input)
    /\ mode = "done" => (\A k \in Ends({NL}) : k = Len(input)) /\ CountsMatch(RawFields)

LEMMA CutsSame ==
  ASSUME input' = input
  PROVE  /\ Ends({NL})' = Ends({NL}) /\ RawFields' = RawFields /\ NullSpelled' = NullSpelled
         /\ \A k : Escaped(k)' <=> Escaped(k)
         /\ \A s, c : InField(s, c)' <=> InField(s, c)
         /\ \A s : RawBefore(s)' = RawBefore(s)
<1>1. \A k : Escaped(k)' <=> Escaped(k)
  BY DEF Escaped
<1>2. ASSUME NEW CONSTANT C PROVE Ends(C)' = Ends(C)
  BY <1>1, Zenon DEF Ends
<1>3. Ends({NL})' = Ends({NL}) /\ Ends({Delimiter})' = Ends({Delimiter}) /\ Ends({BACKSLASH})' = Ends({BACKSLASH})
      /\ Ends({Delimiter, NL})' = Ends({Delimiter, NL})
  BY <1>1, Zenon DEF Ends
<1>4. LastEnd' = LastEnd
  BY <1>3, Zenon DEF LastEnd
<1>5. RawFields' = RawFields
  BY <1>3, <1>4, Zenon DEF RawFields
<1>6. NullSpelled' = NullSpelled
  BY <1>5, Zenon DEF NullSpelled
<1>7. \A s, c : InField(s, c)' <=> InField(s, c)
  BY <1>3, Zenon DEF InField
<1>8. \A s : RawBefore(s)' = RawBefore(s)
  BY <1>5, Zenon DEF RawBefore
<1> QED
  BY <1>1, <1>3, <1>5, <1>6, <1>7, <1>8

LEMMA CopySplitByte ==
  ASSUME Base, CopyInv, CopyInv', CopySplit, CopyByte
  PROVE  CopySplit'
<1>1. codec = "copy" /\ mode = "decode" /\ cur <= Len(input) /\ input[cur] \notin {Delimiter, NL}
  BY DEF CopyByte, Decoding
<1>2. CopyCutting /\ input \in Seq(Nat)
  BY <1>1 DEF CopySplit, Base
<1>3. codec' = codec /\ mode' = mode /\ input' = input /\ start' = start /\ row' = row
  BY DEF CopyByte
<1>4. PICK s, c, x : s = start /\ c = cur /\ x = cur'
  OBVIOUS
<1>5. InField(s, c) /\ ~Escaped(c) /\ (\A k \in Ends({NL}) : k >= c) /\ CountsMatch(RawBefore(s))
  BY <1>2, <1>4 DEF CopyCutting
<1>6. PICK e \in Nat : e = Len(input)
  BY <1>2
<1>7. s \in Nat \ {0} /\ c \in Nat \ {0} /\ s <= c /\ c <= e
  BY <1>1, <1>4, <1>5, <1>6 DEF InField
<1>8. x \in Nat /\ x <= e + 1
  <2>1. cur' \in 1..(Len(input') + 1)
    BY <1>1, <1>3 DEF CopyInv, CopyInBounds
  <2>2. x \in 1..(e + 1)
    BY <1>3, <1>4, <1>6, <2>1
  <2> QED
    BY <2>2
<1>9. (input[c] # BACKSLASH /\ x = c + 1) \/ (input[c] = BACKSLASH /\ EscapeSpan(c, x))
  <2>1. EscapeSpan(c, EscapeAt(c).next)
    BY <1>2, <1>7, EscapeSpans
  <2> QED
    BY <1>4, <2>1 DEF CopyByte
<1>10. x > c /\ ~Escaped(x) /\ \A k \in c..(x - 1) : k \notin Ends({Delimiter, NL})
  BY <1>1, <1>2, <1>4, <1>5, <1>6, <1>7, <1>8, <1>9, ByteNoEnd
<1>11. InField(s, x)
  <2>1. ASSUME NEW k \in s..(x - 1) PROVE k \notin Ends({Delimiter, NL})
    <3>1. k \in s..(c - 1) \/ k \in c..(x - 1)
      BY <1>7, <1>8
    <3> QED
      BY <1>5, <1>10, <3>1 DEF InField
  <2>2. s <= x
    BY <1>7, <1>8, <1>10
  <2>3. s = 1 \/ s - 1 \in Ends({Delimiter})
    BY <1>5 DEF InField
  <2> QED
    BY <1>6, <1>7, <1>8, <2>1, <2>2, <2>3 DEF InField
<1>12. ASSUME NEW k \in Ends({NL}) PROVE k >= x
  <2>1. k \in Nat /\ k >= c /\ k \in Ends({Delimiter, NL})
    BY <1>5, <1>12 DEF Ends
  <2>2. k \notin c..(x - 1)
    BY <1>10, <2>1
  <2> QED
    BY <1>7, <1>8, <2>1, <2>2
<1>13. InField(s, x)' /\ (~Escaped(x))' /\ Ends({NL})' = Ends({NL}) /\ RawBefore(s)' = RawBefore(s)
       /\ NullSpelled' = NullSpelled
  BY <1>3, <1>10, <1>11, CutsSame
<1>14. CountsMatch(RawBefore(s))'
  BY <1>3, <1>5, <1>13 DEF CountsMatch
<1>15. CopyCutting'
  BY <1>3, <1>4, <1>12, <1>13, <1>14 DEF CopyCutting
<1> QED
  BY <1>1, <1>3, <1>15 DEF CopySplit

LEMMA NotEmptyField ==
  ASSUME NEW s, NEW c, InField(s, c)
  PROVE  <<s, c>> \notin RawBefore(s)
<1>1. PICK x : x = <<s, c>>
  OBVIOUS
<1>2. s \in Nat /\ c \in Nat /\ s <= c /\ x[2] = c
  BY <1>1 DEF InField
<1>3. ~(x[2] < s)
  BY <1>2
<1>4. x \notin RawBefore(s)
  BY <1>3 DEF RawBefore
<1> QED
  BY <1>1, <1>4

LEMMA CopySplitDelimiter ==
  ASSUME Base, CopySplit, row \in Seq(Fields), word \in Seq(Byte), CopyDelimiter
  PROVE  CopySplit'
<1>1. codec = "copy" /\ mode = "decode" /\ cur <= Len(input) /\ input[cur] = Delimiter
  BY DEF CopyDelimiter, Decoding
<1>2. CopyCutting /\ input \in Seq(Nat)
  BY <1>1 DEF CopySplit, Base
<1>3. PICK s, c, f : s = start /\ c = cur /\ f = FieldOf(c)
  OBVIOUS
<1>4. codec' = codec /\ mode' = mode /\ input' = input /\ start' = c + 1 /\ cur' = c + 1 /\ row' = Append(row, f)
  BY <1>3 DEF CopyDelimiter
<1>5. InField(s, c) /\ ~Escaped(c) /\ (\A k \in Ends({NL}) : k >= c) /\ CountsMatch(RawBefore(s))
  BY <1>2, <1>3 DEF CopyCutting
<1>6. PICK e \in Nat : e = Len(input)
  BY <1>2
<1>7. s \in Nat \ {0} /\ c \in Nat \ {0} /\ s <= c /\ c <= e
  BY <1>1, <1>3, <1>5, <1>6 DEF InField
<1>8. c \in Ends({Delimiter})
  <2>1. c \in 1..Len(input)
    BY <1>6, <1>7
  <2> QED
    BY <1>1, <1>3, <1>5, <2>1 DEF Ends
<1>9. RawBefore(c + 1) = RawBefore(s) \cup {<<s, c>>} /\ <<s, c>> \in RawFields
  BY <1>2, <1>5, <1>6, <1>7, <1>8, DelimiterCuts
<1>10. PICK X, x, r : X = RawBefore(c + 1) /\ x = <<s, c>> /\ r = Append(row, f)
  OBVIOUS
<1>11. Adds(X, RawBefore(s), x) /\ x \in RawFields
  BY <1>5, <1>9, <1>10, NotEmptyField DEF Adds
<1>12. Grown(r, row, f)
  BY <1>10 DEF Grown
<1>13. RowCounts(r, X)
  <2>1. s \in Nat /\ c \in Nat
    BY <1>7
  <2> QED
    BY <1>2, <1>3, <1>5, <1>7, <1>10, <1>11, <1>12, <2>1, CountsGrow
<1>14. PICK n : n = c + 1
  OBVIOUS
<1>15. n \in Nat \ {0} /\ n <= e + 1 /\ n - 1 = c /\ n..(n - 1) = {}
  BY <1>7, <1>14
<1>16. InField(n, n)
  BY <1>6, <1>8, <1>15 DEF InField
<1>17. ~Escaped(n)
  <2>1. input[c] # BACKSLASH
    BY <1>1, <1>3, CopyAssumption
  <2> QED
    BY <1>7, <1>14, <2>1, EscapedNext
<1>18. ASSUME NEW k \in Ends({NL}) PROVE k >= n
  <2>1. k \in Nat /\ k >= c /\ input[k] = NL
    BY <1>5, <1>18 DEF Ends
  <2>2. k # c
    BY <1>1, <1>3, <2>1, CopyAssumption
  <2> QED
    BY <1>7, <1>14, <2>1, <2>2
<1>19. InField(n, n)' /\ (~Escaped(n))' /\ Ends({NL})' = Ends({NL}) /\ RawBefore(n)' = X /\ NullSpelled' = NullSpelled
  BY <1>4, <1>10, <1>14, <1>16, <1>17, CutsSame
<1>20. CountsMatch(RawBefore(n))'
  BY <1>4, <1>10, <1>13, <1>19 DEF CountsMatch, RowCounts
<1>21. CopyCutting'
  BY <1>4, <1>14, <1>18, <1>19, <1>20 DEF CopyCutting
<1> QED
  BY <1>1, <1>4, <1>21 DEF CopySplit

LEMMA CopySplitEnd ==
  ASSUME Base, CopySplit, row \in Seq(Fields), word \in Seq(Byte), CopyRowEnd
  PROVE  CopySplit'
<1>1. codec = "copy" /\ mode = "decode" /\ CopyRowEnds
  BY DEF CopyRowEnd, Decoding
<1>2. CopyCutting /\ input \in Seq(Nat)
  BY <1>1 DEF CopySplit, Base
<1>3. PICK s, c, f : s = start /\ c = cur /\ f = FieldOf(c)
  OBVIOUS
<1>4. PICK e \in Nat : e = Len(input)
  BY <1>2
<1>5. InField(s, c) /\ ~Escaped(c) /\ (\A k \in Ends({NL}) : k >= c) /\ CountsMatch(RawBefore(s))
  BY <1>2, <1>3 DEF CopyCutting
<1>6. s \in Nat \ {0} /\ c \in Nat \ {0} /\ s <= c /\ c <= e + 1
  BY <1>4, <1>5 DEF InField
<1>7. c > e \/ (c \in 1..e /\ input[c] = NL) \/ (c = e /\ input[c] = BACKSLASH)
  <2>1. c > e \/ At(c) = NL \/ (At(c) = BACKSLASH /\ c = e)
    BY <1>1, <1>3, <1>4 DEF CopyRowEnds
  <2>2. NL # NUL /\ BACKSLASH # NUL
    BY DEF NL, BACKSLASH, NUL
  <2> QED
    BY <1>4, <2>1, <2>2 DEF At
<1>8. CASE c < e
  <2>1. c \in 1..e /\ input[c] = NL
    BY <1>6, <1>7, <1>8
  <2>2. c \in Ends({NL})
    BY <1>4, <1>5, <2>1 DEF Ends
  <2>3. mode' = "error" /\ input' = input
    BY <1>3, <1>4, <1>8 DEF CopyRowEnd, Raise
  <2>4. Ends({NL})' = Ends({NL}) /\ Len(input') = e
    BY <1>4, <2>3, CutsSame
  <2>5. \E k \in Ends({NL})' : k < Len(input')
    BY <1>8, <2>2, <2>4
  <2> QED
    BY <2>3, <2>5 DEF CopySplit
<1>9. CASE ~(c < e)
  <2>1. mode' = "done" /\ input' = input /\ row' = Append(row, f)
    BY <1>3, <1>4, <1>9 DEF CopyRowEnd
  <2>2. LastOfText(c)
    <3>1. c = e + 1 \/ (c = e /\ input[c] = NL) \/ (c = e /\ input[c] = BACKSLASH)
      BY <1>6, <1>7, <1>9
    <3> QED
      BY <1>4, <3>1 DEF LastOfText
  <2>3. RawFields = RawBefore(s) \cup {<<s, c>>} /\ <<s, c>> \in RawFields
    BY <1>2, <1>5, <2>2, RowEndCuts
  <2>4. PICK X, x, r : X = RawFields /\ x = <<s, c>> /\ r = Append(row, f)
    OBVIOUS
  <2>5. Adds(X, RawBefore(s), x) /\ x \in RawFields
    BY <1>5, <2>3, <2>4, NotEmptyField DEF Adds
  <2>6. Grown(r, row, f)
    BY <2>4 DEF Grown
  <2>7. RowCounts(r, X)
    <3>1. s \in Nat /\ c \in Nat
      BY <1>6
    <3> QED
      BY <1>2, <1>3, <1>5, <1>6, <2>4, <2>5, <2>6, <3>1, CountsGrow
  <2>8. RawFields' = X /\ NullSpelled' = NullSpelled /\ Ends({NL})' = Ends({NL}) /\ Len(input') = e
    BY <1>4, <2>1, <2>4, CutsSame
  <2>9. CountsMatch(RawFields)'
    BY <2>1, <2>4, <2>7, <2>8 DEF CountsMatch, RowCounts
  <2>10. ASSUME NEW k \in Ends({NL}) PROVE k = e
    <3>1. k \in 1..e /\ k >= c
      BY <1>4, <1>5, <2>10 DEF Ends
    <3> QED
      BY <1>6, <1>9, <3>1
  <2> QED
    BY <2>1, <2>8, <2>9, <2>10 DEF CopySplit
<1> QED
  BY <1>8, <1>9

LEMMA CuttingStarts == input \in Seq(Nat) /\ start = 1 /\ cur = 1 /\ row = <<>> => CopyCutting
<1> SUFFICES ASSUME input \in Seq(Nat), start = 1, cur = 1, row = <<>> PROVE CopyCutting
  OBVIOUS
<1>1. PICK e \in Nat : e = Len(input)
  OBVIOUS
<1>2. 1 \in Nat \ {0} /\ 1 <= 1 /\ 1 <= e + 1 /\ 1..(1 - 1) = {}
  OBVIOUS
<1>3. InField(1, 1)
  BY <1>1, <1>2 DEF InField
<1>4. \A k \in Ends({NL}) : k >= 1
  BY DEF Ends
<1>5. RawBefore(1) = {}
  <2>1. ASSUME NEW r \in RawFields PROVE ~(r[2] < 1)
    <3>1. PICK b : b = r[2]
      OBVIOUS
    <3>2. b \in 1..(e + 1)
      BY <1>1, <3>1, RawField
    <3> QED
      BY <3>1, <3>2
  <2> QED
    BY <2>1 DEF RawBefore
<1>6. Nils(row) = {} /\ RawBefore(1) \cap NullSpelled = {} /\ Len(row) = 0
  BY <1>5 DEF Nils
<1>7. CountsMatch(RawBefore(1))
  BY <1>5, <1>6, FS_EmptySet DEF CountsMatch
<1> QED
  BY <1>3, <1>4, <1>7, FirstNotEscaped DEF CopyCutting

LEMMA CopySplitStep ==
  ASSUME Base, Base', CopyInv, CopyInv', CopySplit, row \in Seq(Fields), word \in Seq(Byte), CopyNext
  PROVE  CopySplit'
<1>1. CASE pg_text_enc_copy_row
  <2>1. codec = "copy" /\ EncodeRow(<<Delimiter>>, NullString, <<>>, <<NL>>, CopySpecial, CopyEscape)
    BY <1>1 DEF pg_text_enc_copy_row
  <2>2. /\ mode \in {"encode", "escape"} /\ cur' = cur /\ row' = row
        /\ mode' \in {"encode", "escape"} \/ (mode' = "decode" /\ start' = 1)
    BY <2>1 DEF EncodeRow, EncodeNull, EncodeString, EncodeBuffer, EncodeByte, EncodeStringEnd, EscapeByte, MoveByte,
                EscapeEnd, EncodeEnd, decVars
  <2>3. row' = <<>> /\ cur' = 1 /\ input' \in Seq(Nat)
    BY <2>1, <2>2 DEF CopySplit, Base
  <2>4. (input \in Seq(Nat) /\ start = 1 /\ cur = 1 /\ row = <<>> => CopyCutting)'
    BY CuttingStarts, PTL
  <2>5. mode' = "decode" => CopyCutting'
    BY <2>2, <2>3, <2>4
  <2> QED
    BY <2>2, <2>3, <2>5 DEF CopySplit
<1>2. CASE CopyByte
  BY <1>2, CopySplitByte
<1>3. CASE CopyDelimiter
  BY <1>3, CopySplitDelimiter
<1>4. CASE CopyRowEnd
  BY <1>4, CopySplitEnd
<1> QED
  BY <1>1, <1>2, <1>3, <1>4 DEF CopyNext

LEMMA CopySplits ==
  ASSUME CopySplit
  PROVE  CopyFieldsSplit
<1>1. SUFFICES ASSUME codec = "copy", mode = "done" PROVE CopyFieldsSplit
  BY DEF CopySplit, CopyFieldsSplit
<1>2. (\A k \in Ends({NL}) : k = Len(input)) /\ CountsMatch(RawFields)
  BY <1>1 DEF CopySplit
<1>3. Nils(row) = {n \in DOMAIN row : row[n].kind = "nil"}
  BY DEF Nils
<1>4. RawFields \cap NullSpelled = {r \in RawFields : SubSeq(input, r[1], r[2] - 1) = NullString}
  BY DEF NullSpelled
<1> QED
  BY <1>1, <1>2, <1>3, <1>4 DEF CountsMatch, CopyFieldsSplit

-----------------------------------------------------------------------------
(* What is read, for all coders *)

CursorInv == codec = "identifier" => cur \in Nat \ {0}

TextsInv == NestInv /\ ByteInv /\ CursorInv /\ BinaryExact /\ BinaryAccepts /\ CopySplit

LEMMA CursorStep ==
  ASSUME Base, CursorInv, codec = "identifier", IdentifierNext
  PROVE  CursorInv'
<1>1. cur \in Nat \ {0}
  BY DEF CursorInv
<1>2. cur' = cur \/ cur' = cur + 1
  BY DEF IdentifierNext, pg_text_enc_identifier, EncodeString, EncodeByte, EncodeStringEnd, EncodeEnd, Raise,
         decVars, IdentifierDot, IdentifierByte, IdentifierEnd
<1>3. cur + 1 \in Nat \ {0}
  BY <1>1
<1> QED
  BY <1>1, <1>2, <1>3 DEF CursorInv

LEMMA ArrayRowBytes == NestInv /\ IsArray => word \in Seq(Byte) /\ row \in Seq(Fields)
<1> SUFFICES ASSUME NestInv, IsArray PROVE word \in Seq(Byte) /\ row \in Seq(Fields)
  OBVIOUS
<1>1. CallsOK /\ ReadNested
  BY DEF NestInv
<1>2. <<>> \in Seq(Fields)
  OBVIOUS
<1> QED
  BY <1>1, <1>2 DEF CallsOK, ReadNested, Nested

LEMMA TextsStep == CodersInv /\ CodersInv' /\ TripsInv /\ TextsInv /\ [Next]_rowVars => TextsInv'
<1> SUFFICES ASSUME CodersInv, CodersInv', TripsInv, TextsInv, [Next]_rowVars PROVE TextsInv'
  OBVIOUS
<1>1. /\ Base /\ CopyInv /\ RecordInv /\ BinaryInv /\ ArrayInv /\ BinArrayInv /\ IdentifierInv
      /\ Base' /\ CopyInv'
  BY DEF CodersInv
<1>2. NestInv /\ ByteInv /\ CursorInv /\ BinaryExact /\ BinaryAccepts /\ CopySplit
  BY DEF TextsInv
<1>3. /\ codec' = "copy" => NestInv' /\ CursorInv' /\ BinaryExact' /\ BinaryAccepts'
      /\ codec' = "binary" => NestInv' /\ CursorInv' /\ CopySplit'
      /\ codec' = "record" => NestInv' /\ CursorInv' /\ CopySplit' /\ BinaryExact' /\ BinaryAccepts'
      /\ codec' = "identifier" => NestInv' /\ CopySplit' /\ BinaryExact' /\ BinaryAccepts'
      /\ codec' \in DOMAIN ArrayCoders => CursorInv' /\ CopySplit' /\ BinaryExact' /\ BinaryAccepts'
      /\ codec' \in DOMAIN BinArrayCoders => TextsInv'
  BY CodersDistinct DEF TextsInv, NestInv, CursorInv, BinaryExact, BinaryAccepts, CopySplit, ByteInv, IsArray, IsBinArray
<1>4. \A c \in {"copy", "binary", "record", "identifier"} \cup DOMAIN ArrayCoders : c \notin DOMAIN BinArrayCoders
  BY CodersDistinct
<1>5. ASSUME codec \notin DOMAIN BinArrayCoders PROVE input \in Seq(Byte) /\ word \in Seq(Byte) /\ row \in Seq(Fields)
  BY <1>2, <1>5 DEF ByteInv, IsBinArray
<1>6. ASSUME input' \in Seq(Byte), word' \in Seq(Byte), row' \in Seq(Fields) PROVE ByteInv'
  BY <1>6 DEF ByteInv
<1>7. CASE CopyNext
  <2>1. codec = "copy" /\ codec' = "copy"
    BY <1>1, <1>7, CopyStep
  <2>2. input \in Seq(Byte) /\ word \in Seq(Byte) /\ row \in Seq(Fields)
    BY <1>4, <1>5, <2>1
  <2>3. ByteInv'
    BY <1>1, <1>6, <1>7, <2>2, CopyBytes
  <2>4. CopySplit'
    BY <1>1, <1>2, <1>7, <2>2, CopySplitStep
  <2> QED
    BY <1>3, <2>1, <2>3, <2>4 DEF TextsInv
<1>8. CASE BinaryNext
  <2>1. codec = "binary" /\ codec' = "binary"
    BY <1>1, <1>8, BinaryStep
  <2>2. input \in Seq(Byte) /\ word \in Seq(Byte) /\ row \in Seq(Fields)
    BY <1>4, <1>5, <2>1
  <2>3. codec = "binary" /\ value # <<>> => value \in BinaryRows
    BY DEF TripsInv, BinaryTrip
  <2>4. ByteInv'
    BY <1>1, <1>6, <1>8, <2>2, <2>3, BinaryBytes
  <2>5. BinaryExact' /\ BinaryAccepts'
    BY <1>1, <1>2, <1>8, <2>2, BinaryExactStep, BinaryAcceptsStep
  <2> QED
    BY <1>3, <2>1, <2>4, <2>5 DEF TextsInv
<1>9. CASE RecordNext
  <2>1. codec = "record" /\ codec' = "record"
    BY <1>1, <1>9, RecordStep
  <2>2. input \in Seq(Byte) /\ word \in Seq(Byte) /\ row \in Seq(Fields)
    BY <1>4, <1>5, <2>1
  <2>3. ByteInv'
    BY <1>1, <1>6, <1>9, <2>2, RecordBytes
  <2> QED
    BY <1>3, <2>1, <2>3 DEF TextsInv
<1>10. CASE IdentifierNext
  <2>1. codec = "identifier" /\ codec' = "identifier"
    BY <1>1, <1>10, IdentifierStep
  <2>2. input \in Seq(Byte) /\ word \in Seq(Byte) /\ row \in Seq(Fields)
    BY <1>4, <1>5, <2>1
  <2>3. ByteInv'
    BY <1>1, <1>2, <1>6, <1>10, <2>1, <2>2, IdentifierBytes DEF CursorInv
  <2>4. CursorInv'
    BY <1>1, <1>2, <1>10, <2>1, CursorStep
  <2> QED
    BY <1>3, <2>1, <2>3, <2>4 DEF TextsInv
<1>11. CASE ArrayNext
  <2>1. IsArray /\ codec' = codec
    BY <1>1, <1>11, ArrayStep
  <2>2. input \in Seq(Byte) /\ codec' \in DOMAIN ArrayCoders /\ IsArray'
    BY <1>4, <1>5, <2>1 DEF IsArray
  <2>3. NestInv'
    BY <1>2, <1>11, <2>2, EncodeKeepsNest, DimsKeepNest, ReadingKeepsNest DEF ArrayNext, pg_text_dec_array
  <2>4. input' \in Seq(Byte)
    BY <1>1, <1>11, <2>2, ArrayBytes
  <2>5. (NestInv /\ IsArray => word \in Seq(Byte) /\ row \in Seq(Fields))'
    BY ArrayRowBytes, PTL
  <2>6. ByteInv'
    BY <1>6, <2>2, <2>3, <2>4, <2>5
  <2> QED
    BY <1>3, <2>2, <2>3, <2>6 DEF TextsInv
<1>12. CASE BinArrayNext
  <2>1. IsBinArray /\ codec' = codec
    BY <1>1, <1>12, BinArrayStep
  <2> QED
    BY <1>3, <2>1 DEF IsBinArray
<1>13. CASE UNCHANGED rowVars
  <2>1. /\ codec' = codec /\ value' = value /\ i' = i /\ j' = j /\ ptr1' = ptr1 /\ ptr2' = ptr2
        /\ input' = input /\ start' = start /\ mode' = mode
        /\ cur' = cur /\ word' = word /\ state' = state /\ stack' = stack /\ row' = row
    BY <1>13 DEF rowVars, encVars, decVars
  <2>2. ByteInv' /\ CursorInv'
    BY <1>2, <2>1 DEF ByteInv, IsBinArray, CursorInv
  <2>3. NestInv'
    BY <1>2, <2>1 DEF NestInv, IsArray, CallsOK, ReadNested, ArrayCursor, Strict, BraceEnds
  <2>4. BinaryExact'
    <3>1. PICK q : q = start
      OBVIOUS
    <3>2. nfields' = nfields
      BY <2>1, <3>1, ReadsSame DEF nfields
    <3>3. \A n : RowRead(n)' <=> RowRead(n)
      BY <2>1, <3>2 DEF RowRead
    <3> QED
      BY <1>2, <2>1, <3>2, <3>3 DEF BinaryExact
  <2>5. BinaryAccepts'
    <3>1. \A P, v, at, pos : BinarySpot(P, v, at, pos)' <=> BinarySpot(P, v, at, pos)
      BY <2>1 DEF BinarySpot
    <3>2. \A r : OwnText(r)' <=> OwnText(r)
      BY <2>1 DEF OwnText
    <3> QED
      BY <1>2, <2>1, <3>1, <3>2 DEF BinaryAccepts
  <2>6. CopySplit'
    <3>1. /\ Ends({NL})' = Ends({NL}) /\ RawFields' = RawFields /\ NullSpelled' = NullSpelled
          /\ \A k : Escaped(k)' <=> Escaped(k)
          /\ \A s, c : InField(s, c)' <=> InField(s, c)
          /\ \A s : RawBefore(s)' = RawBefore(s)
      BY <2>1, CutsSame
    <3>2. PICK s, c : s = start /\ c = cur
      OBVIOUS
    <3>3. CountsMatch(RawFields)' <=> CountsMatch(RawFields)
      BY <2>1, <3>1 DEF CountsMatch
    <3>4. CountsMatch(RawBefore(s))' <=> CountsMatch(RawBefore(s))
      BY <2>1, <3>1 DEF CountsMatch
    <3>5. CopyCutting' <=> CopyCutting
      BY <2>1, <3>1, <3>2, <3>4 DEF CopyCutting
    <3> QED
      BY <1>2, <2>1, <3>1, <3>3, <3>5 DEF CopySplit
  <2> QED
    BY <2>2, <2>3, <2>4, <2>5, <2>6 DEF TextsInv
<1> QED
  BY <1>7, <1>8, <1>9, <1>10, <1>11, <1>12, <1>13 DEF Next

LEMMA StartsWithBytes ==
  ASSUME NEW name, NEW Values, NEW Given, NEW prefix, NEW first, CoderInit(name, Values, Given, prefix, first),
         Given \subseteq Seq(Byte), prefix \in Seq(Byte)
  PROVE  ByteInv /\ CursorInv /\ input \in Seq(Byte)
<1>1. input \in Seq(Byte)
  BY DEF CoderInit
<1>2. <<>> \in Seq(Byte) /\ <<>> \in Seq(Fields) /\ 1 \in Nat \ {0}
  OBVIOUS
<1> QED
  BY <1>1, <1>2 DEF CoderInit, ByteInv, CursorInv

LEMMA TextsStart == Init => TextsInv
<1> SUFFICES ASSUME Init PROVE TextsInv
  OBVIOUS
<1>0. /\ codec = "copy" => NestInv /\ BinaryExact /\ BinaryAccepts
      /\ codec = "binary" => NestInv /\ CopySplit
      /\ codec \in {"record", "identifier"} => NestInv /\ CopySplit /\ BinaryExact /\ BinaryAccepts
      /\ codec \in DOMAIN ArrayCoders => CopySplit /\ BinaryExact /\ BinaryAccepts
      /\ codec \in DOMAIN BinArrayCoders => TextsInv
  BY CodersDistinct DEF TextsInv, NestInv, CursorInv, BinaryExact, BinaryAccepts, CopySplit, ByteInv, IsArray, IsBinArray
<1>1. <<>> \in Seq(Byte) /\ <<OPEN>> \in Seq(Byte)
  <2>1. OPEN \in Byte
    BY DEF OPEN, Byte
  <2> QED
    BY <2>1
<1>2. CASE CopyInit
  <2>1. CoderInit("copy", CopyRows, CopyTexts, <<>>, "scan")
    BY <1>2 DEF CopyInit
  <2>2. ByteInv /\ CursorInv /\ input \in Seq(Byte)
    BY <1>1, <2>1, CopyAssumption, StartsWithBytes
  <2>3. codec = "copy" /\ row = <<>> /\ start = 1 /\ cur = 1 /\ mode \in {"encode", "decode"}
    BY <2>1 DEF CoderInit
  <2>4. CopyCutting
    BY <2>2, <2>3, BytesCount, CuttingStarts
  <2>5. CopySplit
    BY <2>3, <2>4 DEF CopySplit
  <2> QED
    BY <1>0, <2>2, <2>3, <2>5 DEF TextsInv
<1>3. CASE BinaryInit
  <2>1. CoderInit("binary", BinaryRows, BinaryTexts, <<>>, "header")
    BY <1>3 DEF BinaryInit
  <2>2. ByteInv /\ CursorInv /\ input \in Seq(Byte)
    BY <1>1, <2>1, BinaryAssumption, StartsWithBytes
  <2>3. codec = "binary" /\ row = <<>> /\ start = 1 /\ cur = 1 /\ mode \in {"encode", "decode"} /\ state = "header"
    BY <2>1 DEF CoderInit
  <2>4. BinaryExact
    BY <2>3 DEF BinaryExact
  <2>5. ASSUME NEW r \in BinaryRows, OwnText(r) PROVE \E at, pos : BinarySpot(BinaryPlan(r), r, at, pos)
    <3>1. PICK P : P = BinaryPlan(r)
      OBVIOUS
    <3>2. BinaryText(r) = input
      BY <2>5 DEF OwnText
    <3>3. \E at, pos : Layout(P, input, at, pos, P.n, Len(input) + 1)
      BY <3>1, <3>2, TextLayout
    <3> QED
      BY <2>3, <3>1, <3>3 DEF BinarySpot
  <2>6. BinaryAccepts
    BY <2>3, <2>5 DEF BinaryAccepts
  <2> QED
    BY <1>0, <2>2, <2>3, <2>4, <2>6 DEF TextsInv
<1>4. CASE RecordInit
  <2>1. CoderInit("record", RecordRows, RecordTexts, <<OPEN>>, "lead")
    BY <1>4 DEF RecordInit
  <2>2. ByteInv /\ CursorInv
    BY <1>1, <2>1, RecordAssumption, StartsWithBytes
  <2>3. codec = "record"
    BY <2>1 DEF CoderInit
  <2> QED
    BY <1>0, <2>2, <2>3 DEF TextsInv
<1>5. CASE IdentifierInit
  <2>1. CoderInit("identifier", Identifiers, IdentifierTexts, <<>>, "out")
    BY <1>5 DEF IdentifierInit
  <2>2. ByteInv /\ CursorInv
    BY <1>1, <2>1, IdentifierAssumption, StartsWithBytes
  <2>3. codec = "identifier"
    BY <2>1 DEF CoderInit
  <2> QED
    BY <1>0, <2>2, <2>3 DEF TextsInv
<1>6. CASE ArrayInit
  <2>1. PICK c \in DOMAIN ArrayCoders : CoderInit(c, ArrayValues, ArrayTexts, <<>>, "dims")
    BY <1>6 DEF ArrayInit
  <2>2. ByteInv /\ CursorInv
    BY <1>1, <2>1, ArrayAssumption, StartsWithBytes
  <2>3. /\ codec \in DOMAIN ArrayCoders /\ row = <<>> /\ word = <<>> /\ stack = <<>> /\ cur = 1
        /\ mode \in {"encode", "decode"} /\ state = "dims"
    BY <2>1 DEF CoderInit
  <2>4. CallsOK
    <3>1. <<>> \in Seq(Calls) /\ Len(<<>>) = 0
      OBVIOUS
    <3> QED
      BY <1>1, <2>3, <3>1 DEF CallsOK
  <2>5. ReadNested /\ ArrayCursor
    BY <2>3 DEF ReadNested, ArrayCursor, BeforeArray
  <2>6. NestInv
    BY <2>3, <2>4, <2>5 DEF NestInv
  <2> QED
    BY <1>0, <2>2, <2>3, <2>6 DEF TextsInv
<1>7. CASE BinArrayInit
  <2>1. codec \in DOMAIN BinArrayCoders
    BY <1>7 DEF BinArrayInit, CoderInit
  <2> QED
    BY <1>0, <2>1
<1> QED
  BY <1>2, <1>3, <1>4, <1>5, <1>6, <1>7 DEF Init

(* A decoder returns a row or an array only for a text that spells it:     *)
(* pg_bin_dec_copy_row takes exactly the encodings of rows and the         *)
(* trailer, pg_text_dec_copy_row cuts a line where the reference cuts it,  *)
(* read_array_without_dim returns nested arrays with all their ends, and   *)
(* whatever the escapes in a text say, what they stand for are bytes.      *)
THEOREM TextsAlwaysReadExactly == Spec => []TextsReadExactly
<1>1. CodersInv /\ TextsInv => TextsReadExactly
  <2> SUFFICES ASSUME CodersInv, TextsInv PROVE TextsReadExactly
    OBVIOUS
  <2>1. Base /\ NestInv /\ ByteInv /\ BinaryExact /\ BinaryAccepts /\ CopySplit
    BY DEF CodersInv, TextsInv
  <2>2. BinaryRowExact
    <3>1. CASE codec = "binary"
      <4>1. row \in Seq(Fields)
        BY <2>1, <3>1, CodersDistinct DEF ByteInv, IsBinArray
      <4> QED
        BY <2>1, <4>1, BinaryExactly
    <3> QED
      BY <3>1 DEF BinaryRowExact
  <2>3. CopyFieldsSplit
    BY <2>1, CopySplits
  <2>4. ArrayWellNested
    <3> SUFFICES ASSUME IsArray, mode = "done"
                 PROVE  /\ Within(row, Len(row) + 1) = 0 /\ \A k \in 2..Len(row) : Within(row, k) > 0
                        /\ Strict => BraceEnds
      BY DEF ArrayWellNested, BraceEnds
    <3>1. state = "end" /\ (Strict => BraceEnds) /\ ReadNested
      BY <2>1 DEF NestInv
    <3>2. Nested(row, 0)
      BY <3>1 DEF ReadNested
    <3> QED
      BY <3>1, <3>2 DEF Nested
  <2>5. ~IsBinArray => row \in Seq(Fields) /\ word \in Seq(Byte)
    BY <2>1 DEF ByteInv
  <2> QED
    BY <2>2, <2>3, <2>4, <2>5 DEF TextsReadExactly
<1> QED
  BY <1>1, CodersStart, CodersStep, TripsStart, TripsStep, TextsStart, TextsStep, PTL DEF Spec

-----------------------------------------------------------------------------
(* What the encoder of arrays writes *)

ArraySep(v, k) ==
  IF k > 1 /\ v[k].kind # "close" /\ v[k - 1].kind # "open" THEN <<ArrayDelimiter>> ELSE <<>>
Quoted(f) == f.kind = "str" /\ NeedQuote(f.str)
Opening(f) ==
  IF f.kind = "open" THEN <<LBRACE>> ELSE
  IF f.kind = "close" THEN <<RBRACE>> ELSE
  IF Quoted(f) THEN <<QUOTE>> ELSE <<>>
Spelling(f) == IF f.kind = "nil" THEN NULL ELSE f.str
Ending(f) == IF Quoted(f) THEN <<QUOTE>> ELSE <<>>

ArrayPlan(v) ==
  [n |-> Len(v), prefix |-> <<>>,
   lead |-> [k \in 1..Len(v) |-> ArraySep(v, k) \o Opening(v[k])],
   body |-> [k \in 1..Len(v) |-> Spelling(v[k])],
   trail |-> [k \in 1..Len(v) |-> Ending(v[k])],
   special |-> ArraySpecial, escape |-> ArrayEscape]

ArrayPlanned(P, v) ==
  /\ PlanOK(P) /\ Escapable(P) /\ P.n = Len(v) /\ P.prefix = <<>> /\ P.special = ArraySpecial
  /\ \A c : Escape(P, c) = ArrayEscape[c]
  /\ \A k \in 1..Len(v) :
       /\ Lead(P, k) = ArraySep(v, k) \o Opening(v[k])
       /\ Body(P, k) = Spelling(v[k]) /\ Trail(P, k) = Ending(v[k])
  /\ v \in Arrays

IsArrayPlan(P, v) == P = ArrayPlan(v)

LEMMA ArrayLetters ==
  /\ IsText(<<ArrayDelimiter>>) /\ IsText(<<LBRACE>>) /\ IsText(<<RBRACE>>) /\ IsText(<<QUOTE>>)
  /\ IsText(<<>>) /\ IsText(NULL) /\ ArrayDelimiter \in Nat
<1>1. ArrayDelimiter \in Nat
  BY ArrayAssumption, BytesSmall
<1> QED
  BY <1>1 DEF IsText, LBRACE, RBRACE, QUOTE, NULL

LEMMA ArrayParts ==
  ASSUME NEW v, NEW k, NEW f \in Fields
  PROVE  /\ ArraySep(v, k) \in Seq(Nat) /\ Opening(f) \in Seq(Nat)
         /\ Spelling(f) \in Seq(Nat) /\ Ending(f) \in Seq(Nat)
<1>1. f.str \in Seq(Nat)
  <2>1. f.str \in Seq(Byte)
    BY DEF Fields
  <2> QED
    BY <2>1, BytesCount
<1>2. ArraySep(v, k) \in Seq(Nat)
  BY ArrayLetters DEF ArraySep, IsText
<1>3. Opening(f) \in Seq(Nat) /\ Ending(f) \in Seq(Nat)
  BY ArrayLetters DEF Opening, Ending, IsText
<1>4. Spelling(f) \in Seq(Nat)
  BY <1>1, ArrayLetters DEF Spelling, IsText
<1> QED
  BY <1>2, <1>3, <1>4

LEMMA ArrayPlanFacts ==
  ASSUME NEW v \in Arrays, NEW P, IsArrayPlan(P, v)
  PROVE  ArrayPlanned(P, v)
<1>0. v \in Seq(Fields)
  BY DEF Arrays
<1>1. /\ P.n = Len(v) /\ P.prefix = <<>> /\ P.special = ArraySpecial /\ P.escape = ArrayEscape
      /\ P.lead = [k \in 1..Len(v) |-> ArraySep(v, k) \o Opening(v[k])]
      /\ P.body = [k \in 1..Len(v) |-> Spelling(v[k])]
      /\ P.trail = [k \in 1..Len(v) |-> Ending(v[k])]
  BY DEF ArrayPlan, IsArrayPlan
<1>2. ASSUME NEW k \in 1..Len(v)
      PROVE  /\ Lead(P, k) = ArraySep(v, k) \o Opening(v[k])
             /\ Body(P, k) = Spelling(v[k]) /\ Trail(P, k) = Ending(v[k])
  BY <1>1 DEF Lead, Body, Trail
<1>3. ASSUME NEW k \in 1..Len(v)
      PROVE  Lead(P, k) \in Seq(Nat) /\ Body(P, k) \in Seq(Nat) /\ Trail(P, k) \in Seq(Nat)
  <2>1. PICK f \in Fields : f = v[k]
    BY <1>0
  <2>2. PICK a, b : a = ArraySep(v, k) /\ b = Opening(f)
    OBVIOUS
  <2>3. a \in Seq(Nat) /\ b \in Seq(Nat)
    BY <2>2, ArrayParts
  <2>4. a \o b \in Seq(Nat)
    BY <2>3, ConcatProperties
  <2> QED
    BY <1>2, <2>1, <2>2, <2>4, ArrayParts
<1>4. Len(v) \in Nat /\ <<>> \in Seq(Nat)
  BY <1>0
<1>5. PlanOK(P)
  BY <1>1, <1>3, <1>4 DEF PlanOK
<1>6. Escapable(P) /\ \A c : Escape(P, c) = ArrayEscape[c]
  BY <1>1 DEF Escapable, Escape, ArrayEscape, BACKSLASH
<1> QED
  BY <1>1, <1>2, <1>5, <1>6 DEF ArrayPlanned

LEMMA ArrayPlanning ==
  ASSUME NEW v \in ArrayValues
  PROVE  ArrayPlanned(ArrayPlan(v), v)
  BY ArrayReadable, ArrayPlanFacts DEF IsArrayPlan

(* A token that is copied, as nothing in it is special. *)
LEMMA TokenCopied ==
  ASSUME NEW P, PlanOK(P), NEW text, IsText(text), NEW k \in 1..P.n,
         Laid(P, text, k - 1, Len(text) + 1),
         NEW open, Joined(open, text, Lead(P, k)), NEW other, Joined(other, open, Body(P, k)),
         \A p \in 1..Len(Body(P, k)) : Body(P, k)[p] \notin P.special, Trail(P, k) = <<>>
  PROVE  IsText(other) /\ Laid(P, other, k, Len(other) + 1)
<1>1. /\ IsText(Lead(P, k)) /\ IsText(Body(P, k)) /\ Len(Body(P, k)) \in Nat /\ IsText(<<>>)
  BY ArrayLetters DEF PlanOK, IsText
<1>2. IsText(open) /\ Len(open) \in Nat
  BY <1>1, Appended
<1>3. /\ IsText(other) /\ Len(other) = Len(open) + Len(Body(P, k)) /\ Has(other, Len(open) + 1, Body(P, k))
  BY <1>1, <1>2, Appended
<1>4. Joined(other, other, <<>>)
  BY <1>3, ConcatEmptySeq DEF Joined, IsText
<1>5. Moving(P, other, k, Len(open) + 1, Len(Body(P, k)), Len(other) + 1, Len(other) + 1)
  BY <1>1, <1>4, MovingStarts
<1>6. PICK s, n : s = Len(open) + 1 /\ n = Len(Body(P, k))
  OBVIOUS
<1>7. s \in Nat \ {0} /\ n \in 0..Len(Body(P, k)) /\ Len(other) + 1 = s + n
  BY <1>1, <1>2, <1>3, <1>6
<1>8. \A p \in 1..n : other[s + p - 1] = Body(P, k)[p] /\ Body(P, k)[p] \notin P.special
  BY <1>3, <1>6 DEF Has
<1>9. Moving(P, other, k, s, n, s + n, Len(other) + 1)
  BY <1>5, <1>6, <1>7
<1>10. Opened(P, other, k, Len(Body(P, k)), Len(other) + 1)
  BY <1>7, <1>8, <1>9, MovingEnds
<1> QED
  BY <1>3, <1>4, <1>10, OpenEnds

(* How far the encoder has written P. *)
ArrayWriting(P) ==
  /\ mode = "encode" => i <= P.n + 1 /\ Laid(P, input, i - 1, Len(input) + 1)
  /\ mode = "escape" =>
       /\ i <= P.n /\ Quoted(value[i]) /\ ptr1 - start + 1 <= Len(Body(P, i))
       /\ Shifting(P, input, i, ArraySep(value, i), start, ptr1 - start + 1, ptr2 + 1, Len(input))
       /\ input[Len(input)] = QUOTE

LEMMA EmitLaid ==
  ASSUME NEW CONSTANT P, ArrayPlanned(P, value), Base, ArrayWriting(P), mode = "encode", i <= Len(value),
         NEW text, Emit(text), text = Lead(P, i) \o Body(P, i),
         \A p \in 1..Len(Body(P, i)) : Body(P, i)[p] \notin ArraySpecial, Trail(P, i) = <<>>
  PROVE  ArrayWriting(P)'
<1>1. PICK k : k = i
  OBVIOUS
<1>2. PlanOK(P) /\ P.n = Len(value) /\ Len(value) \in Nat /\ k \in 1..P.n /\ IsText(input) /\ P.special = ArraySpecial
  BY <1>1 DEF ArrayPlanned, Base, IsText
<1>3. /\ mode' = "encode" /\ i' = k + 1 /\ input' = input \o (Lead(P, k) \o Body(P, k))
      /\ Laid(P, input, k - 1, Len(input) + 1) /\ Trail(P, k) = <<>>
      /\ \A p \in 1..Len(Body(P, k)) : Body(P, k)[p] \notin P.special
  BY <1>1, <1>2 DEF Emit, ArrayWriting
<1>4. PICK a, b, s : a = Lead(P, k) /\ b = Body(P, k) /\ s = input
  OBVIOUS
<1>5. a \in Seq(Nat) /\ b \in Seq(Nat) /\ s \in Seq(Nat)
  BY <1>2, <1>4 DEF PlanOK, IsText
<1>6. (s \o a) \o b = s \o (a \o b)
  BY <1>5, Regrouped
<1>7. PICK open, other : open = s \o a /\ other = open \o b
  OBVIOUS
<1>8. Joined(open, input, Lead(P, k)) /\ Joined(other, open, Body(P, k)) /\ input' = other
  BY <1>3, <1>4, <1>6, <1>7 DEF Joined
<1>9. Laid(P, other, k, Len(other) + 1)
  BY <1>2, <1>3, <1>8, TokenCopied
<1>10. i' <= P.n + 1 /\ i' - 1 = k
  <2>1. PICK n, m : n = P.n /\ m = i'
    OBVIOUS
  <2>2. n \in Nat /\ k \in 1..n /\ m = k + 1
    BY <1>2, <1>3, <2>1
  <2>3. m <= n + 1 /\ m - 1 = k
    BY <2>2
  <2> QED
    BY <2>1, <2>3
<1> QED
  BY <1>3, <1>8, <1>9, <1>10 DEF ArrayWriting

LEMMA ArrayKinds ==
  ASSUME NEW v \in Arrays, NEW k \in 1..Len(v)
  PROVE  /\ v[k] \in Fields /\ v[k].kind \in {"nil", "str", "open", "close"}
         /\ v[k].kind = "nil" => v[k] = Nil
         /\ v[k].kind = "open" => v[k] = Open
         /\ v[k].kind = "close" => v[k] = Close
         /\ v[k].kind = "str" => v[k] = Str(v[k].str) /\ \A m \in DOMAIN v[k].str : v[k].str[m] # NUL
<1>1. v \in Seq(Fields) /\ DOMAIN v = 1..Len(v)
  BY DEF Arrays
<1>2. \/ v[k] \in {Nil, Open, Close}
      \/ v[k] = Str(v[k].str) /\ \A m \in DOMAIN v[k].str : v[k].str[m] # NUL
  BY <1>1 DEF Arrays
<1>3. v[k] \in Fields
  BY <1>1
<1> QED
  BY <1>2, <1>3 DEF Nil, Open, Close, Str, Fields

(* What has no special byte in it. *)
LEMMA PlainSpelling ==
  ASSUME NEW f \in Fields, ~Quoted(f), f.kind \in {"open", "close"} => f.str = <<>>
  PROVE  \A p \in 1..Len(Spelling(f)) : Spelling(f)[p] \notin ArraySpecial
<1>1. CASE f.kind = "nil"
  BY <1>1 DEF Spelling, NULL, ArraySpecial, QUOTE, BACKSLASH
<1>2. CASE f.kind = "str"
  <2>1. f.str \in Seq(Byte) /\ Spelling(f) = f.str
    BY <1>2 DEF Fields, Spelling
  <2>2. DOMAIN f.str = 1..Len(f.str)
    BY <2>1
  <2> QED
    BY <1>2, <2>1, <2>2 DEF Quoted, NeedQuote
<1>3. CASE f.kind \in {"open", "close"}
  BY <1>3 DEF Spelling
<1> QED
  BY <1>1, <1>2, <1>3 DEF Fields

LEMMA WritesPlain ==
  ASSUME NEW CONSTANT P, ArrayPlanned(P, value), Base, ArrayWriting(P), mode = "encode", i <= Len(value),
         NEW text, Emit(text), ~Quoted(value[i]),
         text = ArraySep(value, i) \o Opening(value[i]) \o Spelling(value[i])
  PROVE  ArrayWriting(P)'
<1>1. PICK k : k = i
  OBVIOUS
<1>2. k \in 1..Len(value) /\ value \in Arrays
  BY <1>1 DEF ArrayPlanned, Base
<1>3. /\ Lead(P, k) = ArraySep(value, k) \o Opening(value[k])
      /\ Body(P, k) = Spelling(value[k]) /\ Trail(P, k) = <<>>
  BY <1>1, <1>2 DEF ArrayPlanned, Ending
<1>4. PICK f \in Fields : f = value[k]
  BY <1>2, ArrayKinds
<1>5. f.kind \in {"open", "close"} => f.str = <<>>
  BY <1>2, <1>4, ArrayKinds DEF Open, Close
<1>6. \A p \in 1..Len(Spelling(f)) : Spelling(f)[p] \notin ArraySpecial
  BY <1>1, <1>4, <1>5, PlainSpelling
<1> QED
  BY <1>1, <1>3, <1>4, <1>6, EmitLaid

(* A string that needs quotes is placed, with the end quote. *)
LEMMA QuoteStarted ==
  ASSUME NEW CONSTANT P, ArrayPlanned(P, value), Base, ArrayWriting(P), WriteString,
         ~LessDimensions(Dimension(i)), NeedQuote(value[i].str)
  PROVE  ArrayWriting(P)'
<1>1. PICK k : k = i
  OBVIOUS
<1>2. mode = "encode" /\ k <= Len(value) /\ value[k].kind = "str"
  BY <1>1 DEF WriteString, AtElement
<1>3. PlanOK(P) /\ P.n = Len(value) /\ Len(value) \in Nat /\ k \in 1..P.n /\ k \in 1..Len(value) /\ IsText(input)
  BY <1>1, <1>2 DEF ArrayPlanned, Base, IsText
<1>4. Body(P, k) = value[k].str /\ value[k].str \in Seq(Nat)
  BY <1>1, <1>2, <1>3, FieldStrings DEF ArrayPlanned, Spelling
<1>5. PICK sep \in Seq(Nat) : sep = Separator /\ sep = ArraySep(value, k)
  <2>1. Separator = ArraySep(value, k)
    BY <1>1, <1>2 DEF Separator, ArraySep
  <2>2. value[k] \in Fields
    BY <1>3 DEF Base
  <2> QED
    BY <2>1, <2>2, ArrayParts
<1>6. PICK str \in Seq(Nat) : str = value[k].str
  BY <1>4
<1>7. PICK n \in Nat : n = Cardinality(Escapes(str, ArraySpecial))
  BY EscapesCount
<1>8. n + 1 \in Nat
  OBVIOUS
<1>9. PICK zeros \in Seq(Nat) : zeros = [m \in 1..(n + 1) |-> NUL] /\ Len(zeros) = n + 1
  BY <1>8, Zeros
<1>10. /\ input' = input \o sep \o str \o zeros \o <<QUOTE>>
       /\ start' = Len(input) + Len(sep) + 1
       /\ ptr1' = Len(input) + Len(sep) + Len(str)
       /\ ptr2' = Len(input) + Len(sep) + Len(str) + n + 1
       /\ mode' = "escape" /\ i' = k /\ value' = value
  BY <1>1, <1>5, <1>6, <1>7, <1>9 DEF WriteString
<1>11. PICK open, full, half, other : /\ open = input \o sep /\ full = open \o str
                                       /\ half = full \o zeros /\ other = half \o <<QUOTE>>
  OBVIOUS
<1>12. input' = other
  BY <1>10, <1>11
<1>13. /\ Joined(open, input, sep) /\ Joined(full, open, Body(P, k)) /\ Joined(half, full, zeros)
       /\ Joined(other, half, <<QUOTE>>) /\ IsText(sep) /\ IsText(str) /\ IsText(zeros) /\ IsText(<<QUOTE>>)
       /\ IsText(Body(P, k))
  BY <1>4, <1>6, <1>11, ArrayLetters DEF Joined, IsText
<1>14. IsText(open) /\ Len(open) = Len(input) + Len(sep) /\ Len(input) \in Nat /\ Len(sep) \in Nat
  BY <1>3, <1>13, Appended
<1>15. IsText(full) /\ Len(full) = Len(open) + Len(str) /\ Len(str) \in Nat
  BY <1>4, <1>6, <1>13, <1>14, Appended
<1>16. IsText(half) /\ Len(half) = Len(full) + (n + 1)
  BY <1>9, <1>13, <1>15, Appended
<1>17. /\ IsText(other) /\ Len(other) = Len(half) + 1 /\ Has(other, Len(half) + 1, <<QUOTE>>)
  <2>1. Len(<<QUOTE>>) = 1
    OBVIOUS
  <2> QED
    BY <1>13, <1>16, <2>1, Appended
<1>18. other[Len(other)] = QUOTE
  BY <1>16, <1>17 DEF Has
<1>19. PICK pad : pad = zeros \o <<QUOTE>>
  OBVIOUS
<1>20. IsText(pad) /\ Joined(other, full, pad)
  <2>1. zeros \in Seq(Nat) /\ <<QUOTE>> \in Seq(Nat) /\ full \in Seq(Nat)
    BY <1>13, <1>15 DEF IsText
  <2>2. (full \o zeros) \o <<QUOTE>> = full \o (zeros \o <<QUOTE>>)
    BY <2>1, Regrouped, SMTT(60)
  <2>3. pad \in Seq(Nat)
    BY <1>19, <2>1, ConcatProperties
  <2> QED
    BY <1>11, <1>19, <2>2, <2>3 DEF IsText, Joined
<1>21. PICK end : end = Len(other)
  OBVIOUS
<1>22. /\ end \in Nat \ {0} /\ start' = Len(open) + 1 /\ ptr1' - start' + 1 = Len(str) /\ ptr2' + 1 = end
  <2>1. PICK a, b, c, d, e, g : /\ a = Len(input) /\ b = Len(sep) /\ c = Len(str) /\ d = Len(open)
                                /\ e = Len(full) /\ g = Len(half)
    OBVIOUS
  <2>2. /\ a \in Nat /\ b \in Nat /\ c \in Nat /\ d = a + b /\ e = d + c /\ g = e + (n + 1) /\ end = g + 1
        /\ start' = a + b + 1 /\ ptr1' = a + b + c /\ ptr2' = a + b + c + n + 1
    BY <1>10, <1>14, <1>15, <1>16, <1>17, <1>21, <2>1
  <2>3. end \in Nat \ {0} /\ start' = d + 1 /\ ptr1' - start' + 1 = c /\ ptr2' + 1 = end
    BY <2>2
  <2> QED
    BY <2>1, <2>3
<1>23. Laid(P, input, k - 1, Len(input) + 1)
  BY <1>1, <1>2 DEF ArrayWriting
<1>24. Shifting(P, other, k, sep, Len(open) + 1, Len(Body(P, k)), end, end)
  BY <1>3, <1>13, <1>20, <1>22, <1>23, ShiftingStarts
<1>25. Shifting(P, input', i', ArraySep(value', i'), start', ptr1' - start' + 1, ptr2' + 1, Len(input'))
  BY <1>4, <1>5, <1>6, <1>10, <1>12, <1>21, <1>22, <1>24
<1>26. i' <= P.n /\ Quoted(value'[i']) /\ ptr1' - start' + 1 <= Len(Body(P, i'))
  <2>1. Len(str) <= Len(str)
    BY <1>15
  <2> QED
    BY <1>1, <1>2, <1>3, <1>4, <1>6, <1>10, <1>22, <2>1 DEF Quoted
<1> QED
  BY <1>10, <1>12, <1>18, <1>25, <1>26 DEF ArrayWriting

LEMMA QuoteMoved ==
  ASSUME NEW CONSTANT P, ArrayPlanned(P, value), Base, ArrayWriting(P), ArrayInv, QuoteByte
  PROVE  ArrayWriting(P)'
<1>1. /\ mode = "escape" /\ mode' = "escape" /\ i' = i /\ value' = value /\ start' = start
      /\ ptr1 # start - 1 /\ MoveByte(ArraySpecial, ArrayEscape) /\ EscapeRoom(ArraySpecial, 1)
  BY DEF QuoteByte, MoveByte, ArrayInv
<1>2. /\ PlanOK(P) /\ Escapable(P) /\ P.n = Len(value) /\ Len(value) \in Nat /\ i \in Nat \ {0}
      /\ P.special = ArraySpecial /\ \A c : Escape(P, c) = ArrayEscape[c]
      /\ ptr1 \in Nat /\ ptr2 \in Nat /\ start \in Nat /\ input \in Seq(Nat) /\ Len(input) \in Nat
  BY DEF ArrayPlanned, Base
<1>3. /\ i <= P.n /\ Quoted(value[i]) /\ ptr1 - start + 1 <= Len(Body(P, i))
      /\ Shifting(P, input, i, ArraySep(value, i), start, ptr1 - start + 1, ptr2 + 1, Len(input))
      /\ input[Len(input)] = QUOTE
  BY <1>1 DEF ArrayWriting
<1>4. i \in 1..P.n /\ i \in 1..Len(value) /\ Body(P, i) = value[i].str
  BY <1>2, <1>3 DEF ArrayPlanned, Spelling, Quoted
<1>5. PICK lead \in Seq(Nat) : lead = ArraySep(value, i)
  <2>1. value[i] \in Fields
    BY <1>4 DEF Base
  <2> QED
    BY <2>1, ArrayParts
<1>6. ptr1 >= start
  <2>1. start - 1 <= ptr1
    BY <1>1 DEF EscapeRoom
  <2> QED
    BY <1>1, <1>2, <2>1
<1>7. PICK end \in Nat : end = Len(input)
  BY <1>2
<1>8. end <= Len(input) + 1 /\ Shifting(P, input, i, lead, start, ptr1 - start + 1, ptr2 + 1, end) /\ 1 \in Nat
  <2>1. end <= end + 1
    OBVIOUS
  <2> QED
    BY <1>3, <1>5, <1>7, <2>1
<1>9. /\ Shifting(P, input', i, lead, start, ptr1' - start + 1, ptr2' + 1, end)
      /\ ptr1' - start + 1 <= Len(Body(P, i)) /\ Len(input') = Len(input)
      /\ AgreeAbove(input, input', ptr2 + 1, Len(input) + 1)
  BY <1>1, <1>2, <1>3, <1>4, <1>6, <1>8, ByteShifted
<1>10. ptr2 + 1 <= end
  <2>1. PICK d, f :
        /\ Run(P, input, f, Body(P, i), ptr1 - start + 1, Len(Body(P, i)))
        /\ f[ptr1 - start + 1] = ptr2 + 1 /\ f[Len(Body(P, i))] = end
    BY <1>8 DEF Shifting
  <2>2. ptr1 - start + 1 \in (ptr1 - start + 1)..Len(Body(P, i))
    <3>1. Body(P, i) \in Seq(Nat)
      BY <1>2, <1>4 DEF PlanOK
    <3>2. Len(Body(P, i)) \in Nat
      BY <3>1
    <3> QED
      BY <1>2, <1>3, <3>2
  <2> QED
    BY <2>1, <2>2 DEF Run
<1>11. input'[Len(input')] = QUOTE
  <2>1. end \in Nat /\ ptr2 + 1 <= end /\ end < end + 1
    BY <1>10
  <2>2. input'[end] = input[end]
    BY <1>7, <1>9, <2>1 DEF AgreeAbove
  <2> QED
    BY <1>3, <1>7, <1>9, <2>2
<1> QED
  BY <1>1, <1>3, <1>5, <1>7, <1>9, <1>11 DEF ArrayWriting

LEMMA HasOneMore ==
  ASSUME NEW text, NEW a \in Nat \ {0}, NEW s \in Seq(Nat), NEW c \in Nat, NEW t, Joined(t, s, <<c>>),
         Has(text, a, s), text[a + Len(s)] = c
  PROVE  Has(text, a, t) /\ Len(t) = Len(s) + 1
<1>1. IsText(s) /\ IsText(<<c>>) /\ Len(<<c>>) = 1 /\ <<c>>[1] = c
  BY DEF IsText
<1>2. /\ Len(t) = Len(s) + 1 /\ Len(s) \in Nat /\ Agree(s, t, Len(s) + 1) /\ Has(t, Len(s) + 1, <<c>>)
  BY <1>1, Appended
<1>3. t[Len(s) + 1] = c
  BY <1>1, <1>2 DEF Has
<1>4. ASSUME NEW m \in 1..Len(t) PROVE text[a + m - 1] = t[m]
  <2>1. CASE m = Len(s) + 1
    <3>1. a + m - 1 = a + Len(s)
      BY <1>2, <2>1
    <3> QED
      BY <1>3, <2>1, <3>1
  <2>2. CASE m # Len(s) + 1
    <3>1. m \in 1..Len(s) /\ m \in 1..((Len(s) + 1) - 1)
      BY <1>2, <2>2
    <3> QED
      BY <1>2, <3>1 DEF Has, Agree
  <2> QED
    BY <2>1, <2>2
<1>5. Has(text, a, t)
  BY <1>4 DEF Has
<1> QED
  BY <1>2, <1>5

(* The start quote is written in front of the bytes that were moved. *)
LEMMA QuoteEnded ==
  ASSUME NEW CONSTANT P, ArrayPlanned(P, value), Base, ArrayWriting(P), ArrayInv, QuoteEnd
  PROVE  ArrayWriting(P)'
<1>1. PICK k, s, e, text, other : k = i /\ s = start /\ e = Len(input) /\ text = input /\ other = input'
  OBVIOUS
<1>2. /\ mode = "escape" /\ mode' = "encode" /\ i' = k + 1 /\ ptr1 = s - 1 /\ EscapeRoom(ArraySpecial, 1)
      /\ Put(other, text, s, QUOTE)
  BY <1>1 DEF QuoteEnd, ArrayInv, Put
<1>3. /\ PlanOK(P) /\ P.n = Len(value) /\ Len(value) \in Nat /\ k \in Nat \ {0}
      /\ ptr1 \in Nat /\ ptr2 \in Nat /\ s \in Nat \ {0} /\ text \in Seq(Nat) /\ e \in Nat /\ e = Len(text)
  BY <1>1 DEF ArrayPlanned, Base
<1>4. /\ k <= P.n /\ Quoted(value[k])
      /\ Shifting(P, text, k, ArraySep(value, k), s, ptr1 - s + 1, ptr2 + 1, e)
      /\ text[e] = QUOTE
  BY <1>1, <1>2 DEF ArrayWriting
<1>5. k \in 1..P.n /\ k \in 1..Len(value) /\ k - 1 \in Nat /\ k - 1 <= P.n /\ k - 1 < P.n /\ (k - 1) + 1 = k
  BY <1>3, <1>4
<1>6. ptr2 = s /\ s <= e /\ ptr1 - s + 1 = 0
  <2>1. ptr2 - ptr1 = 1 + Cardinality(Marked(input, s, ptr1, ArraySpecial)) /\ ptr2 <= e
    BY <1>1, <1>2 DEF EscapeRoom, Marked
  <2>2. s \in Int /\ ptr1 \in Int /\ s > ptr1
    BY <1>2, <1>3
  <2>3. Cardinality(Marked(input, s, ptr1, ArraySpecial)) = 0
    BY <2>2, MarkedNone
  <2> QED
    BY <1>2, <1>3, <2>1, <2>3
<1>7. PICK sep \in Seq(Nat) : sep = ArraySep(value, k)
  <2>1. value[k] \in Fields
    BY <1>5 DEF Base
  <2> QED
    BY <2>1, ArrayParts
<1>8. Joined(Lead(P, k), sep, <<QUOTE>>) /\ Trail(P, k) = <<QUOTE>> /\ QUOTE \in Nat
  BY <1>4, <1>5, <1>7 DEF ArrayPlanned, Opening, Ending, Quoted, Joined, QUOTE
<1>9. PICK n : n = Len(Body(P, k))
  OBVIOUS
<1>10. n \in Nat /\ Body(P, k) \in Seq(Nat)
  BY <1>3, <1>5, <1>9 DEF PlanOK
<1>11. PICK d, f :
        /\ d \in Nat \ {0} /\ Laid(P, text, k - 1, d)
        /\ Has(text, d, sep) /\ s = d + Len(sep)
        /\ Run(P, text, f, Body(P, k), 0, n)
        /\ f[0] = s + 1 /\ f[n] = e
  BY <1>4, <1>6, <1>7, <1>9 DEF Shifting
<1>12. /\ IsText(other) /\ Len(other) = e /\ Agree(text, other, s) /\ AgreeAbove(text, other, s + 1, e + 1)
       /\ other[s] = QUOTE
  <2>1. s \in 1..Len(text) /\ s \in Nat /\ s <= s
    BY <1>3, <1>6
  <2> QED
    BY <1>2, <1>3, <1>8, <2>1, Overwritten
<1>13. s + 1 <= e
  <2>1. 0 \in 0..n
    BY <1>10
  <2> QED
    BY <1>11, <2>1 DEF Run
<1>14. Run(P, other, f, Body(P, k), 0, n)
  <2>1. AgreeAbove(text, other, f[0], f[n])
    BY <1>3, <1>11, <1>12 DEF AgreeAbove
  <2>2. 0 \in Int /\ n \in Int /\ 0 <= n
    BY <1>10
  <2> QED
    BY <1>11, <2>1, <2>2, RunKeptAbove
<1>15. Has(other, d, sep) /\ Laid(P, other, k - 1, d) /\ Len(sep) \in Nat
  <2>1. Len(sep) \in Nat /\ d + Len(sep) <= s /\ d <= s /\ d \in Nat /\ s \in Nat
    BY <1>3, <1>11
  <2>2. Agree(text, other, d)
    BY <1>12, <2>1 DEF Agree
  <2> QED
    BY <1>3, <1>5, <1>11, <1>12, <2>1, <2>2, HasKept, LaidKept
<1>16. Has(other, d, Lead(P, k)) /\ f[0] = d + Len(Lead(P, k))
  <2>1. other[d + Len(sep)] = QUOTE
    BY <1>11, <1>12
  <2>2. PICK lead, c : lead = Lead(P, k) /\ c = QUOTE
    OBVIOUS
  <2>3. Joined(lead, sep, <<c>>) /\ c \in Nat /\ other[d + Len(sep)] = c /\ d \in Nat \ {0}
    BY <1>8, <1>11, <2>1, <2>2
  <2>4. Has(other, d, lead) /\ Len(lead) = Len(sep) + 1
    BY <1>15, <2>3, HasOneMore
  <2>5. f[0] = d + Len(lead)
    BY <1>11, <1>15, <2>4
  <2> QED
    BY <2>2, <2>4, <2>5
<1>17. Has(other, f[n], Trail(P, k)) /\ e + 1 = f[n] + Len(Trail(P, k))
  <2>1. other[e] = QUOTE
    <3>1. e \in Nat /\ s + 1 <= e /\ e < e + 1
      BY <1>3, <1>13
    <3>2. other[e] = text[e]
      BY <1>12, <3>1 DEF AgreeAbove
    <3> QED
      BY <1>4, <3>2
  <2>2. Len(<<QUOTE>>) = 1 /\ <<QUOTE>>[1] = QUOTE
    OBVIOUS
  <2> QED
    BY <1>3, <1>8, <1>11, <2>1, <2>2 DEF Has
<1>18. TokenAt(P, other, k, d, e + 1, f)
  BY <1>9, <1>14, <1>16, <1>17 DEF TokenAt
<1>19. Laid(P, other, (k - 1) + 1, e + 1)
  <2>1. TokenAt(P, other, (k - 1) + 1, d, e + 1, f)
    BY <1>5, <1>18
  <2> QED
    BY <1>3, <1>5, <1>11, <1>15, <2>1, LaidGrows
<1>20. i' <= P.n + 1 /\ i' - 1 = (k - 1) + 1
  <2>1. PICK m, q : m = P.n /\ q = i'
    OBVIOUS
  <2>2. m \in Nat /\ k \in 1..m /\ q = k + 1
    BY <1>2, <1>3, <1>5, <2>1
  <2>3. q <= m + 1 /\ q - 1 = (k - 1) + 1
    BY <2>2
  <2> QED
    BY <2>1, <2>3
<1> QED
  BY <1>1, <1>2, <1>12, <1>19, <1>20 DEF ArrayWriting

LEMMA ArrayWrites ==
  ASSUME NEW CONSTANT P, ArrayPlanned(P, value), Base, ArrayWriting(P), ArrayInv, pg_text_enc_array,
         mode' # "error"
  PROVE  ArrayWriting(P)' /\ (mode' = "decode" => Laid(P, input', P.n, Len(input') + 1))
<1>0. value \in Arrays /\ Len(value) \in Nat /\ i \in Nat \ {0} /\ P.n = Len(value) /\ PlanOK(P)
  BY DEF ArrayPlanned, Base
<1>1. ASSUME mode = "encode", i <= Len(value)
      PROVE  /\ i \in 1..Len(value) /\ value[i] \in Fields
             /\ ArraySep(value, i) \in Seq(Nat)
             /\ value[i].kind \in {"open", "close", "nil"} => ~Quoted(value[i])
             /\ value[i].kind = "open" => value[i].str = <<>>
             /\ value[i].kind = "close" => value[i].str = <<>>
             /\ value[i].kind # "close" => ArraySep(value, i) = Separator
  <2>1. i \in 1..Len(value)
    BY <1>0, <1>1
  <2>2. value[i] \in Fields /\ ArraySep(value, i) \in Seq(Nat)
    BY <1>0, <2>1, ArrayKinds, ArrayParts
  <2> QED
    BY <1>0, <2>1, <2>2, ArrayKinds DEF Quoted, Open, Close, ArraySep, Separator
<1>2. \A s \in Seq(Nat) : s \o <<>> = s /\ <<>> \o s = s
  BY ConcatEmptySeq
<1>3. CASE WriteOpen
  <2>1. mode = "encode" /\ i <= Len(value) /\ value[i].kind = "open" /\ Emit(Separator \o <<LBRACE>>)
    BY <1>3 DEF WriteOpen, AtElement, Raise
  <2>2. Opening(value[i]) = <<LBRACE>> /\ Spelling(value[i]) = <<>> /\ ~Quoted(value[i]) /\ Separator = ArraySep(value, i)
    BY <1>1, <2>1 DEF Opening, Spelling
  <2>3. PICK a, b : a = ArraySep(value, i) /\ b = Opening(value[i])
    OBVIOUS
  <2>4. a \in Seq(Nat) /\ b \in Seq(Nat)
    BY <1>1, <2>1, <2>2, <2>3, ArrayLetters DEF IsText
  <2>5. a \o b \in Seq(Nat)
    BY <2>4, ConcatProperties
  <2>6. (a \o b) \o <<>> = a \o b
    BY <1>2, <2>5
  <2>7. ArrayWriting(P)'
    BY <2>1, <2>2, <2>3, <2>6, WritesPlain
  <2>8. mode' = "encode"
    BY <2>1 DEF Emit
  <2> QED
    BY <2>7, <2>8
<1>4. CASE WriteClose
  <2>1. mode = "encode" /\ i <= Len(value) /\ value[i].kind = "close" /\ Emit(<<RBRACE>>)
    BY <1>4 DEF WriteClose, AtElement
  <2>2. Opening(value[i]) = <<RBRACE>> /\ Spelling(value[i]) = <<>> /\ ~Quoted(value[i]) /\ ArraySep(value, i) = <<>>
    BY <1>1, <2>1 DEF Opening, Spelling, ArraySep
  <2>3. PICK b : b = Opening(value[i])
    OBVIOUS
  <2>4. b \in Seq(Nat)
    BY <2>2, <2>3, ArrayLetters DEF IsText
  <2>6. (<<>> \o b) \o <<>> = b
    BY <1>2, <2>4
  <2>7. ArrayWriting(P)'
    BY <2>1, <2>2, <2>3, <2>6, WritesPlain
  <2>8. mode' = "encode"
    BY <2>1 DEF Emit
  <2> QED
    BY <2>7, <2>8
<1>5. ASSUME mode = "encode", i <= Len(value), value[i].kind \in {"nil", "str"}, ~Quoted(value[i]),
             NEW b, b = Spelling(value[i]), Emit(Separator \o b)
      PROVE  ArrayWriting(P)' /\ mode' = "encode"
  <2>2. Opening(value[i]) = <<>> /\ Separator = ArraySep(value, i)
    BY <1>1, <1>5 DEF Opening
  <2>3. PICK a : a = ArraySep(value, i)
    OBVIOUS
  <2>4. a \in Seq(Nat)
    BY <1>1, <1>5, <2>3
  <2>6. (a \o <<>>) \o b = a \o b
    BY <1>2, <2>4
  <2>7. ArrayWriting(P)'
    BY <1>5, <2>2, <2>3, <2>6, WritesPlain
  <2>8. mode' = "encode"
    BY <1>5 DEF Emit
  <2> QED
    BY <2>7, <2>8
<1>6. CASE WriteNull
  <2>1. /\ mode = "encode" /\ i <= Len(value) /\ value[i].kind = "nil" /\ Emit(Separator \o NULL)
    BY <1>6 DEF WriteNull, AtElement, Raise
  <2>2. NULL = Spelling(value[i]) /\ ~Quoted(value[i])
    BY <2>1 DEF Spelling, Quoted
  <2> QED
    BY <1>5, <2>1, <2>2
<1>7. CASE WriteString
  <2>1. mode = "encode" /\ i <= Len(value) /\ value[i].kind = "str" /\ ~LessDimensions(Dimension(i))
    BY <1>7 DEF WriteString, AtElement, Raise
  <2>2. CASE NeedQuote(value[i].str)
    <3>1. mode' = "escape"
      BY <1>7, <2>1, <2>2 DEF WriteString
    <3> QED
      BY <1>7, <2>1, <2>2, <3>1, QuoteStarted
  <2>3. CASE ~NeedQuote(value[i].str)
    <3>1. Emit(Separator \o value[i].str)
      BY <1>7, <2>1, <2>3 DEF WriteString
    <3>2. value[i].str = Spelling(value[i]) /\ ~Quoted(value[i])
      BY <2>1, <2>3 DEF Spelling, Quoted
    <3> QED
      BY <1>5, <2>1, <3>1, <3>2
  <2> QED
    BY <2>2, <2>3
<1>8. CASE QuoteByte
  <2>1. mode' = "escape"
    BY <1>8 DEF QuoteByte, MoveByte
  <2> QED
    BY <1>8, <2>1, QuoteMoved
<1>9. CASE QuoteEnd
  <2>1. mode' = "encode"
    BY <1>9 DEF QuoteEnd
  <2> QED
    BY <1>9, <2>1, QuoteEnded
<1>10. CASE EncodeEnd(<<>>)
  <2>1. mode = "encode" /\ i > Len(value) /\ input' = input \o <<>> /\ mode' = "decode"
    BY <1>10 DEF EncodeEnd
  <2>2. input' = input
    <3>1. input \in Seq(Nat)
      BY DEF Base
    <3> QED
      BY <1>2, <2>1, <3>1
  <2>3. i <= P.n + 1 /\ Laid(P, input, i - 1, Len(input) + 1)
    BY <2>1 DEF ArrayWriting
  <2>4. i - 1 = P.n
    BY <1>0, <2>1, <2>3
  <2> QED
    BY <2>1, <2>2, <2>3, <2>4 DEF ArrayWriting
<1> QED
  BY <1>3, <1>4, <1>6, <1>7, <1>8, <1>9, <1>10 DEF pg_text_enc_array

(* The token k is the first that the encoder refuses, for its depth. *)
RefusedAt(k) ==
  \/ value[k].kind \in {"nil", "str"} /\ LessDimensions(Dimension(k))
  \/ value[k].kind = "open" /\ value[k + 1].kind = "close" /\ LessDimensions(Dimension(k) + 1)
NoneRefused(n) == \A k \in 1..n : ~RefusedAt(k)

ArrayRefusals ==
  /\ mode = "encode" => NoneRefused(i - 1)
  /\ mode = "escape" => i <= Len(value) /\ NoneRefused(i)
  /\ mode \in {"decode", "done"} => NoneRefused(Len(value))
  /\ mode = "error" => \E k \in 1..Len(value) : RefusedAt(k)

LEMMA RefusalsMean ==
  ASSUME value \in Seq(Fields)
  PROVE  (\E d \in Depths : LessDimensions(d)) <=> \E k \in 1..Len(value) : RefusedAt(k)
<1>1. DOMAIN value = 1..Len(value)
  OBVIOUS
<1> QED
  BY <1>1, Zenon DEF Depths, RefusedAt

LEMMA RefusalsKept ==
  ASSUME codec' = codec, value' = value
  PROVE  \A k : RefusedAt(k)' <=> RefusedAt(k)
  BY Zenon DEF RefusedAt, LessDimensions, Dimension, Within

LEMMA RefusalsWrite ==
  ASSUME Base, ArrayRefusals, pg_text_enc_array, mode \in {"encode", "escape"}
  PROVE  ArrayRefusals' /\ (mode' = "error" => \E k \in 1..Len(value) : RefusedAt(k))
<1>0. Len(value) \in Nat /\ i \in Nat \ {0}
  BY DEF Base
<1>1. codec' = codec /\ value' = value
  BY DEF pg_text_enc_array, WriteOpen, WriteClose, WriteNull, WriteString, QuoteByte, QuoteEnd, MoveByte,
     EncodeEnd, Emit, Raise, encVars
<1>2. \A k : RefusedAt(k)' <=> RefusedAt(k)
  BY <1>1, RefusalsKept
<1>3. \A n : NoneRefused(n)' <=> NoneRefused(n)
  BY <1>2 DEF NoneRefused
<1>4. ASSUME mode = "encode", i <= Len(value), ~RefusedAt(i) PROVE NoneRefused(i) /\ i \in 1..Len(value)
  <2>1. NoneRefused(i - 1)
    BY <1>4 DEF ArrayRefusals
  <2>2. \A k \in 1..i : k \in 1..(i - 1) \/ k = i
    BY <1>0
  <2> QED
    BY <1>0, <1>4, <2>1, <2>2 DEF NoneRefused
<1>5. ASSUME mode = "encode", i <= Len(value), ~RefusedAt(i), mode' = "encode", i' = i + 1 PROVE ArrayRefusals'
  <2>1. NoneRefused(i)
    BY <1>4, <1>5
  <2>2. i' - 1 = i
    BY <1>0, <1>5
  <2> QED
    BY <1>3, <1>5, <2>1, <2>2 DEF ArrayRefusals
<1>6. ASSUME mode = "encode", i <= Len(value), RefusedAt(i), mode' = "error"
      PROVE  ArrayRefusals' /\ \E k \in 1..Len(value) : RefusedAt(k)
  <2>1. i \in 1..Len(value)
    BY <1>0, <1>6
  <2> QED
    BY <1>1, <1>2, <1>6, <2>1 DEF ArrayRefusals
<1>7. CASE WriteOpen \/ WriteClose \/ WriteNull
  <2>1. /\ mode = "encode" /\ i <= Len(value)
        /\ \/ RefusedAt(i) /\ mode' = "error"
           \/ ~RefusedAt(i) /\ mode' = "encode" /\ i' = i + 1
    BY <1>7 DEF WriteOpen, WriteClose, WriteNull, AtElement, Emit, Raise, RefusedAt
  <2> QED
    BY <1>5, <1>6, <2>1
<1>8. CASE WriteString
  <2>1. /\ mode = "encode" /\ i <= Len(value)
        /\ \/ RefusedAt(i) /\ mode' = "error"
           \/ ~RefusedAt(i) /\ mode' = "encode" /\ i' = i + 1
           \/ ~RefusedAt(i) /\ mode' = "escape" /\ i' = i
    BY <1>8 DEF WriteString, AtElement, Emit, Raise, RefusedAt
  <2>2. CASE ~RefusedAt(i) /\ mode' = "escape" /\ i' = i
    BY <1>1, <1>3, <1>4, <2>1, <2>2 DEF ArrayRefusals
  <2> QED
    BY <1>5, <1>6, <2>1, <2>2
<1>9. CASE QuoteByte
  <2>1. mode = "escape" /\ mode' = "escape" /\ i' = i
    BY <1>9 DEF QuoteByte, MoveByte
  <2> QED
    BY <1>1, <1>3, <2>1 DEF ArrayRefusals
<1>10. CASE QuoteEnd
  <2>1. mode = "escape" /\ mode' = "encode" /\ i' = i + 1
    BY <1>10 DEF QuoteEnd
  <2>2. i' - 1 = i
    BY <1>0, <2>1
  <2> QED
    BY <1>3, <2>1, <2>2 DEF ArrayRefusals
<1>11. CASE EncodeEnd(<<>>)
  <2>1. mode = "encode" /\ i > Len(value) /\ mode' = "decode"
    BY <1>11 DEF EncodeEnd
  <2>2. NoneRefused(i - 1)
    BY <2>1 DEF ArrayRefusals
  <2>3. \A k \in 1..Len(value) : k \in 1..(i - 1)
    BY <1>0, <2>1
  <2>4. NoneRefused(Len(value))
    BY <2>2, <2>3 DEF NoneRefused
  <2> QED
    BY <1>1, <1>3, <2>1, <2>4 DEF ArrayRefusals
<1> QED
  BY <1>7, <1>8, <1>9, <1>10, <1>11 DEF pg_text_enc_array

-----------------------------------------------------------------------------
(* What the decoder of arrays finds *)

IsElement(f) == f.kind \in {"nil", "str"}

(* Token k of the text: it starts at a, is behind its separator at s, and  *)
(* ends before b; its bytes are where f says.                              *)
TokenShape(P, text, v, k, a, s, b, f) ==
  /\ a \in Nat \ {0} /\ s \in Nat \ {0} /\ b \in Nat /\ s < b /\ b <= Len(text) + 1
  /\ s = a + Len(ArraySep(v, k)) /\ a <= s
  /\ ArraySep(v, k) # <<>> => text[a] = ArrayDelimiter /\ s = a + 1
  /\ ArraySep(v, k) = <<>> => s = a
  /\ v[k].kind = "open" => text[s] = LBRACE /\ b = s + 1
  /\ v[k].kind = "close" => text[s] = RBRACE /\ b = s + 1
  /\ Run(P, text, f, Spelling(v[k]), 0, Len(Spelling(v[k])))
  /\ IsElement(v[k]) /\ ~Quoted(v[k]) => f[0] = s /\ f[Len(Spelling(v[k]))] = b
  /\ Quoted(v[k]) => /\ text[s] = QUOTE /\ f[0] = s + 1
                     /\ text[f[Len(Spelling(v[k]))]] = QUOTE /\ b = f[Len(Spelling(v[k]))] + 1

LEMMA HasOne ==
  ASSUME NEW text, NEW a \in Nat, NEW c, Has(text, a, <<c>>)
  PROVE  text[a] = c
<1>1. Len(<<c>>) = 1 /\ <<c>>[1] = c /\ 1 \in 1..1 /\ a + 1 - 1 = a
  OBVIOUS
<1>2. text[a + 1 - 1] = <<c>>[1]
  BY <1>1 DEF Has
<1> QED
  BY <1>1, <1>2

(* An element that is not quoted is not empty. *)
LEMMA NotQuotedNotEmpty ==
  ASSUME NEW f \in Fields, IsElement(f), ~Quoted(f)
  PROVE  Len(Spelling(f)) \in Nat /\ Len(Spelling(f)) > 0 /\ Spelling(f)[1] # RBRACE
<1>1. CASE f.kind = "nil"
  <2>1. Spelling(f) = NULL /\ Len(NULL) = 4 /\ NULL[1] = 78
    BY <1>1 DEF Spelling, NULL
  <2> QED
    BY <2>1 DEF RBRACE
<1>2. CASE f.kind = "str"
  <2>1. Spelling(f) = f.str /\ f.str \in Seq(Byte) /\ ~NeedQuote(f.str)
    BY <1>2 DEF Spelling, Quoted, Fields
  <2>2. f.str # <<>>
    BY <2>1 DEF NeedQuote
  <2>3. Len(f.str) \in Nat /\ Len(f.str) > 0
    BY <2>1, <2>2
  <2>4. 1 \in DOMAIN f.str
    BY <2>1, <2>3
  <2>5. f.str[1] # RBRACE
    BY <2>1, <2>4 DEF NeedQuote
  <2> QED
    BY <2>1, <2>3, <2>5
<1> QED
  BY <1>1, <1>2 DEF IsElement

LEMMA ArrayShape ==
  ASSUME NEW P, NEW v, ArrayPlanned(P, v), NEW text, NEW at, NEW pos,
         Layout(P, text, at, pos, P.n, Len(text) + 1), NEW k \in 1..Len(v)
  PROVE  TokenShape(P, text, v, k, at[k], at[k] + Len(ArraySep(v, k)), at[k + 1], pos[k])
<1>1. PICK a, s, b, f, e : /\ a = at[k] /\ s = at[k] + Len(ArraySep(v, k)) /\ b = at[k + 1] /\ f = pos[k]
                           /\ e = Len(text) + 1
  OBVIOUS
<1>2. /\ PlanOK(P) /\ v \in Arrays /\ k \in 1..P.n
      /\ Lead(P, k) = ArraySep(v, k) \o Opening(v[k])
      /\ Body(P, k) = Spelling(v[k]) /\ Trail(P, k) = Ending(v[k])
  BY DEF ArrayPlanned
<1>3. v[k] \in Fields /\ v[k].kind \in {"nil", "str", "open", "close"}
      /\ (v[k].kind \in {"open", "close"} => Spelling(v[k]) = <<>>)
  BY <1>2, ArrayKinds DEF Open, Close, Spelling
<1>4. a \in Nat \ {0} /\ b \in Nat /\ b <= e /\ TokenAt(P, text, k, a, b, f)
  BY <1>1, <1>2, TokenRead
<1>5. PICK sep, open, body, trail : /\ sep = ArraySep(v, k) /\ open = Opening(v[k]) /\ body = Spelling(v[k])
                                    /\ trail = Ending(v[k])
  OBVIOUS
<1>6. sep \in Seq(Nat) /\ open \in Seq(Nat) /\ body \in Seq(Nat) /\ trail \in Seq(Nat)
  BY <1>3, <1>5, ArrayParts
<1>7. /\ Has(text, a, sep \o open) /\ f[0] = a + Len(sep \o open) /\ Run(P, text, f, body, 0, Len(body))
      /\ Has(text, f[Len(body)], trail) /\ b = f[Len(body)] + Len(trail)
  BY <1>2, <1>4, <1>5 DEF TokenAt
<1>8. /\ Len(sep) \in Nat /\ Len(open) \in Nat /\ Len(body) \in Nat /\ Len(trail) \in Nat
      /\ Len(sep \o open) = Len(sep) + Len(open)
  BY <1>6, ConcatProperties
<1>9. s \in Nat \ {0} /\ s = a + Len(sep) /\ f[0] = s + Len(open) /\ a <= s
  <2>1. PICK m, n, g : m = Len(sep) /\ n = Len(open) /\ g = f[0]
    OBVIOUS
  <2>2. s = a + m /\ g = a + Len(sep \o open)
    BY <1>1, <1>5, <1>7, <2>1, Zenon
  <2>3. g = a + (m + n) /\ m \in Nat /\ n \in Nat
    BY <1>8, <2>1, <2>2, Zenon
  <2>4. s \in Nat \ {0} /\ g = s + n /\ a <= s
    BY <1>4, <2>2, <2>3
  <2> QED
    BY <2>1, <2>2, <2>4, Zenon
<1>10. Has(text, a, sep) /\ Has(text, s, open)
  BY <1>4, <1>6, <1>7, <1>9, HasBoth
<1>11. /\ sep # <<>> => text[a] = ArrayDelimiter /\ s = a + 1
       /\ sep = <<>> => s = a
  <2>1. sep = <<>> \/ sep = <<ArrayDelimiter>>
    BY <1>5 DEF ArraySep
  <2>2. CASE sep = <<>>
    <3>1. Len(sep) = 0
      BY <2>2
    <3> QED
      BY <1>4, <1>9, <2>2, <3>1
  <2>3. CASE sep = <<ArrayDelimiter>>
    <3>1. Len(sep) = 1 /\ sep # <<>>
      BY <2>3
    <3>2. text[a] = ArrayDelimiter
      BY <1>4, <1>10, <2>3, HasOne
    <3> QED
      BY <1>9, <3>1, <3>2
  <2> QED
    BY <2>1, <2>2, <2>3
<1>12. /\ f[0] \in Nat /\ f[Len(body)] \in Nat /\ f[0] <= f[Len(body)]
  <2>1. 0 \in 0..Len(body) /\ Len(body) \in 0..Len(body)
    BY <1>8
  <2> QED
    BY <1>7, <2>1 DEF Run
<1>13. ASSUME v[k].kind \in {"open", "close"} PROVE b = s + 1 /\ text[s] = IF v[k].kind = "open" THEN LBRACE ELSE RBRACE
  <2>1. open = <<IF v[k].kind = "open" THEN LBRACE ELSE RBRACE>> /\ body = <<>> /\ trail = <<>>
    BY <1>3, <1>5, <1>13 DEF Opening, Ending, Quoted
  <2>2. Len(open) = 1 /\ Len(body) = 0 /\ Len(trail) = 0
    BY <2>1
  <2>3. b = s + 1
    BY <1>7, <1>9, <2>2
  <2>4. text[s] = IF v[k].kind = "open" THEN LBRACE ELSE RBRACE
    BY <1>9, <1>10, <2>1, HasOne
  <2> QED
    BY <2>3, <2>4
<1>14. ASSUME IsElement(v[k]), ~Quoted(v[k]) PROVE f[0] = s /\ f[Len(body)] = b /\ s < b
  <2>1. open = <<>> /\ trail = <<>>
    BY <1>5, <1>14 DEF Opening, Ending, IsElement
  <2>2. Len(open) = 0 /\ Len(trail) = 0
    BY <2>1
  <2>3. f[0] = s /\ f[Len(body)] = b
    BY <1>7, <1>9, <1>12, <2>2
  <2>4. Len(body) > 0
    BY <1>3, <1>5, <1>14, NotQuotedNotEmpty
  <2>5. 0 \in Nat /\ 0 < Len(body) /\ 0 + 1 = 1
    BY <2>4
  <2>6. f[0] < f[0 + 1] /\ f[0 + 1] <= f[Len(body)] /\ f[0 + 1] \in Nat
    BY <1>6, <1>7, <2>5, BytesRead
  <2>7. f[0] < f[Len(body)]
    BY <1>12, <2>6
  <2> QED
    BY <2>3, <2>7
<1>15. ASSUME Quoted(v[k]) PROVE text[s] = QUOTE /\ f[0] = s + 1 /\ text[f[Len(body)]] = QUOTE /\ b = f[Len(body)] + 1 /\ s < b
  <2>1. open = <<QUOTE>> /\ trail = <<QUOTE>>
    BY <1>5, <1>15 DEF Opening, Ending, Quoted
  <2>2. Len(open) = 1 /\ Len(trail) = 1
    BY <2>1
  <2>3. text[s] = QUOTE /\ text[f[Len(body)]] = QUOTE
    BY <1>7, <1>9, <1>10, <1>12, <2>1, HasOne
  <2>4. f[0] = s + 1 /\ b = f[Len(body)] + 1
    BY <1>7, <1>9, <2>2
  <2>5. s < b
    BY <1>9, <1>12, <2>4
  <2> QED
    BY <2>3, <2>4, <2>5
<1>16. s < b
  <2>1. CASE v[k].kind \in {"open", "close"}
    BY <1>9, <1>13, <2>1
  <2>2. CASE IsElement(v[k])
    BY <1>14, <1>15, <2>2
  <2> QED
    BY <1>3, <2>1, <2>2 DEF IsElement
<1>17. TokenShape(P, text, v, k, a, s, b, f)
  BY <1>1, <1>4, <1>5, <1>7, <1>9, <1>11, <1>13, <1>14, <1>15, <1>16 DEF TokenShape
<1> QED
  BY <1>1, <1>17

LEMMA ArrayEnclosed ==
  ASSUME NEW v \in Arrays
  PROVE  Len(v) \in Nat /\ Len(v) >= 2 /\ v[1].kind = "open" /\ v[Len(v)].kind = "close"
<1>1. PICK n : n = Len(v)
  OBVIOUS
<1>2. n \in Nat /\ n >= 2 /\ Within(v, n + 1) = 0 /\ \A k \in 2..n : Within(v, k) > 0
  BY <1>1 DEF Arrays
<1>3. v[1].kind = "open"
  <2>1. Within(v, 1) = 0 /\ Within(v, 1 + 1) = Within(v, 1) + Deeper(v[1].kind)
    BY WithinFirst, WithinNext
  <2>2. 1 + 1 = 2 /\ 2 \in 2..n
    BY <1>2
  <2>3. 0 + Deeper(v[1].kind) > 0
    BY <1>2, <2>1, <2>2
  <2> QED
    BY <2>3 DEF Deeper
<1>4. v[n].kind = "close"
  <2>1. PICK d : d = Within(v, n)
    OBVIOUS
  <2>2. n \in 2..n /\ n \in Int /\ n >= 1
    BY <1>2
  <2>3. d \in Int /\ d > 0
    BY <1>2, <2>1, <2>2, WithinType
  <2>4. d + Deeper(v[n].kind) = 0
    BY <1>2, <2>1, <2>2, WithinNext
  <2> QED
    BY <2>3, <2>4 DEF Deeper
<1> QED
  BY <1>1, <1>2, <1>3, <1>4

(* The array is read when nothing is open any more. *)
LEMMA ArrayRead ==
  ASSUME NEW v \in Arrays, NEW r, Begins(r, v, Fields), NEW m \in Nat, Nested(r, m)
  PROVE  (m = 0 => r = v) /\ (m >= 1 => Len(r) < Len(v))
<1>1. PICK n, l : n = Len(v) /\ l = Len(r)
  OBVIOUS
<1>2. n \in Nat /\ l \in Nat /\ l <= n /\ l >= 1 /\ n >= 2 /\ Within(v, n + 1) = 0 /\ \A k \in 2..n : Within(v, k) > 0
  BY <1>1 DEF Arrays, Begins, Nested
<1>3. Within(v, l + 1) = m
  <2>1. l + 1 \in Int /\ (l + 1) - 1 = l
    BY <1>2
  <2>2. \A x \in 1..((l + 1) - 1) : r[x] = v[x]
    BY <1>1, <2>1 DEF Begins
  <2>3. Within(r, l + 1) = Within(v, l + 1)
    BY <2>1, <2>2, WithinSame
  <2> QED
    BY <1>1, <2>3 DEF Nested
<1>4. ASSUME m = 0 PROVE r = v
  <2>1. l + 1 \notin 2..n
    BY <1>2, <1>3, <1>4
  <2>2. l = n
    BY <1>2, <2>1
  <2>3. v \in Seq(Fields)
    BY DEF Arrays
  <2> QED
    BY <1>1, <2>2, <2>3, BeginsAll
<1>5. ASSUME m >= 1 PROVE l < n
  <2>1. l # n
    BY <1>2, <1>3, <1>5
  <2> QED
    BY <1>2, <2>1
<1> QED
  BY <1>1, <1>4, <1>5

(* The bytes of an element without quotes. *)
LEMMA PlainByte ==
  ASSUME NEW f \in Fields, IsElement(f), ~Quoted(f),
         f.kind = "str" => \A m \in DOMAIN f.str : f.str[m] # NUL,
         NEW p \in 1..Len(Spelling(f))
  PROVE  Spelling(f)[p] \notin {QUOTE, BACKSLASH, LBRACE, RBRACE, ArrayDelimiter, NUL}
<1>1. CASE f.kind = "nil"
  <2>1. Spelling(f) = NULL /\ Len(NULL) = 4 /\ DOMAIN NULL = 1..4
    BY <1>1 DEF Spelling, NULL
  <2>2. NULL[p] \in {78, 85, 76} /\ NULL[p] # ArrayDelimiter
    BY <2>1, ArrayReadable DEF NULL
  <2> QED
    BY <2>1, <2>2 DEF QUOTE, BACKSLASH, LBRACE, RBRACE, NUL
<1>2. CASE f.kind = "str"
  <2>1. Spelling(f) = f.str /\ f.str \in Seq(Byte) /\ ~NeedQuote(f.str)
    BY <1>2 DEF Spelling, Quoted, Fields
  <2>2. p \in DOMAIN f.str
    BY <2>1
  <2> QED
    BY <1>2, <2>1, <2>2 DEF NeedQuote, ArraySpecial
<1> QED
  BY <1>1, <1>2 DEF IsElement

(* What is behind a token that is not an opening brace. *)
Behind(text, v, k, b) ==
  /\ k + 1 \in 1..Len(v)
  /\ v[k + 1].kind = "close" => text[b] = RBRACE
  /\ v[k + 1].kind # "close" => text[b] = ArrayDelimiter /\ Len(ArraySep(v, k + 1)) = 1

LEMMA FoundBehind ==
  ASSUME NEW P, NEW v, ArrayPlanned(P, v), NEW text, NEW at, NEW pos,
         Layout(P, text, at, pos, P.n, Len(text) + 1), NEW k \in 1..Len(v), k < Len(v), v[k].kind # "open"
  PROVE  Behind(text, v, k, at[k + 1])
<1>1. PICK m : m = k + 1
  OBVIOUS
<1>2. v \in Arrays /\ Len(v) \in Nat
  BY ArrayEnclosed DEF ArrayPlanned
<1>3. m \in 1..Len(v) /\ m > 1 /\ m - 1 = k
  BY <1>1, <1>2
<1>4. TokenShape(P, text, v, m, at[m], at[m] + Len(ArraySep(v, m)), at[m + 1], pos[m])
  BY <1>3, ArrayShape
<1>5. CASE v[m].kind = "close"
  <2>1. ArraySep(v, m) = <<>>
    BY <1>5 DEF ArraySep
  <2> QED
    BY <1>1, <1>3, <1>4, <1>5, <2>1 DEF TokenShape, Behind
<1>6. CASE v[m].kind # "close"
  <2>1. ArraySep(v, m) = <<ArrayDelimiter>>
    BY <1>3, <1>6 DEF ArraySep
  <2>2. ArraySep(v, m) # <<>> /\ Len(ArraySep(v, m)) = 1
    BY <2>1
  <2> QED
    BY <1>1, <1>3, <1>4, <1>6, <2>2 DEF TokenShape, Behind
<1> QED
  BY <1>5, <1>6

(* What is behind an opening brace. *)
InBraces(text, v, at, k) ==
  /\ k + 1 \in 1..Len(v) /\ Len(ArraySep(v, k + 1)) = 0
  /\ at[k + 1] \in Nat /\ at[k + 1] <= Len(text)
  /\ text[at[k + 1]] = RBRACE <=> v[k + 1].kind = "close"

LEMMA FoundWithin ==
  ASSUME NEW P, NEW v, ArrayPlanned(P, v), NEW text, NEW at, NEW pos,
         Layout(P, text, at, pos, P.n, Len(text) + 1), NEW k \in 1..Len(v), v[k].kind = "open"
  PROVE  InBraces(text, v, at, k)
<1>1. PICK m : m = k + 1
  OBVIOUS
<1>2. v \in Arrays /\ Len(v) \in Nat /\ v[Len(v)].kind = "close"
  BY ArrayEnclosed DEF ArrayPlanned
<1>3. m \in 1..Len(v) /\ m > 1 /\ m - 1 = k
  <2>1. k # Len(v)
    BY <1>2
  <2> QED
    BY <1>1, <1>2, <2>1
<1>4. ArraySep(v, m) = <<>>
  BY <1>3 DEF ArraySep
<1>5. PICK a, b, f : a = at[m] /\ b = at[m + 1] /\ f = pos[m]
  OBVIOUS
<1>6. TokenShape(P, text, v, m, a, a, b, f)
  <2>1. TokenShape(P, text, v, m, a, a + Len(ArraySep(v, m)), b, f)
    BY <1>3, <1>5, ArrayShape
  <2>2. a + Len(ArraySep(v, m)) = a
    BY <1>4, <2>1 DEF TokenShape
  <2> QED
    BY <2>1, <2>2
<1>7. a \in Nat /\ a <= Len(text)
  <2>1. a \in Nat \ {0} /\ b \in Nat /\ a < b /\ b <= Len(text) + 1
    BY <1>6 DEF TokenShape
  <2>2. P.n = Len(v) /\ PlanOK(P) /\ P.n + 1 \in 1..(P.n + 1)
    BY <1>2 DEF ArrayPlanned
  <2>3. Len(text) + 1 \in Nat
    BY <2>2 DEF Layout
  <2> QED
    BY <2>1, <2>3
<1>8. text[a] = RBRACE <=> v[m].kind = "close"
  <2>0. v[m] \in Fields /\ v[m].kind \in {"nil", "str", "open", "close"}
    BY <1>2, <1>3, ArrayKinds
  <2>1. CASE v[m].kind = "close"
    BY <1>6, <2>1 DEF TokenShape
  <2>2. CASE v[m].kind = "open"
    BY <1>6, <2>2 DEF TokenShape, LBRACE, RBRACE
  <2>3. CASE IsElement(v[m]) /\ Quoted(v[m])
    BY <1>6, <2>3 DEF TokenShape, QUOTE, RBRACE, IsElement
  <2>4. CASE IsElement(v[m]) /\ ~Quoted(v[m])
    <3>1. PICK str : str = Spelling(v[m])
      OBVIOUS
    <3>2. str \in Seq(Nat) /\ Len(str) \in Nat /\ 0 < Len(str) /\ str[1] # RBRACE
      BY <2>0, <2>4, <3>1, ArrayParts, NotQuotedNotEmpty
    <3>3. Run(P, text, f, str, 0, Len(str)) /\ f[0] = a
      BY <1>6, <2>4, <3>1 DEF TokenShape
    <3>4. ByteAt(P, text, f[0], f[0 + 1], str[0 + 1])
      BY <3>2, <3>3, BytesRead
    <3>5. str[1] \notin P.special
      <4>1. P.special = ArraySpecial
        BY DEF ArrayPlanned
      <4>2. v[m].kind \in {"open", "close"} => v[m].str = <<>>
        BY <2>4 DEF IsElement
      <4>3. 1 \in 1..Len(str)
        BY <3>2
      <4> QED
        BY <2>0, <2>4, <3>1, <4>1, <4>2, <4>3, PlainSpelling
    <3>6. text[a] = str[1]
      BY <3>3, <3>4, <3>5 DEF ByteAt
    <3> QED
      BY <2>4, <3>2, <3>6 DEF IsElement
  <2> QED
    BY <2>0, <2>1, <2>2, <2>3, <2>4 DEF IsElement
<1>9. Len(ArraySep(v, m)) = 0
  BY <1>4
<1> QED
  BY <1>1, <1>3, <1>5, <1>7, <1>8, <1>9 DEF InBraces

-----------------------------------------------------------------------------
(* Where the decoder of arrays is *)

(* The locals of a call behind a subarray. *)
Beside == [idx |-> 0, openQuote |-> 0, escapeNext |-> TRUE]

(* The call q has read a part of the element str, up to before c. *)
InToken(str, quoted, f, q, c, w) ==
  /\ q.idx <= Len(str) /\ \A x \in 1..q.idx : w[x] = str[x]
  /\ \/ q.openQuote = 0 /\ ~quoted /\ ~q.escapeNext /\ c = f[q.idx]
     \/ q.openQuote = 1 /\ quoted /\ ~q.escapeNext /\ c = f[q.idx]
     \/ q.openQuote = 1 /\ quoted /\ q.escapeNext /\ q.idx < Len(str) /\ str[q.idx + 1] \in ArraySpecial
          /\ c = f[q.idx] + 1
     \/ q.openQuote = -1 /\ quoted /\ ~q.escapeNext /\ q.idx = Len(str) /\ c = f[q.idx] + 1

(* The call q is about to read token k, reads it, or is behind a subarray. *)
ReadingAt(v, at, pos, k, q, c, w) ==
  \/ q = Call /\ v[k].kind # "close" /\ c = at[k] + Len(ArraySep(v, k))
  \/ q = Beside /\ k > 1 /\ v[k - 1].kind = "close" /\ c = at[k]
  \/ IsElement(v[k]) /\ InToken(Spelling(v[k]), Quoted(v[k]), pos[k], q, c, w)

(* What it finds there. *)
AtOpen(text, v, at, k, q, c) ==
  q = Call /\ v[k].kind = "open" /\ text[c] = LBRACE /\ at[k + 1] = c + 1
AtQuote(text, f, q, c) == q = Call /\ text[c] = QUOTE /\ f[0] = c + 1
AtPlain(text, str, f, q, c) ==
  q.openQuote = 0 /\ ~q.escapeNext /\ q.idx < Len(str) /\ text[c] = str[q.idx + 1] /\ f[q.idx + 1] = c + 1
    /\ text[c] \notin {QUOTE, BACKSLASH, LBRACE, RBRACE, ArrayDelimiter, NUL}
AtEscape(text, str, f, q, c) ==
  q.openQuote = 1 /\ ~q.escapeNext /\ q.idx < Len(str) /\ text[c] = BACKSLASH /\ str[q.idx + 1] \in ArraySpecial
    /\ c = f[q.idx]
AtCopied(text, str, f, q, c) ==
  q.openQuote = 1 /\ q.idx < Len(str) /\ text[c] = str[q.idx + 1] /\ f[q.idx + 1] = c + 1
    /\ (q.escapeNext \/ text[c] \notin {QUOTE, BACKSLASH})
AtEndQuote(text, str, f, q, c) ==
  q.openQuote = 1 /\ ~q.escapeNext /\ q.idx = Len(str) /\ text[c] = QUOTE /\ c = f[q.idx]
AtByte(text, str, quoted, f, q, c) ==
  \/ ~quoted /\ AtPlain(text, str, f, q, c)
  \/ quoted /\ AtEscape(text, str, f, q, c)
  \/ quoted /\ AtCopied(text, str, f, q, c)
  \/ quoted /\ AtEndQuote(text, str, f, q, c)
AtEnd(v, at, k, q, c, w) ==
  \/ q = Beside /\ k > 1 /\ v[k - 1].kind = "close" /\ c = at[k]
  \/ /\ IsElement(v[k]) /\ q.idx = Len(Spelling(v[k])) /\ ~q.escapeNext /\ c = at[k + 1]
     /\ \A x \in 1..q.idx : w[x] = Spelling(v[k])[x]
     /\ q.openQuote = (IF Quoted(v[k]) THEN -1 ELSE 0)
Reads(str, q, w) == q.idx <= Len(str) /\ \A x \in 1..q.idx : w[x] = str[x]
Finds(text, v, at, pos, k, q, c, w) ==
  \/ AtOpen(text, v, at, k, q, c)
  \/ IsElement(v[k]) /\ Quoted(v[k]) /\ AtQuote(text, pos[k], q, c)
  \/ IsElement(v[k]) /\ Reads(Spelling(v[k]), q, w) /\ AtByte(text, Spelling(v[k]), Quoted(v[k]), pos[k], q, c)
  \/ AtEnd(v, at, k, q, c, w)

EndsAt(text, fd, f, b) ==
  /\ Quoted(fd) => text[f[Len(Spelling(fd))]] = QUOTE /\ b = f[Len(Spelling(fd))] + 1
  /\ ~Quoted(fd) => f[Len(Spelling(fd))] = b
ArrayEscapes(P) == P.special = ArraySpecial /\ \A x : Escape(P, x) = ArrayEscape[x]
IsRead(fd, q) ==
  q.idx = Len(Spelling(fd)) /\ ~q.escapeNext /\ q.openQuote = (IF Quoted(fd) THEN -1 ELSE 0)
NoNul(fd) == fd.kind = "str" => \A m \in DOMAIN fd.str : fd.str[m] # NUL

(* What a call finds within an element. *)
LEMMA TokenFinds ==
  ASSUME NEW P, NEW text, NEW f, NEW fd \in Fields, NEW q \in Calls, NEW c, NEW w, NEW b \in Nat,
         ArrayEscapes(P), IsElement(fd), NoNul(fd),
         Run(P, text, f, Spelling(fd), 0, Len(Spelling(fd))),
         EndsAt(text, fd, f, b),
         InToken(Spelling(fd), Quoted(fd), f, q, c, w)
  PROVE  \/ c \in Nat \ {0} /\ c < b /\ AtByte(text, Spelling(fd), Quoted(fd), f, q, c)
         \/ c = b /\ IsRead(fd, q)
<1>1. PICK str, p : str = Spelling(fd) /\ p = q.idx
  OBVIOUS
<1>2. str \in Seq(Nat) /\ Len(str) \in Nat /\ p \in Nat /\ p <= Len(str)
  <2>1. str \in Seq(Nat)
    BY <1>1, ArrayParts
  <2> QED
    BY <1>1, <2>1 DEF InToken, Calls
<1>3. /\ Run(P, text, f, str, 0, Len(str))
      /\ fd.kind = "str" => \A m \in DOMAIN fd.str : fd.str[m] # NUL
      /\ Quoted(fd) => text[f[Len(str)]] = QUOTE /\ b = f[Len(str)] + 1
      /\ ~Quoted(fd) => f[Len(str)] = b
  BY <1>1 DEF EndsAt, NoNul
<1>4. CASE p < Len(str)
  <2>1. /\ f[p] \in Nat \ {0} /\ f[p + 1] \in Nat \ {0} /\ f[Len(str)] \in Nat
        /\ f[p] < f[p + 1] /\ f[p + 1] <= f[Len(str)]
        /\ ByteAt(P, text, f[p], f[p + 1], str[p + 1])
    BY <1>2, <1>3, <1>4, BytesRead
  <2>2. f[Len(str)] <= b
    BY <1>3, <2>1
  <2>3. PICK x, y, z, d : x = f[p] /\ y = f[p + 1] /\ z = f[Len(str)] /\ d = str[p + 1]
    OBVIOUS
  <2>4. x \in Nat \ {0} /\ y \in Nat /\ z \in Nat /\ x < y /\ y <= z /\ z <= b
    BY <2>1, <2>2, <2>3
  <2>5. /\ d \in ArraySpecial => y = x + 2 /\ text[x] = BACKSLASH /\ text[x + 1] = d
        /\ d \notin ArraySpecial => y = x + 1 /\ text[x] = d
    BY <2>1, <2>3 DEF ByteAt, ArrayEscape, ArrayEscapes
  <2>6. CASE q.openQuote = 0
    <3>1. ~Quoted(fd) /\ ~q.escapeNext /\ c = x
      BY <1>1, <2>3, <2>6 DEF InToken
    <3>2. p + 1 \in 1..Len(str)
      BY <1>2, <1>4
    <3>3. d \notin {QUOTE, BACKSLASH, LBRACE, RBRACE, ArrayDelimiter, NUL}
      BY <1>1, <1>3, <2>3, <3>1, <3>2, PlainByte
    <3>4. d \notin ArraySpecial
      BY <3>3 DEF ArraySpecial
    <3>5. c \in Nat \ {0} /\ c < b /\ y = c + 1 /\ text[c] = d
      BY <2>4, <2>5, <3>1, <3>4
    <3>6. AtPlain(text, str, f, q, c)
      BY <1>1, <1>4, <2>3, <2>6, <3>1, <3>3, <3>5 DEF AtPlain
    <3> QED
      BY <1>1, <3>1, <3>5, <3>6 DEF AtByte
  <2>7. CASE q.openQuote = 1 /\ ~q.escapeNext
    <3>1. Quoted(fd) /\ c = x
      BY <1>1, <2>3, <2>7 DEF InToken
    <3>2. c \in Nat \ {0} /\ c < b
      BY <2>4, <3>1
    <3>3. CASE d \in ArraySpecial
      <4>1. AtEscape(text, str, f, q, c)
        BY <1>1, <1>4, <2>3, <2>5, <2>7, <3>1, <3>3 DEF AtEscape
      <4> QED
        BY <1>1, <3>1, <3>2, <4>1 DEF AtByte
    <3>4. CASE d \notin ArraySpecial
      <4>0. text[c] = d /\ y = c + 1
        BY <2>5, <3>1, <3>4
      <4>1. AtCopied(text, str, f, q, c)
        BY <1>1, <1>4, <2>3, <2>7, <3>4, <4>0 DEF AtCopied, ArraySpecial
      <4> QED
        BY <1>1, <3>1, <3>2, <4>1 DEF AtByte
    <3> QED
      BY <3>3, <3>4
  <2>8. CASE q.openQuote = 1 /\ q.escapeNext
    <3>1. Quoted(fd) /\ c = x + 1 /\ d \in ArraySpecial
      BY <1>1, <2>3, <2>8 DEF InToken
    <3>2. y = x + 2 /\ text[c] = d
      BY <2>5, <3>1
    <3>3. c \in Nat \ {0} /\ c < b /\ y = c + 1
      BY <2>4, <3>1, <3>2
    <3>4. AtCopied(text, str, f, q, c)
      BY <1>1, <1>4, <2>3, <2>8, <3>2, <3>3 DEF AtCopied
    <3> QED
      BY <1>1, <3>1, <3>3, <3>4 DEF AtByte
  <2>9. q.openQuote # -1
    BY <1>1, <1>2, <1>4 DEF InToken
  <2>10. q.openQuote \in {-1, 0, 1}
    BY DEF Calls
  <2> QED
    BY <2>6, <2>7, <2>8, <2>9, <2>10
<1>5. CASE p = Len(str)
  <2>1. f[p] \in Nat \ {0}
    <3>1. p \in 0..Len(str)
      BY <1>2
    <3> QED
      BY <1>3, <3>1 DEF Run
  <2>2. ~(p < Len(str))
    BY <1>2, <1>5
  <2>3. CASE q.openQuote = 0
    <3>1. ~Quoted(fd) /\ ~q.escapeNext /\ c = f[p]
      BY <1>1, <2>3 DEF InToken
    <3> QED
      BY <1>1, <1>3, <1>5, <2>3, <3>1 DEF IsRead
  <2>4. CASE q.openQuote = 1
    <3>1. Quoted(fd) /\ ~q.escapeNext /\ c = f[p]
      BY <1>1, <2>2, <2>4 DEF InToken
    <3>2. text[c] = QUOTE /\ c \in Nat \ {0} /\ b = c + 1
      BY <1>3, <1>5, <2>1, <3>1
    <3>3. c < b
      BY <3>2
    <3>4. AtEndQuote(text, str, f, q, c)
      BY <1>1, <1>5, <2>4, <3>1, <3>2 DEF AtEndQuote
    <3> QED
      BY <1>1, <3>1, <3>2, <3>3, <3>4 DEF AtByte
  <2>5. CASE q.openQuote = -1
    <3>1. Quoted(fd) /\ ~q.escapeNext /\ c = f[p] + 1
      BY <1>1, <2>5 DEF InToken
    <3> QED
      BY <1>1, <1>3, <1>5, <2>5, <3>1 DEF IsRead
  <2>6. q.openQuote \in {-1, 0, 1}
    BY DEF Calls
  <2> QED
    BY <2>3, <2>4, <2>5, <2>6
<1> QED
  BY <1>2, <1>4, <1>5

LEMMA ReadingFinds ==
  ASSUME NEW P, NEW v, ArrayPlanned(P, v), NEW text, Len(text) \in Nat, NEW at, NEW pos,
         Layout(P, text, at, pos, P.n, Len(text) + 1), NEW k \in 1..Len(v),
         NEW q \in Calls, NEW c, NEW w, ReadingAt(v, at, pos, k, q, c, w)
  PROVE  c \in 1..Len(text) /\ Finds(text, v, at, pos, k, q, c, w)
<1>1. PICK a, s, b, f : a = at[k] /\ s = at[k] + Len(ArraySep(v, k)) /\ b = at[k + 1] /\ f = pos[k]
  OBVIOUS
<1>2. TokenShape(P, text, v, k, a, s, b, f)
  BY <1>1, ArrayShape
<1>3. /\ v \in Arrays /\ P.special = ArraySpecial /\ \A x : Escape(P, x) = ArrayEscape[x]
      /\ v[k] \in Fields /\ v[k].kind \in {"nil", "str", "open", "close"}
      /\ v[k].kind = "str" => \A m \in DOMAIN v[k].str : v[k].str[m] # NUL
  BY ArrayKinds DEF ArrayPlanned
<1>4. a \in Nat \ {0} /\ s \in Nat \ {0} /\ b \in Nat /\ s < b /\ b <= Len(text) + 1 /\ a <= s
  BY <1>2 DEF TokenShape
<1>5. s \in 1..Len(text) /\ a \in 1..Len(text)
  BY <1>4
<1>6. ASSUME IsElement(v[k]), InToken(Spelling(v[k]), Quoted(v[k]), f, q, c, w)
      PROVE  c \in 1..Len(text) /\ Finds(text, v, at, pos, k, q, c, w)
  <2>1. PICK fd \in Fields : fd = v[k]
    BY <1>3
  <2>2. /\ Run(P, text, f, Spelling(fd), 0, Len(Spelling(fd))) /\ EndsAt(text, fd, f, b)
        /\ NoNul(fd) /\ IsElement(fd) /\ InToken(Spelling(fd), Quoted(fd), f, q, c, w)
    BY <1>2, <1>3, <1>6, <2>1 DEF TokenShape, EndsAt, NoNul
  <2>3. \/ c \in Nat \ {0} /\ c < b /\ AtByte(text, Spelling(fd), Quoted(fd), f, q, c)
        \/ c = b /\ IsRead(fd, q)
    <3>1. ArrayEscapes(P)
      BY <1>3 DEF ArrayEscapes
    <3> QED
      BY <1>4, <2>2, <3>1, TokenFinds
  <2>4. Reads(Spelling(fd), q, w)
    BY <1>6, <2>1 DEF InToken, Reads
  <2>5. CASE c \in Nat \ {0} /\ c < b /\ AtByte(text, Spelling(fd), Quoted(fd), f, q, c)
    <3>1. c \in 1..Len(text)
      BY <1>4, <2>5
    <3> QED
      BY <1>1, <1>6, <2>1, <2>4, <2>5, <3>1 DEF Finds
  <2>6. CASE c = b /\ IsRead(fd, q)
    <3>1. AtEnd(v, at, k, q, c, w)
      BY <1>1, <1>6, <2>1, <2>4, <2>6 DEF AtEnd, Reads, IsRead
    <3>2. b <= Len(text)
      <4>1. Len(v) \in Nat /\ v[Len(v)].kind = "close"
        BY <1>3, ArrayEnclosed
      <4>2. k # Len(v)
        BY <1>6, <4>1 DEF IsElement
      <4>3. PICK m : m = k + 1
        OBVIOUS
      <4>4. m \in 1..Len(v)
        BY <4>1, <4>2, <4>3
      <4>5. TokenShape(P, text, v, m, at[m], at[m] + Len(ArraySep(v, m)), at[m + 1], pos[m])
        BY <4>4, ArrayShape
      <4>6. PICK x, y, z : x = at[m] /\ y = at[m] + Len(ArraySep(v, m)) /\ z = at[m + 1]
        OBVIOUS
      <4>7. x \in Nat /\ y \in Nat /\ z \in Nat /\ x <= y /\ y < z /\ z <= Len(text) + 1 /\ x = b
        BY <1>1, <4>3, <4>5, <4>6 DEF TokenShape
      <4> QED
        BY <4>7
    <3>3. b \in 1..Len(text)
      BY <1>4, <3>2
    <3> QED
      BY <2>6, <3>1, <3>3 DEF Finds
  <2> QED
    BY <2>3, <2>5, <2>6
<1>7. CASE q = Call /\ v[k].kind # "close" /\ c = s
  <2>1. CASE v[k].kind = "open"
    <3>1. text[s] = LBRACE /\ b = s + 1
      BY <1>2, <2>1 DEF TokenShape
    <3> QED
      BY <1>1, <1>5, <1>7, <2>1, <3>1 DEF AtOpen, Finds
  <2>2. CASE IsElement(v[k]) /\ Quoted(v[k])
    <3>1. text[s] = QUOTE /\ f[0] = s + 1
      BY <1>2, <2>2 DEF TokenShape
    <3> QED
      BY <1>1, <1>5, <1>7, <2>2, <3>1 DEF AtQuote, Finds
  <2>3. CASE IsElement(v[k]) /\ ~Quoted(v[k])
    <3>1. f[0] = s
      BY <1>2, <2>3 DEF TokenShape
    <3>2. Spelling(v[k]) \in Seq(Nat)
      BY <1>3, ArrayParts
    <3>3. 0 <= Len(Spelling(v[k])) /\ 1..0 = {}
      BY <3>2
    <3>4. q.idx = 0 /\ q.openQuote = 0 /\ q.escapeNext = FALSE
      BY <1>7 DEF Call
    <3>5. InToken(Spelling(v[k]), Quoted(v[k]), f, q, c, w)
      BY <1>7, <2>3, <3>1, <3>3, <3>4 DEF InToken
    <3> QED
      BY <1>6, <2>3, <3>5
  <2> QED
    BY <1>3, <1>7, <2>1, <2>2, <2>3 DEF IsElement
<1>8. CASE q = Beside /\ k > 1 /\ v[k - 1].kind = "close" /\ c = a
  BY <1>1, <1>5, <1>8 DEF AtEnd, Finds
<1>9. CASE IsElement(v[k]) /\ InToken(Spelling(v[k]), Quoted(v[k]), f, q, c, w)
  BY <1>6, <1>9
<1> QED
  BY <1>1, <1>7, <1>8, <1>9 DEF ReadingAt

(* The word that a call has read. *)
LEMMA WordIs ==
  ASSUME NEW w \in Seq(Byte), NEW str \in Seq(Byte), Len(str) <= Len(w), \A x \in 1..Len(str) : w[x] = str[x]
  PROVE  SubSeq(w, 1, Len(str)) = str
<1>1. PICK n \in Nat : n = Len(str)
  OBVIOUS
<1>2. PICK u : u = SubSeq(w, 1, n)
  OBVIOUS
<1>3. u \in Seq(Byte) /\ Len(u) = n
  BY <1>1, <1>2, BytesCut
<1>4. \A x \in 1..n : u[x] = w[x]
  <2>1. n <= Len(w) /\ Len(w) \in Nat
    BY <1>1
  <2> QED
    BY <1>2, <2>1
<1>5. u = str
  BY <1>1, <1>3, <1>4, SeqEqual
<1> QED
  BY <1>1, <1>2, <1>5

(* What a call adds to the array. *)
Adding(q, w) ==
  IF q.escapeNext THEN <<>>
  ELSE IF q.openQuote = 0 /\ SubSeq(w, 1, q.idx) = NULL THEN <<Nil>> ELSE <<Str(SubSeq(w, 1, q.idx))>>

LEMMA ElementIs ==
  ASSUME NEW fd \in Fields, IsElement(fd), fd.kind = "nil" => fd = Nil, fd.kind = "str" => fd = Str(fd.str),
         NEW q \in Calls, NEW w \in Seq(Byte), q.idx <= Len(w), q.idx = Len(Spelling(fd)), ~q.escapeNext,
         \A x \in 1..q.idx : w[x] = Spelling(fd)[x], q.openQuote = (IF Quoted(fd) THEN -1 ELSE 0)
  PROVE  Adding(q, w) = <<fd>>
<1>1. PICK str : str = Spelling(fd)
  OBVIOUS
<1>2. str \in Seq(Byte)
  <2>1. fd.str \in Seq(Byte) /\ NULL \in Seq(Byte)
    BY DEF Fields, NULL, Byte
  <2> QED
    BY <1>1, <2>1 DEF Spelling
<1>3. SubSeq(w, 1, q.idx) = str
  BY <1>1, <1>2, WordIs
<1>4. CASE fd.kind = "nil"
  <2>1. str = NULL /\ ~Quoted(fd)
    BY <1>1, <1>4 DEF Spelling, Quoted
  <2> QED
    BY <1>3, <1>4, <2>1 DEF Adding
<1>5. CASE fd.kind = "str"
  <2>1. str = fd.str
    BY <1>1, <1>5 DEF Spelling
  <2>2. ASSUME ~Quoted(fd) PROVE fd.str # NULL
    <3>1. ~NeedQuote(fd.str)
      BY <1>5, <2>2 DEF Quoted
    <3>2. NeedQuote(NULL)
      <4>1. Len(NULL) = 4 /\ \A k \in 1..4 : Lower(NULL[k]) = Lower(NULL[k])
        BY DEF NULL
      <4> QED
        BY <4>1 DEF NeedQuote
    <3> QED
      BY <3>1, <3>2
  <2>3. ~(q.openQuote = 0 /\ str = NULL)
    BY <2>1, <2>2
  <2> QED
    BY <1>3, <1>5, <2>1, <2>3 DEF Adding
<1> QED
  BY <1>4, <1>5 DEF IsElement

LEMMA TokenBegins ==
  ASSUME NEW v \in Seq(Fields), NEW r, Begins(r, v, Fields), Len(r) < Len(v), NEW s, s = Append(r, v[Len(r) + 1])
  PROVE  Begins(s, v, Fields) /\ Len(s) = Len(r) + 1
<1>1. PICK f, S : f = v[Len(r) + 1] /\ S = Fields
  OBVIOUS
<1>2. v \in Seq(S) /\ Begins(r, v, S) /\ s = Append(r, f)
  BY <1>1
<1>3. Begins(s, v, S) /\ Len(s) = Len(r) + 1
  BY <1>1, <1>2, BeginsGrows DEF Begins
<1> QED
  BY <1>1, <1>3

(* The array with it. *)
Added(s, r, q, w) == s = r \o Adding(q, w)

LEMMA ElementAdded ==
  ASSUME NEW v \in Arrays, NEW at, NEW k \in 1..Len(v), NEW r, Begins(r, v, Fields), Len(r) + 1 = k,
         NEW q \in Calls, NEW c, NEW w \in Seq(Byte), q.idx <= Len(w), AtEnd(v, at, k, q, c, w),
         NEW s, Added(s, r, q, w)
  PROVE  /\ Begins(s, v, Fields) /\ Len(s) \in 1..Len(v) /\ Len(s) < Len(v) /\ v[Len(s)].kind # "open"
         /\ c = at[Len(s) + 1]
<1>0. v \in Seq(Fields) /\ Len(v) \in Nat /\ v[Len(v)].kind = "close" /\ r \in Seq(Fields) /\ Len(r) \in Nat
  BY ArrayEnclosed DEF Arrays, Begins
<1>1. CASE q = Beside /\ k > 1 /\ v[k - 1].kind = "close" /\ c = at[k]
  <2>1. Adding(q, w) = <<>>
    BY <1>1 DEF Adding, Beside
  <2>2. s = r
    BY <1>0, <2>1, ConcatEmptySeq DEF Added
  <2>3. Len(r) = k - 1 /\ Len(r) \in 1..Len(v) /\ Len(r) < Len(v)
    BY <1>0, <1>1
  <2> QED
    BY <1>1, <2>2, <2>3
<1>2. CASE /\ IsElement(v[k]) /\ q.idx = Len(Spelling(v[k])) /\ ~q.escapeNext /\ c = at[k + 1]
           /\ \A x \in 1..q.idx : w[x] = Spelling(v[k])[x]
           /\ q.openQuote = (IF Quoted(v[k]) THEN -1 ELSE 0)
  <2>1. PICK fd \in Fields : fd = v[k] /\ (fd.kind = "nil" => fd = Nil) /\ (fd.kind = "str" => fd = Str(fd.str))
    BY ArrayKinds
  <2>2. Adding(q, w) = <<fd>>
    BY <1>2, <2>1, ElementIs
  <2>3. s = Append(r, fd)
    BY <1>0, <2>2 DEF Added
  <2>4. Len(r) < Len(v) /\ fd = v[Len(r) + 1]
    BY <1>0, <2>1
  <2>5. Begins(s, v, Fields) /\ Len(s) = Len(r) + 1
    BY <1>0, <2>3, <2>4, TokenBegins
  <2>6. Len(s) = k
    BY <2>5
  <2>7. k # Len(v) /\ v[k].kind # "open"
    BY <1>0, <1>2 DEF IsElement
  <2>8. k < Len(v)
    BY <1>0, <2>7
  <2> QED
    BY <1>2, <2>5, <2>6, <2>7, <2>8
<1> QED
  BY <1>1, <1>2 DEF AtEnd

(* All but the innermost call wait for a subarray, with nothing read. *)
OuterCalls(s) == \A m \in 1..(Len(s) - 1) : s[m] = Call
TopOf(s, q) == Len(s) >= 1 /\ s[Len(s)] = q

LEMMA CallReplaced ==
  ASSUME NEW s \in Seq(Calls), Len(s) >= 1, OuterCalls(s), NEW q \in Calls, NEW t, t = [s EXCEPT ![Len(s)] = q]
  PROVE  OuterCalls(t) /\ TopOf(t, q)
<1>1. PICK n \in Nat : n = Len(s)
  OBVIOUS
<1>2. t = [s EXCEPT ![n] = q] /\ n \in 1..Len(s)
  BY <1>1
<1>3. t \in Seq(Calls) /\ Len(t) = n
  BY <1>1, <1>2, ExceptSeq
<1>4. t[n] = q /\ \A m \in 1..(n - 1) : t[m] = s[m]
  BY <1>1, <1>2
<1> QED
  BY <1>1, <1>3, <1>4 DEF OuterCalls, TopOf

LEMMA CallMade ==
  ASSUME NEW s \in Seq(Calls), OuterCalls(s), TopOf(s, Call), NEW t, t = Append(s, Call)
  PROVE  OuterCalls(t) /\ TopOf(t, Call)
<1>1. PICK n \in Nat : n = Len(s)
  OBVIOUS
<1>2. Call \in Calls
  BY FreshCall
<1>3. Len(t) = n + 1 /\ t[n + 1] = Call /\ \A m \in 1..n : t[m] = s[m]
  BY <1>1, <1>2, AppendProperties
<1>4. \A m \in 1..n : m \in 1..(n - 1) \/ m = n
  OBVIOUS
<1>5. \A m \in 1..n : s[m] = Call
  BY <1>1, <1>4 DEF OuterCalls, TopOf
<1> QED
  BY <1>1, <1>3, <1>5 DEF OuterCalls, TopOf

LEMMA CallBeside == Beside \in Calls /\ [Call EXCEPT !.escapeNext = TRUE] = Beside
<1>1. PICK x : x = [Call EXCEPT !.escapeNext = TRUE]
  OBVIOUS
<1>2. Call \in Calls /\ x \in Calls /\ Beside \in Calls
  BY <1>1 DEF Call, Calls, Beside
<1>3. x.idx = Beside.idx /\ x.openQuote = Beside.openQuote /\ x.escapeNext = Beside.escapeNext
  BY <1>1, <1>2 DEF Call, Beside, Calls
<1>4. \A c \in Calls : c = [idx |-> c.idx, openQuote |-> c.openQuote, escapeNext |-> c.escapeNext]
  BY DEF Calls
<1> QED
  BY <1>1, <1>2, <1>3, <1>4

LEMMA CallEnded ==
  ASSUME NEW s \in Seq(Calls), Len(s) >= 1, Len(s) # 1, OuterCalls(s),
         NEW t, t = [k \in 1..(Len(s) - 1) |-> IF k = Len(s) - 1 THEN [s[k] EXCEPT !.escapeNext = TRUE] ELSE s[k]]
  PROVE  OuterCalls(t) /\ TopOf(t, Beside)
<1>1. PICK n \in Nat : n = Len(s)
  OBVIOUS
<1>2. n > 1 /\ n - 1 \in Nat /\ n - 1 \in 1..(n - 1)
  BY <1>1
<1>3. [Call EXCEPT !.escapeNext = TRUE] = Beside
  BY CallBeside
<1>4. \A k \in 1..(n - 1) : s[k] = Call
  BY <1>1 DEF OuterCalls
<1>5. Len(t) = n - 1
  <2>1. PICK x : x = n - 1
    OBVIOUS
  <2>2. x \in Nat /\ DOMAIN t = 1..x
    BY <1>1, <1>2, <2>1
  <2>3. \A k \in 1..x : t[k] \in Calls
    <3> TAKE k \in 1..x
    <3>1. k \in 1..(n - 1)
      BY <2>1
    <3>2. s[k] = Call
      BY <1>4, <3>1
    <3>3. CASE k = n - 1
      <4>1. t[k] = [s[k] EXCEPT !.escapeNext = TRUE]
        BY <1>1, <3>1, <3>3
      <4> QED
        BY <1>3, <3>2, <4>1, CallBeside
    <3>4. CASE k # n - 1
      <4>1. t[k] = s[k]
        BY <1>1, <3>1, <3>4
      <4> QED
        BY <3>2, <4>1, FreshCall
    <3> QED
      BY <3>3, <3>4
  <2>4. t = [k \in 1..x |-> t[k]]
    BY <1>1, <2>1
  <2>5. t \in [1..x -> Calls]
    BY <2>3, <2>4
  <2>6. t \in Seq(Calls) /\ DOMAIN t = 1..x
    BY <2>2, <2>5
  <2>7. Len(t) = x
    BY <2>2, <2>6
  <2> QED
    BY <2>1, <2>7
<1>6. t[n - 1] = Beside
  BY <1>1, <1>2, <1>3, <1>4
<1>7. \A m \in 1..((n - 1) - 1) : t[m] = Call
  <2> TAKE m \in 1..((n - 1) - 1)
  <2>1. m \in 1..(n - 1) /\ m # n - 1
    BY <1>2
  <2> QED
    BY <1>1, <1>4, <2>1
<1> QED
  BY <1>2, <1>5, <1>6, <1>7 DEF OuterCalls, TopOf

ArraySpot(P, v, at, pos) ==
  /\ Layout(P, input, at, pos, P.n, Len(input) + 1)
  /\ Begins(row, v, Fields)
  /\ state \in {"dims", "brace", "read", "end"}
  /\ state \in {"dims", "brace"} => cur = 1
  /\ state = "read" => /\ OuterCalls(stack)
                       /\ \E q : TopOf(stack, q) /\ ReadingAt(v, at, pos, Len(row) + 1, q, cur, word)
  /\ state = "end" => row = v /\ cur = at[Len(v)]

(* The step from a spot to the next. *)
LEMMA SpotReached ==
  ASSUME NEW CONSTANT P, NEW CONSTANT v, NEW CONSTANT at, NEW CONSTANT pos, ArraySpot(P, v, at, pos), input' = input,
         NEW q, state' = "read", OuterCalls(stack'), TopOf(stack', q), NEW r, row' = r, Begins(r, v, Fields),
         NEW k, k = Len(r) + 1, ReadingAt(v, at, pos, k, q, cur', word')
  PROVE  ArraySpot(P, v, at, pos)'
<1>1. Layout(P, input', at, pos, P.n, Len(input') + 1)
  BY DEF ArraySpot
<1>2. \E x : TopOf(stack', x) /\ ReadingAt(v, at, pos, Len(row') + 1, x, cur', word')
  BY Zenon
<1> QED
  BY <1>1, <1>2 DEF ArraySpot

(* The facts that the steps start from. *)
ArrayNow(P, v, at, pos, k, q, c, w, r, s) ==
  /\ ArrayPlanned(P, v) /\ Layout(P, input, at, pos, P.n, Len(input) + 1)
  /\ Len(input) \in Nat /\ k \in 1..Len(v) /\ q \in Calls
  /\ c \in 1..Len(input) /\ Finds(input, v, at, pos, k, q, c, w)
  /\ Begins(r, v, Fields) /\ Len(r) + 1 = k
  /\ w \in Seq(Byte) /\ q.idx \in Nat /\ q.idx <= Len(w)
  /\ s \in Seq(Calls) /\ Len(s) >= 1 /\ OuterCalls(s) /\ TopOf(s, q)
  /\ cur = c /\ word = w /\ row = r /\ stack = s /\ top = q

LEMMA ArrayNowIs ==
  ASSUME NEW P, NEW v, NEW at, NEW pos, ArrayPlanned(P, v), ArraySpot(P, v, at, pos),
         NestInv, IsArray, state = "read", input \in Seq(Nat)
  PROVE  \E k, q, c, w, r, s : ArrayNow(P, v, at, pos, k, q, c, w, r, s)
<1>1. CallsOK /\ ReadNested
  BY DEF NestInv
<1>2. Len(stack) >= 1 /\ Nested(row, Len(stack)) /\ stack \in Seq(Calls) /\ word \in Seq(Byte)
  BY <1>1 DEF ReadNested, CallsOK
<1>3. PICK c, w, r, s, k : c = cur /\ w = word /\ r = row /\ s = stack /\ k = Len(row) + 1
  OBVIOUS
<1>4. PICK q : TopOf(s, q) /\ ReadingAt(v, at, pos, k, q, c, w)
  BY <1>3 DEF ArraySpot
<1>5. top = q /\ top \in Calls /\ top.idx \in Nat /\ top.idx <= Len(word)
  BY <1>1, <1>2, <1>3, <1>4, TopIsCall DEF TopOf, top
<1>6. Layout(P, input, at, pos, P.n, Len(input) + 1) /\ Begins(r, v, Fields) /\ OuterCalls(s)
  BY <1>3 DEF ArraySpot
<1>7. v \in Arrays /\ Len(v) \in Nat
  BY ArrayEnclosed DEF ArrayPlanned
<1>8. k \in 1..Len(v)
  <2>1. Len(stack) \in Nat
    BY <1>2
  <2>2. Len(r) < Len(v) /\ Len(r) \in Nat
    BY <1>2, <1>3, <1>6, <1>7, <2>1, ArrayRead DEF Begins
  <2> QED
    BY <1>3, <1>7, <2>2
<1>9. Len(input) \in Nat
  OBVIOUS
<1>10. c \in 1..Len(input) /\ Finds(input, v, at, pos, k, q, c, w)
  <2>1. PICK text : text = input
    OBVIOUS
  <2>2. c \in 1..Len(text) /\ Finds(text, v, at, pos, k, q, c, w)
    BY <1>4, <1>5, <1>6, <1>8, <1>9, <2>1, ReadingFinds
  <2> QED
    BY <2>1, <2>2
<1>11. Len(r) + 1 = k
  BY <1>3
<1>12. ArrayNow(P, v, at, pos, k, q, c, w, r, s)
  BY <1>2, <1>3, <1>4, <1>5, <1>6, <1>8, <1>9, <1>10, <1>11 DEF ArrayNow
<1> QED
  BY <1>12

LEMMA CallChanges ==
  ASSUME NEW q \in Calls
  PROVE  /\ \A x \in {-1, 0, 1} : LET p == [q EXCEPT !.openQuote = x] IN
              p \in Calls /\ p.idx = q.idx /\ p.openQuote = x /\ p.escapeNext = q.escapeNext
         /\ \A x \in BOOLEAN : LET p == [q EXCEPT !.escapeNext = x] IN
              p \in Calls /\ p.idx = q.idx /\ p.openQuote = q.openQuote /\ p.escapeNext = x
         /\ LET p == [q EXCEPT !.idx = @ + 1] IN
              p \in Calls /\ p.idx = q.idx + 1 /\ p.openQuote = q.openQuote /\ p.escapeNext = q.escapeNext
  BY DEF Calls

LEMMA SpellingBytes ==
  ASSUME NEW fd \in Fields
  PROVE  Spelling(fd) \in Seq(Byte) /\ Len(Spelling(fd)) \in Nat
<1>1. fd.str \in Seq(Byte) /\ NULL \in Seq(Byte)
  BY DEF Fields, NULL, Byte
<1>2. Spelling(fd) \in Seq(Byte)
  BY <1>1 DEF Spelling
<1> QED
  BY <1>2

(* A byte is put behind the ones that were read. *)
PutBehind(u, w, n, b) == u = SubSeq(w, 1, n) \o <<b>> \o SubSeq(w, n + 2, Len(w))

LEMMA ReadsMore ==
  ASSUME NEW str \in Seq(Byte), NEW q \in Calls, NEW w \in Seq(Byte), q.idx <= Len(w), q.idx < Len(str),
         Reads(str, q, w), NEW b, b = str[q.idx + 1],
         NEW u, PutBehind(u, w, q.idx, b), NEW p \in Calls, p.idx = q.idx + 1
  PROVE  Reads(str, p, u)
<1>1. PICK n \in Nat : n = q.idx
  BY DEF Calls
<1>2. n + 1 \in 1..Len(str) /\ Len(str) \in Nat
  <2>1. Len(str) \in Nat
    OBVIOUS
  <2> QED
    BY <1>1, <2>1
<1>3. b \in Byte
  BY <1>1, <1>2, ElementOfSeq
<1>4. (\A m \in 1..n : u[m] = w[m]) /\ u[n + 1] = b
  <2>1. n <= Len(w) /\ PutBehind(u, w, n, b)
    BY <1>1
  <2>2. PICK z : z = SubSeq(w, 1, n) \o <<b>> \o SubSeq(w, n + 2, Len(w))
    OBVIOUS
  <2>3. (\A m \in 1..n : z[m] = w[m]) /\ z[n + 1] = b
    BY <1>3, <2>1, <2>2, WordPut
  <2>4. u = z
    BY <2>1, <2>2 DEF PutBehind
  <2> QED
    BY <2>3, <2>4
<1>5. \A m \in 1..n : w[m] = str[m]
  BY <1>1 DEF Reads
<1>6. \A x \in 1..(n + 1) : u[x] = str[x]
  <2> TAKE x \in 1..(n + 1)
  <2>1. x \in 1..n \/ x = n + 1
    OBVIOUS
  <2> QED
    BY <1>1, <1>4, <1>5, <2>1
<1>7. p.idx = n + 1 /\ n + 1 <= Len(str)
  BY <1>1, <1>2
<1> QED
  BY <1>6, <1>7 DEF Reads

(* Behind an element there is a delimiter or the brace that closes. *)
LEMMA EndFound ==
  ASSUME NEW CONSTANT P, NEW CONSTANT v, NEW CONSTANT at, NEW CONSTANT pos, NEW CONSTANT k, NEW CONSTANT q,
         NEW CONSTANT c, NEW CONSTANT w, NEW CONSTANT r, NEW CONSTANT s,
         ArrayNow(P, v, at, pos, k, q, c, w, r, s), AtEnd(v, at, k, q, c, w), NEW t, Added(t, r, q, w)
  PROVE  /\ Begins(t, v, Fields) /\ Len(t) \in 1..Len(v) /\ c = at[Len(t) + 1]
         /\ Behind(input, v, Len(t), c) /\ q.openQuote \in {-1, 0}
<1>1. /\ ArrayPlanned(P, v) /\ v \in Arrays /\ Layout(P, input, at, pos, P.n, Len(input) + 1)
      /\ k \in 1..Len(v) /\ q \in Calls /\ Begins(r, v, Fields) /\ Len(r) + 1 = k
      /\ w \in Seq(Byte) /\ q.idx <= Len(w)
  BY DEF ArrayNow, ArrayPlanned
<1>2. /\ Begins(t, v, Fields) /\ Len(t) \in 1..Len(v) /\ Len(t) < Len(v) /\ v[Len(t)].kind # "open"
      /\ c = at[Len(t) + 1]
  BY <1>1, ElementAdded
<1>3. PICK m, text : m = Len(t) /\ text = input
  OBVIOUS
<1>4. Behind(text, v, m, at[m + 1])
  BY <1>1, <1>2, <1>3, FoundBehind
<1>5. q.openQuote \in {-1, 0}
  BY DEF AtEnd, Beside
<1> QED
  BY <1>2, <1>3, <1>4, <1>5

LEMMA ReadsByte ==
  ASSUME NEW CONSTANT P, NEW CONSTANT v, NEW CONSTANT at, NEW CONSTANT pos, NEW CONSTANT k, NEW CONSTANT q,
         NEW CONSTANT c, NEW CONSTANT w, NEW CONSTANT r, NEW CONSTANT s,
         ArrayNow(P, v, at, pos, k, q, c, w, r, s), ArraySpot(P, v, at, pos), state = "read", ReadByte
  PROVE  ArraySpot(P, v, at, pos)'
<1>1. /\ cur = c /\ word = w /\ row = r /\ stack = s /\ top = q
      /\ k \in 1..Len(v) /\ q \in Calls /\ Begins(r, v, Fields) /\ k = Len(r) + 1
      /\ w \in Seq(Byte) /\ q.idx <= Len(w) /\ c \in 1..Len(input) /\ Len(input) \in Nat
      /\ s \in Seq(Calls) /\ Len(s) >= 1 /\ OuterCalls(s) /\ ArrayPlanned(P, v) /\ v \in Arrays
      /\ Finds(input, v, at, pos, k, q, c, w)
  BY DEF ArrayNow, ArrayPlanned
<1>2. input' = input /\ row' = r /\ state' = "read" /\ cur' = c + 1
  BY <1>1 DEF ReadByte
<1>3. q.openQuote < 1 => input[c] \notin {ArrayDelimiter, LBRACE, RBRACE, NUL}
  BY <1>1 DEF ReadByte, Unquoted
<1>4. PICK fd \in Fields : fd = v[k]
  BY <1>1, ArrayKinds
<1>5. PICK str, f : str = Spelling(fd) /\ f = pos[k]
  OBVIOUS
<1>6. str \in Seq(Byte) /\ Len(str) \in Nat
  BY <1>4, <1>5, SpellingBytes
<1>7. ASSUME NEW p \in Calls, stack' = [s EXCEPT ![Len(s)] = p], IsElement(fd),
             InToken(str, Quoted(fd), f, p, c + 1, word')
      PROVE  ArraySpot(P, v, at, pos)'
  <2>1. OuterCalls(stack') /\ TopOf(stack', p)
    BY <1>1, <1>7, CallReplaced
  <2>2. ReadingAt(v, at, pos, k, p, cur', word')
    BY <1>2, <1>4, <1>5, <1>7 DEF ReadingAt
  <2> QED
    BY <1>1, <1>2, <2>1, <2>2, SpotReached
<1>8. CASE AtOpen(input, v, at, k, q, c)
  BY <1>3, <1>8 DEF AtOpen, Call
<1>9. CASE AtEnd(v, at, k, q, c, w)
  <2>1. PICK t : Added(t, r, q, w)
    BY DEF Added
  <2>2. Behind(input, v, Len(t), c) /\ q.openQuote \in {-1, 0}
    BY <1>9, <2>1, EndFound
  <2>3. input[c] \in {RBRACE, ArrayDelimiter}
    BY <2>2 DEF Behind
  <2> QED
    BY <1>3, <2>2, <2>3
<1>10. CASE IsElement(fd) /\ Quoted(fd) /\ AtQuote(input, f, q, c)
  <2>1. q = Call /\ input[c] = QUOTE /\ f[0] = c + 1 /\ q.openQuote = 0 /\ q.idx = 0 /\ q.escapeNext = FALSE
    BY <1>10 DEF AtQuote, Call
  <2>2. PICK p : p = [q EXCEPT !.openQuote = 1]
    OBVIOUS
  <2>3. p \in Calls /\ p.idx = 0 /\ p.openQuote = 1 /\ p.escapeNext = FALSE
    BY <1>1, <2>1, <2>2, CallChanges
  <2>4. stack' = [s EXCEPT ![Len(s)] = p] /\ word' = w
    BY <1>1, <2>1, <2>2 DEF ReadByte, Unquoted, Locals
  <2>5. InToken(str, Quoted(fd), f, p, c + 1, word')
    <3>1. 0 <= Len(str) /\ 1..0 = {}
      BY <1>6
    <3> QED
      BY <1>10, <2>1, <2>3, <3>1 DEF InToken
  <2> QED
    BY <1>7, <1>10, <2>3, <2>4, <2>5
<1>11. ASSUME IsElement(fd), Reads(str, q, w), Quoted(fd), AtEscape(input, str, f, q, c)
       PROVE  ArraySpot(P, v, at, pos)'
  <2>1. /\ q.openQuote = 1 /\ ~q.escapeNext /\ q.idx < Len(str) /\ input[c] = BACKSLASH
        /\ str[q.idx + 1] \in ArraySpecial /\ c = f[q.idx]
    BY <1>11 DEF AtEscape
  <2>2. PICK p : p = [q EXCEPT !.escapeNext = TRUE]
    OBVIOUS
  <2>3. p \in Calls /\ p.idx = q.idx /\ p.openQuote = 1 /\ p.escapeNext = TRUE
    BY <1>1, <2>1, <2>2, CallChanges
  <2>4. stack' = [s EXCEPT ![Len(s)] = p] /\ word' = w
    BY <1>1, <2>1, <2>2 DEF ReadByte, Unquoted, Locals, BACKSLASH, QUOTE
  <2>5. InToken(str, Quoted(fd), f, p, c + 1, word')
    BY <1>11, <2>1, <2>3, <2>4 DEF InToken, Reads
  <2> QED
    BY <1>7, <1>11, <2>3, <2>4, <2>5
<1>12. ASSUME IsElement(fd), Reads(str, q, w), Quoted(fd), AtEndQuote(input, str, f, q, c)
       PROVE  ArraySpot(P, v, at, pos)'
  <2>1. /\ q.openQuote = 1 /\ ~q.escapeNext /\ q.idx = Len(str) /\ input[c] = QUOTE /\ c = f[q.idx]
    BY <1>12 DEF AtEndQuote
  <2>2. PICK p : p = [q EXCEPT !.openQuote = -1]
    OBVIOUS
  <2>3. p \in Calls /\ p.idx = q.idx /\ p.openQuote = -1 /\ p.escapeNext = q.escapeNext
    BY <1>1, <2>2, CallChanges
  <2>4. stack' = [s EXCEPT ![Len(s)] = p] /\ word' = w
    BY <1>1, <2>1, <2>2 DEF ReadByte, Unquoted, Locals, BACKSLASH, QUOTE
  <2>5. InToken(str, Quoted(fd), f, p, c + 1, word')
    BY <1>12, <2>1, <2>3, <2>4 DEF InToken, Reads
  <2> QED
    BY <1>7, <1>12, <2>3, <2>4, <2>5
<1>13. ASSUME IsElement(fd), Reads(str, q, w), q.idx < Len(str), input[c] = str[q.idx + 1], f[q.idx + 1] = c + 1,
              NEW call \in Calls, PutWord(call), call.idx = q.idx, call.openQuote = q.openQuote, ~call.escapeNext,
              q.openQuote = IF Quoted(fd) THEN 1 ELSE 0
       PROVE  ArraySpot(P, v, at, pos)'
  <2>1. PICK p : p = [call EXCEPT !.idx = @ + 1]
    OBVIOUS
  <2>2. p \in Calls /\ p.idx = q.idx + 1 /\ p.openQuote = q.openQuote /\ ~p.escapeNext
    <3>1. p \in Calls /\ p.idx = call.idx + 1 /\ p.openQuote = call.openQuote /\ p.escapeNext = call.escapeNext
      BY <2>1, CallChanges
    <3> QED
      BY <1>13, <3>1
  <2>3. PICK b : b = input[c]
    OBVIOUS
  <2>4. /\ stack' = [s EXCEPT ![Len(s)] = p]
        /\ PutBehind(word', w, q.idx, b)
    BY <1>1, <1>13, <2>1, <2>3 DEF PutWord, WordWith, Locals, PutBehind
  <2>5. PICK u : u = word'
    OBVIOUS
  <2>6. Reads(str, p, u)
    BY <1>1, <1>6, <1>13, <2>2, <2>3, <2>4, <2>5, ReadsMore
  <2>7. InToken(str, Quoted(fd), f, p, c + 1, word')
    BY <1>13, <2>2, <2>5, <2>6 DEF InToken, Reads
  <2> QED
    BY <1>7, <1>13, <2>2, <2>4, <2>7
<1>14. ASSUME IsElement(fd), Reads(str, q, w), ~Quoted(fd), AtPlain(input, str, f, q, c)
       PROVE  ArraySpot(P, v, at, pos)'
  <2>1. /\ q.openQuote = 0 /\ ~q.escapeNext /\ q.idx < Len(str) /\ input[c] = str[q.idx + 1]
        /\ f[q.idx + 1] = c + 1 /\ input[c] # QUOTE
    BY <1>14 DEF AtPlain
  <2>2. PutWord(q)
    BY <1>1, <2>1 DEF ReadByte, Unquoted
  <2> QED
    BY <1>1, <1>13, <1>14, <2>1, <2>2
<1>15. ASSUME IsElement(fd), Reads(str, q, w), Quoted(fd), AtCopied(input, str, f, q, c)
       PROVE  ArraySpot(P, v, at, pos)'
  <2>1. /\ q.openQuote = 1 /\ q.idx < Len(str) /\ input[c] = str[q.idx + 1]
        /\ f[q.idx + 1] = c + 1 /\ (q.escapeNext \/ input[c] \notin {QUOTE, BACKSLASH})
    BY <1>15 DEF AtCopied
  <2>2. PICK p : p = [q EXCEPT !.escapeNext = FALSE]
    OBVIOUS
  <2>3. p \in Calls /\ p.idx = q.idx /\ p.openQuote = q.openQuote /\ ~p.escapeNext
    BY <1>1, <2>2, CallChanges
  <2>4. PutWord(p)
    BY <1>1, <2>1, <2>2 DEF ReadByte, Unquoted
  <2> QED
    BY <1>13, <1>15, <2>1, <2>3, <2>4
<1> QED
  BY <1>1, <1>4, <1>5, <1>8, <1>9, <1>10, <1>11, <1>12, <1>14, <1>15 DEF Finds, AtByte

(* What the decoder finds outside of quotes says what it is at. *)
LEMMA FindsOutside ==
  ASSUME NEW CONSTANT P, NEW CONSTANT v, NEW CONSTANT at, NEW CONSTANT pos, NEW CONSTANT k, NEW CONSTANT q,
         NEW CONSTANT c, NEW CONSTANT w, NEW CONSTANT r, NEW CONSTANT s,
         ArrayNow(P, v, at, pos, k, q, c, w, r, s), Unquoted
  PROVE  /\ input[c] \in {RBRACE, ArrayDelimiter} => AtEnd(v, at, k, q, c, w)
         /\ input[c] = LBRACE => AtOpen(input, v, at, k, q, c)
         /\ input[c] # NUL
<1>1. /\ q \in Calls /\ q.openQuote # 1 /\ Finds(input, v, at, pos, k, q, c, w)
  BY DEF ArrayNow, Unquoted
<1>2. ArrayDelimiter \notin {NUL, QUOTE, LBRACE, RBRACE}
  BY ArrayReadable
<1>3. CASE AtOpen(input, v, at, k, q, c)
  BY <1>2, <1>3 DEF AtOpen, LBRACE, RBRACE, NUL
<1>4. CASE AtQuote(input, pos[k], q, c)
  BY <1>2, <1>4 DEF AtQuote, QUOTE, LBRACE, RBRACE, NUL
<1>5. CASE AtByte(input, Spelling(v[k]), Quoted(v[k]), pos[k], q, c)
  <2>1. AtPlain(input, Spelling(v[k]), pos[k], q, c)
    BY <1>1, <1>5 DEF AtByte, AtEscape, AtCopied, AtEndQuote
  <2> QED
    BY <2>1 DEF AtPlain
<1>6. CASE AtEnd(v, at, k, q, c, w)
  <2>1. PICK t : Added(t, r, q, w)
    BY DEF Added
  <2>2. Behind(input, v, Len(t), c)
    BY <1>6, <2>1, EndFound
  <2>3. input[c] \in {RBRACE, ArrayDelimiter}
    BY <2>2 DEF Behind
  <2> QED
    BY <1>2, <1>6, <2>3 DEF LBRACE, RBRACE, NUL
<1> QED
  BY <1>1, <1>3, <1>4, <1>5, <1>6 DEF Finds

LEMMA ReadsOn ==
  ASSUME NEW CONSTANT P, NEW CONSTANT v, NEW CONSTANT at, NEW CONSTANT pos, NEW CONSTANT k, NEW CONSTANT q,
         NEW CONSTANT c, NEW CONSTANT w, NEW CONSTANT r, NEW CONSTANT s,
         ArrayNow(P, v, at, pos, k, q, c, w, r, s)
  PROVE  ~ReadPremature
<1> SUFFICES ASSUME ReadPremature PROVE FALSE
  OBVIOUS
<1>1. c \in 1..Len(input) /\ cur = c /\ Len(input) \in Nat
  BY DEF ArrayNow
<1>2. Unquoted /\ At(c) = NUL
  BY <1>1 DEF ReadPremature
<1>3. At(c) = input[c]
  BY <1>1 DEF At
<1> QED
  BY <1>2, <1>3, FindsOutside

(* A closing brace, and what is behind it. *)
ClosesAt(text, at, m) == at[m + 1] = at[m] + 1 /\ text[at[m]] = RBRACE /\ at[m] \in Nat

LEMMA CloseShape ==
  ASSUME NEW P, NEW v, ArrayPlanned(P, v), NEW text, NEW at, NEW pos,
         Layout(P, text, at, pos, P.n, Len(text) + 1), NEW m \in 1..Len(v), v[m].kind = "close"
  PROVE  ClosesAt(text, at, m)
<1>1. ArraySep(v, m) = <<>>
  BY DEF ArraySep
<1>2. PICK a, x, b, f : a = at[m] /\ x = at[m] + Len(ArraySep(v, m)) /\ b = at[m + 1] /\ f = pos[m]
  OBVIOUS
<1>3. TokenShape(P, text, v, m, a, x, b, f)
  BY <1>2, ArrayShape
<1>4. a \in Nat /\ x = a /\ text[x] = RBRACE /\ b = x + 1
  BY <1>1, <1>3 DEF TokenShape
<1> QED
  BY <1>2, <1>4 DEF ClosesAt

LEMMA ReadsElement ==
  ASSUME NEW CONSTANT P, NEW CONSTANT v, NEW CONSTANT at, NEW CONSTANT pos, NEW CONSTANT k, NEW CONSTANT q,
         NEW CONSTANT c, NEW CONSTANT w, NEW CONSTANT r, NEW CONSTANT s,
         ArrayNow(P, v, at, pos, k, q, c, w, r, s), ArraySpot(P, v, at, pos), state = "read", ReadElement,
         ReadNested'
  PROVE  ArraySpot(P, v, at, pos)'
<1>1. /\ cur = c /\ word = w /\ row = r /\ stack = s /\ top = q
      /\ k \in 1..Len(v) /\ q \in Calls /\ Begins(r, v, Fields) /\ r \in Seq(Fields)
      /\ s \in Seq(Calls) /\ Len(s) >= 1 /\ OuterCalls(s) /\ ArrayPlanned(P, v) /\ v \in Arrays
      /\ Layout(P, input, at, pos, P.n, Len(input) + 1)
  BY DEF ArrayNow, ArrayPlanned, Begins
<1>2. Unquoted /\ input[c] \in {RBRACE, ArrayDelimiter}
  BY <1>1 DEF ReadElement
<1>3. AtEnd(v, at, k, q, c, w)
  BY <1>2, FindsOutside
<1>4. PICK t : Added(t, r, q, w)
  BY DEF Added
<1>5. /\ Begins(t, v, Fields) /\ Len(t) \in 1..Len(v) /\ c = at[Len(t) + 1]
      /\ Behind(input, v, Len(t), c)
  BY <1>3, <1>4, EndFound
<1>6. PICK m \in Nat : m = Len(t) + 1
  BY <1>5
<1>7. Element = Adding(q, w)
  BY <1>1 DEF Element, Adding, Word
<1>8. input' = input
  BY <1>1 DEF ReadElement, Return
<1>9. v \in Seq(Fields) /\ Len(v) \in Nat /\ t \in Seq(Fields) /\ Len(t) \in Nat /\ m \in 1..Len(v) /\ Len(t) < Len(v)
  <2>1. v \in Seq(Fields) /\ Len(v) \in Nat /\ t \in Seq(Fields)
    BY <1>1, <1>5, ArrayEnclosed DEF Arrays, Begins
  <2>2. m \in 1..Len(v)
    BY <1>5, <1>6 DEF Behind
  <2> QED
    BY <1>6, <2>1, <2>2
<1>10. CASE input[c] = RBRACE
  <2>1. v[m].kind = "close"
    <3>1. ArrayDelimiter # RBRACE
      BY ArrayReadable
    <3> QED
      BY <1>5, <1>6, <1>10, <3>1 DEF Behind
  <2>2. v[m] = Close
    BY <1>1, <1>9, <2>1, ArrayKinds
  <2>3. PICK u : u = Append(t, Close)
    OBVIOUS
  <2>4. Begins(u, v, Fields) /\ Len(u) = m
    <3>1. u = Append(t, v[Len(t) + 1])
      BY <1>6, <2>2, <2>3
    <3>2. Begins(u, v, Fields) /\ Len(u) = Len(t) + 1
      BY <1>5, <1>9, <3>1, TokenBegins
    <3> QED
      BY <1>6, <3>2
  <2>5. Return(Element)
    BY <1>1, <1>10 DEF ReadElement
  <2>6. row' = u
    <3>1. row' = (r \o Adding(q, w)) \o <<Close>>
      BY <1>1, <1>7, <2>5 DEF Return
    <3>2. row' = t \o <<Close>>
      BY <1>4, <3>1 DEF Added
    <3>3. t \o <<Close>> = Append(t, Close)
      BY <1>9, BracesAreTokens
    <3> QED
      BY <2>3, <3>2, <3>3
  <2>7. PICK text : text = input
    OBVIOUS
  <2>8. at[m + 1] = at[m] + 1
    <3>1. Layout(P, text, at, pos, P.n, Len(text) + 1) /\ ArrayPlanned(P, v) /\ m \in 1..Len(v)
      BY <1>1, <1>9, <2>7
    <3>2. ClosesAt(text, at, m)
      BY <2>1, <3>1, CloseShape
    <3> QED
      BY <3>2 DEF ClosesAt
  <2>9. CASE Len(s) = 1
    <3>1. state' = "end" /\ cur' = c
      BY <1>1, <2>5, <2>9 DEF Return
    <3>2. Nested(u, 0)
      BY <2>6, <3>1 DEF ReadNested
    <3>3. u = v
      BY <1>1, <2>4, <3>2, ArrayRead
    <3>4. cur' = at[Len(v)]
      BY <1>5, <1>6, <2>4, <3>1, <3>3
    <3>5. Layout(P, input', at, pos, P.n, Len(input') + 1) /\ Begins(row', v, Fields)
      BY <1>1, <1>8, <2>4, <2>6
    <3> QED
      BY <2>6, <3>1, <3>3, <3>4, <3>5 DEF ArraySpot
  <2>10. CASE Len(s) # 1
    <3>1. /\ state' = "read" /\ cur' = c + 1
          /\ stack' = [x \in 1..(Len(s) - 1) |->
                         IF x = Len(s) - 1 THEN [s[x] EXCEPT !.escapeNext = TRUE] ELSE s[x]]
      BY <1>1, <2>5, <2>10 DEF Return
    <3>2. PICK z : z = stack'
      OBVIOUS
    <3>3. OuterCalls(z) /\ TopOf(z, Beside)
      BY <1>1, <2>10, <3>1, <3>2, CallEnded
    <3>4. PICK n : n = Len(u) + 1
      OBVIOUS
    <3>5. n = m + 1 /\ n > 1 /\ n - 1 = m
      <4>1. n = m + 1
        BY <2>4, <3>4
      <4> QED
        BY <1>9, <4>1
    <3>6. ReadingAt(v, at, pos, n, Beside, cur', word')
      BY <1>5, <1>6, <2>1, <2>8, <3>1, <3>5 DEF ReadingAt
    <3>7. OuterCalls(stack') /\ TopOf(stack', Beside)
      BY <3>2, <3>3
    <3> QED
      BY <1>8, <2>4, <2>6, <3>1, <3>4, <3>6, <3>7, SpotReached
  <2> QED
    BY <2>9, <2>10
<1>11. CASE input[c] # RBRACE
  <2>1. v[m].kind # "close" /\ Len(ArraySep(v, m)) = 1
    BY <1>5, <1>6, <1>11 DEF Behind
  <2>2. row' = r \o Adding(q, w) /\ Locals(Call) /\ cur' = c + 1 /\ state' = "read"
    BY <1>1, <1>7, <1>11 DEF ReadElement
  <2>3. row' = t
    BY <1>4, <2>2 DEF Added
  <2>4. OuterCalls(stack') /\ TopOf(stack', Call)
    BY <1>1, <2>2, CallReplaced, FreshCall DEF Locals
  <2>5. ReadingAt(v, at, pos, m, Call, cur', word')
    BY <1>5, <1>6, <2>1, <2>2 DEF ReadingAt
  <2> QED
    BY <1>5, <1>6, <1>8, <2>2, <2>3, <2>4, <2>5, SpotReached
<1> QED
  BY <1>10, <1>11

LEMMA ReadsSubarray ==
  ASSUME NEW CONSTANT P, NEW CONSTANT v, NEW CONSTANT at, NEW CONSTANT pos, NEW CONSTANT k, NEW CONSTANT q,
         NEW CONSTANT c, NEW CONSTANT w, NEW CONSTANT r, NEW CONSTANT s,
         ArrayNow(P, v, at, pos, k, q, c, w, r, s), ArraySpot(P, v, at, pos), state = "read", ReadSubarray
  PROVE  ArraySpot(P, v, at, pos)'
<1>1. /\ cur = c /\ word = w /\ row = r /\ stack = s /\ top = q
      /\ k \in 1..Len(v) /\ Begins(r, v, Fields) /\ r \in Seq(Fields) /\ Len(r) \in Nat /\ Len(r) + 1 = k
      /\ s \in Seq(Calls) /\ Len(s) >= 1 /\ OuterCalls(s) /\ TopOf(s, q) /\ ArrayPlanned(P, v) /\ v \in Arrays
      /\ Layout(P, input, at, pos, P.n, Len(input) + 1) /\ c \in Nat
  <2>1. c \in Nat
    BY DEF ArrayNow
  <2> QED
    BY <2>1 DEF ArrayNow, ArrayPlanned, Begins
<1>2. /\ Unquoted /\ input[c] = LBRACE /\ input' = input /\ word' = w /\ state' = "read"
      /\ IF Empty(c + 1)
         THEN row' = r \o <<Open, Close>> /\ Locals([q EXCEPT !.escapeNext = TRUE]) /\ cur' = c + 2
         ELSE row' = Append(r, Open) /\ stack' = Append(s, Call) /\ cur' = c + 1
  BY <1>1 DEF ReadSubarray
<1>3. q = Call /\ v[k].kind = "open" /\ at[k + 1] = c + 1
  BY <1>2, FindsOutside DEF AtOpen
<1>4. v[k] = Open /\ v \in Seq(Fields) /\ Len(v) \in Nat
  BY <1>1, <1>3, ArrayKinds, ArrayEnclosed DEF Arrays
<1>5. PICK text : text = input
  OBVIOUS
<1>6. Layout(P, text, at, pos, P.n, Len(text) + 1)
  BY <1>1, <1>5
<1>7. /\ k + 1 \in 1..Len(v) /\ Len(ArraySep(v, k + 1)) = 0
      /\ at[k + 1] \in Nat /\ at[k + 1] <= Len(text)
      /\ text[at[k + 1]] = RBRACE <=> v[k + 1].kind = "close"
  <2>1. InBraces(text, v, at, k)
    BY <1>1, <1>3, <1>6, FoundWithin
  <2> QED
    BY <2>1 DEF InBraces
<1>8. Empty(c + 1) <=> v[k + 1].kind = "close"
  BY <1>3, <1>5, <1>7 DEF Empty
<1>9. PICK t, m : t = Append(r, Open) /\ m = k + 1
  OBVIOUS
<1>10. Begins(t, v, Fields) /\ Len(t) = k /\ t \in Seq(Fields)
  <2>1. t = Append(r, v[Len(r) + 1]) /\ Len(r) < Len(v)
    <3>1. Len(r) < Len(v)
      BY <1>1, <1>4
    <3> QED
      BY <1>1, <1>4, <1>9, <3>1
  <2>2. Begins(t, v, Fields) /\ Len(t) = Len(r) + 1
    BY <1>1, <1>4, <2>1, TokenBegins
  <2> QED
    BY <1>1, <2>2 DEF Begins
<1>11. CASE v[m].kind = "close"
  <2>1. row' = r \o <<Open, Close>> /\ Locals([q EXCEPT !.escapeNext = TRUE]) /\ cur' = c + 2
    BY <1>2, <1>8, <1>9, <1>11
  <2>2. v[m] = Close
    BY <1>1, <1>7, <1>9, <1>11, ArrayKinds
  <2>3. PICK u : u = Append(t, Close)
    OBVIOUS
  <2>4. Begins(u, v, Fields) /\ Len(u) = m
    <3>1. u = Append(t, v[Len(t) + 1]) /\ Len(t) < Len(v)
      <4>1. Len(t) < Len(v)
        BY <1>1, <1>4, <1>7, <1>10
      <4> QED
        BY <1>9, <1>10, <2>2, <2>3, <4>1
    <3>2. Begins(u, v, Fields) /\ Len(u) = Len(t) + 1
      BY <1>4, <1>10, <3>1, TokenBegins
    <3> QED
      BY <1>9, <1>10, <3>2
  <2>5. row' = u
    BY <1>1, <1>9, <2>1, <2>3, PairAppend, BracesAreTokens
  <2>6. OuterCalls(stack') /\ TopOf(stack', Beside)
    <3>1. stack' = [s EXCEPT ![Len(s)] = Beside]
      BY <1>1, <1>3, <2>1, CallBeside DEF Locals
    <3> QED
      BY <1>1, <3>1, CallReplaced, CallBeside
  <2>7. at[m + 1] = at[m] + 1
    <3>1. m \in 1..Len(v)
      BY <1>7, <1>9
    <3>2. ClosesAt(text, at, m)
      BY <1>1, <1>6, <1>11, <3>1, CloseShape
    <3> QED
      BY <3>2 DEF ClosesAt
  <2>8. PICK n : n = Len(u) + 1
    OBVIOUS
  <2>9. n = m + 1 /\ n > 1 /\ n - 1 = m /\ cur' = at[n]
    <3>1. n = m + 1 /\ m \in Nat /\ m >= 1 /\ at[m] = c + 1
      BY <1>1, <1>3, <1>9, <2>4, <2>8
    <3>2. n > 1 /\ n - 1 = m /\ c + 2 = (c + 1) + 1
      BY <1>1, <3>1
    <3> QED
      BY <2>1, <2>7, <3>1, <3>2
  <2>10. ReadingAt(v, at, pos, n, Beside, cur', word')
    BY <1>11, <2>9 DEF ReadingAt
  <2> QED
    BY <1>2, <2>4, <2>5, <2>6, <2>8, <2>10, SpotReached
<1>12. CASE v[m].kind # "close"
  <2>1. row' = t /\ stack' = Append(s, Call) /\ cur' = c + 1
    BY <1>2, <1>8, <1>9, <1>12
  <2>2. OuterCalls(stack') /\ TopOf(stack', Call)
    BY <1>1, <1>3, <2>1, CallMade
  <2>3. cur' = at[m] + Len(ArraySep(v, m))
    BY <1>3, <1>7, <1>9, <2>1
  <2>4. ReadingAt(v, at, pos, m, Call, cur', word')
    BY <1>12, <2>3 DEF ReadingAt
  <2>5. m = Len(t) + 1
    BY <1>9, <1>10
  <2> QED
    BY <1>2, <1>10, <2>1, <2>2, <2>4, <2>5, SpotReached
<1> QED
  BY <1>11, <1>12

(* The first brace. *)
LEMMA FirstBrace ==
  ASSUME NEW P, NEW v, ArrayPlanned(P, v), NEW text, Len(text) \in Nat, NEW at, NEW pos,
         Layout(P, text, at, pos, P.n, Len(text) + 1)
  PROVE  1 \in 1..Len(text) /\ text[1] = LBRACE /\ at[1] = 1 /\ at[2] = 2 /\ 1 \in 1..Len(v)
<1>1. v \in Arrays /\ 1 \in 1..Len(v) /\ v[1].kind = "open"
  BY ArrayEnclosed DEF ArrayPlanned
<1>2. ArraySep(v, 1) = <<>>
  BY DEF ArraySep
<1>3. at[1] = 1
  <2>1. at[1] = 1 + Len(P.prefix) /\ P.prefix = <<>>
    BY DEF Layout, ArrayPlanned
  <2>2. Len(<<>>) = 0
    OBVIOUS
  <2> QED
    BY <2>1, <2>2
<1>4. PICK x, b, f : x = at[1] + Len(ArraySep(v, 1)) /\ b = at[1 + 1] /\ f = pos[1]
  OBVIOUS
<1>5. TokenShape(P, text, v, 1, 1, x, b, f)
  BY <1>1, <1>3, <1>4, ArrayShape
<1>6. x = 1 /\ text[x] = LBRACE /\ b = x + 1 /\ b \in Nat /\ b <= Len(text) + 1
  BY <1>1, <1>2, <1>5 DEF TokenShape
<1>7. 1 + 1 = 2 /\ b = 2
  BY <1>6
<1>8. 1 \in 1..Len(text)
  BY <1>6, <1>7
<1> QED
  BY <1>1, <1>3, <1>4, <1>6, <1>7, <1>8

LEMMA ArrayStarts ==
  ASSUME NEW CONSTANT P, NEW CONSTANT v, NEW CONSTANT at, NEW CONSTANT pos, ArrayPlanned(P, v),
         ArraySpot(P, v, at, pos), Len(input) \in Nat, ArrayStart, ReadNested'
  PROVE  ArraySpot(P, v, at, pos)' /\ mode' = mode
<1>1. state = "brace" /\ cur = 1 /\ Layout(P, input, at, pos, P.n, Len(input) + 1) /\ v \in Arrays
  BY DEF ArrayStart, ArrayAt, ArraySpot, ArrayPlanned
<1>2. PICK text : text = input
  OBVIOUS
<1>3. Layout(P, text, at, pos, P.n, Len(text) + 1) /\ Len(text) \in Nat
  BY <1>1, <1>2
<1>4. 1 \in 1..Len(text) /\ text[1] = LBRACE /\ at[1] = 1 /\ at[2] = 2 /\ 1 \in 1..Len(v)
  BY <1>3, FirstBrace
<1>5. At(1) = LBRACE /\ 1 + 1 = 2
  BY <1>2, <1>4 DEF At
<1>6. /\ cur' = 2 /\ input' = input /\ word' = word /\ mode' = mode
      /\ IF Empty(2) THEN row' = <<Open, Close>> /\ state' = "end"
         ELSE row' = <<Open>> /\ state' = "read" /\ stack' = <<Call>>
  BY <1>1, <1>5 DEF ArrayStart
<1>7. v[1].kind = "open" /\ v[1] = Open /\ Len(v) \in Nat /\ v \in Seq(Fields) /\ Len(v) >= 2
  BY <1>1, <1>4, ArrayEnclosed, ArrayKinds DEF Arrays
<1>8. /\ 2 \in 1..Len(v) /\ Len(ArraySep(v, 2)) = 0
      /\ at[2] \in Nat /\ at[2] <= Len(text)
      /\ text[at[2]] = RBRACE <=> v[2].kind = "close"
  <2>1. InBraces(text, v, at, 1)
    BY <1>3, <1>4, <1>7, FoundWithin
  <2> QED
    BY <1>5, <2>1 DEF InBraces
<1>9. Empty(2) <=> v[2].kind = "close"
  BY <1>2, <1>4, <1>8 DEF Empty
<1>10. CASE v[2].kind = "close"
  <2>1. row' = <<Open, Close>> /\ state' = "end"
    BY <1>6, <1>9, <1>10
  <2>2. v[2] = Close
    BY <1>1, <1>8, <1>10, ArrayKinds
  <2>3. PICK u : u = row'
    OBVIOUS
  <2>4. u \in Seq(Fields) /\ Len(u) = 2 /\ u[1] = Open /\ u[2] = Close
    BY <2>1, <2>3, BracesAreTokens
  <2>5. Begins(u, v, Fields)
    BY <1>7, <2>2, <2>4 DEF Begins
  <2>6. Nested(u, 0)
    BY <2>1, <2>3 DEF ReadNested
  <2>7. u = v
    BY <1>1, <2>5, <2>6, ArrayRead
  <2>8. row' = v /\ cur' = at[Len(v)] /\ Begins(row', v, Fields)
    BY <1>4, <1>6, <2>3, <2>4, <2>5, <2>7
  <2> QED
    BY <1>1, <1>6, <2>1, <2>8 DEF ArraySpot
<1>11. CASE v[2].kind # "close"
  <2>1. row' = <<Open>> /\ state' = "read" /\ stack' = <<Call>>
    BY <1>6, <1>9, <1>11
  <2>2. PICK u, k : u = <<Open>> /\ k = Len(u) + 1
    OBVIOUS
  <2>3. u \in Seq(Fields) /\ Len(u) = 1 /\ u[1] = Open /\ k = 2
    BY <2>2, BracesAreTokens
  <2>4. Begins(u, v, Fields)
    BY <1>7, <2>3 DEF Begins
  <2>5. OuterCalls(stack') /\ TopOf(stack', Call)
    BY <2>1 DEF OuterCalls, TopOf
  <2>6. cur' = at[2] + Len(ArraySep(v, 2))
    BY <1>4, <1>6, <1>8
  <2>7. ReadingAt(v, at, pos, k, Call, cur', word')
    BY <1>11, <2>3, <2>6 DEF ReadingAt
  <2>8. row' = u
    BY <2>1, <2>2
  <2>9. ArraySpot(P, v, at, pos)'
    BY <1>6, <2>1, <2>2, <2>4, <2>5, <2>7, <2>8, SpotReached
  <2> QED
    BY <1>6, <2>9
<1> QED
  BY <1>10, <1>11

LEMMA DimsPassed ==
  ASSUME NEW CONSTANT P, NEW CONSTANT v, NEW CONSTANT at, NEW CONSTANT pos, ArrayPlanned(P, v),
         ArraySpot(P, v, at, pos), Len(input) \in Nat,
         SkipSpace \/ DimStart \/ DimItem \/ DimAssign \/ SpaceEnd
  PROVE  ArraySpot(P, v, at, pos)' /\ mode' = mode
<1>1. state = "dims" /\ cur = 1 /\ Layout(P, input, at, pos, P.n, Len(input) + 1)
  BY DEF SkipSpace, DimStart, DimItem, DimAssign, SpaceEnd, ArrayAt, ArraySpot
<1>2. PICK text : text = input
  OBVIOUS
<1>3. Layout(P, text, at, pos, P.n, Len(text) + 1) /\ Len(text) \in Nat
  BY <1>1, <1>2
<1>4. 1 \in 1..Len(text) /\ text[1] = LBRACE
  BY <1>3, FirstBrace
<1>5. At(1) = LBRACE
  BY <1>2, <1>4 DEF At
<1>6. ~array_isspace(LBRACE) /\ LBRACE # 91
  BY DEF array_isspace, LBRACE, SPACE, TAB, NL, CR, VT, FF
<1>7. GoTo(1, "brace")
  BY <1>1, <1>5, <1>6 DEF SkipSpace, DimStart, DimItem, DimAssign, SpaceEnd, ArrayAt, AfterDims
<1>8. cur' = 1 /\ state' = "brace" /\ input' = input /\ row' = row /\ mode' = mode
  BY <1>7 DEF GoTo
<1> QED
  BY <1>1, <1>8 DEF ArraySpot

LEMMA ArrayEnds ==
  ASSUME NEW CONSTANT P, NEW CONSTANT v, NEW CONSTANT at, NEW CONSTANT pos, ArrayPlanned(P, v),
         ArraySpot(P, v, at, pos), Len(input) \in Nat, ArrayEnd
  PROVE  mode' = "done" /\ row' = v
<1>1. state = "end" /\ row = v /\ cur = at[Len(v)] /\ Layout(P, input, at, pos, P.n, Len(input) + 1)
  BY DEF ArrayEnd, ArrayAt, ArraySpot
<1>2. PICK text, n : text = input /\ n = Len(v)
  OBVIOUS
<1>3. Layout(P, text, at, pos, P.n, Len(text) + 1) /\ Len(text) \in Nat
  BY <1>1, <1>2
<1>4. n \in 1..Len(v) /\ v[n].kind = "close" /\ n = P.n
  BY <1>2, ArrayEnclosed DEF ArrayPlanned
<1>5. at[n + 1] = at[n] + 1 /\ text[at[n]] = RBRACE /\ at[n] \in Nat
  <2>1. ClosesAt(text, at, n)
    BY <1>3, <1>4, CloseShape
  <2> QED
    BY <2>1 DEF ClosesAt
<1>6. at[n + 1] = Len(text) + 1
  BY <1>3, <1>4 DEF Layout
<1>7. at[n] = Len(text) /\ at[n] >= 1
  <2>1. at[n] \in Nat \ {0}
    BY <1>3, <1>4 DEF Layout
  <2> QED
    BY <1>3, <1>5, <1>6, <2>1
<1>8. At(cur) = RBRACE /\ cur = Len(input)
  BY <1>1, <1>2, <1>3, <1>5, <1>7 DEF At
<1>9. ~ \E k \in (cur + 1)..Len(input) : ~array_isspace(input[k])
  <2>1. (cur + 1)..Len(input) = {}
    BY <1>8
  <2> QED
    BY <2>1
<1> QED
  BY <1>1, <1>8, <1>9 DEF ArrayEnd, decVars

(* A step of the decoder in what the encoder has written. *)
LEMMA ArrayReads ==
  ASSUME NEW CONSTANT P, NEW CONSTANT v, NEW CONSTANT at, NEW CONSTANT pos, ArrayPlanned(P, v),
         ArraySpot(P, v, at, pos), input \in Seq(Nat), mode = "decode", NestInv, NestInv', pg_text_dec_array
  PROVE  \/ mode' = "decode" /\ ArraySpot(P, v, at, pos)'
         \/ mode' = "done" /\ row' = v
<1>0. Len(input) \in Nat /\ IsArray
  BY DEF pg_text_dec_array, SkipSpace, DimStart, DimItem, DimAssign, SpaceEnd, ArrayStart, ReadElement,
     ReadSubarray, ReadPremature, ReadByte, ArrayEnd, Reading, ArrayAt
<1>1. CASE SkipSpace \/ DimStart \/ DimItem \/ DimAssign \/ SpaceEnd
  BY <1>0, <1>1, DimsPassed
<1>2. ASSUME codec' = codec PROVE ReadNested'
  <2>1. IsArray'
    BY <1>0, <1>2 DEF IsArray
  <2> QED
    BY <2>1 DEF NestInv
<1>3. CASE ArrayStart
  <2>1. codec' = codec
    BY <1>3 DEF ArrayStart, Raise
  <2>2. ReadNested'
    BY <1>2, <2>1
  <2> QED
    BY <1>0, <1>3, <2>2, ArrayStarts
<1>4. CASE ArrayEnd
  BY <1>0, <1>4, ArrayEnds
<1>5. CASE ReadElement \/ ReadSubarray \/ ReadPremature \/ ReadByte
  <2>1. state = "read"
    BY <1>5 DEF ReadElement, ReadSubarray, ReadPremature, ReadByte, Reading, ArrayAt
  <2>2. PICK k, q, c, w, r, s : ArrayNow(P, v, at, pos, k, q, c, w, r, s)
    BY <1>0, <2>1, ArrayNowIs
  <2>3. CASE ReadElement
    <3>1. codec' = codec /\ mode' = "decode"
      BY <2>3 DEF ReadElement, Return
    <3>2. ReadNested'
      BY <1>2, <3>1
    <3> QED
      BY <2>1, <2>2, <2>3, <3>1, <3>2, ReadsElement
  <2>4. CASE ReadSubarray
    <3>1. mode' = "decode"
      BY <2>4 DEF ReadSubarray
    <3> QED
      BY <2>1, <2>2, <2>4, <3>1, ReadsSubarray
  <2>5. CASE ReadPremature
    BY <2>2, <2>5, ReadsOn
  <2>6. CASE ReadByte
    <3>1. mode' = "decode"
      BY <2>6 DEF ReadByte
    <3> QED
      BY <2>1, <2>2, <2>6, <3>1, ReadsByte
  <2> QED
    BY <1>5, <2>3, <2>4, <2>5, <2>6
<1> QED
  BY <1>1, <1>3, <1>4, <1>5 DEF pg_text_dec_array

(* The way of an array through the encoder and the decoder. *)
ArrayTrip ==
  IsArray /\ value # <<>> =>
    /\ value \in ArrayValues
    /\ mode \in {"encode", "escape"} => row = <<>> /\ state = "dims" /\ ArrayWriting(ArrayPlan(value))
    /\ mode = "decode" => \E at, pos : ArraySpot(ArrayPlan(value), value, at, pos)
    /\ mode = "done" => row = value
    /\ ArrayRefusals

LEMMA ArrayTripStep ==
  ASSUME Base, ArrayInv, NestInv, NestInv', ArrayTrip, ArrayNext
  PROVE  ArrayTrip'
<1> SUFFICES ASSUME value' # <<>> PROVE ArrayTrip'
  BY DEF ArrayTrip
<1>0. Base' /\ IsArray /\ codec' = codec
  BY ArrayStep
<1>1. CASE pg_text_enc_array
  <2>1. /\ mode \in {"encode", "escape"} /\ mode' \in {"encode", "escape", "decode", "error"}
        /\ value' = value /\ row' = row /\ state' = state /\ cur' = cur
    BY <1>1 DEF pg_text_enc_array, WriteOpen, WriteClose, WriteNull, WriteString, QuoteByte, QuoteEnd, MoveByte,
       EncodeEnd, Emit, Raise, AtElement, encVars, decVars
  <2>2. PICK v, P : v = value /\ P = ArrayPlan(v)
    OBVIOUS
  <2>3. /\ v \in ArrayValues /\ v # <<>> /\ row = <<>> /\ state = "dims" /\ ArrayWriting(P) /\ ArrayRefusals
    BY <1>0, <2>1, <2>2 DEF ArrayTrip
  <2>4. ArrayPlanned(P, v) /\ ArrayPlanned(P, value)
    BY <2>2, <2>3, ArrayPlanning
  <2>5. ArrayRefusals'
    BY <1>1, <2>1, <2>3, RefusalsWrite
  <2>6. mode' # "error" => ArrayWriting(P)' /\ (mode' = "decode" => Laid(P, input', P.n, Len(input') + 1))
    BY <1>1, <2>3, <2>4, ArrayWrites
  <2>7. ASSUME mode' = "decode" PROVE \E at, pos : ArraySpot(P, v, at, pos)'
    <3>1. PICK at, pos : Layout(P, input', at, pos, P.n, Len(input') + 1)
      BY <2>6, <2>7 DEF Laid
    <3>2. cur' = 1 /\ row' = <<>> /\ state' = "dims"
      BY <2>1, <2>3 DEF Base
    <3>3. Begins(<<>>, v, Fields)
      <4>1. v \in Seq(Fields)
        BY <2>4 DEF ArrayPlanned, Arrays
      <4> QED
        BY <4>1, BeginsEmpty
    <3>4. ArraySpot(P, v, at, pos)'
      BY <3>1, <3>2, <3>3 DEF ArraySpot
    <3> QED
      BY <3>4
  <2>8. value' = v /\ ArrayPlan(value') = P
    BY <2>1, <2>2
  <2> QED
    BY <2>1, <2>3, <2>5, <2>6, <2>7, <2>8 DEF ArrayTrip
<1>2. CASE pg_text_dec_array
  <2>1. mode = "decode" /\ value' = value
    BY <1>2 DEF pg_text_dec_array, SkipSpace, DimStart, DimItem, DimAssign, SpaceEnd, ArrayStart, ReadElement,
       ReadSubarray, ReadPremature, ReadByte, ArrayEnd, Reading, ArrayAt, GoTo, Return, Raise, encVars
  <2>2. PICK v, P : v = value /\ P = ArrayPlan(v)
    OBVIOUS
  <2>3. v \in ArrayValues /\ v # <<>> /\ ArrayRefusals /\ \E at, pos : ArraySpot(P, v, at, pos)
    BY <1>0, <2>1, <2>2 DEF ArrayTrip
  <2>4. ArrayPlanned(P, v)
    BY <2>2, <2>3, ArrayPlanning
  <2>5. PICK at, pos : ArraySpot(P, v, at, pos)
    BY <2>3
  <2>6. input \in Seq(Nat)
    BY DEF Base
  <2>7. \/ mode' = "decode" /\ ArraySpot(P, v, at, pos)'
        \/ mode' = "done" /\ row' = v
    BY <1>2, <2>1, <2>4, <2>5, <2>6, ArrayReads
  <2>8. ArrayRefusals'
    <3>1. NoneRefused(Len(value))
      BY <2>1, <2>3 DEF ArrayRefusals
    <3>2. \A k : RefusedAt(k)' <=> RefusedAt(k)
      BY <1>0, <2>1, RefusalsKept
    <3>3. NoneRefused(Len(value))'
      BY <2>1, <3>1, <3>2 DEF NoneRefused
    <3> QED
      BY <2>7, <3>3 DEF ArrayRefusals
  <2>9. value' = v /\ ArrayPlan(value') = P
    BY <2>1, <2>2
  <2>10. CASE mode' = "decode" /\ ArraySpot(P, v, at, pos)'
    BY <2>3, <2>8, <2>9, <2>10 DEF ArrayTrip
  <2>11. CASE mode' = "done" /\ row' = v
    BY <2>3, <2>8, <2>9, <2>11 DEF ArrayTrip
  <2> QED
    BY <2>7, <2>10, <2>11
<1> QED
  BY <1>1, <1>2 DEF ArrayNext

LEMMA ArrayTripStart == Init => ArrayTrip
<1> SUFFICES ASSUME Init, IsArray, value # <<>> PROVE ArrayTrip
  BY DEF ArrayTrip
<1>1. ArrayInit
  BY CodersDistinct DEF Init, CopyInit, BinaryInit, RecordInit, BinArrayInit, IdentifierInit, CoderInit, IsArray,
     IsBinArray
<1>2. PICK n \in DOMAIN ArrayCoders : CoderInit(n, ArrayValues, ArrayTexts, <<>>, "dims")
  BY <1>1 DEF ArrayInit
<1>3. /\ value \in ArrayValues /\ input = <<>> /\ mode = "encode" /\ i = 1 /\ row = <<>> /\ state = "dims"
  BY <1>2 DEF CoderInit
<1>4. PICK P : P = ArrayPlan(value)
  OBVIOUS
<1>5. PlanOK(P) /\ P.prefix = <<>>
  BY <1>3, <1>4, ArrayPlanning DEF ArrayPlanned
<1>6. Laid(P, input, 0, Len(input) + 1)
  BY <1>3, <1>5, LaidStarts
<1>7. 1 <= P.n + 1 /\ i - 1 = 0
  BY <1>3, <1>5 DEF PlanOK
<1>8. ArrayWriting(P)
  BY <1>3, <1>6, <1>7 DEF ArrayWriting
<1>9. ArrayRefusals
  <2>1. NoneRefused(i - 1)
    BY <1>7 DEF NoneRefused
  <2> QED
    BY <1>3, <2>1 DEF ArrayRefusals
<1> QED
  BY <1>3, <1>4, <1>8, <1>9 DEF ArrayTrip

LEMMA ArrayTripKept ==
  CodersInv /\ TextsInv /\ TextsInv' /\ ArrayTrip /\ [Next]_rowVars => ArrayTrip'
<1> SUFFICES ASSUME CodersInv, TextsInv, TextsInv', ArrayTrip, [Next]_rowVars PROVE ArrayTrip'
  OBVIOUS
<1>1. /\ Base /\ CopyInv /\ RecordInv /\ BinaryInv /\ ArrayInv /\ BinArrayInv /\ IdentifierInv
      /\ NestInv /\ NestInv'
  BY DEF CodersInv, TextsInv
<1>2. CASE ArrayNext
  BY <1>1, <1>2, ArrayTripStep
<1>3. CASE CopyNext \/ BinaryNext \/ RecordNext \/ IdentifierNext
  <2>1. codec' \in {"copy", "binary", "record", "identifier"}
    BY <1>1, <1>3, CopyStep, BinaryStep, RecordStep, IdentifierStep
  <2>2. ~IsArray'
    BY <2>1, CodersDistinct DEF IsArray
  <2> QED
    BY <2>2 DEF ArrayTrip
<1>4. CASE BinArrayNext
  <2>1. codec' \in DOMAIN BinArrayCoders
    BY <1>1, <1>4, BinArrayStep DEF IsBinArray
  <2>2. ~IsArray'
    BY <2>1, CodersDistinct DEF IsArray
  <2> QED
    BY <2>2 DEF ArrayTrip
<1>5. CASE UNCHANGED rowVars
  <2>1. /\ codec' = codec /\ value' = value /\ i' = i /\ j' = j /\ ptr1' = ptr1 /\ ptr2' = ptr2
        /\ input' = input /\ start' = start /\ mode' = mode
        /\ cur' = cur /\ word' = word /\ state' = state /\ stack' = stack /\ row' = row
    BY <1>5 DEF rowVars, encVars, decVars
  <2>2. ASSUME NEW CONSTANT P PROVE ArrayWriting(P) => ArrayWriting(P)'
    BY <2>1 DEF ArrayWriting
  <2>3. ASSUME NEW CONSTANT P, NEW CONSTANT v, NEW CONSTANT at, NEW CONSTANT pos
        PROVE  ArraySpot(P, v, at, pos) => ArraySpot(P, v, at, pos)'
    BY <2>1 DEF ArraySpot
  <2>4. ArrayRefusals => ArrayRefusals'
    <3>1. \A k : RefusedAt(k)' <=> RefusedAt(k)
      BY <2>1, RefusalsKept
    <3>2. \A n : NoneRefused(n)' <=> NoneRefused(n)
      BY <3>1 DEF NoneRefused
    <3> QED
      BY <2>1, <3>1, <3>2 DEF ArrayRefusals
  <2>5. PICK v, P : v = value /\ P = ArrayPlan(v)
    OBVIOUS
  <2> QED
    BY <2>1, <2>2, <2>3, <2>4, <2>5 DEF ArrayTrip, IsArray
<1> QED
  BY <1>2, <1>3, <1>4, <1>5 DEF Next

LEMMA ArrayTripMeans == CodersInv /\ ArrayTrip => ArrayRoundTrip
<1> SUFFICES ASSUME CodersInv, ArrayTrip, IsArray, value # <<>>
             PROVE  /\ mode = "done" => row = value
                    /\ mode \in {"done", "error"} =>
                         (mode = "error" <=> \E d \in Depths : LessDimensions(d))
  BY DEF ArrayRoundTrip
<1>1. ArrayRefusals /\ (mode = "done" => row = value)
  BY DEF ArrayTrip
<1>2. value \in Seq(Fields)
  BY DEF CodersInv, Base
<1>3. (\E d \in Depths : LessDimensions(d)) <=> \E k \in 1..Len(value) : RefusedAt(k)
  BY <1>2, RefusalsMean
<1> QED
  BY <1>1, <1>3 DEF ArrayRefusals, NoneRefused

(* Rows, identifiers and arrays come back as they were encoded: what       *)
(* pg_text_enc_copy_row, pg_bin_enc_copy_row, pg_text_enc_record,          *)
(* pg_text_enc_identifier and pg_text_enc_array (write_array) write, with  *)
(* what they escape in place, is what pg_text_dec_copy_row,                *)
(* pg_bin_dec_copy_row, pg_text_dec_record, pg_text_dec_identifier and     *)
(* pg_text_dec_array (read_array) read, for every value that the format    *)
(* can hold.                                                               *)
THEOREM ValuesAlwaysComeBack == Spec => []ValuesComeBack
<1>1. CodersInv /\ TripsInv /\ ArrayTrip => ValuesComeBack
  BY TripsMean, ArrayTripMeans DEF ValuesComeBack
<1> QED
  BY <1>1, CodersStart, CodersStep, TripsStart, TripsStep, TextsStart, TextsStep, ArrayTripStart,
     ArrayTripKept, PTL DEF Spec
=============================================================================
