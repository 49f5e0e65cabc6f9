---------------------------- MODULE CodecsProofs ----------------------------
(***************************************************************************)
(* Proofs about the coders of rows and arrays: escaping in place never     *)
(* overwrites a byte that it has still to move, and the decoders stay      *)
(* within the text, for every value and every text (CodersInBounds); and   *)
(* rows and identifiers come back as they were encoded (TripsMean).        *)
(*                                                                         *)
(* An encoded text is a layout of tokens: positions at[k] and, within a    *)
(* token, the positions pos[k] of its bytes behind their escapes.  The     *)
(* encoders add one token after the other to the layout, the escapes in    *)
(* place from the right; the decoders follow it.                           *)
(***************************************************************************)
EXTENDS Codecs, FiniteSetTheorems, SequenceTheorems, WellFoundedInduction, TLAPS

-----------------------------------------------------------------------------
(* Counting the bytes to escape *)

(* The positions of s from a to b with a byte that is escaped. *)
Marked(s, a, b, Special) == {k \in a..b : s[k] \in Special}

LEMMA MarkedFinite ==
  ASSUME NEW s, NEW a \in Int, NEW b \in Int, NEW Special
  PROVE  /\ IsFiniteSet(Marked(s, a, b, Special))
         /\ Cardinality(Marked(s, a, b, Special)) \in Nat
<1>1. Marked(s, a, b, Special) \in SUBSET (a..b)
  BY DEF Marked
<1>2. IsFiniteSet(Marked(s, a, b, Special))
  BY <1>1, FS_Interval, FS_Subset
<1> QED
  BY <1>2, FS_CardinalityType

LEMMA MarkedLast ==
  ASSUME NEW s, NEW a \in Int, NEW b \in Int, a <= b, NEW Special
  PROVE  Cardinality(Marked(s, a, b, Special)) =
           Cardinality(Marked(s, a, b - 1, Special)) + (IF s[b] \in Special THEN 1 ELSE 0)
<1>1. IsFiniteSet(Marked(s, a, b - 1, Special)) /\ b \notin Marked(s, a, b - 1, Special)
  <2>1. b - 1 \in Int
    OBVIOUS
  <2>2. b \notin Marked(s, a, b - 1, Special)
    BY DEF Marked
  <2> QED
    BY <2>1, <2>2, MarkedFinite
<1>2. CASE s[b] \in Special
  <2>1. Marked(s, a, b, Special) = Marked(s, a, b - 1, Special) \cup {b}
    BY <1>2 DEF Marked
  <2>2. Cardinality(Marked(s, a, b - 1, Special) \cup {b}) = Cardinality(Marked(s, a, b - 1, Special)) + 1
    BY <1>1, FS_AddElement
  <2> QED
    BY <2>1, <2>2, <1>2
<1>3. CASE s[b] \notin Special
  <2>1. Marked(s, a, b, Special) = Marked(s, a, b - 1, Special)
    BY <1>3 DEF Marked
  <2> QED
    BY <2>1, <1>3, MarkedFinite
<1> QED
  BY <1>2, <1>3

LEMMA MarkedNone ==
  ASSUME NEW s, NEW a \in Int, NEW b \in Int, a > b, NEW Special
  PROVE  Cardinality(Marked(s, a, b, Special)) = 0
<1>1. Marked(s, a, b, Special) = {}
  BY DEF Marked
<1> QED
  BY <1>1, FS_EmptySet

(* The bytes of a string are counted alike where they are copied to. *)
LEMMA MarkedMoved ==
  \A from, to, Special : \A n, len \in Nat :
    (\A k \in 1..len : to[n + k] = from[k]) =>
      Cardinality(Marked(to, n + 1, n + len, Special)) = Cardinality(Marked(from, 1, len, Special))
<1> SUFFICES ASSUME NEW from, NEW to, NEW Special, NEW n \in Nat, NEW len \in Nat,
                    \A k \in 1..len : to[n + k] = from[k]
             PROVE  Cardinality(Marked(to, n + 1, n + len, Special)) = Cardinality(Marked(from, 1, len, Special))
  OBVIOUS
<1> DEFINE S == Marked(from, 1, len, Special)
           T == Marked(to, n + 1, n + len, Special)
           f == [k \in S |-> n + k]
<1>1. \A k \in S : n + k \in T
  BY DEF Marked
<1>2. \A m \in T : m - n \in S /\ n + (m - n) = m
  BY DEF Marked
<1>3. S \subseteq Int
  BY DEF Marked
<1>4. f \in Bijection(S, T)
  <2>1. f \in [S -> T]
    BY <1>1
  <2>2. \A a, b \in S : f[a] = f[b] => a = b
    BY <1>3
  <2>3. \A m \in T : \E k \in S : f[k] = m
    BY <1>2
  <2> QED
    BY <2>1, <2>2, <2>3 DEF Bijection, Injection, Surjection, IsInjective
<1>5. ExistsBijection(S, T)
  BY <1>4 DEF ExistsBijection
<1>6. IsFiniteSet(S)
  BY MarkedFinite
<1> QED
  BY <1>5, <1>6, FS_Bijection


-----------------------------------------------------------------------------
(* The encoders *)

(* What holds of every coder: the text is a sequence of numbers (bytes, if *)
(* no string is longer than 32 bits can say), and the decoder has not      *)
(* begun while a value is encoded.                                         *)
Base ==
  /\ value \in Seq(Fields) /\ input \in Seq(Nat)
  /\ i \in Nat \ {0} /\ j \in Nat /\ start \in Nat \ {0}
  /\ ptr1 \in Nat /\ ptr2 \in Nat
  /\ mode \in {"encode", "escape"} => cur = 1 /\ word = <<>>

LEMMA BytesCount == Seq(Byte) \subseteq Seq(Nat)
<1>1. Byte \subseteq Nat
  BY DEF Byte
<1> QED
  BY <1>1, SeqMonotonic

LEMMA FieldStrings ==
  ASSUME Base, i <= Len(value)
  PROVE  value[i].str \in Seq(Byte) /\ value[i].str \in Seq(Nat)
<1>1. value[i] \in Fields
  BY DEF Base
<1>2. value[i].str \in Seq(Byte)
  BY <1>1 DEF Fields
<1> QED
  BY <1>2, BytesCount

(* Arithmetic of the two pointers, apart from the text they point into.    *)
LEMMA BehindPointer ==
  ASSUME NEW a \in Nat \ {0}, NEW p \in Nat, NEW q \in Nat, NEW n \in Nat, p <= n, p <= q
  PROVE  \A k \in a..(p - 1) : k \in 1..n /\ k # q
  OBVIOUS

LEMMA PointerBounds ==
  ASSUME NEW a \in Nat \ {0}, NEW p \in Nat, NEW q \in Nat, NEW r \in Nat, NEW n \in Nat,
         a <= p, p - 1 <= r, r <= q, q <= n
  PROVE  a - 1 <= p - 1 /\ p - 1 <= r /\ r <= n
  OBVIOUS

(* A byte is moved from ptr1 to ptr2, behind all that are still to move.   *)
LEMMA MoveStep ==
  ASSUME NEW CONSTANT Special, NEW CONSTANT escape, \A c \in Special : escape[c] \in Nat,
         NEW CONSTANT extra \in Nat,
         Base, EscapeRoom(Special, extra), ptr1 >= start, MoveByte(Special, escape)
  PROVE  Base' /\ EscapeRoom(Special, extra)'
<1>0. /\ start \in Nat \ {0} /\ ptr1 \in Nat /\ ptr2 \in Nat
      /\ input \in Seq(Nat) /\ Len(input) \in Nat /\ start <= ptr1
  BY DEF Base
<1> DEFINE c == input[ptr1]
           count(s, b) == Cardinality(Marked(s, start, b, Special))
<1>1. mode = "escape" /\ mode' = mode /\ start' = start /\ value' = value /\ i' = i
      /\ j' = j /\ cur' = cur /\ word' = word /\ ptr1' = ptr1 - 1
  BY DEF MoveByte, decVars
<1>2. /\ start - 1 <= ptr1 /\ ptr1 <= ptr2 /\ ptr2 <= Len(input)
      /\ ptr2 - ptr1 = extra + count(input, ptr1)
  BY <1>1 DEF EscapeRoom, Marked
<1>9. \A k \in start..ptr1 : input[k] = value[i].str[k - start + 1]
  BY <1>1 DEF EscapeRoom
<1>3. /\ Len(input) \in Nat
      /\ ptr1 \in 1..Len(input) /\ ptr2 \in 1..Len(input)
      /\ c \in Nat
  <2>1. Len(input) \in Nat /\ ptr1 \in 1..Len(input) /\ ptr2 \in 1..Len(input)
    BY <1>0, <1>2
  <2> QED
    BY <1>0, <2>1, ElementOfSeq
<1>4. /\ count(input, ptr1) = count(input, ptr1 - 1) + (IF c \in Special THEN 1 ELSE 0)
      /\ count(input, ptr1 - 1) \in Nat
  <2>1. start \in Int /\ ptr1 \in Int /\ ptr1 - 1 \in Int /\ start <= ptr1
    BY <1>0
  <2>2. count(input, ptr1 - 1) \in Nat
    BY <1>0, <2>1, MarkedFinite
  <2>3. count(input, ptr1) = count(input, ptr1 - 1) + (IF c \in Special THEN 1 ELSE 0)
    BY <1>0, <2>1, MarkedLast
  <2> QED
    BY <2>2, <2>3
<1> HIDE DEF count, c
<1>5. /\ input' \in Seq(Nat) /\ Len(input') = Len(input)
      /\ ptr2' \in Nat /\ ptr1 - 1 <= ptr2'
      /\ ptr2' - (ptr1 - 1) = extra + count(input, ptr1 - 1)
      /\ ptr2' <= ptr2
      /\ \A k \in start..(ptr1 - 1) : input'[k] = input[k]
  <2>1. CASE c \in Special
    <3> DEFINE s == [input EXCEPT ![ptr2] = c]
    <3>1. s \in Seq(Nat) /\ Len(s) = Len(input)
          /\ \A k \in 1..Len(input) : s[k] = IF k = ptr2 THEN c ELSE input[k]
      BY <1>0, <1>3, ExceptSeq
    <3> HIDE DEF s
    <3>2. ptr2 - 1 >= ptr1 /\ ptr2 - 1 \in 1..Len(s)
      <4>1. count(input, ptr1) = count(input, ptr1 - 1) + 1
        BY <1>4, <2>1
      <4>2. ptr2 - 1 >= ptr1
        BY <1>0, <1>2, <1>4, <4>1
      <4> QED
        BY <1>0, <1>3, <3>1, <4>2
    <3>3. escape[c] \in Nat
      BY <2>1
    <3>4. /\ [s EXCEPT ![ptr2 - 1] = escape[c]] \in Seq(Nat)
          /\ Len([s EXCEPT ![ptr2 - 1] = escape[c]]) = Len(s)
          /\ \A k \in 1..Len(s) : [s EXCEPT ![ptr2 - 1] = escape[c]][k] =
                                     IF k = ptr2 - 1 THEN escape[c] ELSE s[k]
      BY <3>1, <3>2, <3>3, ExceptSeq
    <3>5. input' = [s EXCEPT ![ptr2 - 1] = escape[c]] /\ ptr2' = ptr2 - 2
      BY <2>1 DEF MoveByte, s, c
    <3>6. \A k \in start..(ptr1 - 1) : k \in 1..Len(input) /\ k \in 1..Len(s) /\ k # ptr2 /\ k # ptr2 - 1
      <4>1. ptr2 - 1 \in Nat /\ ptr1 <= Len(input)
        BY <1>3
      <4>2. \A k \in start..(ptr1 - 1) : k \in 1..Len(input) /\ k # ptr2
        BY <1>0, <1>2, <4>1, BehindPointer
      <4>3. \A k \in start..(ptr1 - 1) : k # ptr2 - 1
        BY <1>0, <3>2, <4>1, BehindPointer
      <4> QED
        BY <3>1, <4>2, <4>3
    <3>7. \A k \in start..(ptr1 - 1) : input'[k] = input[k]
      BY <3>1, <3>4, <3>5, <3>6
    <3>8. ptr2 - 2 >= ptr1 - 1 /\ ptr2 - 2 \in Nat /\ (ptr2 - 2) - (ptr1 - 1) = extra + count(input, ptr1 - 1)
      <4>1. count(input, ptr1) = count(input, ptr1 - 1) + 1 /\ count(input, ptr1 - 1) \in Nat
        BY <1>4, <2>1
      <4>2. ptr2 - ptr1 = extra + count(input, ptr1) /\ ptr1 \in Nat /\ ptr2 \in Nat /\ ptr1 >= 1
        BY <1>0, <1>2
      <4> QED
        BY <4>1, <4>2
    <3> QED
      BY <1>0, <3>1, <3>4, <3>5, <3>7, <3>8
  <2>2. CASE c \notin Special
    <3>1. input' = [input EXCEPT ![ptr2] = c] /\ ptr2' = ptr2 - 1
      BY <2>2 DEF MoveByte, c
    <3>2. input' \in Seq(Nat) /\ Len(input') = Len(input)
          /\ \A k \in 1..Len(input) : input'[k] = IF k = ptr2 THEN c ELSE input[k]
      BY <1>0, <1>3, <3>1, ExceptSeq
    <3>3. \A k \in start..(ptr1 - 1) : k \in 1..Len(input) /\ k # ptr2
      <4>1. ptr1 <= Len(input)
        BY <1>3
      <4> QED
        BY <1>0, <1>2, <4>1, BehindPointer
    <3>4. \A k \in start..(ptr1 - 1) : input'[k] = input[k]
      BY <3>2, <3>3
    <3>5. ptr2 - 1 >= ptr1 - 1 /\ ptr2 - 1 \in Nat /\ (ptr2 - 1) - (ptr1 - 1) = extra + count(input, ptr1 - 1)
      BY <1>0, <1>2, <1>3, <1>4, <2>2
    <3> QED
      BY <1>0, <3>1, <3>2, <3>4, <3>5
  <2> QED
    BY <2>1, <2>2
<1>55. ptr2' \in Nat /\ ptr1 - 1 <= ptr2' /\ ptr2' <= ptr2 /\ Len(input') = Len(input)
  BY <1>5
<1>6. count(input', ptr1 - 1) = count(input, ptr1 - 1)
  <2>1. Marked(input', start, ptr1 - 1, Special) = Marked(input, start, ptr1 - 1, Special)
    BY <1>5 DEF Marked
  <2> QED
    BY <2>1 DEF count
<1>7. Base'
  <2>1. ptr1 - 1 \in Nat
    BY <1>0, <1>3
  <2> QED
    BY <1>1, <1>5, <2>1 DEF Base
<1>8. EscapeRoom(Special, extra)'
  <2>1. Cardinality({k \in start'..ptr1' : input'[k] \in Special}) = count(input', ptr1 - 1)
    BY <1>1 DEF Marked, count
  <2>2. start' - 1 <= ptr1' /\ ptr1' <= ptr2' /\ ptr2' <= Len(input')
    <3>1. start - 1 <= ptr1 - 1 /\ ptr1 - 1 <= ptr2' /\ ptr2' <= Len(input)
      BY <1>0, <1>2, <1>55, PointerBounds
    <3> QED
      BY <1>1, <1>55, <3>1
  <2>3. ptr2' - ptr1' = extra + count(input', ptr1 - 1)
    BY <1>1, <1>5, <1>6
  <2>4. \A k \in start'..ptr1' : input'[k] = value'[i'].str[k - start' + 1]
    <3> SUFFICES ASSUME NEW k \in start..(ptr1 - 1) PROVE input'[k] = value[i].str[k - start + 1]
      BY <1>1
    <3>1. k \in start..ptr1
      BY <1>0
    <3> QED
      BY <1>5, <1>9, <3>1
  <2> QED
    BY <2>1, <2>2, <2>3, <2>4 DEF EscapeRoom
<1> QED
  BY <1>7, <1>8


(* A string in the buffer, between what was written and room for escapes. *)
Copied(text, s, str) == \A k \in 1..Len(str) : text[Len(s) + k] = str[k]
CountedAlike(text, s, str, Special) ==
  Cardinality(Marked(text, Len(s) + 1, Len(s) + Len(str), Special)) = Cardinality(Escapes(str, Special))
Placed(text, s, str, pad, Special) ==
  /\ text \in Seq(Nat)
  /\ Len(text) = Len(s) + Len(str) + Len(pad)
  /\ Copied(text, s, str)
  /\ CountedAlike(text, s, str, Special)

LEMMA CopyCounts ==
  ASSUME NEW s \in Seq(Nat), NEW str \in Seq(Nat), NEW text, NEW Special, Copied(text, s, str)
  PROVE  CountedAlike(text, s, str, Special)
<1>1. Len(s) \in Nat /\ Len(str) \in Nat
  OBVIOUS
<1>2. Cardinality(Marked(text, Len(s) + 1, Len(s) + Len(str), Special))
        = Cardinality(Marked(str, 1, Len(str), Special))
  <2> DEFINE m == Len(s)
             len == Len(str)
  <2>1. m \in Nat /\ len \in Nat /\ \A k \in 1..len : text[m + k] = str[k]
    BY <1>1 DEF Copied
  <2> HIDE DEF m, len
  <2>2. Cardinality(Marked(text, m + 1, m + len, Special)) = Cardinality(Marked(str, 1, len, Special))
    BY <2>1, MarkedMoved, ZenonT(60)
  <2> QED
    BY <2>2 DEF m, len
<1>3. Escapes(str, Special) = Marked(str, 1, Len(str), Special)
  <2>1. DOMAIN str = 1..Len(str)
    BY LenProperties
  <2> QED
    BY <2>1 DEF Escapes, Marked
<1> QED
  BY <1>2, <1>3 DEF CountedAlike

LEMMA PlacedString ==
  ASSUME NEW s \in Seq(Nat), NEW str \in Seq(Nat), NEW pad \in Seq(Nat), NEW Special,
         NEW t, t = s \o str, NEW text, text = t \o pad
  PROVE  Placed(text, s, str, pad, Special)
<1>1. /\ t \in Seq(Nat) /\ Len(t) = Len(s) + Len(str)
      /\ \A k \in 1..(Len(s) + Len(str)) : t[k] = IF k <= Len(s) THEN s[k] ELSE str[k - Len(s)]
  BY ConcatProperties
<1>2. /\ text \in Seq(Nat) /\ Len(text) = Len(t) + Len(pad)
      /\ \A k \in 1..(Len(t) + Len(pad)) : text[k] = IF k <= Len(t) THEN t[k] ELSE pad[k - Len(t)]
  BY <1>1, ConcatProperties
<1>3. Len(s) \in Nat /\ Len(str) \in Nat /\ Len(pad) \in Nat
  OBVIOUS
<1>4. Copied(text, s, str)
  <2> SUFFICES ASSUME NEW k \in 1..Len(str) PROVE text[Len(s) + k] = str[k]
    BY DEF Copied
  <2>1. Len(s) + k \in 1..(Len(s) + Len(str)) /\ ~(Len(s) + k <= Len(s)) /\ (Len(s) + k) - Len(s) = k
    BY <1>3
  <2>2. Len(s) + k \in 1..(Len(t) + Len(pad)) /\ Len(s) + k <= Len(t)
    BY <1>1, <1>3, <2>1
  <2> QED
    BY <1>1, <1>2, <2>1, <2>2
<1>5. CountedAlike(text, s, str, Special)
  BY <1>4, CopyCounts, Zenon
<1> QED
  BY <1>1, <1>2, <1>4, <1>5 DEF Placed

LEMMA EscapesCount ==
  ASSUME NEW str \in Seq(Nat), NEW Special
  PROVE  Cardinality(Escapes(str, Special)) \in Nat
<1>1. Escapes(str, Special) = Marked(str, 1, Len(str), Special)
  <2>1. DOMAIN str = 1..Len(str)
    BY LenProperties
  <2> QED
    BY <2>1 DEF Escapes, Marked
<1>2. Len(str) \in Int
  OBVIOUS
<1> QED
  BY <1>1, <1>2, MarkedFinite

LEMMA Zeros ==
  ASSUME NEW n \in Nat
  PROVE  [k \in 1..n |-> NUL] \in Seq(Nat) /\ Len([k \in 1..n |-> NUL]) = n
  BY DEF NUL

(* One step of the encoder of a row. *)
LEMMA EncodeRowStep ==
  ASSUME NEW CONSTANT sep \in Seq(Nat), NEW CONSTANT null \in Seq(Nat),
         NEW CONSTANT quote \in Seq(Nat), NEW CONSTANT end \in Seq(Nat),
         NEW CONSTANT Special, NEW CONSTANT escape, \A c \in Special : escape[c] \in Nat,
         Base, EscapeRoom(Special, 0),
         EncodeRow(sep, null, quote, end, Special, escape)
  PROVE  /\ Base' /\ EscapeRoom(Special, 0)'
         /\ mode \in {"encode", "escape"} /\ mode' \in {"encode", "escape", "decode"}
         /\ codec' = codec /\ cur' = 1 /\ word' = <<>>
         /\ mode' = "decode" => start' = 1
<1> USE DEF Base
<1>1. \A open \in Seq(Nat) : FieldStart(sep, open) \in Seq(Nat)
  <2> TAKE open \in Seq(Nat)
  <2>1. (IF i = 1 THEN <<>> ELSE sep) \in Seq(Nat)
    OBVIOUS
  <2>2. input \o (IF i = 1 THEN <<>> ELSE sep) \in Seq(Nat)
    BY <2>1, ConcatProperties
  <2> QED
    BY <2>2, ConcatProperties DEF FieldStart
<1>2. CASE EncodeNull(sep, null)
  <2>1. FieldStart(sep, null) \in Seq(Nat)
    BY <1>1
  <2> QED
    BY <1>2, <2>1 DEF EncodeNull, EscapeRoom, decVars
<1>3. CASE EncodeString(sep, quote)
  <2>1. FieldStart(sep, quote) \in Seq(Nat)
    BY <1>1
  <2> QED
    BY <1>3, <2>1 DEF EncodeString, EscapeRoom, decVars
<1>4. CASE EncodeBuffer(sep, quote, Special)
  <2> DEFINE str == value[i].str
             n == Cardinality(Escapes(str, Special))
             s == FieldStart(sep, quote)
             pad == [k \in 1..n |-> NUL]
  <2>1. i <= Len(value)
    BY <1>4 DEF EncodeBuffer
  <2>2. str \in Seq(Nat) /\ s \in Seq(Nat)
    BY <1>1, <2>1, FieldStrings
  <2>3. n \in Nat /\ Len(str) \in Nat /\ Len(s) \in Nat
    <3>1. n \in Nat
      BY <2>2, EscapesCount, Zenon
    <3> HIDE DEF str, n, s
    <3> QED
      BY <2>2, <3>1, LenProperties
  <2>4. pad \in Seq(Nat) /\ Len(pad) = n
    BY <2>3, Zeros
  <2>5. /\ input' = (s \o str) \o pad
        /\ start' = Len(s) + 1 /\ ptr1' = Len(s) + Len(str) /\ ptr2' = Len(s) + Len(str) + n
        /\ mode = "encode" /\ mode' = "escape" /\ codec' = codec /\ value' = value /\ i' = i /\ j' = j
        /\ cur' = cur /\ word' = word
    BY <1>4 DEF EncodeBuffer, decVars
  <2> HIDE DEF str, n, s, pad
  <2>6. /\ input' \in Seq(Nat)
        /\ Len(input') = Len(s) + Len(str) + n
        /\ \A k \in 1..Len(str) : input'[Len(s) + k] = str[k]
        /\ Cardinality(Marked(input', Len(s) + 1, Len(s) + Len(str), Special)) = n
    <3>1. Placed(input', s, str, pad, Special)
      BY <2>2, <2>4, <2>5, PlacedString, Zenon
    <3> QED
      BY <2>4, <3>1 DEF n, Placed, Copied, CountedAlike
  <2>7. Base'
    BY <2>3, <2>5, <2>6, SMTT(20)
  <2>8. EscapeRoom(Special, 0)'
    <3>1. \A k \in start'..ptr1' : input'[k] = value'[i'].str[k - start' + 1]
      <4> SUFFICES ASSUME NEW k \in (Len(s) + 1)..(Len(s) + Len(str))
                   PROVE  input'[k] = str[k - (Len(s) + 1) + 1]
        BY <2>5 DEF str
      <4>1. k - Len(s) \in 1..Len(str) /\ Len(s) + (k - Len(s)) = k /\ k - (Len(s) + 1) + 1 = k - Len(s)
        BY <2>3
      <4> QED
        BY <2>6, <4>1
    <3>2. Cardinality({k \in start'..ptr1' : input'[k] \in Special}) = n
      BY <2>5, <2>6 DEF Marked
    <3>3. start' - 1 <= ptr1' /\ ptr1' <= ptr2' /\ ptr2' <= Len(input') /\ ptr2' - ptr1' = 0 + n
      BY <2>3, <2>5, <2>6, SMTT(20)
    <3> QED
      BY <3>1, <3>2, <3>3 DEF EscapeRoom
  <2> QED
    BY <2>5, <2>7, <2>8
<1>5. CASE EncodeByte(Special, escape)
  <2>1. i <= Len(value) /\ j \in 1..Len(value[i].str)
    BY <1>5 DEF EncodeByte
  <2> DEFINE c == value[i].str[j]
             t == IF c \in Special THEN <<escape[c], c>> ELSE <<c>>
  <2>2. c \in Nat
    BY <2>1, FieldStrings, ElementOfSeq
  <2>3. t \in Seq(Nat)
    BY <2>2
  <2>4. input' = input \o t
    BY <1>5 DEF EncodeByte
  <2>5. input' \in Seq(Nat)
    BY <2>3, <2>4, ConcatProperties
  <2> QED
    BY <1>5, <2>5 DEF EncodeByte, EscapeRoom, decVars
<1>6. CASE EncodeStringEnd(quote)
  BY <1>6, ConcatProperties DEF EncodeStringEnd, EscapeRoom, decVars
<1>7. CASE EscapeByte(Special, escape)
  <2>1. MoveByte(Special, escape) /\ ptr1 # ptr2 /\ mode = "escape"
    BY <1>7 DEF EscapeByte, MoveByte
  <2>2. ptr1 >= start
    <3> SUFFICES ASSUME start > ptr1 PROVE FALSE
      OBVIOUS
    <3>1. Cardinality(Marked(input, start, ptr1, Special)) = 0
      BY MarkedNone
    <3> QED
      BY <2>1, <3>1 DEF EscapeRoom, Marked
  <2>3. Base' /\ EscapeRoom(Special, 0)'
    BY <2>1, <2>2, MoveStep
  <2> QED
    BY <2>1, <2>3 DEF MoveByte, decVars
<1>8. CASE EscapeEnd(quote)
  BY <1>8, ConcatProperties DEF EscapeEnd, EscapeRoom, decVars
<1>9. CASE EncodeEnd(end)
  BY <1>9, ConcatProperties DEF EncodeEnd, EscapeRoom, decVars, encVars
<1> QED
  BY <1>2, <1>3, <1>4, <1>5, <1>6, <1>7, <1>8, <1>9 DEF EncodeRow


LEMMA Regrouped == \A s, t, u \in Seq(Nat) : (s \o t) \o u = s \o (t \o u)
<1> TAKE s, t, u \in Seq(Nat)
<1> QED
  BY ConcatAssociative, SMTT(40)

(* One step of pg_text_enc_array. *)
LEMMA ArrayEncodeStep ==
  ASSUME Base, IsArray => EscapeRoom(ArraySpecial, 1), pg_text_enc_array
  PROVE  Base' /\ IsArray /\ codec' = codec /\ EscapeRoom(ArraySpecial, 1)'
<1> USE DEF Base
<1>1. \A t \in Seq(Nat) : Emit(t) /\ mode = "encode" =>
        Base' /\ codec' = codec /\ EscapeRoom(ArraySpecial, 1)'
  BY ConcatProperties DEF Emit, EscapeRoom, decVars
<1>2. Raise => Base' /\ codec' = codec /\ EscapeRoom(ArraySpecial, 1)'
  BY DEF Raise, EscapeRoom, decVars, encVars
<1>3. Separator \in Seq(Nat)
  <2>1. ArrayDelimiter \in Nat
    BY ArrayAssumption DEF Byte
  <2> QED
    BY <2>1 DEF Separator
<1>4. CASE WriteOpen
  <2>1. Separator \o <<LBRACE>> \in Seq(Nat)
    BY <1>3, ConcatProperties DEF LBRACE
  <2> QED
    BY <1>1, <1>2, <1>4, <2>1 DEF WriteOpen, AtElement
<1>5. CASE WriteClose
  <2>1. <<RBRACE>> \in Seq(Nat)
    BY DEF RBRACE
  <2> QED
    BY <1>1, <1>5, <2>1 DEF WriteClose, AtElement
<1>6. CASE WriteNull
  <2>1. Separator \o NULL \in Seq(Nat)
    BY <1>3, ConcatProperties DEF NULL
  <2> QED
    BY <1>1, <1>2, <1>6, <2>1 DEF WriteNull, AtElement
<1>7. CASE WriteString
  <2> DEFINE str == value[i].str
             n == Cardinality(Escapes(str, ArraySpecial))
             s == input \o Separator
             room == [k \in 1..(n + 1) |-> NUL]
             pad == room \o <<QUOTE>>
  <2>1. IsArray /\ mode = "encode" /\ i <= Len(value)
    BY <1>7 DEF WriteString, AtElement
  <2>2. str \in Seq(Nat) /\ s \in Seq(Nat) /\ Len(s) = Len(input) + Len(Separator)
    BY <1>3, <2>1, FieldStrings, ConcatProperties
  <2>3. n \in Nat /\ Len(str) \in Nat /\ Len(s) \in Nat
    BY <2>2, EscapesCount
  <2>4. CASE Raise
    BY <1>2, <2>1, <2>4
  <2>5. CASE Emit(Separator \o str)
    <3>1. Separator \o str \in Seq(Nat)
      BY <1>3, <2>2, ConcatProperties
    <3> QED
      BY <1>1, <2>1, <2>5, <3>1
  <2>6. CASE ~Raise /\ ~Emit(Separator \o str)
    <3>1. /\ input' = ((s \o str) \o room) \o <<QUOTE>>
          /\ start' = Len(input) + Len(Separator) + 1 /\ ptr1' = Len(input) + Len(Separator) + Len(str)
          /\ ptr2' = Len(input) + Len(Separator) + Len(str) + n + 1
          /\ mode' = "escape" /\ codec' = codec /\ value' = value /\ i' = i /\ j' = j
          /\ cur' = cur /\ word' = word
      BY <1>7, <2>6 DEF WriteString, decVars
    <3>2. room \in Seq(Nat) /\ Len(room) = n + 1
      <4>1. n + 1 \in Nat
        BY <2>3
      <4> HIDE DEF n
      <4> QED
        BY <4>1, Zeros
    <3>3. pad \in Seq(Nat) /\ Len(pad) = n + 2
      <4>1. <<QUOTE>> \in Seq(Nat) /\ Len(<<QUOTE>>) = 1
        BY DEF QUOTE
      <4> HIDE DEF room, n
      <4>2. Len(room \o <<QUOTE>>) = n + 1 + 1 /\ room \o <<QUOTE>> \in Seq(Nat)
        BY <3>2, <4>1, ConcatProperties
      <4> QED
        BY <2>3, <4>2
    <3>4. input' = (s \o str) \o pad
      <4>1. s \o str \in Seq(Nat) /\ <<QUOTE>> \in Seq(Nat)
        BY <2>2, ConcatProperties DEF QUOTE
      <4> DEFINE t == s \o str
                 q == <<QUOTE>>
      <4>2. t \in Seq(Nat) /\ room \in Seq(Nat) /\ q \in Seq(Nat)
        BY <3>2, <4>1
      <4> HIDE DEF t, q, room
      <4>3. (t \o room) \o q = t \o (room \o q)
        BY <4>2, Regrouped, ZenonT(60)
      <4> QED
        BY <3>1, <4>3 DEF t, q
    <3> HIDE DEF str, n, s, room, pad
    <3>5. Placed(input', s, str, pad, ArraySpecial)
      BY <2>2, <3>3, <3>4, PlacedString, Zenon
    <3>6. /\ input' \in Seq(Nat)
          /\ Len(input') = Len(s) + Len(str) + n + 2
          /\ \A k \in 1..Len(str) : input'[Len(s) + k] = str[k]
          /\ Cardinality(Marked(input', Len(s) + 1, Len(s) + Len(str), ArraySpecial)) = n
      BY <2>3, <3>3, <3>5 DEF n, Placed, Copied, CountedAlike
    <3>7. start' = Len(s) + 1 /\ ptr1' = Len(s) + Len(str) /\ ptr2' = Len(s) + Len(str) + n + 1
      BY <2>2, <3>1
    <3>8. Base'
      <4>1. start' \in Nat \ {0} /\ ptr1' \in Nat /\ ptr2' \in Nat
        BY <2>3, <3>7
      <4>2. value' = value /\ i' = i /\ j' = j /\ cur' = cur /\ word' = word /\ mode' = "escape"
        BY <3>1
      <4> QED
        BY <2>1, <3>6, <4>1, <4>2
    <3>9. EscapeRoom(ArraySpecial, 1)'
      <4>1. \A k \in start'..ptr1' : input'[k] = value'[i'].str[k - start' + 1]
        <5> SUFFICES ASSUME NEW k \in (Len(s) + 1)..(Len(s) + Len(str))
                     PROVE  input'[k] = str[k - (Len(s) + 1) + 1]
          BY <3>1, <3>7 DEF str
        <5>1. k - Len(s) \in 1..Len(str) /\ Len(s) + (k - Len(s)) = k /\ k - (Len(s) + 1) + 1 = k - Len(s)
          BY <2>3
        <5> QED
          BY <3>6, <5>1
      <4>2. Cardinality({k \in start'..ptr1' : input'[k] \in ArraySpecial}) = n
        BY <3>6, <3>7 DEF Marked
      <4>3. start' - 1 <= ptr1' /\ ptr1' <= ptr2' /\ ptr2' <= Len(input') /\ ptr2' - ptr1' = 1 + n
        BY <2>3, <3>6, <3>7, SMTT(20)
      <4> QED
        BY <4>1, <4>2, <4>3 DEF EscapeRoom
    <3> QED
      BY <2>1, <3>1, <3>8, <3>9
  <2> QED
    BY <2>4, <2>5, <2>6
<1>8. CASE QuoteByte
  <2>1. MoveByte(ArraySpecial, ArrayEscape) /\ IsArray /\ ptr1 # start - 1 /\ mode = "escape"
    BY <1>8 DEF QuoteByte, MoveByte
  <2>2. ptr1 >= start
    BY <2>1 DEF EscapeRoom
  <2>3. \A c \in ArraySpecial : ArrayEscape[c] \in Nat
    BY DEF ArrayEscape, BACKSLASH
  <2>4. Base' /\ EscapeRoom(ArraySpecial, 1)'
    BY <2>1, <2>2, <2>3, MoveStep
  <2> QED
    BY <2>1, <2>4 DEF MoveByte
<1>9. CASE QuoteEnd
  <2>1. IsArray /\ mode = "escape" /\ ptr1 = start - 1
    BY <1>9 DEF QuoteEnd
  <2>2. Cardinality(Marked(input, start, ptr1, ArraySpecial)) = 0
    BY <2>1, MarkedNone
  <2>3. start \in 1..Len(input)
    BY <2>1, <2>2 DEF EscapeRoom, Marked
  <2>4. input' \in Seq(Nat)
    BY <1>9, <2>3, ExceptSeq DEF QuoteEnd, QUOTE
  <2> QED
    BY <1>9, <2>1, <2>4 DEF QuoteEnd, EscapeRoom, decVars
<1>10. CASE IsArray /\ EncodeEnd(<<>>)
  <2>1. input \o <<>> = input
    BY ConcatEmptySeq
  <2> QED
    BY <1>10, <2>1 DEF EncodeEnd, EscapeRoom, decVars, encVars
<1> QED
  BY <1>4, <1>5, <1>6, <1>7, <1>8, <1>9, <1>10 DEF pg_text_enc_array


-----------------------------------------------------------------------------
(* The decoders of rows *)

LEMMA AtCounts ==
  ASSUME input \in Seq(Nat), NEW k \in Int
  PROVE  /\ At(k) \in Nat
         /\ At(k) # NUL => k \in 1..Len(input)
<1>1. CASE k \in 1..Len(input)
  BY <1>1, ElementOfSeq DEF At
<1>2. CASE k \notin 1..Len(input)
  BY <1>2 DEF At, NUL
<1> QED
  BY <1>1, <1>2

(* EscapeAt of the three bytes a, b and c behind the backslash at k. *)
IsOctal(a) == a \in 48..55
OctalOf(k, a, b, c) ==
  CASE IsOctal(b) /\ IsOctal(c) -> [c |-> (64 * (a - 48) + 8 * (b - 48) + (c - 48)) % 256, next |-> k + 4]
    [] IsOctal(b) /\ ~IsOctal(c) -> [c |-> 8 * (a - 48) + (b - 48), next |-> k + 3]
    [] OTHER -> [c |-> a - 48, next |-> k + 2]
HexOf(k, a, b, c) ==
  CASE GetDecimalFromHex(b) >= 0 /\ GetDecimalFromHex(c) >= 0 ->
         [c |-> 16 * GetDecimalFromHex(b) + GetDecimalFromHex(c), next |-> k + 4]
    [] GetDecimalFromHex(b) >= 0 /\ GetDecimalFromHex(c) < 0 -> [c |-> GetDecimalFromHex(b), next |-> k + 3]
    [] OTHER -> [c |-> a, next |-> k + 2]
EscapeOf(k, a, b, c) ==
  CASE IsOctal(a) -> OctalOf(k, a, b, c)
    [] a = 120 -> HexOf(k, a, b, c)
    [] a \in DOMAIN Control -> [c |-> Control[a], next |-> k + 2]
    [] OTHER -> [c |-> a, next |-> k + 2]

(* It is a byte, and goes on over bytes that are not NUL. *)
EscapeGood(e, k, b, c) ==
  /\ e.c \in Nat
  /\ \/ e.next = k + 2
     \/ e.next = k + 3 /\ b # 0
     \/ e.next = k + 4 /\ c # 0

LEMMA OctalGood ==
  ASSUME NEW k \in Nat, NEW a \in Nat, NEW b \in Nat, NEW c \in Nat, IsOctal(a)
  PROVE  EscapeGood(OctalOf(k, a, b, c), k, b, c)
<1> USE DEF IsOctal, EscapeGood
<1>1. CASE IsOctal(b) /\ IsOctal(c)
  <2>1. OctalOf(k, a, b, c) = [c |-> (64 * (a - 48) + 8 * (b - 48) + (c - 48)) % 256, next |-> k + 4]
    BY <1>1 DEF OctalOf
  <2>2. (64 * (a - 48) + 8 * (b - 48) + (c - 48)) % 256 \in Nat
    BY <1>1
  <2> QED
    BY <1>1, <2>1, <2>2
<1>2. CASE IsOctal(b) /\ ~IsOctal(c)
  <2>1. OctalOf(k, a, b, c) = [c |-> 8 * (a - 48) + (b - 48), next |-> k + 3]
    BY <1>2 DEF OctalOf
  <2> QED
    BY <1>2, <2>1
<1>3. CASE ~IsOctal(b)
  <2>1. OctalOf(k, a, b, c) = [c |-> a - 48, next |-> k + 2]
    BY <1>3 DEF OctalOf
  <2> QED
    BY <2>1
<1> QED
  BY <1>1, <1>2, <1>3

LEMMA HexDigits ==
  ASSUME NEW c \in Nat
  PROVE  GetDecimalFromHex(c) = -1 \/ (GetDecimalFromHex(c) \in Nat /\ c # 0)
<1>1. CASE c \in 48..57
  BY <1>1 DEF GetDecimalFromHex
<1>2. CASE c \in 97..102
  BY <1>2 DEF GetDecimalFromHex
<1>3. CASE c \in 65..70
  BY <1>3 DEF GetDecimalFromHex
<1>4. CASE c \notin 48..57 /\ c \notin 97..102 /\ c \notin 65..70
  BY <1>4 DEF GetDecimalFromHex
<1> QED
  BY <1>1, <1>2, <1>3, <1>4

LEMMA HexGood ==
  ASSUME NEW k \in Nat, NEW a \in Nat, NEW b \in Nat, NEW c \in Nat
  PROVE  EscapeGood(HexOf(k, a, b, c), k, b, c)
<1> DEFINE g == GetDecimalFromHex(b)
           h == GetDecimalFromHex(c)
<1>1. (g = -1 \/ (g \in Nat /\ b # 0)) /\ (h = -1 \/ (h \in Nat /\ c # 0))
  BY HexDigits
<1>2. HexOf(k, a, b, c) =
        CASE g >= 0 /\ h >= 0 -> [c |-> 16 * g + h, next |-> k + 4]
          [] g >= 0 /\ h < 0 -> [c |-> g, next |-> k + 3]
          [] OTHER -> [c |-> a, next |-> k + 2]
  BY DEF HexOf
<1> HIDE DEF g, h
<1>3. CASE g >= 0 /\ h >= 0
  <2>1. HexOf(k, a, b, c) = [c |-> 16 * g + h, next |-> k + 4]
    BY <1>1, <1>2, <1>3
  <2> QED
    BY <1>1, <1>3, <2>1 DEF EscapeGood
<1>4. CASE g >= 0 /\ h < 0
  <2>1. HexOf(k, a, b, c) = [c |-> g, next |-> k + 3]
    BY <1>1, <1>2, <1>4
  <2> QED
    BY <1>1, <1>4, <2>1 DEF EscapeGood
<1>5. CASE ~(g >= 0)
  <2>1. HexOf(k, a, b, c) = [c |-> a, next |-> k + 2]
    BY <1>1, <1>2, <1>5
  <2> QED
    BY <2>1 DEF EscapeGood
<1> QED
  BY <1>1, <1>3, <1>4, <1>5

LEMMA EscapesGood ==
  ASSUME NEW k \in Nat, NEW a \in Nat, NEW b \in Nat, NEW c \in Nat
  PROVE  EscapeGood(EscapeOf(k, a, b, c), k, b, c)
<1>1. CASE IsOctal(a)
  <2>1. EscapeOf(k, a, b, c) = OctalOf(k, a, b, c)
    <3>1. a # 120 /\ a \notin DOMAIN Control
      BY <1>1 DEF IsOctal, Control
    <3> QED
      BY <1>1, <3>1 DEF EscapeOf
  <2>2. EscapeGood(OctalOf(k, a, b, c), k, b, c)
    BY <1>1, OctalGood, Zenon
  <2> QED
    BY <2>1, <2>2, Zenon
<1>2. CASE ~IsOctal(a) /\ a = 120
  <2>1. EscapeOf(k, a, b, c) = HexOf(k, a, b, c)
    <3>1. a \notin DOMAIN Control
      BY <1>2 DEF Control
    <3> QED
      BY <1>2, <3>1 DEF EscapeOf
  <2>2. EscapeGood(HexOf(k, a, b, c), k, b, c)
    BY HexGood, Zenon
  <2> QED
    BY <2>1, <2>2, Zenon
<1>3. CASE ~IsOctal(a) /\ a # 120 /\ a \in DOMAIN Control
  <2>1. Control[a] \in Nat
    BY <1>3 DEF Control, FF, NL, CR, TAB, VT
  <2>2. EscapeOf(k, a, b, c) = [c |-> Control[a], next |-> k + 2]
    BY <1>3 DEF EscapeOf
  <2> QED
    BY <2>1, <2>2 DEF EscapeGood
<1>4. CASE ~IsOctal(a) /\ a # 120 /\ a \notin DOMAIN Control
  <2>2. EscapeOf(k, a, b, c) = [c |-> a, next |-> k + 2]
    BY <1>4 DEF EscapeOf
  <2> QED
    BY <2>2 DEF EscapeGood
<1> QED
  BY <1>1, <1>2, <1>3, <1>4

(* An escape sequence with a byte behind its backslash ends in the text.   *)
LEMMA EscapeForward ==
  ASSUME input \in Seq(Nat), NEW k \in 1..Len(input), k < Len(input)
  PROVE  EscapeAt(k).next \in (k + 2)..(Len(input) + 1) /\ EscapeAt(k).c \in Nat
<1>1. Len(input) \in Nat /\ k \in Nat /\ k + 1 \in Int /\ k + 2 \in Int /\ k + 3 \in Int
  OBVIOUS
<1>2. /\ At(k + 1) \in Nat /\ At(k + 2) \in Nat /\ At(k + 3) \in Nat
      /\ At(k + 2) # NUL => k + 2 \in 1..Len(input)
      /\ At(k + 3) # NUL => k + 3 \in 1..Len(input)
  BY <1>1, AtCounts, Zenon
<1>3. EscapeAt(k) = EscapeOf(k, At(k + 1), At(k + 2), At(k + 3))
  BY DEF EscapeAt, EscapeOf, OctalEscape, OctalOf, HexEscape, HexOf, Octal, IsOctal
<1> DEFINE e == EscapeAt(k)
           b == At(k + 2)
           c == At(k + 3)
<1>4. EscapeGood(e, k, b, c)
  BY <1>1, <1>2, <1>3, EscapesGood, Zenon
<1>5. (b # 0 => k + 2 <= Len(input)) /\ (c # 0 => k + 3 <= Len(input))
  BY <1>2 DEF NUL
<1> HIDE DEF e, b, c
<1>6. e.next \in (k + 2)..(Len(input) + 1) /\ e.c \in Nat
  BY <1>1, <1>4, <1>5 DEF EscapeGood
<1> QED
  BY <1>6 DEF e

(* A decoder leaves the value and the text alone. *)
LEMMA DecodeKeeps ==
  ASSUME Base, UNCHANGED <<encVars, input>>, start' \in Nat \ {0},
         mode' \in {"decode", "done", "error"}
  PROVE  Base'
  BY DEF Base, encVars

CopyInv ==
  codec = "copy" => word \in Seq(Nat) /\ EscapeRoom(CopySpecial, 0) /\ CopyInBounds

(* One step of pg_text_enc_copy_row or pg_text_dec_copy_row. *)
LEMMA CopyStep ==
  ASSUME Base, CopyInv, CopyNext
  PROVE  Base' /\ codec = "copy" /\ codec' = "copy" /\ CopyInv'
<1>1. CASE pg_text_enc_copy_row
  <2>1. codec = "copy" /\ EncodeRow(<<Delimiter>>, NullString, <<>>, <<NL>>, CopySpecial, CopyEscape)
    BY <1>1 DEF pg_text_enc_copy_row
  <2>2. /\ <<Delimiter>> \in Seq(Nat) /\ NullString \in Seq(Nat) /\ <<>> \in Seq(Nat)
        /\ <<NL>> \in Seq(Nat) /\ \A c \in CopySpecial : CopyEscape[c] \in Nat
    <3>1. Delimiter \in Nat /\ NL \in Nat
      BY CopyAssumption DEF Byte, NL
    <3>2. NullString \in Seq(Nat)
      BY CopyAssumption, BytesCount
    <3>3. \A c \in CopySpecial : CopyEscape[c] \in Nat
      BY DEF CopyEscape, BACKSLASH
    <3> QED
      BY <3>1, <3>2, <3>3
  <2>3. EscapeRoom(CopySpecial, 0)
    BY <2>1 DEF CopyInv
  <2>4. /\ Base' /\ EscapeRoom(CopySpecial, 0)'
        /\ mode' \in {"encode", "escape", "decode"}
        /\ codec' = codec /\ cur' = 1 /\ word' = <<>>
        /\ mode' = "decode" => start' = 1
    BY <2>1, <2>2, <2>3, EncodeRowStep, Zenon
  <2>5. CopyInBounds'
    <3>1. Len(input') \in Nat
      BY <2>4 DEF Base
    <3> QED
      BY <2>4, <3>1 DEF CopyInBounds
  <2> QED
    BY <2>1, <2>4, <2>5 DEF CopyInv
<1>2. CASE CopyByte
  <2>1. /\ codec = "copy" /\ mode = "decode" /\ cur <= Len(input)
        /\ UNCHANGED <<codec, encVars, input, start, mode>>
    BY <1>2 DEF CopyByte, Decoding
  <2>2. /\ input \in Seq(Nat) /\ Len(input) \in Nat /\ start \in Nat \ {0}
        /\ word \in Seq(Nat) /\ Len(word) \in Nat
        /\ cur \in 1..Len(input) /\ start \in 1..cur /\ Len(word) <= cur - start
    BY <2>1 DEF Base, CopyInv, CopyInBounds
  <2>3. Base'
    BY <2>1, <2>2, DecodeKeeps
  <2>4. \E c \in Nat : word' = Append(word, c) /\ cur' \in (cur + 1)..(Len(input) + 1)
    <3>1. CASE input[cur] = BACKSLASH
      <4>1. cur < Len(input) /\ word' = Append(word, EscapeAt(cur).c) /\ cur' = EscapeAt(cur).next
        BY <1>2, <3>1 DEF CopyByte
      <4>2. EscapeAt(cur).next \in (cur + 2)..(Len(input) + 1) /\ EscapeAt(cur).c \in Nat
        BY <2>2, <4>1, EscapeForward
      <4>3. cur' \in (cur + 1)..(Len(input) + 1)
        BY <2>2, <4>1, <4>2
      <4> QED
        BY <4>1, <4>2, <4>3
    <3>2. CASE input[cur] # BACKSLASH
      <4>1. word' = Append(word, input[cur]) /\ cur' = cur + 1
        BY <1>2, <3>2 DEF CopyByte
      <4>2. input[cur] \in Nat
        BY <2>2, ElementOfSeq
      <4> QED
        BY <2>2, <4>1, <4>2
    <3> QED
      BY <3>1, <3>2
  <2>5. word' \in Seq(Nat) /\ Len(word') = Len(word) + 1
    BY <2>2, <2>4, AppendProperties
  <2>6. CopyInBounds'
    BY <2>1, <2>2, <2>4, <2>5 DEF CopyInBounds
  <2> QED
    BY <2>1, <2>3, <2>5, <2>6 DEF CopyInv, EscapeRoom
<1>3. CASE CopyDelimiter
  <2>1. /\ codec = "copy" /\ mode = "decode" /\ cur <= Len(input)
        /\ UNCHANGED <<codec, encVars, input, mode>>
        /\ word' = <<>> /\ cur' = cur + 1 /\ start' = cur + 1
    BY <1>3 DEF CopyDelimiter, Decoding
  <2>2. input \in Seq(Nat) /\ Len(input) \in Nat /\ cur \in 1..Len(input)
    BY <2>1 DEF Base, CopyInv, CopyInBounds
  <2>3. Base'
    BY <2>1, <2>2, DecodeKeeps
  <2>4. CopyInBounds' /\ word' \in Seq(Nat)
    BY <2>1, <2>2 DEF CopyInBounds
  <2> QED
    BY <2>1, <2>3, <2>4 DEF CopyInv, EscapeRoom
<1>4. CASE CopyRowEnd
  <2>1. codec = "copy" /\ mode = "decode" /\ UNCHANGED <<codec, encVars, input, start>>
    BY <1>4 DEF CopyRowEnd, Decoding, Raise
  <2>2. /\ input \in Seq(Nat) /\ Len(input) \in Nat /\ start \in Nat \ {0}
        /\ word \in Seq(Nat) /\ cur \in 1..(Len(input) + 1) /\ start \in 1..cur
        /\ Len(word) <= cur - start
    BY <2>1 DEF Base, CopyInv, CopyInBounds
  <2>3. CASE Raise
    <3>1. mode' = "error" /\ word' = word /\ cur' = cur
      BY <2>3 DEF Raise, decVars
    <3>2. Base'
      BY <2>1, <2>2, <3>1, DecodeKeeps
    <3> QED
      BY <2>1, <2>2, <3>1, <3>2 DEF CopyInv, CopyInBounds, EscapeRoom
  <2>4. CASE ~Raise
    <3>1. mode' = "done" /\ word' = <<>> /\ cur' = Len(input) + 1
      BY <1>4, <2>4 DEF CopyRowEnd
    <3>2. Base'
      BY <2>1, <2>2, <3>1, DecodeKeeps
    <3>3. CopyInBounds' /\ word' \in Seq(Nat)
      BY <2>1, <2>2, <3>1 DEF CopyInBounds
    <3> QED
      BY <2>1, <3>1, <3>2, <3>3 DEF CopyInv, EscapeRoom
  <2> QED
    BY <2>3, <2>4
<1> QED
  BY <1>1, <1>2, <1>3, <1>4 DEF CopyNext

RecordInv ==
  codec = "record" => word \in Seq(Nat) /\ EscapeRoom(RecordSpecial, 0) /\ RecordInBounds

(* Where the decoder of records goes on: over a byte that is not NUL, with *)
(* at most one byte more in the word.                                      *)
LEMMA RecordMoves ==
  ASSUME Base, RecordInv, codec = "record", mode = "decode",
         UNCHANGED <<codec, encVars, input, start, mode>>,
         word' \in Seq(Nat), Len(word') < cur',
         cur' \in 1..(Len(input) + 1)
  PROVE  Base' /\ RecordInv'
<1>1. Base'
  BY DecodeKeeps DEF Base
<1>2. RecordInBounds'
  BY DEF RecordInBounds
<1> QED
  BY <1>1, <1>2 DEF RecordInv, EscapeRoom

LEMMA RecordStops ==
  ASSUME Base, RecordInv, codec = "record", mode = "decode",
         UNCHANGED <<codec, encVars, input, start, cur, word>>,
         mode' \in {"done", "error"}, mode' = "done" => At(cur) = NUL
  PROVE  Base' /\ RecordInv'
<1>1. Base'
  BY DecodeKeeps DEF Base
<1>2. RecordInBounds'
  <2>1. At(cur)' = At(cur)
    BY DEF At
  <2> QED
    BY <2>1 DEF RecordInv, RecordInBounds
<1> QED
  BY <1>1, <1>2 DEF RecordInv, EscapeRoom

(* One step of pg_text_enc_record or pg_text_dec_record. *)
LEMMA RecordStep ==
  ASSUME Base, RecordInv, RecordNext
  PROVE  Base' /\ codec = "record" /\ codec' = "record" /\ RecordInv'
<1>1. CASE pg_text_enc_record
  <2>1. codec = "record" /\ EncodeRow(<<COMMA>>, <<>>, <<QUOTE>>, <<CLOSE>>, RecordSpecial, RecordEscape)
    BY <1>1 DEF pg_text_enc_record
  <2>2. /\ <<COMMA>> \in Seq(Nat) /\ <<QUOTE>> \in Seq(Nat) /\ <<>> \in Seq(Nat)
        /\ <<CLOSE>> \in Seq(Nat) /\ \A c \in RecordSpecial : RecordEscape[c] \in Nat
    BY DEF RecordEscape, RecordSpecial, COMMA, QUOTE, CLOSE, BACKSLASH
  <2>3. EscapeRoom(RecordSpecial, 0)
    BY <2>1 DEF RecordInv
  <2>4. /\ Base' /\ EscapeRoom(RecordSpecial, 0)'
        /\ mode' \in {"encode", "escape", "decode"}
        /\ codec' = codec /\ cur' = 1 /\ word' = <<>>
    BY <2>1, <2>2, <2>3, EncodeRowStep, Zenon
  <2>5. RecordInBounds'
    <3>1. Len(input') \in Nat
      BY <2>4 DEF Base
    <3> QED
      BY <2>4, <3>1 DEF RecordInBounds
  <2> QED
    BY <2>1, <2>4, <2>5 DEF RecordInv
<1>2. CASE RecordLead \/ RecordNull \/ RecordField \/ RecordByte \/ RecordTrail
  <2>1. codec = "record" /\ mode = "decode" /\ codec' = "record"
    BY <1>2 DEF RecordLead, RecordNull, RecordField, RecordByte, RecordTrail, RecordAt, EndField, Take, Raise
  <2> SUFFICES Base' /\ RecordInv'
    BY <2>1
  <2>2. /\ input \in Seq(Nat) /\ Len(input) \in Nat /\ word \in Seq(Nat) /\ Len(word) \in Nat
        /\ cur \in 1..(Len(input) + 1) /\ cur \in Int /\ cur + 1 \in Int /\ Len(word) < cur
    BY <2>1 DEF Base, RecordInv, RecordInBounds
  <2>3. /\ At(cur) \in Nat /\ At(cur + 1) \in Nat
        /\ At(cur) # NUL => cur \in 1..Len(input)
        /\ At(cur + 1) # NUL => cur + 1 \in 1..Len(input)
    BY <2>2, AtCounts, Zenon
  <2>4. Raise => Base' /\ RecordInv'
    BY <2>1, RecordStops DEF Raise, decVars
  <2>5. ASSUME NEW n \in {0, 1}, NEW s, Take(n, s), At(cur + n) # NUL
        PROVE  Base' /\ RecordInv'
    <3>1. At(cur + n) \in Nat /\ cur + n \in 1..Len(input)
      <4>1. CASE n = 0
        <5>1. cur + n = cur
          BY <2>2, <4>1
        <5> QED
          BY <2>3, <2>5, <5>1, Zenon
      <4>2. CASE n = 1
        BY <2>3, <2>5, <4>2, Zenon
      <4> QED
        BY <4>1, <4>2
    <3>2. word' = Append(word, At(cur + n)) /\ cur' = cur + n + 1
          /\ UNCHANGED <<codec, encVars, input, start, mode>>
      BY <2>5 DEF Take
    <3>3. word' \in Seq(Nat) /\ Len(word') = Len(word) + 1
      BY <2>2, <3>1, <3>2, AppendProperties
    <3>4. Len(word') < cur' /\ cur' \in 1..(Len(input) + 1)
      BY <2>2, <3>1, <3>2, <3>3
    <3> QED
      BY <2>1, <3>2, <3>3, <3>4, RecordMoves, Zenon
  <2>6. ASSUME UNCHANGED <<codec, encVars, input, start, mode>>, cur' = cur + 1, At(cur) # NUL,
               word' = word \/ word' = <<>>
        PROVE  Base' /\ RecordInv'
    <3>1. word' \in Seq(Nat) /\ Len(word') < cur' /\ cur' \in 1..(Len(input) + 1)
      <4>1. cur \in 1..Len(input)
        BY <2>3, <2>6, Zenon
      <4> QED
        <5>1. CASE word' = word
          BY <2>2, <2>6, <4>1, <5>1
        <5>2. CASE word' = <<>>
          <6>1. Len(<<>>) = 0 /\ <<>> \in Seq(Nat)
            OBVIOUS
          <6> QED
            BY <2>2, <2>6, <4>1, <5>2, <6>1
        <5> QED
          BY <2>6, <5>1, <5>2
    <3> QED
      BY <2>1, <2>6, <3>1, RecordMoves, Zenon
  <2>7. CASE RecordLead
    <3>1. record_isspace(At(cur)) \/ At(cur) = OPEN => At(cur) # NUL
      BY DEF record_isspace, SPACE, TAB, NL, CR, VT, FF, OPEN, NUL
    <3> QED
      BY <2>1, <2>4, <2>6, <2>7, <3>1 DEF RecordLead
  <2>8. FieldEnd(cur) => At(cur) # NUL
    BY DEF FieldEnd, COMMA, CLOSE, NUL
  <2>9. ASSUME NEW f, EndField(f), FieldEnd(cur) PROVE Base' /\ RecordInv'
    BY <2>6, <2>8, <2>9 DEF EndField
  <2>10. CASE RecordNull
    <3>1. CASE FieldEnd(cur)
      BY <2>9, <2>10, <3>1 DEF RecordNull
    <3>2. CASE ~FieldEnd(cur)
      <4>1. UNCHANGED <<codec, encVars, input, start, cur, word, mode>>
        BY <2>10, <3>2 DEF RecordNull
      <4> QED
        BY <2>1, <2>2, <4>1, RecordMoves
    <3> QED
      BY <3>1, <3>2
  <2>11. CASE RecordField
    BY <2>9, <2>11 DEF RecordField
  <2>12. CASE RecordByte
    <3>1. CASE At(cur) = NUL
      <4>1. Raise
        BY <2>12, <3>1 DEF RecordByte, NUL, BACKSLASH, QUOTE
      <4> QED
        BY <2>4, <4>1
    <3>2. CASE At(cur) = BACKSLASH
      <4>1. IF At(cur + 1) = NUL THEN Raise ELSE Take(1, state)
        BY <2>12, <3>2 DEF RecordByte, NUL, BACKSLASH, QUOTE
      <4> QED
        BY <2>4, <2>5, <4>1
    <3>3. CASE At(cur) = QUOTE
      <4>1. IF state = "in" /\ At(cur + 1) = QUOTE
            THEN Take(1, "in")
            ELSE /\ cur' = cur + 1
                 /\ UNCHANGED <<codec, encVars, input, start, word, stack, row, mode>>
        BY <2>12, <3>3 DEF RecordByte, NUL, BACKSLASH, QUOTE
      <4>2. QUOTE # NUL
        BY DEF QUOTE, NUL
      <4>3. CASE Take(1, "in") /\ At(cur + 1) = QUOTE
        BY <2>5, <4>2, <4>3
      <4>4. CASE cur' = cur + 1 /\ UNCHANGED <<codec, encVars, input, start, word, stack, row, mode>>
        BY <2>6, <3>3, <4>2, <4>4
      <4> QED
        BY <4>1, <4>3, <4>4
    <3>4. CASE At(cur) # NUL /\ At(cur) # BACKSLASH /\ At(cur) # QUOTE
      <4>1. Take(0, state)
        BY <2>12, <3>4 DEF RecordByte
      <4>2. At(cur + 0) # NUL
        <5>1. cur + 0 = cur
          BY <2>2
        <5> QED
          BY <3>4, <5>1
      <4> QED
        BY <2>5, <4>1, <4>2
    <3> QED
      BY <3>1, <3>2, <3>3, <3>4
  <2>13. CASE RecordTrail
    <3>1. CASE At(cur) = NUL
      <4>1. mode' = "done" /\ UNCHANGED <<codec, encVars, input, start, decVars>>
        BY <2>13, <3>1 DEF RecordTrail, record_isspace, SPACE, TAB, NL, CR, VT, FF, NUL
      <4> QED
        BY <2>1, <3>1, <4>1, RecordStops DEF decVars
    <3>2. CASE At(cur) # NUL /\ record_isspace(At(cur))
      <4>1. cur' = cur + 1 /\ UNCHANGED <<codec, encVars, input, start, word, state, stack, row, mode>>
        BY <2>13, <3>2 DEF RecordTrail
      <4> QED
        BY <2>6, <3>2, <4>1
    <3>3. CASE At(cur) # NUL /\ ~record_isspace(At(cur))
      <4>1. Raise
        BY <2>13, <3>3 DEF RecordTrail
      <4> QED
        BY <2>4, <4>1
    <3> QED
      BY <3>1, <3>2, <3>3
  <2> QED
    BY <1>2, <2>7, <2>10, <2>11, <2>12, <2>13
<1> QED
  BY <1>1, <1>2 DEF RecordNext

-----------------------------------------------------------------------------
(* The binary coders *)

LEMMA NumbersWritten ==
  /\ write_nbo32(-1) \in Seq(Nat)
  /\ \A n \in Nat : write_nbo16(n) \in Seq(Nat) /\ write_nbo32(n) \in Seq(Nat)
<1>1. write_nbo32(-1) \in Seq(Nat)
  BY SMT DEF write_nbo32
<1>2. ASSUME NEW n \in Nat PROVE write_nbo16(n) \in Seq(Nat) /\ write_nbo32(n) \in Seq(Nat)
  <2>1. n # -1 /\ \A m \in Nat \ {0} : n \div m \in Nat /\ n % m \in Nat /\ (n \div m) % 256 \in Nat
    BY SMT
  <2>2. \A a, b, c, d \in Nat : <<a, b, c, d>> \in Seq(Nat) /\ <<a, b>> \in Seq(Nat)
    BY SMT
  <2>3. n \div 16777216 \in Nat /\ (n \div 65536) % 256 \in Nat /\ (n \div 256) % 256 \in Nat /\ n % 256 \in Nat
    BY <2>1, SMT
  <2>4. write_nbo32(n) = <<n \div 16777216, (n \div 65536) % 256, (n \div 256) % 256, n % 256>>
    BY <2>1, SMT DEF write_nbo32
  <2>5. write_nbo32(n) \in Seq(Nat)
    BY <2>2, <2>3, <2>4, SMT
  <2>6. write_nbo16(n) \in Seq(Nat)
    BY <2>1, <2>2, SMT DEF write_nbo16
  <2> QED
    BY <2>5, <2>6
<1> QED
  BY <1>1, <1>2

LEMMA NumbersRead ==
  ASSUME input \in Seq(Nat), NEW k \in Int
  PROVE  read_nbo16(k) \in Int /\ read_nbo32(k) \in Int
<1> DEFINE a == At(k)
           b == At(k + 1)
           c == At(k + 2)
           d == At(k + 3)
<1>1. k + 1 \in Int /\ k + 2 \in Int /\ k + 3 \in Int
  OBVIOUS
<1>2. a \in Nat /\ b \in Nat /\ c \in Nat /\ d \in Nat
  BY <1>1, AtCounts, Zenon
<1>3. /\ read_nbo16(k) = (IF a > 127 THEN a - 256 ELSE a) * 256 + b
      /\ read_nbo32(k) = (IF a > 127 THEN a - 256 ELSE a) * 16777216 + b * 65536 + c * 256 + d
  BY SMT DEF read_nbo16, read_nbo32
<1> HIDE DEF a, b, c, d
<1> QED
  BY <1>2, <1>3, SMT

LEMMA FieldWritten ==
  ASSUME Base, i <= Len(value)
  PROVE  input \o write_nbo32(-1) \in Seq(Nat)
         /\ input \o (write_nbo32(Len(value[i].str)) \o value[i].str) \in Seq(Nat)
         /\ (input \o write_nbo32(Len(value[i].str))) \o value[i].str \in Seq(Nat)
<1>1. \A s, t \in Seq(Nat) : s \o t \in Seq(Nat)
  BY ConcatProperties
<1>2. value[i].str \in Seq(Nat) /\ input \in Seq(Nat)
  BY FieldStrings DEF Base
<1>3. Len(value[i].str) \in Nat
  BY <1>2
<1>4. write_nbo32(-1) \in Seq(Nat) /\ write_nbo32(Len(value[i].str)) \in Seq(Nat)
  BY <1>3, NumbersWritten, Zenon
<1> QED
  BY <1>1, <1>2, <1>4, Zenon

BinaryInv ==
  codec = "binary" => mode # "escape" /\ (mode = "encode" => start = 1) /\ BinaryInBounds

(* One step of pg_bin_enc_copy_row or pg_bin_dec_copy_row. *)
LEMMA BinaryStep ==
  ASSUME Base, BinaryInv, BinaryNext
  PROVE  Base' /\ codec = "binary" /\ codec' = "binary" /\ BinaryInv'
<1>1. CASE BinaryCount
  <2>1. codec = "binary" /\ mode = "encode" /\ codec' = codec
    BY <1>1 DEF BinaryCount, Raise
  <2>2. start = 1 /\ cur = 1 /\ Len(input) \in Nat
    BY <2>1 DEF Base, BinaryInv
  <2>3. CASE Raise
    <3>1. mode' = "error" /\ cur' = cur /\ UNCHANGED <<encVars, input, start>>
      BY <2>3 DEF Raise, decVars
    <3>2. Base'
      BY <2>2, <3>1, DecodeKeeps
    <3> QED
      BY <2>1, <2>2, <3>1, <3>2 DEF BinaryInv, BinaryInBounds
  <2>4. CASE ~Raise
    <3>1. input' = write_nbo16(Len(value)) /\ UNCHANGED <<codec, encVars, start, decVars, mode>>
      BY <1>1, <2>4 DEF BinaryCount
    <3>2. Len(value) \in Nat
      BY DEF Base
    <3>3. input' \in Seq(Nat)
      BY <3>1, <3>2, NumbersWritten
    <3> QED
      BY <2>1, <2>2, <3>1, <3>3 DEF Base, BinaryInv, BinaryInBounds, encVars, decVars
  <2> QED
    BY <2>3, <2>4
<1>2. CASE BinaryField
  <2>1. codec = "binary" /\ mode = "encode" /\ i <= Len(value)
    BY <1>2 DEF BinaryField
  <2>2. i' = i + 1 /\ UNCHANGED <<codec, value, j, ptr1, ptr2, start, cur, word, mode>>
    BY <1>2 DEF BinaryField, decVars
  <2>3. \/ input' = input \o write_nbo32(-1)
        \/ input' = input \o (write_nbo32(Len(value[i].str)) \o value[i].str)
    BY <1>2 DEF BinaryField
  <2>4. input' \in Seq(Nat)
    BY <2>1, <2>3, FieldWritten, Zenon
  <2> QED
    BY <2>1, <2>2, <2>4 DEF Base, BinaryInv, BinaryInBounds
<1>3. CASE codec = "binary" /\ input # <<>> /\ EncodeEnd(<<>>)
  <2>1. input \o <<>> = input
    BY ConcatEmptySeq DEF Base
  <2>2. /\ mode = "encode" /\ mode' = "decode" /\ input' = input /\ start' = 1
        /\ cur' = cur /\ UNCHANGED <<codec, encVars>>
    BY <1>3, <2>1 DEF EncodeEnd, decVars
  <2>3. Base'
    BY <2>2, DecodeKeeps
  <2> QED
    BY <1>3, <2>2, <2>3 DEF Base, BinaryInv, BinaryInBounds
<1>4. CASE pg_bin_dec_copy_row
  <2>1. codec = "binary" /\ mode = "decode"
    BY <1>4 DEF pg_bin_dec_copy_row, BinaryHeader, BinaryFieldCount, BinaryFieldData, BinaryEnd, BinaryAt
  <2>2. /\ input \in Seq(Nat) /\ Len(input) \in Nat
        /\ cur \in 1..(Len(input) + 1) /\ start \in 1..cur
        /\ cur \in Int /\ cur + 15 \in Int
    BY <2>1 DEF Base, BinaryInv, BinaryInBounds
  <2>3. read_nbo32(cur) \in Int /\ read_nbo32(cur + 15) \in Int
    BY <2>2, NumbersRead, Zenon
  <2>4. ASSUME UNCHANGED <<codec, encVars, input>>, mode' \in {"decode", "done", "error"},
               cur' \in 1..(Len(input) + 1), start' \in 1..cur'
        PROVE  Base' /\ codec = "binary" /\ codec' = "binary" /\ BinaryInv'
    <3>1. Base'
      BY <2>2, <2>4, DecodeKeeps
    <3> QED
      BY <2>1, <2>4, <3>1 DEF BinaryInv, BinaryInBounds
  <2>5. ASSUME Raise \/ (mode' = "done" /\ UNCHANGED <<codec, encVars, input, start, decVars>>)
        PROVE  Base' /\ codec = "binary" /\ codec' = "binary" /\ BinaryInv'
    BY <2>2, <2>4, <2>5 DEF Raise, decVars
  <2>6. ASSUME NEW n \in Nat, NEW s, Move(n, s), n <= Left(cur), start' = start \/ start' = cur
        PROVE  Base' /\ codec = "binary" /\ codec' = "binary" /\ BinaryInv'
    <3>1. cur' = cur + n /\ UNCHANGED <<codec, encVars, input, mode>>
      BY <2>6 DEF Move
    <3>2. cur' \in 1..(Len(input) + 1) /\ start' \in 1..cur'
      BY <2>2, <2>6, <3>1 DEF Left
    <3> QED
      BY <2>1, <2>4, <3>1, <3>2
  <2>7. CASE BinaryHeader
    <3>1. CASE Move(19 + read_nbo32(cur + 15), "count") /\ UNCHANGED <<start, row>>
               /\ ~(read_nbo32(cur + 15) < 0) /\ ~(Left(cur) - 19 < read_nbo32(cur + 15))
      <4> DEFINE m == read_nbo32(cur + 15)
      <4>1. m \in Int /\ ~(m < 0) /\ ~(Left(cur) - 19 < m) /\ Left(cur) \in Int
        BY <2>2, <2>3, <3>1 DEF Left
      <4>2. Move(19 + m, "count") /\ start' = start
        BY <3>1
      <4> HIDE DEF m
      <4>3. 19 + m \in Nat /\ 19 + m <= Left(cur)
        BY <4>1
      <4> QED
        BY <2>6, <4>2, <4>3
    <3>2. CASE Move(0, "count") /\ UNCHANGED <<start, row>>
      <4>1. 0 <= Left(cur)
        BY <2>2 DEF Left
      <4> QED
        BY <2>6, <3>2, <4>1
    <3> QED
      BY <2>5, <2>7, <3>1, <3>2 DEF BinaryHeader
  <2>8. CASE BinaryFieldCount
    <3>1. CASE ~(Left(cur) < 2) /\ start' = cur
               /\ Move(2, IF read_nbo16(cur) = -1 THEN "trailer" ELSE "field")
      <4>1. 2 <= Left(cur)
        BY <2>2, <3>1 DEF Left
      <4> QED
        BY <2>6, <3>1, <4>1
    <3> QED
      BY <2>5, <2>8, <3>1 DEF BinaryFieldCount
  <2>9. CASE BinaryFieldData
    <3> DEFINE m == read_nbo32(cur)
    <3>1. CASE ~(Left(cur) < 4) /\ ~(m < -1) /\ ~(Left(cur) - 4 < m) /\ start' = start
               /\ Move(IF m = -1 THEN 4 ELSE 4 + m, "field")
      <4>1. m \in Int /\ Left(cur) \in Int
        BY <2>2, <2>3 DEF Left
      <4> HIDE DEF m
      <4> DEFINE n == IF m = -1 THEN 4 ELSE 4 + m
      <4>2. n \in Nat /\ n <= Left(cur)
        BY <3>1, <4>1
      <4>3. Move(n, "field")
        BY <3>1
      <4> HIDE DEF n
      <4> QED
        BY <2>6, <3>1, <4>2, <4>3
    <3> QED
      BY <2>5, <2>9, <3>1 DEF BinaryFieldData
  <2>10. CASE BinaryEnd
    BY <2>5, <2>10 DEF BinaryEnd
  <2> QED
    BY <1>4, <2>7, <2>8, <2>9, <2>10 DEF pg_bin_dec_copy_row
<1> QED
  BY <1>1, <1>2, <1>3, <1>4 DEF BinaryNext, pg_bin_enc_copy_row

LEMMA DimsWritten ==
  ASSUME NEW v \in BinArrayValues
  PROVE  DimsText(v) \in Seq(Nat)
<1>1. ndim(v) \in Nat /\ \A d \in 1..ndim(v) : Size(v, d) \in Nat
  BY BinArraysNested, Zenon
<1>2. \A n \in Nat : write_nbo32(n) \in Seq(Nat) /\ Len(write_nbo32(n)) = 4
  <2>1. ASSUME NEW n \in Nat PROVE Len(write_nbo32(n)) = 4
    <3>1. write_nbo32(n) = <<n \div 16777216, (n \div 65536) % 256, (n \div 256) % 256, n % 256>>
      BY SMT DEF write_nbo32
    <3> QED
      BY <3>1, SMT
  <2> QED
    BY <2>1, NumbersWritten, Zenon
<1> DEFINE pair(d) == write_nbo32(dim_sizes(v)[d]) \o write_nbo32(1)
<1>3. \A d \in 1..ndim(v) : pair(d) \in Seq(Nat) /\ Len(pair(d)) = 8
  <2> TAKE d \in 1..ndim(v)
  <2>1. dim_sizes(v)[d] \in Nat /\ 1 \in Nat
    BY <1>1 DEF dim_sizes
  <2> DEFINE s == write_nbo32(dim_sizes(v)[d])
             t == write_nbo32(1)
  <2>2. s \in Seq(Nat) /\ Len(s) = 4 /\ t \in Seq(Nat) /\ Len(t) = 4
    BY <1>2, <2>1, Zenon
  <2> HIDE DEF s, t
  <2>3. s \o t \in Seq(Nat) /\ Len(s \o t) = 8
    <3>1. \A x, y \in Seq(Nat) : x \o y \in Seq(Nat) /\ Len(x \o y) = Len(x) + Len(y)
      BY ConcatProperties
    <3>2. s \o t \in Seq(Nat) /\ Len(s \o t) = 4 + 4
      BY <2>2, <3>1, Zenon
    <3> QED
      BY <3>2
  <2>4. pair(d) = s \o t
    BY DEF s, t
  <2> QED
    BY <2>3, <2>4, Zenon
<1> HIDE DEF pair
<1>4. \A k \in 1..(8 * ndim(v)) : pair((k - 1) \div 8 + 1)[((k - 1) % 8) + 1] \in Nat
  <2> TAKE k \in 1..(8 * ndim(v))
  <2> DEFINE d == (k - 1) \div 8 + 1
             m == ((k - 1) % 8) + 1
  <2>1. d \in 1..ndim(v) /\ m \in 1..8
    BY <1>1
  <2> HIDE DEF d, m
  <2>2. pair(d)[m] \in Nat
    BY <1>3, <2>1, ElementOfSeq
  <2> QED
    BY <2>2 DEF d, m
<1>5. DimsText(v) = [k \in 1..(8 * ndim(v)) |-> pair((k - 1) \div 8 + 1)[((k - 1) % 8) + 1]]
  BY DEF DimsText, pair
<1> DEFINE n == 8 * ndim(v)
<1>6. n \in Nat
  BY <1>1
<1>7. DimsText(v) \in [1..n -> Nat]
  BY <1>4, <1>5, Zenon
<1> HIDE DEF n
<1>8. \A f \in [1..n -> Nat] : f \in Seq(Nat)
  BY <1>6
<1> QED
  BY <1>7, <1>8, Zenon

BinArrayInv ==
  IsBinArray =>
    /\ mode # "escape"
    /\ mode = "encode" => start = 1 /\ state = "ahead" /\ value \in BinArrayValues
    /\ mode = "decode" /\ state = "ahead" => cur = 1
    /\ mode = "decode" /\ state = "dims" => dims \in 0..MAXDIM
    /\ BinArrayInBounds

(* One step of pg_bin_enc_array. *)
LEMMA BinArrayEncodeStep ==
  ASSUME Base, BinArrayInv, pg_bin_enc_array
  PROVE  Base' /\ IsBinArray /\ codec' = codec /\ BinArrayInv'
<1>1. IsBinArray /\ mode = "encode" /\ codec' = codec
  BY DEF pg_bin_enc_array, BinArrayHeader, BinArrayItem, EncodeEnd, Raise
<1>2. /\ start = 1 /\ cur = 1 /\ word = <<>> /\ state = "ahead" /\ value \in BinArrayValues
      /\ input \in Seq(Nat) /\ Len(input) \in Nat
  BY <1>1 DEF Base, BinArrayInv
<1>3. ASSUME input' \in Seq(Nat), i' = i + 1,
             UNCHANGED <<codec, value, j, ptr1, ptr2, start, decVars, mode>>
      PROVE  Base' /\ BinArrayInv'
  BY <1>1, <1>2, <1>3 DEF Base, BinArrayInv, IsBinArray, BinArrayInBounds, decVars
<1>4. CASE BinArrayHeader
  <2>1. CASE Raise
    <3>1. mode' = "error" /\ cur' = cur /\ UNCHANGED <<encVars, input, start>>
      BY <2>1 DEF Raise, decVars
    <3>2. Base'
      BY <1>2, <3>1, DecodeKeeps
    <3> QED
      BY <1>1, <1>2, <3>1, <3>2 DEF BinArrayInv, IsBinArray, BinArrayInBounds
  <2>2. CASE ~Raise
    <3> DEFINE a == write_nbo32(ndim(value))
               b == write_nbo32(1)
               c == write_nbo32(ElemOid)
               d == DimsText(value)
    <3>1. /\ input' = ((a \o b) \o c) \o d
          /\ i = 1 /\ i' = 2
          /\ UNCHANGED <<codec, value, j, ptr1, ptr2, start, decVars, mode>>
      BY <1>4, <2>2 DEF BinArrayHeader
    <3>2. a \in Seq(Nat) /\ b \in Seq(Nat) /\ c \in Seq(Nat) /\ d \in Seq(Nat)
      <4>1. ndim(value) \in Nat /\ 1 \in Nat /\ ElemOid \in Nat
        BY <1>2, BinArraysNested, BinArrayAssumption
      <4> QED
        BY <1>2, <4>1, NumbersWritten, DimsWritten, Zenon
    <3> HIDE DEF a, b, c, d
    <3>3. \A s, t \in Seq(Nat) : s \o t \in Seq(Nat)
      BY ConcatProperties
    <3>4. input' \in Seq(Nat)
      BY <3>1, <3>2, <3>3, Zenon
    <3>5. i' = i + 1
      BY <3>1
    <3> QED
      BY <1>1, <1>3, <3>1, <3>4, <3>5
  <2> QED
    BY <2>1, <2>2
<1>5. CASE BinArrayItem
  <2>1. i \in 2..Len(value) /\ i' = i + 1 /\ UNCHANGED <<codec, value, j, ptr1, ptr2, start, decVars, mode>>
    BY <1>5 DEF BinArrayItem
  <2>2. \/ input' = input \o write_nbo32(-1)
        \/ input' = (input \o write_nbo32(Len(value[i].str))) \o value[i].str
        \/ input' = input
    BY <1>5 DEF BinArrayItem
  <2>3. i <= Len(value)
    BY <2>1
  <2>4. input' \in Seq(Nat)
    BY <1>2, <2>2, <2>3, FieldWritten, Zenon
  <2> QED
    BY <1>1, <1>3, <2>1, <2>4
<1>6. CASE IsBinArray /\ i > 1 /\ EncodeEnd(<<>>)
  <2>1. input \o <<>> = input
    BY <1>2, ConcatEmptySeq
  <2>2. /\ mode' = "decode" /\ input' = input /\ start' = 1
        /\ cur' = cur /\ state' = state /\ UNCHANGED <<codec, encVars>>
    BY <1>6, <2>1 DEF EncodeEnd, decVars
  <2>3. Base'
    BY <2>2, DecodeKeeps
  <2> QED
    BY <1>1, <1>2, <2>2, <2>3 DEF BinArrayInv, IsBinArray, BinArrayInBounds
<1> QED
  BY <1>1, <1>4, <1>5, <1>6 DEF pg_bin_enc_array

(* One step of pg_bin_dec_array. *)
LEMMA BinArrayDecodeStep ==
  ASSUME Base, BinArrayInv, pg_bin_dec_array
  PROVE  Base' /\ IsBinArray /\ codec' = codec /\ BinArrayInv'
<1>1. IsBinArray /\ mode = "decode" /\ codec' = codec
  BY DEF pg_bin_dec_array, BinArrayAhead, BinArrayDims, BinArrayRead, BinArrayEnd, BinArrayAt, Raise, Move
<1> SUFFICES Base' /\ BinArrayInv'
  BY <1>1
<1>2. /\ input \in Seq(Nat) /\ Len(input) \in Nat
      /\ cur \in 1..(Len(input) + 1) /\ start \in 1..cur
      /\ cur \in Int /\ Left(cur) \in Int /\ Left(cur) = Len(input) + 1 - cur
  BY <1>1 DEF Base, BinArrayInv, BinArrayInBounds, Left
<1>3. ASSUME UNCHANGED <<encVars, input>>, mode' \in {"done", "error"}, cur' = cur, start' = start
      PROVE  Base' /\ BinArrayInv'
  <2>1. Base'
    BY <1>2, <1>3, DecodeKeeps
  <2> QED
    BY <1>1, <1>2, <1>3, <2>1 DEF BinArrayInv, IsBinArray, BinArrayInBounds
<1>4. ASSUME Raise PROVE Base' /\ BinArrayInv'
  BY <1>3, <1>4 DEF Raise, decVars
<1>5. ASSUME UNCHANGED <<encVars, input, mode>>, state' = "items",
             cur' \in cur..(Len(input) + 1), start' = start \/ start' = cur'
      PROVE  Base' /\ BinArrayInv'
  <2>1. start' \in 1..cur' /\ cur' \in 1..(Len(input) + 1)
    BY <1>2, <1>5
  <2>2. Base'
    BY <1>1, <1>5, <2>1, DecodeKeeps
  <2> QED
    BY <1>1, <1>5, <2>1, <2>2 DEF BinArrayInv, IsBinArray, BinArrayInBounds
<1>6. CASE BinArrayAhead
  <2>1. CASE ~Raise
    <3>1. /\ state = "ahead" /\ ~(Left(cur) < 12) /\ read_nbo32(cur) \in 0..MAXDIM
          /\ Move(12, "dims") /\ start' = start
      BY <1>6, <2>1 DEF BinArrayAhead, BinArrayAt
    <3>2. cur = 1
      BY <1>1, <3>1 DEF BinArrayInv
    <3>3. cur' = cur + 12 /\ state' = "dims" /\ UNCHANGED <<encVars, input, mode>>
      BY <3>1 DEF Move
    <3>4. dims' \in 0..MAXDIM
      <4>1. read_nbo32(1)' = read_nbo32(1)
        BY <3>3, SMT DEF read_nbo32, At
      <4>2. dims' = dims /\ dims \in 0..MAXDIM
        BY <3>1, <3>2, <4>1 DEF dims
      <4> QED
        BY <4>2
    <3>5. Base'
      BY <1>1, <1>2, <3>1, <3>3, DecodeKeeps
    <3>6. cur' \in 1..(Len(input) + 1) /\ start' \in 1..cur'
      BY <1>2, <3>1, <3>3
    <3> QED
      BY <1>1, <3>3, <3>4, <3>5, <3>6 DEF BinArrayInv, IsBinArray, BinArrayInBounds
  <2> QED
    BY <1>4, <2>1
<1>7. CASE BinArrayDims
  <2>1. CASE ~Raise
    <3>1. /\ state = "dims" /\ ~(Left(cur) < 8 * dims)
          /\ cur' = cur + 8 * dims /\ start' = cur + 8 * dims /\ state' = "items"
          /\ UNCHANGED <<encVars, input, mode>>
      BY <1>7, <2>1 DEF BinArrayDims, BinArrayAt
    <3>2. dims \in 0..6
      BY <1>1, <3>1 DEF BinArrayInv, MAXDIM
    <3> HIDE DEF dims
    <3>3. cur' \in cur..(Len(input) + 1) /\ start' = cur'
      BY <1>2, <3>1, <3>2
    <3> QED
      BY <1>5, <3>1, <3>3
  <2> QED
    BY <1>4, <2>1
<1>8. CASE BinArrayRead
  <2> DEFINE m == read_nbo32(cur)
  <2>1. m \in Int
    BY <1>2, NumbersRead
  <2>2. CASE ~Raise
    <3>1. /\ state = "items" /\ ~(Left(cur) < 4) /\ ~(m < -1) /\ ~(Left(cur) - 4 < m)
          /\ cur' = cur + 4 + (IF m = -1 THEN 0 ELSE m)
          /\ UNCHANGED <<encVars, input, start, state, mode>>
      BY <1>8, <2>2 DEF BinArrayRead, BinArrayAt
    <3> HIDE DEF m
    <3>2. cur' \in cur..(Len(input) + 1)
      BY <1>2, <2>1, <3>1
    <3> QED
      BY <1>5, <3>1, <3>2
  <2> QED
    BY <1>4, <2>2
<1>9. CASE BinArrayEnd
  <2>1. CASE ~Raise
    <3>1. mode' = "done" /\ UNCHANGED <<encVars, input, start, cur>>
      BY <1>9, <2>1 DEF BinArrayEnd
    <3> QED
      BY <1>3, <3>1
  <2> QED
    BY <1>4, <2>1
<1> QED
  BY <1>6, <1>7, <1>8, <1>9 DEF pg_bin_dec_array

-----------------------------------------------------------------------------
(* All coders *)

ArrayInv == IsArray => EscapeRoom(ArraySpecial, 1)
IdentifierInv == codec = "identifier" => mode # "escape"

LEMMA ArrayStep ==
  ASSUME Base, ArrayInv, ArrayNext
  PROVE  Base' /\ IsArray /\ codec' = codec /\ ArrayInv'
<1>1. CASE pg_text_enc_array
  BY <1>1, ArrayEncodeStep DEF ArrayInv
<1>2. CASE pg_text_dec_array
  <2>1. /\ IsArray /\ mode = "decode" /\ mode' \in {"decode", "done", "error"}
        /\ UNCHANGED <<codec, encVars, input, start>>
    <3>1. CASE SkipSpace \/ DimStart \/ DimItem \/ DimAssign \/ SpaceEnd
      BY <3>1 DEF SkipSpace, DimStart, DimItem, DimAssign, SpaceEnd, ArrayAt, GoTo, Raise
    <3>2. CASE ArrayStart \/ ReadSubarray \/ ReadByte \/ ArrayEnd
      BY <3>2 DEF ArrayStart, ReadSubarray, ReadByte, ArrayEnd, ArrayAt, Reading, Raise
    <3>3. CASE ReadElement \/ ReadPremature
      BY <3>3 DEF ReadElement, ReadPremature, ArrayAt, Reading, Return, Raise
    <3> QED
      BY <1>2, <3>1, <3>2, <3>3 DEF pg_text_dec_array
  <2>2. Base'
    BY <2>1, DecodeKeeps DEF Base
  <2> QED
    BY <2>1, <2>2 DEF ArrayInv, EscapeRoom
<1> QED
  BY <1>1, <1>2 DEF ArrayNext

LEMMA BinArrayStep ==
  ASSUME Base, BinArrayInv, BinArrayNext
  PROVE  Base' /\ IsBinArray /\ codec' = codec /\ BinArrayInv'
  BY BinArrayEncodeStep, BinArrayDecodeStep DEF BinArrayNext

LEMMA IdentifierStep ==
  ASSUME Base, IdentifierInv, IdentifierNext
  PROVE  Base' /\ codec = "identifier" /\ codec' = "identifier" /\ IdentifierInv'
<1>1. CASE pg_text_enc_identifier
  <2>1. codec = "identifier" /\ mode # "escape"
    BY <1>1 DEF pg_text_enc_identifier, IdentifierInv
  <2>2. CASE mode = "encode" /\ Raise
    <3>1. mode' = "error" /\ UNCHANGED <<codec, encVars, input, start>>
      BY <2>2 DEF Raise
    <3>2. Base'
      BY <3>1, DecodeKeeps DEF Base
    <3> QED
      BY <2>1, <3>1, <3>2 DEF IdentifierInv
  <2>3. CASE \/ EncodeString(<<DOT>>, <<QUOTE>>) \/ EncodeByte(IdentifierSpecial, IdentifierEscape)
             \/ EncodeStringEnd(<<QUOTE>>) \/ EncodeEnd(<<>>)
    <3>1. EncodeRow(<<DOT>>, <<>>, <<QUOTE>>, <<>>, IdentifierSpecial, IdentifierEscape)
      BY <2>3 DEF EncodeRow
    <3>2. /\ <<DOT>> \in Seq(Nat) /\ <<QUOTE>> \in Seq(Nat) /\ <<>> \in Seq(Nat)
          /\ \A c \in IdentifierSpecial : IdentifierEscape[c] \in Nat
      BY DEF DOT, QUOTE, IdentifierEscape, IdentifierSpecial
    <3>3. EscapeRoom(IdentifierSpecial, 0)
      BY <2>1 DEF EscapeRoom
    <3>4. Base' /\ codec' = codec
      BY <3>1, <3>2, <3>3, EncodeRowStep, Zenon
    <3>5. mode' # "escape"
      BY <2>1, <2>3 DEF EncodeString, EncodeByte, EncodeStringEnd, EncodeEnd
    <3> QED
      BY <2>1, <3>4, <3>5 DEF IdentifierInv
  <2> QED
    BY <1>1, <2>2, <2>3 DEF pg_text_enc_identifier
<1>2. CASE IdentifierDot \/ IdentifierByte \/ IdentifierEnd
  <2>1. /\ codec = "identifier" /\ mode' \in {"decode", "done", "error"}
        /\ UNCHANGED <<codec, encVars, input, start>>
    BY <1>2 DEF IdentifierDot, IdentifierByte, IdentifierEnd, InName, IdentifierDecoding
  <2>2. Base'
    BY <2>1, DecodeKeeps DEF Base
  <2> QED
    BY <2>1, <2>2 DEF IdentifierInv
<1> QED
  BY <1>1, <1>2 DEF IdentifierNext

(* The inductive invariant: what holds of every coder, and what each of    *)
(* them needs of its own states.                                           *)
CodersInv ==
  Base /\ CopyInv /\ RecordInv /\ BinaryInv /\ ArrayInv /\ BinArrayInv /\ IdentifierInv

LEMMA CodersStart == Init => CodersInv
<1> SUFFICES ASSUME Init PROVE CodersInv
  OBVIOUS
<1>1. ASSUME NEW name, NEW Values, NEW Texts, NEW prefix \in Seq(Nat), NEW first,
             CoderInit(name, Values, Texts, prefix, first),
             Values \subseteq Seq(Fields), Texts \subseteq Seq(Byte)
      PROVE  /\ Base /\ codec = name /\ mode \in {"encode", "decode"}
             /\ cur = 1 /\ start = 1 /\ word = <<>> /\ state = first
             /\ mode = "encode" => value \in Values
  <2>1. <<>> \in Seq(Fields)
    OBVIOUS
  <2>2. input \in Seq(Nat) /\ value \in Seq(Fields)
    BY <1>1, <2>1, BytesCount DEF CoderInit
  <2> QED
    BY <1>1, <2>2 DEF CoderInit, Base
<1>2. <<>> \in Seq(Nat) /\ <<OPEN>> \in Seq(Nat)
  BY DEF OPEN
<1>3. {"copy", "binary", "record", "identifier"} \cap DOMAIN BinArrayCoders = {}
  BY CodersDistinct
<1>4. /\ Base /\ mode \in {"encode", "decode"} /\ cur = 1 /\ start = 1 /\ word = <<>>
      /\ codec \in DOMAIN BinArrayCoders =>
           state = "ahead" /\ (mode = "encode" => value \in BinArrayValues)
  <2>1. CASE CopyInit
    <3>1. CoderInit("copy", CopyRows, CopyTexts, <<>>, "scan")
      BY <2>1 DEF CopyInit
    <3>2. Base /\ codec = "copy" /\ mode \in {"encode", "decode"} /\ cur = 1 /\ start = 1 /\ word = <<>>
      BY <1>1, <1>2, <3>1, CopyAssumption, Zenon
    <3> QED
      BY <1>3, <3>2
  <2>2. CASE BinaryInit
    <3>1. CoderInit("binary", BinaryRows, BinaryTexts, <<>>, "header")
      BY <2>2 DEF BinaryInit
    <3>2. Base /\ codec = "binary" /\ mode \in {"encode", "decode"} /\ cur = 1 /\ start = 1 /\ word = <<>>
      BY <1>1, <1>2, <3>1, BinaryAssumption, Zenon
    <3> QED
      BY <1>3, <3>2
  <2>3. CASE RecordInit
    <3>1. CoderInit("record", RecordRows, RecordTexts, <<OPEN>>, "lead")
      BY <2>3 DEF RecordInit
    <3>2. Base /\ codec = "record" /\ mode \in {"encode", "decode"} /\ cur = 1 /\ start = 1 /\ word = <<>>
      BY <1>1, <1>2, <3>1, RecordAssumption, Zenon
    <3> QED
      BY <1>3, <3>2
  <2>4. CASE ArrayInit
    BY <1>1, <1>2, <2>4, ArrayAssumption, CodersDistinct DEF ArrayInit
  <2>5. CASE BinArrayInit
    BY <1>1, <1>2, <2>5, BinArrayAssumption DEF BinArrayInit
  <2>6. CASE IdentifierInit
    <3>1. CoderInit("identifier", Identifiers, IdentifierTexts, <<>>, "out")
      BY <2>6 DEF IdentifierInit
    <3>2. Base /\ codec = "identifier" /\ mode \in {"encode", "decode"} /\ cur = 1 /\ start = 1 /\ word = <<>>
      BY <1>1, <1>2, <3>1, IdentifierAssumption, Zenon
    <3> QED
      BY <1>3, <3>2
  <2> QED
    BY <2>1, <2>2, <2>3, <2>4, <2>5, <2>6 DEF Init
<1>5. Len(input) \in Nat /\ <<>> \in Seq(Nat) /\ Len(<<>>) = 0
  BY <1>4 DEF Base
<1>6. CopyInv
  BY <1>4, <1>5 DEF CopyInv, EscapeRoom, CopyInBounds
<1>7. RecordInv
  BY <1>4, <1>5 DEF RecordInv, EscapeRoom, RecordInBounds
<1>8. BinaryInv
  BY <1>4, <1>5 DEF BinaryInv, BinaryInBounds
<1>9. BinArrayInv
  BY <1>4, <1>5 DEF BinArrayInv, IsBinArray, BinArrayInBounds
<1>10. ArrayInv /\ IdentifierInv
  BY <1>4 DEF ArrayInv, IdentifierInv, EscapeRoom
<1> QED
  BY <1>4, <1>6, <1>7, <1>8, <1>9, <1>10 DEF CodersInv

LEMMA CodersStep == CodersInv /\ [Next]_rowVars => CodersInv'
<1> SUFFICES ASSUME CodersInv, [Next]_rowVars PROVE CodersInv'
  OBVIOUS
<1>1. Base /\ CopyInv /\ RecordInv /\ BinaryInv /\ ArrayInv /\ BinArrayInv /\ IdentifierInv
  BY DEF CodersInv
<1>2. /\ codec' = "copy" => RecordInv' /\ BinaryInv' /\ ArrayInv' /\ BinArrayInv' /\ IdentifierInv'
      /\ codec' = "record" => CopyInv' /\ BinaryInv' /\ ArrayInv' /\ BinArrayInv' /\ IdentifierInv'
      /\ codec' = "binary" => CopyInv' /\ RecordInv' /\ ArrayInv' /\ BinArrayInv' /\ IdentifierInv'
      /\ codec' = "identifier" => CopyInv' /\ RecordInv' /\ BinaryInv' /\ ArrayInv' /\ BinArrayInv'
      /\ codec' \in DOMAIN ArrayCoders => CopyInv' /\ RecordInv' /\ BinaryInv' /\ BinArrayInv' /\ IdentifierInv'
      /\ codec' \in DOMAIN BinArrayCoders => CopyInv' /\ RecordInv' /\ BinaryInv' /\ ArrayInv' /\ IdentifierInv'
  BY CodersDistinct DEF CopyInv, RecordInv, BinaryInv, ArrayInv, BinArrayInv, IdentifierInv, IsArray, IsBinArray
<1>3. CASE CopyNext
  BY <1>1, <1>2, <1>3, CopyStep DEF CodersInv
<1>4. CASE BinaryNext
  BY <1>1, <1>2, <1>4, BinaryStep DEF CodersInv
<1>5. CASE RecordNext
  BY <1>1, <1>2, <1>5, RecordStep DEF CodersInv
<1>6. CASE ArrayNext
  BY <1>1, <1>2, <1>6, ArrayStep DEF CodersInv, IsArray
<1>7. CASE BinArrayNext
  BY <1>1, <1>2, <1>7, BinArrayStep DEF CodersInv, IsBinArray
<1>8. CASE IdentifierNext
  BY <1>1, <1>2, <1>8, IdentifierStep DEF CodersInv
<1>9. CASE UNCHANGED rowVars
  <2> USE <1>1, <1>9 DEF rowVars, encVars, decVars
  <2>1. Base'
    BY DEF Base
  <2>2. CopyInv' /\ RecordInv' /\ ArrayInv'
    BY DEF CopyInv, RecordInv, ArrayInv, EscapeRoom, CopyInBounds, RecordInBounds, IsArray, At
  <2>3. BinaryInv'
    BY DEF BinaryInv, BinaryInBounds
  <2>4. BinArrayInv'
    <3>1. dims' = dims
      BY SMT DEF dims, read_nbo32, At
    <3> QED
      BY <3>1 DEF BinArrayInv, BinArrayInBounds, IsBinArray
  <2>5. IdentifierInv'
    BY DEF IdentifierInv
  <2> QED
    BY <2>1, <2>2, <2>3, <2>4, <2>5 DEF CodersInv
<1> QED
  BY <1>3, <1>4, <1>5, <1>6, <1>7, <1>8, <1>9 DEF Next

(* The coders stay within their buffers: the loops that escape a field in  *)
(* place from right to left (pg_text_enc_copy_row, pg_text_enc_record and  *)
(* quote_array_buffer) never overwrite a byte that they have still to      *)
(* move, for every value; pg_text_dec_copy_row, pg_text_dec_record,        *)
(* pg_bin_dec_copy_row and pg_bin_dec_array never leave their text,        *)
(* whatever is in it.                                                      *)
THEOREM CodersStayInBounds == Spec => []CodersInBounds
<1>1. CodersInv => CopyEscapeRoom /\ RecordEscapeRoom /\ ArrayEscapeRoom
  BY DEF CodersInv, CopyInv, RecordInv, ArrayInv, CopyEscapeRoom, RecordEscapeRoom, ArrayEscapeRoom
<1>2. CodersInv => CopyInBounds /\ BinaryInBounds /\ BinArrayInBounds /\ RecordInBounds
  BY DEF CodersInv, CopyInv, RecordInv, BinaryInv, BinArrayInv,
         CopyInBounds, RecordInBounds, BinaryInBounds, BinArrayInBounds
<1>3. CodersInv => CodersInBounds
  BY <1>1, <1>2 DEF CodersInBounds
<1> QED
  BY <1>3, CodersStart, CodersStep, PTL DEF Spec

-----------------------------------------------------------------------------
(* Texts *)

(* The bytes of s are in the text from position a on. *)
Has(text, a, s) == \A m \in 1..Len(s) : text[a + m - 1] = s[m]

(* What an encoder P writes: for each token k of n, lead[k], then the      *)
(* bytes of body[k], those in special behind an escape, then trail[k]. The *)
(* first token is behind the prefix.                                       *)
Lead(P, k) == P.lead[k]
Body(P, k) == P.body[k]
Trail(P, k) == P.trail[k]
Escape(P, c) == P.escape[c]
PlanOK(P) ==
  /\ P.n \in Nat /\ P.prefix \in Seq(Nat)
  /\ \A k \in 1..P.n : Lead(P, k) \in Seq(Nat) /\ Body(P, k) \in Seq(Nat) /\ Trail(P, k) \in Seq(Nat)

(* The byte c is written from position a to before b. *)
ByteAt(P, text, a, b, c) ==
  IF c \in P.special THEN b = a + 2 /\ text[a] = Escape(P, c) /\ text[a + 1] = c
                     ELSE b = a + 1 /\ text[a] = c

(* The bytes m + 1 to n of str are written, byte p from f[p - 1] on. *)
Run(P, text, f, str, m, n) ==
  /\ f \in [m..n -> Nat \ {0}]
  /\ \A p \in m..n : f[m] <= f[p] /\ f[p] <= f[n]
  /\ \A p \in m..(n - 1) : ByteAt(P, text, f[p], f[p + 1], str[p + 1])

(* Token k is written from position a to before b, its bytes as f says. *)
TokenAt(P, text, k, a, b, f) ==
  /\ Has(text, a, Lead(P, k))
  /\ f[0] = a + Len(Lead(P, k))
  /\ Run(P, text, f, Body(P, k), 0, Len(Body(P, k)))
  /\ Has(text, f[Len(Body(P, k))], Trail(P, k))
  /\ b = f[Len(Body(P, k))] + Len(Trail(P, k))

(* The first n tokens are written up to before position end. *)
Layout(P, text, at, pos, n, end) ==
  /\ at \in [1..(n + 1) -> Nat \ {0}] /\ at[1] = 1 + Len(P.prefix) /\ at[n + 1] = end
  /\ Has(text, 1, P.prefix)
  /\ \A k \in 1..(n + 1) : at[k] <= end
  /\ \A k \in 1..n : TokenAt(P, text, k, at[k], at[k + 1], pos[k])
Laid(P, text, n, end) == \E at, pos : Layout(P, text, at, pos, n, end)

(* Two texts that have the same bytes before a position. *)
Agree(text, other, end) == \A q \in 1..(end - 1) : other[q] = text[q]

LEMMA HasKept ==
  ASSUME NEW text, NEW other, NEW end \in Nat, Agree(text, other, end),
         NEW a \in Nat \ {0}, NEW s \in Seq(Nat), a + Len(s) <= end, Has(text, a, s)
  PROVE  Has(other, a, s)
<1>1. Len(s) \in Nat
  OBVIOUS
<1>2. ASSUME NEW m \in 1..Len(s) PROVE other[a + m - 1] = s[m]
  <2>1. a + m - 1 \in 1..(end - 1)
    BY <1>1
  <2> QED
    BY <2>1 DEF Agree, Has
<1> QED
  BY <1>2 DEF Has

LEMMA RunKept ==
  ASSUME NEW P, NEW text, NEW other, NEW end \in Nat, Agree(text, other, end),
         NEW f, NEW str, NEW m \in Int, NEW n \in Int, m <= n,
         f[n] <= end, Run(P, text, f, str, m, n)
  PROVE  Run(P, other, f, str, m, n)
<1>1. ASSUME NEW p \in m..(n - 1) PROVE ByteAt(P, other, f[p], f[p + 1], str[p + 1])
  <2>1. /\ p \in m..n /\ p + 1 \in m..n
        /\ f[p] \in Nat \ {0} /\ f[p + 1] \in Nat \ {0} /\ f[p + 1] <= end
    <3>1. p \in m..n /\ p + 1 \in m..n /\ n \in m..n
      OBVIOUS
    <3>2. f[p] \in Nat \ {0} /\ f[p + 1] \in Nat \ {0} /\ f[n] \in Nat /\ f[p + 1] <= f[n]
      BY <3>1 DEF Run
    <3> QED
      BY <3>1, <3>2
  <2>2. ByteAt(P, text, f[p], f[p + 1], str[p + 1])
    BY DEF Run
  <2>3. CASE str[p + 1] \in P.special
    <3>1. f[p + 1] = f[p] + 2
      BY <2>2, <2>3 DEF ByteAt
    <3>2. f[p] \in 1..(end - 1) /\ f[p] + 1 \in 1..(end - 1)
      BY <2>1, <3>1
    <3> QED
      BY <2>2, <2>3, <3>2 DEF ByteAt, Agree
  <2>4. CASE str[p + 1] \notin P.special
    <3>1. f[p + 1] = f[p] + 1
      BY <2>2, <2>4 DEF ByteAt
    <3>2. f[p] \in 1..(end - 1)
      BY <2>1, <3>1
    <3> QED
      BY <2>2, <2>4, <3>2 DEF ByteAt, Agree
  <2> QED
    BY <2>3, <2>4
<1> QED
  BY <1>1 DEF Run

(* The numbers of a token. *)
LEMMA TokenNumbers ==
  ASSUME NEW P, PlanOK(P), NEW text, NEW k \in 1..P.n, NEW a \in Nat \ {0}, NEW b, NEW f,
         TokenAt(P, text, k, a, b, f)
  PROVE  /\ Len(Lead(P, k)) \in Nat /\ Len(Body(P, k)) \in Nat /\ Len(Trail(P, k)) \in Nat
         /\ f[0] \in Nat \ {0} /\ f[Len(Body(P, k))] \in Nat \ {0} /\ b \in Nat \ {0}
         /\ f[0] = a + Len(Lead(P, k)) /\ f[0] <= f[Len(Body(P, k))]
         /\ b = f[Len(Body(P, k))] + Len(Trail(P, k))
<1>1. Len(Lead(P, k)) \in Nat /\ Len(Body(P, k)) \in Nat /\ Len(Trail(P, k)) \in Nat
  BY DEF PlanOK
<1>2. f[0] = a + Len(Lead(P, k)) /\ b = f[Len(Body(P, k))] + Len(Trail(P, k))
  BY DEF TokenAt
<1>3. 0 \in 0..Len(Body(P, k)) /\ Len(Body(P, k)) \in 0..Len(Body(P, k))
  BY <1>1
<1>4. f[Len(Body(P, k))] \in Nat \ {0} /\ f[0] <= f[Len(Body(P, k))]
  BY <1>3 DEF TokenAt, Run
<1>5. f[0] \in Nat \ {0}
  BY <1>1, <1>2
<1>6. b \in Nat \ {0}
  BY <1>1, <1>2, <1>4
<1> QED
  BY <1>1, <1>2, <1>4, <1>5, <1>6

LEMMA TokenKept ==
  ASSUME NEW P, PlanOK(P), NEW text, NEW other, NEW end \in Nat, Agree(text, other, end),
         NEW k \in 1..P.n, NEW a \in Nat \ {0}, NEW b, b <= end, NEW f,
         TokenAt(P, text, k, a, b, f)
  PROVE  TokenAt(P, other, k, a, b, f)
<1>1. /\ Len(Lead(P, k)) \in Nat /\ Len(Body(P, k)) \in Nat /\ Len(Trail(P, k)) \in Nat
      /\ f[0] \in Nat \ {0} /\ f[Len(Body(P, k))] \in Nat \ {0} /\ b \in Nat \ {0}
      /\ f[0] = a + Len(Lead(P, k)) /\ f[0] <= f[Len(Body(P, k))]
      /\ b = f[Len(Body(P, k))] + Len(Trail(P, k))
  BY TokenNumbers
<1>2. Lead(P, k) \in Seq(Nat) /\ Trail(P, k) \in Seq(Nat)
  BY DEF PlanOK
<1>3. Has(other, a, Lead(P, k))
  <2>1. a + Len(Lead(P, k)) <= end
    BY <1>1
  <2> QED
    BY <1>2, <2>1, HasKept DEF TokenAt
<1>4. Has(other, f[Len(Body(P, k))], Trail(P, k))
  <2>1. f[Len(Body(P, k))] + Len(Trail(P, k)) <= end
    BY <1>1
  <2> QED
    BY <1>1, <1>2, <2>1, HasKept DEF TokenAt
<1>5. Run(P, other, f, Body(P, k), 0, Len(Body(P, k)))
  <2>1. f[Len(Body(P, k))] <= end /\ 0 <= Len(Body(P, k)) /\ Len(Body(P, k)) \in Int
    BY <1>1
  <2> QED
    BY <2>1, RunKept DEF TokenAt
<1> QED
  BY <1>1, <1>3, <1>4, <1>5 DEF TokenAt

LEMMA LayoutKept ==
  ASSUME NEW P, PlanOK(P), NEW text, NEW other, NEW end \in Nat, Agree(text, other, end),
         NEW n \in Nat, n <= P.n, NEW at, NEW pos, Layout(P, text, at, pos, n, end)
  PROVE  Layout(P, other, at, pos, n, end)
<1>1. ASSUME NEW k \in 1..n PROVE TokenAt(P, other, k, at[k], at[k + 1], pos[k])
  <2>1. k \in 1..P.n /\ k \in 1..(n + 1) /\ k + 1 \in 1..(n + 1)
    BY DEF PlanOK
  <2>2. at[k] \in Nat \ {0} /\ at[k + 1] <= end /\ TokenAt(P, text, k, at[k], at[k + 1], pos[k])
    BY <2>1 DEF Layout
  <2> QED
    BY <2>1, <2>2, TokenKept
<1>2. Has(other, 1, P.prefix)
  <2>1. P.prefix \in Seq(Nat) /\ 1 \in Nat \ {0} /\ 1 \in 1..(n + 1)
    BY DEF PlanOK
  <2>2. 1 + Len(P.prefix) <= end /\ Has(text, 1, P.prefix)
    BY <2>1 DEF Layout
  <2> QED
    BY <2>1, <2>2, HasKept
<1> QED
  BY <1>1, <1>2 DEF Layout

LEMMA LaidKept ==
  ASSUME NEW P, PlanOK(P), NEW text, NEW other, NEW end \in Nat, Agree(text, other, end),
         NEW n \in Nat, n <= P.n, Laid(P, text, n, end)
  PROVE  Laid(P, other, n, end)
  BY LayoutKept DEF Laid

LEMMA LaidStarts ==
  ASSUME NEW P, PlanOK(P)
  PROVE  Laid(P, P.prefix, 0, Len(P.prefix) + 1)
<1> DEFINE e == Len(P.prefix) + 1
           at == [k \in 1..1 |-> e]
<1>1. e \in Nat \ {0} /\ e = 1 + Len(P.prefix)
  BY DEF PlanOK
<1> HIDE DEF e
<1>2. at \in [1..(0 + 1) -> Nat \ {0}] /\ at[1] = e /\ 1..0 = {} /\ \A k \in 1..(0 + 1) : at[k] <= e
  BY <1>1
<1>3. Has(P.prefix, 1, P.prefix)
  BY DEF Has
<1> HIDE DEF at
<1>4. Layout(P, P.prefix, at, at, 0, e)
  BY <1>1, <1>2, <1>3 DEF Layout
<1> QED
  BY <1>4 DEF Laid, e

(* Another token behind those that are written. *)
LEMMA LaidGrows ==
  ASSUME NEW P, PlanOK(P), NEW text, NEW n \in Nat, n < P.n, NEW end \in Nat \ {0},
         Laid(P, text, n, end), NEW b, NEW f, TokenAt(P, text, n + 1, end, b, f)
  PROVE  Laid(P, text, n + 1, b)
<1>1. PICK at, pos : Layout(P, text, at, pos, n, end)
  BY DEF Laid
<1>2. end <= b /\ b \in Nat \ {0}
  <2>1. n + 1 \in 1..P.n
    BY DEF PlanOK
  <2>2. /\ Len(Lead(P, n + 1)) \in Nat /\ Len(Trail(P, n + 1)) \in Nat
        /\ f[Len(Body(P, n + 1))] \in Nat \ {0} /\ b \in Nat \ {0}
        /\ f[0] = end + Len(Lead(P, n + 1)) /\ f[0] <= f[Len(Body(P, n + 1))]
        /\ b = f[Len(Body(P, n + 1))] + Len(Trail(P, n + 1))
    BY <2>1, TokenNumbers
  <2> QED
    BY <2>2
<1> DEFINE at2 == [k \in 1..(n + 2) |-> IF k <= n + 1 THEN at[k] ELSE b]
           pos2 == [k \in 1..(n + 1) |-> IF k <= n THEN pos[k] ELSE f]
<1>3. /\ at \in [1..(n + 1) -> Nat \ {0}] /\ at[1] = 1 + Len(P.prefix) /\ at[n + 1] = end
      /\ Has(text, 1, P.prefix)
      /\ \A k \in 1..(n + 1) : at[k] <= end
      /\ \A k \in 1..n : TokenAt(P, text, k, at[k], at[k + 1], pos[k])
  BY <1>1 DEF Layout
<1>4. at2 \in [1..(n + 2) -> Nat \ {0}] /\ at2[1] = 1 + Len(P.prefix) /\ at2[n + 2] = b /\ at2[n + 1] = end
  BY <1>2, <1>3
<1>5. \A k \in 1..(n + 2) : at2[k] <= b
  <2> TAKE k \in 1..(n + 2)
  <2>1. CASE k <= n + 1
    <3>1. k \in 1..(n + 1)
      BY <2>1
    <3>2. at2[k] = at[k] /\ at[k] \in Nat /\ at[k] <= end
      BY <1>3, <3>1
    <3> QED
      BY <1>2, <3>2
  <2>2. CASE k = n + 2
    BY <1>2, <1>4, <2>2
  <2> QED
    BY <2>1, <2>2
<1>6. \A k \in 1..(n + 1) : TokenAt(P, text, k, at2[k], at2[k + 1], pos2[k])
  <2> TAKE k \in 1..(n + 1)
  <2>1. CASE k <= n
    <3>1. k \in 1..n /\ at2[k] = at[k] /\ at2[k + 1] = at[k + 1] /\ pos2[k] = pos[k]
      BY <2>1
    <3> QED
      BY <1>3, <3>1
  <2>2. CASE k = n + 1
    <3>1. at2[k] = end /\ at2[k + 1] = b /\ pos2[k] = f
      BY <1>4, <2>2
    <3> QED
      BY <2>2, <3>1
  <2> QED
    BY <2>1, <2>2
<1>7. Layout(P, text, at2, pos2, n + 1, b)
  <2> HIDE DEF at2, pos2
  <2>1. (n + 1) + 1 = n + 2
    OBVIOUS
  <2> QED
    BY <1>3, <1>4, <1>5, <1>6, <2>1 DEF Layout
<1> QED
  BY <1>7 DEF Laid

-----------------------------------------------------------------------------
(* Writing *)

IsText(text) == text \in Seq(Nat)

(* The text is continued with s. *)
Joined(other, text, s) == other = text \o s

LEMMA Appended ==
  ASSUME NEW text, IsText(text), NEW s, IsText(s), NEW other, Joined(other, text, s)
  PROVE  /\ IsText(other) /\ Len(other) = Len(text) + Len(s)
         /\ Len(text) \in Nat /\ Len(s) \in Nat /\ Len(other) \in Nat
         /\ Agree(text, other, Len(text) + 1)
         /\ Has(other, Len(text) + 1, s)
<1>1. /\ other \in Seq(Nat) /\ Len(other) = Len(text) + Len(s)
      /\ \A q \in 1..(Len(text) + Len(s)) : other[q] = IF q <= Len(text) THEN text[q] ELSE s[q - Len(text)]
  BY ConcatProperties DEF Joined, IsText
<1>2. Len(text) \in Nat /\ Len(s) \in Nat /\ Len(other) \in Nat
  BY <1>1 DEF IsText
<1>3. Agree(text, other, Len(text) + 1)
  <2> SUFFICES ASSUME NEW q \in 1..Len(text) PROVE other[q] = text[q]
    BY <1>2 DEF Agree
  <2>1. q \in 1..(Len(text) + Len(s)) /\ q <= Len(text)
    BY <1>2
  <2> QED
    BY <1>1, <2>1
<1>4. Has(other, Len(text) + 1, s)
  <2> SUFFICES ASSUME NEW m \in 1..Len(s) PROVE other[(Len(text) + 1) + m - 1] = s[m]
    BY DEF Has
  <2> DEFINE q == (Len(text) + 1) + m - 1
  <2>1. q \in 1..(Len(text) + Len(s)) /\ ~(q <= Len(text)) /\ q - Len(text) = m
    BY <1>2
  <2> QED
    BY <1>1, <2>1
<1> QED
  BY <1>1, <1>2, <1>3, <1>4 DEF IsText

LEMMA OneOrTwo ==
  /\ \A c \in Nat : IsText(<<c>>) /\ Len(<<c>>) = 1 /\ <<c>>[1] = c
  /\ \A a, c \in Nat : IsText(<<a, c>>) /\ Len(<<a, c>>) = 2 /\ <<a, c>>[1] = a /\ <<a, c>>[2] = c
  BY DEF IsText

LEMMA HasEmpty == \A text, a : Has(text, a, <<>>)
  BY DEF Has

(* One place, where nothing is written yet. *)
Single(n, a) == [p \in n..n |-> a]

LEMMA RunStarts ==
  ASSUME NEW P, NEW text, NEW str, NEW n \in Nat, NEW a \in Nat \ {0}
  PROVE  Run(P, text, Single(n, a), str, n, n) /\ Single(n, a)[n] = a
<1>1. Single(n, a)[n] = a /\ \A p \in n..n : Single(n, a)[p] = a
  BY DEF Single
<1>2. Single(n, a) \in [n..n -> Nat \ {0}] /\ n..(n - 1) = {}
  BY DEF Single
<1>3. Run(P, text, Single(n, a), str, n, n)
  BY <1>1, <1>2 DEF Run
<1> QED
  BY <1>1, <1>3

(* A byte behind those that are written. *)
LEMMA RunGrows ==
  ASSUME NEW P, NEW text, NEW str, NEW f, NEW m \in Nat, NEW n \in Nat, m <= n,
         Run(P, text, f, str, m, n), NEW b \in Nat, ByteAt(P, text, f[n], b, str[n + 1])
  PROVE  \E g : Run(P, text, g, str, m, n + 1) /\ g[m] = f[m] /\ g[n + 1] = b
<1> DEFINE g == [p \in m..(n + 1) |-> IF p <= n THEN f[p] ELSE b]
<1>1. /\ f \in [m..n -> Nat \ {0}]
      /\ \A p \in m..n : f[m] <= f[p] /\ f[p] <= f[n]
      /\ \A p \in m..(n - 1) : ByteAt(P, text, f[p], f[p + 1], str[p + 1])
  BY DEF Run
<1>2. f[m] \in Nat \ {0} /\ f[n] \in Nat \ {0} /\ f[m] <= f[n] /\ f[n] <= b
  <2>1. f[m] \in Nat \ {0} /\ f[n] \in Nat \ {0} /\ f[m] <= f[n]
    BY <1>1
  <2>2. b = f[n] + 1 \/ b = f[n] + 2
    BY DEF ByteAt
  <2> QED
    BY <2>1, <2>2
<1>3. g[m] = f[m] /\ g[n + 1] = b /\ g[n] = f[n]
  OBVIOUS
<1>4. g \in [m..(n + 1) -> Nat \ {0}]
  BY <1>1, <1>2
<1>5. ASSUME NEW p \in m..(n + 1) PROVE g[m] <= g[p] /\ g[p] <= g[n + 1]
  <2>1. CASE p <= n
    <3>1. p \in m..n /\ g[p] = f[p]
      BY <2>1
    <3>2. f[p] \in Nat /\ f[m] <= f[p] /\ f[p] <= f[n]
      BY <1>1, <3>1
    <3> HIDE DEF g
    <3> QED
      BY <1>2, <1>3, <3>1, <3>2
  <2>2. CASE p = n + 1
    <3> HIDE DEF g
    <3> QED
      BY <1>2, <1>3, <2>2
  <2> QED
    BY <2>1, <2>2
<1>6. ASSUME NEW p \in m..n PROVE ByteAt(P, text, g[p], g[p + 1], str[p + 1])
  <2>1. CASE p < n
    <3>1. p \in m..(n - 1) /\ g[p] = f[p] /\ g[p + 1] = f[p + 1]
      BY <2>1
    <3> QED
      BY <1>1, <3>1
  <2>2. CASE p = n
    BY <1>3, <2>2
  <2> QED
    BY <2>1, <2>2
<1>7. Run(P, text, g, str, m, n + 1)
  <2> HIDE DEF g
  <2>1. (n + 1) - 1 = n
    OBVIOUS
  <2> QED
    BY <1>4, <1>5, <1>6, <2>1 DEF Run
<1> QED
  BY <1>3, <1>7

(* A byte before those that are written. *)
LEMMA RunGrowsDown ==
  ASSUME NEW P, NEW text, NEW str, NEW f, NEW m \in Nat \ {0}, NEW n \in Nat, m <= n,
         Run(P, text, f, str, m, n), NEW a \in Nat \ {0}, ByteAt(P, text, a, f[m], str[m])
  PROVE  \E g : Run(P, text, g, str, m - 1, n) /\ g[m - 1] = a /\ g[n] = f[n]
<1> DEFINE g == [p \in (m - 1)..n |-> IF m <= p THEN f[p] ELSE a]
<1>1. /\ f \in [m..n -> Nat \ {0}]
      /\ \A p \in m..n : f[m] <= f[p] /\ f[p] <= f[n]
      /\ \A p \in m..(n - 1) : ByteAt(P, text, f[p], f[p + 1], str[p + 1])
  BY DEF Run
<1>2. f[m] \in Nat \ {0} /\ f[n] \in Nat \ {0} /\ f[m] <= f[n] /\ a <= f[m]
  <2>1. f[m] \in Nat \ {0} /\ f[n] \in Nat \ {0} /\ f[m] <= f[n]
    BY <1>1
  <2>2. f[m] = a + 1 \/ f[m] = a + 2
    BY DEF ByteAt
  <2> QED
    BY <2>1, <2>2
<1>3. g[m - 1] = a /\ g[m] = f[m] /\ g[n] = f[n]
  OBVIOUS
<1>4. g \in [(m - 1)..n -> Nat \ {0}]
  BY <1>1, <1>2
<1>5. ASSUME NEW p \in (m - 1)..n PROVE g[m - 1] <= g[p] /\ g[p] <= g[n]
  <2>1. CASE m <= p
    <3>1. p \in m..n /\ g[p] = f[p]
      BY <2>1
    <3>2. f[p] \in Nat /\ f[m] <= f[p] /\ f[p] <= f[n]
      BY <1>1, <3>1
    <3> HIDE DEF g
    <3> QED
      BY <1>2, <1>3, <3>1, <3>2
  <2>2. CASE p = m - 1
    <3> HIDE DEF g
    <3> QED
      BY <1>2, <1>3, <2>2
  <2> QED
    BY <2>1, <2>2
<1>6. ASSUME NEW p \in (m - 1)..(n - 1) PROVE ByteAt(P, text, g[p], g[p + 1], str[p + 1])
  <2>1. CASE m <= p
    <3>1. p \in m..(n - 1) /\ g[p] = f[p] /\ g[p + 1] = f[p + 1]
      BY <2>1
    <3> QED
      BY <1>1, <3>1
  <2>2. CASE p = m - 1
    <3>1. p + 1 = m
      BY <2>2
    <3> QED
      BY <1>3, <2>2, <3>1
  <2> QED
    BY <2>1, <2>2
<1>7. Run(P, text, g, str, m - 1, n)
  <2> HIDE DEF g
  <2> QED
    BY <1>4, <1>5, <1>6 DEF Run
<1> QED
  BY <1>3, <1>7


-----------------------------------------------------------------------------
(* The encoders of rows *)

(* Tokens before k are written, and of token k what leads it and m bytes. *)
Opened(P, text, k, m, end) ==
  \E d, f :
    /\ d \in Nat \ {0} /\ Laid(P, text, k - 1, d)
    /\ Has(text, d, Lead(P, k)) /\ f[0] = d + Len(Lead(P, k))
    /\ Run(P, text, f, Body(P, k), 0, m) /\ f[m] = end

LEMMA OpenStarts ==
  ASSUME NEW P, PlanOK(P), NEW text, IsText(text), NEW k \in 1..P.n,
         Laid(P, text, k - 1, Len(text) + 1), NEW other, Joined(other, text, Lead(P, k))
  PROVE  /\ IsText(other) /\ Opened(P, other, k, 0, Len(other) + 1)
         /\ Laid(P, other, k - 1, Len(text) + 1) /\ Has(other, Len(text) + 1, Lead(P, k))
<1>1. Lead(P, k) \in Seq(Nat) /\ k - 1 \in Nat /\ k - 1 <= P.n
  BY DEF PlanOK
<1>2. /\ IsText(other) /\ Len(other) = Len(text) + Len(Lead(P, k))
      /\ Len(text) \in Nat /\ Len(Lead(P, k)) \in Nat
      /\ Agree(text, other, Len(text) + 1)
      /\ Has(other, Len(text) + 1, Lead(P, k))
  BY <1>1, Appended DEF IsText
<1>3. Laid(P, other, k - 1, Len(text) + 1)
  <2>1. Len(text) + 1 \in Nat
    BY <1>2
  <2> QED
    BY <1>1, <1>2, <2>1, LaidKept
<1>4. Len(other) + 1 \in Nat \ {0} /\ Len(text) + 1 \in Nat \ {0}
      /\ Len(other) + 1 = (Len(text) + 1) + Len(Lead(P, k))
  <2>1. Len(other) = Len(text) + Len(Lead(P, k)) /\ Len(text) \in Nat /\ Len(Lead(P, k)) \in Nat
    BY <1>2
  <2> QED
    BY <2>1
<1>5. /\ Run(P, other, Single(0, Len(other) + 1), Body(P, k), 0, 0)
      /\ Single(0, Len(other) + 1)[0] = Len(other) + 1
  BY <1>4, RunStarts
<1>6. Opened(P, other, k, 0, Len(other) + 1)
  BY <1>2, <1>3, <1>4, <1>5 DEF Opened
<1> QED
  BY <1>2, <1>3, <1>6

(* How a byte is written. *)
Spelled(P, c) == IF c \in P.special THEN <<Escape(P, c), c>> ELSE <<c>>
Escapable(P) == \A c \in P.special : Escape(P, c) \in Nat

LEMMA SpelledText ==
  ASSUME NEW P, Escapable(P), NEW c \in Nat
  PROVE  /\ IsText(Spelled(P, c))
         /\ c \in P.special => Len(Spelled(P, c)) = 2 /\ Spelled(P, c)[1] = Escape(P, c) /\ Spelled(P, c)[2] = c
         /\ c \notin P.special => Len(Spelled(P, c)) = 1 /\ Spelled(P, c)[1] = c
<1>1. CASE c \in P.special
  <2>1. Escape(P, c) \in Nat /\ Spelled(P, c) = <<Escape(P, c), c>>
    BY <1>1 DEF Spelled, Escapable
  <2> QED
    BY <1>1, <2>1, OneOrTwo
<1>2. CASE c \notin P.special
  <2>1. Spelled(P, c) = <<c>>
    BY <1>2 DEF Spelled
  <2> QED
    BY <1>2, <2>1, OneOrTwo
<1> QED
  BY <1>1, <1>2

LEMMA OpenGrows ==
  ASSUME NEW P, PlanOK(P), Escapable(P), NEW text, IsText(text), NEW k \in 1..P.n,
         NEW m \in Nat, m < Len(Body(P, k)), Opened(P, text, k, m, Len(text) + 1),
         NEW other, Joined(other, text, Spelled(P, Body(P, k)[m + 1]))
  PROVE  IsText(other) /\ Opened(P, other, k, m + 1, Len(other) + 1)
<1> DEFINE c == Body(P, k)[m + 1]
           s == Spelled(P, c)
<1>1. Lead(P, k) \in Seq(Nat) /\ k - 1 \in Nat /\ k - 1 <= P.n /\ Body(P, k) \in Seq(Nat) /\ c \in Nat
  <2>1. Body(P, k) \in Seq(Nat) /\ Lead(P, k) \in Seq(Nat) /\ P.n \in Nat
    BY DEF PlanOK
  <2>2. Len(Body(P, k)) \in Nat
    BY <2>1
  <2>3. m + 1 \in 1..Len(Body(P, k))
    BY <2>2
  <2>4. c \in Nat
    BY <2>1, <2>3
  <2> QED
    BY <2>1, <2>4
<1>2. Joined(other, text, s)
  OBVIOUS
<1>3. /\ IsText(s)
      /\ c \in P.special => Len(s) = 2 /\ s[1] = Escape(P, c) /\ s[2] = c
      /\ c \notin P.special => Len(s) = 1 /\ s[1] = c
  BY <1>1, SpelledText
<1> HIDE DEF s, c
<1>4. /\ IsText(other) /\ Len(other) = Len(text) + Len(s)
      /\ Len(text) \in Nat /\ Len(s) \in Nat
      /\ Agree(text, other, Len(text) + 1)
      /\ Has(other, Len(text) + 1, s)
  BY <1>2, <1>3, Appended
<1>5. PICK d, f : /\ d \in Nat \ {0} /\ Laid(P, text, k - 1, d)
                  /\ Has(text, d, Lead(P, k)) /\ f[0] = d + Len(Lead(P, k))
                  /\ Run(P, text, f, Body(P, k), 0, m) /\ f[m] = Len(text) + 1
  BY DEF Opened
<1>6. f[0] \in Nat /\ f[0] <= Len(text) + 1 /\ d + Len(Lead(P, k)) <= Len(text) + 1 /\ d <= Len(text) + 1
  <2>1. 0 \in 0..m
    OBVIOUS
  <2>2. f[0] \in Nat /\ f[0] <= f[m]
    BY <1>5, <2>1 DEF Run
  <2>3. Len(Lead(P, k)) \in Nat
    BY <1>1
  <2> QED
    BY <1>4, <1>5, <2>2, <2>3
<1>7. Laid(P, other, k - 1, d) /\ Has(other, d, Lead(P, k))
  <2>1. Agree(text, other, d)
    BY <1>4, <1>5, <1>6 DEF Agree
  <2>2. Laid(P, other, k - 1, d)
    BY <1>1, <1>5, <2>1, LaidKept
  <2>3. Len(text) + 1 \in Nat
    BY <1>4
  <2>4. Has(other, d, Lead(P, k))
    BY <1>1, <1>4, <1>5, <1>6, <2>3, HasKept
  <2> QED
    BY <2>2, <2>4
<1>8. Run(P, other, f, Body(P, k), 0, m)
  <2>1. Len(text) + 1 \in Nat /\ f[m] <= Len(text) + 1 /\ 0 <= m /\ m \in Int
    BY <1>4, <1>5
  <2> QED
    BY <1>4, <1>5, <2>1, RunKept
<1>9. ByteAt(P, other, f[m], Len(other) + 1, c)
  <2>3. Len(other) = Len(text) + Len(s) /\ Len(text) \in Nat /\ f[m] = Len(text) + 1
    BY <1>4, <1>5
  <2>1. CASE c \in P.special
    <3>1. 1 \in 1..Len(s) /\ 2 \in 1..Len(s) /\ Len(other) + 1 = f[m] + 2
      <4>1. Len(s) = 2
        BY <1>3, <2>1
      <4> QED
        BY <2>3, <4>1
    <3>2. other[(Len(text) + 1) + 1 - 1] = s[1] /\ other[(Len(text) + 1) + 2 - 1] = s[2]
      BY <1>4, <3>1 DEF Has
    <3>3. (Len(text) + 1) + 1 - 1 = f[m] /\ (Len(text) + 1) + 2 - 1 = f[m] + 1
      BY <1>4, <1>5
    <3> QED
      BY <1>3, <2>1, <3>1, <3>2, <3>3 DEF ByteAt
  <2>2. CASE c \notin P.special
    <3>1. 1 \in 1..Len(s) /\ Len(other) + 1 = f[m] + 1
      <4>1. Len(s) = 1
        BY <1>3, <2>2
      <4> QED
        BY <2>3, <4>1
    <3>2. other[(Len(text) + 1) + 1 - 1] = s[1]
      BY <1>4, <3>1 DEF Has
    <3>3. (Len(text) + 1) + 1 - 1 = f[m]
      BY <1>4, <1>5
    <3> QED
      BY <1>3, <2>2, <3>1, <3>2, <3>3 DEF ByteAt
  <2> QED
    BY <2>1, <2>2
<1>10. PICK g : Run(P, other, g, Body(P, k), 0, m + 1) /\ g[0] = f[0] /\ g[m + 1] = Len(other) + 1
  <2>1. Len(other) + 1 \in Nat /\ 0 \in Nat /\ 0 <= m
    BY <1>3, <1>4
  <2> QED
    BY <1>8, <1>9, <2>1, RunGrows DEF c
<1> QED
  BY <1>4, <1>5, <1>7, <1>10 DEF Opened

LEMMA OpenEnds ==
  ASSUME NEW P, PlanOK(P), NEW text, IsText(text), NEW k \in 1..P.n,
         Opened(P, text, k, Len(Body(P, k)), Len(text) + 1),
         NEW other, Joined(other, text, Trail(P, k))
  PROVE  IsText(other) /\ Laid(P, other, k, Len(other) + 1)
<1> DEFINE m == Len(Body(P, k))
<1>1. Lead(P, k) \in Seq(Nat) /\ k - 1 \in Nat /\ k - 1 <= P.n /\ k - 1 < P.n /\ (k - 1) + 1 = k
      /\ Trail(P, k) \in Seq(Nat) /\ m \in Nat
  BY DEF PlanOK
<1>2. /\ IsText(other) /\ Len(other) = Len(text) + Len(Trail(P, k))
      /\ Len(text) \in Nat /\ Len(Trail(P, k)) \in Nat
      /\ Agree(text, other, Len(text) + 1)
      /\ Has(other, Len(text) + 1, Trail(P, k))
  BY <1>1, Appended DEF IsText
<1> HIDE DEF m
<1>3. PICK d, f : /\ d \in Nat \ {0} /\ Laid(P, text, k - 1, d)
                  /\ Has(text, d, Lead(P, k)) /\ f[0] = d + Len(Lead(P, k))
                  /\ Run(P, text, f, Body(P, k), 0, m) /\ f[m] = Len(text) + 1
  BY DEF Opened, m
<1>4. f[0] \in Nat /\ f[0] <= Len(text) + 1 /\ d + Len(Lead(P, k)) <= Len(text) + 1 /\ d <= Len(text) + 1
  <2>1. 0 \in 0..m
    BY <1>1
  <2>2. f[0] \in Nat /\ f[0] <= f[m]
    BY <1>3, <2>1 DEF Run
  <2>3. Len(Lead(P, k)) \in Nat
    BY <1>1
  <2> QED
    BY <1>2, <1>3, <2>2, <2>3
<1>5. Laid(P, other, k - 1, d) /\ Has(other, d, Lead(P, k))
  <2>1. Agree(text, other, d)
    <3>1. Agree(text, other, Len(text) + 1) /\ Len(text) \in Nat /\ d \in Nat /\ d <= Len(text) + 1
      BY <1>2, <1>3, <1>4
    <3> QED
      BY <3>1 DEF Agree
  <2>2. Laid(P, other, k - 1, d)
    BY <1>1, <1>3, <2>1, LaidKept
  <2>3. Len(text) + 1 \in Nat
    BY <1>2
  <2>4. Has(other, d, Lead(P, k))
    BY <1>1, <1>2, <1>3, <1>4, <2>3, HasKept
  <2> QED
    BY <2>2, <2>4
<1>6. Run(P, other, f, Body(P, k), 0, m)
  <2>1. Len(text) + 1 \in Nat /\ f[m] <= Len(text) + 1 /\ 0 <= m /\ m \in Int
    BY <1>1, <1>2, <1>3
  <2> QED
    BY <1>2, <1>3, <2>1, RunKept
<1>7. TokenAt(P, other, k, d, Len(other) + 1, f)
  <2>1. Len(other) + 1 = f[m] + Len(Trail(P, k))
    <3>1. Len(other) = Len(text) + Len(Trail(P, k)) /\ Len(text) \in Nat /\ Len(Trail(P, k)) \in Nat
      BY <1>2
    <3> QED
      BY <1>3, <3>1
  <2> QED
    BY <1>2, <1>3, <1>5, <1>6, <2>1 DEF TokenAt, m
<1>8. Laid(P, other, (k - 1) + 1, Len(other) + 1)
  BY <1>1, <1>3, <1>5, <1>7, LaidGrows
<1> QED
  BY <1>1, <1>2, <1>8

(* Two texts that have the same bytes from one position to before another. *)
AgreeAbove(text, other, a, end) == \A q \in Nat : a <= q /\ q < end => other[q] = text[q]

LEMMA AgreeAboveLess ==
  ASSUME NEW text, NEW other, NEW a \in Int, NEW e \in Int, NEW end \in Int, end <= e,
         AgreeAbove(text, other, a, e)
  PROVE  AgreeAbove(text, other, a, end)
<1> SUFFICES ASSUME NEW q \in Nat, a <= q, q < end PROVE other[q] = text[q]
  BY DEF AgreeAbove
<1>1. q < e
  OBVIOUS
<1> QED
  BY <1>1 DEF AgreeAbove

LEMMA RunKeptAbove ==
  ASSUME NEW P, NEW text, NEW other, NEW f, NEW str, NEW m \in Int, NEW n \in Int, m <= n,
         AgreeAbove(text, other, f[m], f[n]), Run(P, text, f, str, m, n)
  PROVE  Run(P, other, f, str, m, n)
<1>1. ASSUME NEW p \in m..(n - 1) PROVE ByteAt(P, other, f[p], f[p + 1], str[p + 1])
  <2>1. /\ f[p] \in Nat \ {0} /\ f[m] \in Nat /\ f[m] <= f[p]
        /\ f[p + 1] \in Nat /\ f[n] \in Nat /\ f[p + 1] <= f[n]
    <3>1. p \in m..n /\ m \in m..n /\ p + 1 \in m..n /\ n \in m..n
      OBVIOUS
    <3> QED
      BY <3>1 DEF Run
  <2>2. ByteAt(P, text, f[p], f[p + 1], str[p + 1])
    BY DEF Run
  <2>3. CASE str[p + 1] \in P.special
    <3>1. f[p + 1] = f[p] + 2 /\ text[f[p]] = Escape(P, str[p + 1]) /\ text[f[p] + 1] = str[p + 1]
      BY <2>2, <2>3 DEF ByteAt
    <3>2. f[p] \in Nat /\ f[p] + 1 \in Nat /\ f[p] < f[n] /\ f[p] + 1 < f[n] /\ f[m] <= f[p] + 1
      BY <2>1, <3>1
    <3>3. other[f[p]] = text[f[p]] /\ other[f[p] + 1] = text[f[p] + 1]
      BY <2>1, <3>2 DEF AgreeAbove
    <3> QED
      BY <2>3, <3>1, <3>3 DEF ByteAt
  <2>4. CASE str[p + 1] \notin P.special
    <3>1. f[p + 1] = f[p] + 1 /\ text[f[p]] = str[p + 1]
      BY <2>2, <2>4 DEF ByteAt
    <3>2. f[p] \in Nat /\ f[p] < f[n]
      BY <2>1, <3>1
    <3>3. other[f[p]] = text[f[p]]
      BY <2>1, <3>2 DEF AgreeAbove
    <3> QED
      BY <2>4, <3>1, <3>3 DEF ByteAt
  <2> QED
    BY <2>3, <2>4
<1> QED
  BY <1>1 DEF Run

(* While token k is escaped in place: its first byte is at position s,     *)
(* behind lead, and its bytes behind the first q are written from position *)
(* a to before end.                                                        *)
Shifting(P, text, k, lead, s, q, a, end) ==
  \E d, f :
    /\ d \in Nat \ {0} /\ Laid(P, text, k - 1, d)
    /\ Has(text, d, lead) /\ s = d + Len(lead)
    /\ Run(P, text, f, Body(P, k), q, Len(Body(P, k)))
    /\ f[q] = a /\ f[Len(Body(P, k))] = end
Moving(P, text, k, s, q, a, end) == Shifting(P, text, k, Lead(P, k), s, q, a, end)

LEMMA ShiftingStarts ==
  ASSUME NEW P, PlanOK(P), NEW text, IsText(text), NEW k \in 1..P.n,
         Laid(P, text, k - 1, Len(text) + 1), NEW lead, IsText(lead),
         NEW open, Joined(open, text, lead),
         NEW full, Joined(full, open, Body(P, k)),
         NEW pad, IsText(pad), NEW other, Joined(other, full, pad), NEW end \in Nat \ {0}
  PROVE  /\ IsText(other)
         /\ Shifting(P, other, k, lead, Len(open) + 1, Len(Body(P, k)), end, end)
<1>1. /\ lead \in Seq(Nat) /\ IsText(Body(P, k)) /\ Len(Body(P, k)) \in Nat
      /\ k - 1 \in Nat /\ k - 1 <= P.n
  BY DEF PlanOK, IsText
<1>2. /\ IsText(open) /\ Agree(text, open, Len(text) + 1) /\ Has(open, Len(text) + 1, lead)
      /\ Len(open) = Len(text) + Len(lead) /\ Len(text) \in Nat /\ Len(lead) \in Nat
  BY Appended
<1>3. IsText(full) /\ Agree(open, full, Len(open) + 1) /\ Len(full) = Len(open) + Len(Body(P, k))
  BY <1>1, <1>2, Appended
<1>4. IsText(other) /\ Agree(full, other, Len(full) + 1)
  BY <1>3, Appended
<1>5. /\ Len(open) + 1 = (Len(text) + 1) + Len(lead)
      /\ Len(text) + 1 <= Len(open) + 1 /\ Len(open) + 1 <= Len(full) + 1 /\ Len(full) + 1 \in Nat
      /\ Len(open) + 1 \in Nat /\ Len(text) + 1 \in Nat \ {0}
  <2>1. /\ Len(open) = Len(text) + Len(lead) /\ Len(text) \in Nat /\ Len(lead) \in Nat
        /\ Len(full) = Len(open) + Len(Body(P, k)) /\ Len(Body(P, k)) \in Nat
    BY <1>1, <1>2, <1>3
  <2> QED
    BY <2>1
<1>6. Agree(open, other, Len(open) + 1)
  BY <1>3, <1>4, <1>5 DEF Agree
<1>7. Has(other, Len(text) + 1, lead)
  BY <1>1, <1>2, <1>5, <1>6, HasKept
<1>8. Laid(P, other, k - 1, Len(text) + 1)
  <2>1. Agree(text, other, Len(text) + 1)
    BY <1>2, <1>5, <1>6 DEF Agree
  <2> QED
    BY <1>1, <1>5, <2>1, LaidKept
<1> DEFINE n == Len(Body(P, k))
           f == Single(n, end)
<1> HIDE DEF n
<1>9. Run(P, other, f, Body(P, k), n, n) /\ f[n] = end
  BY <1>1, RunStarts DEF n
<1> HIDE DEF f
<1> QED
  BY <1>4, <1>5, <1>7, <1>8, <1>9 DEF Shifting, n

LEMMA MovingStarts ==
  ASSUME NEW P, PlanOK(P), NEW text, IsText(text), NEW k \in 1..P.n,
         Laid(P, text, k - 1, Len(text) + 1),
         NEW open, Joined(open, text, Lead(P, k)),
         NEW full, Joined(full, open, Body(P, k)),
         NEW pad, IsText(pad), NEW other, Joined(other, full, pad)
  PROVE  /\ IsText(other)
         /\ Moving(P, other, k, Len(open) + 1, Len(Body(P, k)), Len(other) + 1, Len(other) + 1)
<1>1. IsText(Lead(P, k)) /\ 1 \in Nat \ {0}
  BY DEF PlanOK, IsText
<1>2. IsText(other)
  BY <1>1, ShiftingStarts
<1>3. Len(other) + 1 \in Nat \ {0}
  <2>1. Len(other) \in Nat
    BY <1>2 DEF IsText
  <2> QED
    BY <2>1
<1> QED
  BY <1>1, <1>2, <1>3, ShiftingStarts DEF Moving

LEMMA ShiftingStep ==
  ASSUME NEW P, PlanOK(P), NEW text, NEW other, NEW k \in 1..P.n, NEW lead \in Seq(Nat),
         NEW s \in Nat \ {0}, NEW q \in 1..Len(Body(P, k)), NEW a, NEW end,
         Shifting(P, text, k, lead, s, q, a, end),
         NEW b \in Nat \ {0}, Agree(text, other, s), AgreeAbove(text, other, a, end),
         ByteAt(P, other, b, a, Body(P, k)[q])
  PROVE  Shifting(P, other, k, lead, s, q - 1, b, end)
<1>1. /\ Len(lead) \in Nat /\ Len(Body(P, k)) \in Nat
      /\ k - 1 \in Nat /\ k - 1 <= P.n
  BY DEF PlanOK
<1>2. PICK d, f :
        /\ d \in Nat \ {0} /\ Laid(P, text, k - 1, d)
        /\ Has(text, d, lead) /\ s = d + Len(lead)
        /\ Run(P, text, f, Body(P, k), q, Len(Body(P, k)))
        /\ f[q] = a /\ f[Len(Body(P, k))] = end
  BY DEF Shifting
<1>3. Has(other, d, lead)
  <2>1. d + Len(lead) <= s
    BY <1>1, <1>2
  <2> QED
    BY <1>1, <1>2, <2>1, HasKept
<1>4. Laid(P, other, k - 1, d)
  <2>1. d <= s
    BY <1>1, <1>2
  <2>2. Agree(text, other, d)
    BY <1>2, <2>1 DEF Agree
  <2> QED
    BY <1>1, <1>2, <2>2, LaidKept
<1>5. Run(P, other, f, Body(P, k), q, Len(Body(P, k)))
  <2>1. q \in Int /\ Len(Body(P, k)) \in Int /\ q <= Len(Body(P, k))
    BY <1>1
  <2> QED
    BY <1>2, <2>1, RunKeptAbove
<1>6. PICK g : /\ Run(P, other, g, Body(P, k), q - 1, Len(Body(P, k)))
               /\ g[q - 1] = b /\ g[Len(Body(P, k))] = f[Len(Body(P, k))]
  <2>1. q \in Nat \ {0} /\ Len(Body(P, k)) \in Nat /\ q <= Len(Body(P, k))
    BY <1>1
  <2> QED
    BY <1>2, <1>5, <2>1, RunGrowsDown
<1> QED
  BY <1>2, <1>3, <1>4, <1>6 DEF Shifting

(* The first q bytes, none of them special, are where they have to be. *)
LEMMA MovingEnds ==
  ASSUME NEW P, PlanOK(P), NEW text, NEW k \in 1..P.n, NEW s \in Nat \ {0},
         NEW q \in 0..Len(Body(P, k)), NEW end, Moving(P, text, k, s, q, s + q, end),
         \A p \in 1..q : text[s + p - 1] = Body(P, k)[p] /\ Body(P, k)[p] \notin P.special
  PROVE  Opened(P, text, k, Len(Body(P, k)), end)
<1> DEFINE n == Len(Body(P, k))
<1>1. n \in Nat
  BY DEF PlanOK
<1> HIDE DEF n
<1>2. PICK d, f :
        /\ d \in Nat \ {0} /\ Laid(P, text, k - 1, d)
        /\ Has(text, d, Lead(P, k)) /\ s = d + Len(Lead(P, k))
        /\ Run(P, text, f, Body(P, k), q, n)
        /\ f[q] = s + q /\ f[n] = end
  BY DEF Moving, Shifting, n
<1>q. q \in 0..n
  BY DEF n
<1>3. /\ f \in [q..n -> Nat \ {0}]
      /\ \A p \in q..n : f[q] <= f[p] /\ f[p] <= f[n]
      /\ \A p \in q..(n - 1) : ByteAt(P, text, f[p], f[p + 1], Body(P, k)[p + 1])
  BY <1>2 DEF Run
<1> DEFINE g == [p \in 0..n |-> IF p < q THEN s + p ELSE f[p]]
<1>4. f[q] \in Nat /\ f[n] \in Nat /\ f[q] <= f[n]
  BY <1>1, <1>q, <1>3
<1>5. g \in [0..n -> Nat \ {0}]
  BY <1>1, <1>q, <1>3
<1>6. g[0] = s /\ g[n] = f[n]
  <2>1. CASE q = 0
    <3>1. f[0] = s
      BY <1>2, <2>1
    <3> QED
      BY <1>1, <1>q, <2>1, <3>1
  <2>2. CASE q # 0
    BY <1>1, <1>q, <2>2
  <2> QED
    BY <2>1, <2>2
<1>7. ASSUME NEW p \in 0..n PROVE g[0] <= g[p] /\ g[p] <= g[n]
  <2>1. CASE p < q
    <3>1. g[p] = s + p /\ p \in Nat
      BY <2>1
    <3> HIDE DEF g
    <3>2. PICK l, a, b : l = g[p] /\ a = f[q] /\ b = f[n]
      OBVIOUS
    <3>3. l = s + p /\ a = s + q /\ a <= b /\ a \in Nat /\ b \in Nat /\ p < q /\ q \in Nat
      BY <1>1, <1>2, <1>4, <1>q, <2>1, <3>1, <3>2
    <3>4. s <= l /\ l <= b
      BY <3>1, <3>3
    <3> QED
      BY <1>6, <3>2, <3>4
  <2>2. CASE q <= p
    <3>1. p \in q..n /\ g[p] = f[p] /\ q \in Nat
      BY <1>1, <1>q, <2>2
    <3>2. f[p] \in Nat /\ f[q] <= f[p] /\ f[p] <= f[n]
      BY <1>3, <3>1
    <3> HIDE DEF g
    <3> QED
      BY <1>2, <1>4, <1>6, <3>1, <3>2
  <2> QED
    BY <1>q, <1>1, <2>1, <2>2
<1>8. ASSUME NEW p \in 0..(n - 1) PROVE ByteAt(P, text, g[p], g[p + 1], Body(P, k)[p + 1])
  <2>1. CASE p < q
    <3>1. p + 1 \in 1..q /\ s + (p + 1) - 1 = s + p /\ p + 1 \in 0..n
      BY <1>1, <1>q, <2>1
    <3>2. text[s + p] = Body(P, k)[p + 1] /\ Body(P, k)[p + 1] \notin P.special
      <4>1. text[s + (p + 1) - 1] = Body(P, k)[p + 1] /\ Body(P, k)[p + 1] \notin P.special
        BY <3>1
      <4>2. s + (p + 1) - 1 = s + p
        BY <3>1
      <4> QED
        BY <4>1, <4>2
    <3>3. g[p] = s + p
      <4>1. p \in 0..n
        BY <1>1
      <4> QED
        BY <2>1, <4>1
    <3>4. g[p + 1] = s + p + 1
      <4>1. CASE p + 1 < q
        BY <3>1, <4>1
      <4>2. CASE p + 1 = q
        <5>1. g[p + 1] = f[q]
          BY <3>1, <4>2
        <5>2. f[q] = s + (p + 1)
          BY <1>2, <4>2
        <5>3. s + (p + 1) = s + p + 1
          OBVIOUS
        <5> HIDE DEF g
        <5> QED
          BY <5>1, <5>2, <5>3
      <4> QED
        BY <1>q, <1>1, <2>1, <4>1, <4>2
    <3> HIDE DEF g
    <3> QED
      BY <3>2, <3>3, <3>4 DEF ByteAt
  <2>2. CASE q <= p
    <3>1. p \in q..(n - 1) /\ g[p] = f[p] /\ g[p + 1] = f[p + 1]
      BY <1>1, <1>q, <2>2
    <3> HIDE DEF g
    <3> QED
      BY <1>3, <3>1
  <2> QED
    BY <1>q, <1>1, <2>1, <2>2
<1>9. Run(P, text, g, Body(P, k), 0, n)
  <2> HIDE DEF g
  <2> QED
    BY <1>5, <1>7, <1>8 DEF Run
<1> HIDE DEF g
<1> QED
  BY <1>2, <1>6, <1>9 DEF Opened, n

(* What the encoder of a row writes: a separator before each field but the *)
(* first, then null, or the bytes of the string between quotes.            *)
RowLead(v, k, sep, null, quote) ==
  (IF k = 1 THEN <<>> ELSE sep) \o (IF v[k].kind = "nil" THEN null ELSE quote)
RowTrail(v, k, quote) == IF v[k].kind = "nil" THEN <<>> ELSE quote
RowPlan(v, prefix, sep, null, quote, Special, escape) ==
  [n |-> Len(v), prefix |-> prefix,
   lead |-> [k \in 1..Len(v) |-> RowLead(v, k, sep, null, quote)],
   body |-> [k \in 1..Len(v) |-> v[k].str],
   trail |-> [k \in 1..Len(v) |-> RowTrail(v, k, quote)],
   special |-> Special, escape |-> escape]

RowPlanned(P, v, sep, null, quote, Special, escape) ==
  /\ PlanOK(P) /\ Escapable(P) /\ P.n = Len(v) /\ P.special = Special
  /\ \A c : Escape(P, c) = escape[c]
  /\ \A k \in 1..Len(v) :
       /\ Lead(P, k) = RowLead(v, k, sep, null, quote)
       /\ Body(P, k) = v[k].str /\ Trail(P, k) = RowTrail(v, k, quote)

IsRowPlan(P, v, prefix, sep, null, quote, Special, escape) ==
  P = RowPlan(v, prefix, sep, null, quote, Special, escape)

LEMMA RowPlanFacts ==
  ASSUME NEW v \in Seq(Fields), NEW prefix \in Seq(Nat), NEW sep \in Seq(Nat), NEW null \in Seq(Nat),
         NEW quote \in Seq(Nat), NEW Special, NEW escape, \A c \in Special : escape[c] \in Nat,
         NEW P, IsRowPlan(P, v, prefix, sep, null, quote, Special, escape)
  PROVE  RowPlanned(P, v, sep, null, quote, Special, escape) /\ P.prefix = prefix
<1>1. /\ P.n = Len(v) /\ P.prefix = prefix /\ P.special = Special /\ P.escape = escape
      /\ P.lead = [k \in 1..Len(v) |-> RowLead(v, k, sep, null, quote)]
      /\ P.body = [k \in 1..Len(v) |-> v[k].str]
      /\ P.trail = [k \in 1..Len(v) |-> RowTrail(v, k, quote)]
  BY DEF RowPlan, IsRowPlan
<1>2. ASSUME NEW k \in 1..Len(v)
      PROVE  /\ Lead(P, k) = RowLead(v, k, sep, null, quote)
             /\ Body(P, k) = v[k].str /\ Trail(P, k) = RowTrail(v, k, quote)
  BY <1>1 DEF Lead, Body, Trail
<1>3. ASSUME NEW k \in 1..Len(v)
      PROVE  Lead(P, k) \in Seq(Nat) /\ Body(P, k) \in Seq(Nat) /\ Trail(P, k) \in Seq(Nat)
  <2>1. Body(P, k) \in Seq(Nat)
    <3>1. v[k] \in Fields
      OBVIOUS
    <3>2. v[k].str \in Seq(Byte)
      BY <3>1 DEF Fields
    <3> QED
      BY <1>2, <3>2, BytesCount
  <2>2. Trail(P, k) \in Seq(Nat)
    <3>1. RowTrail(v, k, quote) = <<>> \/ RowTrail(v, k, quote) = quote
      BY DEF RowTrail
    <3>2. <<>> \in Seq(Nat)
      OBVIOUS
    <3> QED
      BY <1>2, <3>1, <3>2
  <2>3. Lead(P, k) \in Seq(Nat)
    <3>1. (IF k = 1 THEN <<>> ELSE sep) \in Seq(Nat) /\ (IF v[k].kind = "nil" THEN null ELSE quote) \in Seq(Nat)
      OBVIOUS
    <3>2. RowLead(v, k, sep, null, quote) \in Seq(Nat)
      BY <3>1, ConcatProperties DEF RowLead
    <3> QED
      BY <1>2, <3>2
  <2> QED
    BY <2>1, <2>2, <2>3
<1>4. Len(v) \in Nat
  OBVIOUS
<1>5. PlanOK(P)
  BY <1>1, <1>3, <1>4 DEF PlanOK
<1>6. Escapable(P) /\ \A c : Escape(P, c) = escape[c]
  BY <1>1 DEF Escapable, Escape
<1> QED
  BY <1>1, <1>2, <1>5, <1>6 DEF RowPlanned

(* How far the encoder has written P. *)
Writing(P) ==
  /\ mode = "encode" /\ j = 0 => i <= P.n + 1 /\ Laid(P, input, i - 1, Len(input) + 1)
  /\ mode = "encode" /\ j > 0 =>
       /\ i <= P.n /\ value[i].kind = "str" /\ j <= Len(Body(P, i)) + 1
       /\ Opened(P, input, i, j - 1, Len(input) + 1)
  /\ mode = "escape" =>
       /\ j = 0 /\ i <= P.n /\ value[i].kind = "str" /\ ptr1 - start + 1 <= Len(Body(P, i))
       /\ Moving(P, input, i, start, ptr1 - start + 1, ptr2 + 1, Len(input) + 1)
Written(P, text, end) ==
  \E e \in Nat \ {0} : Laid(P, text, P.n, e) /\ Has(text, e, end) /\ Len(text) + 1 = e + Len(end)

(* The head of the loop over the fields. *)
LEMMA FieldLed ==
  ASSUME NEW CONSTANT P, NEW CONSTANT sep \in Seq(Nat), NEW CONSTANT null \in Seq(Nat),
         NEW CONSTANT quote \in Seq(Nat), NEW CONSTANT Special, NEW CONSTANT escape,
         RowPlanned(P, value, sep, null, quote, Special, escape), Base, i <= Len(value),
         NEW CONSTANT open, open = IF value[i].kind = "nil" THEN null ELSE quote
  PROVE  Joined(FieldStart(sep, open), input, Lead(P, i))
<1>1. i \in 1..Len(value) /\ input \in Seq(Nat)
  BY DEF Base
<1>2. Lead(P, i) = (IF i = 1 THEN <<>> ELSE sep) \o open
  BY <1>1 DEF RowPlanned, RowLead
<1>3. open \in Seq(Nat)
  <2>1. open = null \/ open = quote
    OBVIOUS
  <2> QED
    BY <2>1
<1> DEFINE s == IF i = 1 THEN <<>> ELSE sep
<1>4. FieldStart(sep, open) = (input \o s) \o open
  BY Zenon DEF FieldStart
<1>7. <<>> \in Seq(Nat)
  OBVIOUS
<1>8. s \in Seq(Nat)
  <2>1. s = <<>> \/ s = sep
    BY Zenon
  <2> HIDE DEF s
  <2> QED
    BY <2>1, <1>7, Zenon
<1>5. Lead(P, i) = s \o open /\ s \in Seq(Nat) /\ open \in Seq(Nat)
  BY <1>2, <1>3, <1>8, Zenon
<1> HIDE DEF s
<1>6. (input \o s) \o open = input \o (s \o open)
  BY <1>1, <1>3, <1>8, Regrouped, ZenonT(60)
<1> QED
  BY <1>4, <1>5, <1>6 DEF Joined

LEMMA NullWritten ==
  ASSUME NEW CONSTANT P, NEW CONSTANT sep \in Seq(Nat), NEW CONSTANT null \in Seq(Nat),
         NEW CONSTANT quote \in Seq(Nat), NEW CONSTANT Special, NEW CONSTANT escape,
         RowPlanned(P, value, sep, null, quote, Special, escape), IsRow(value), Base, Writing(P),
         EncodeNull(sep, null)
  PROVE  Writing(P)'
<1>1. /\ mode = "encode" /\ i <= Len(value) /\ j = 0 /\ value[i].kind = "nil"
      /\ mode' = "encode" /\ j' = 0 /\ i' = i + 1
      /\ input' = FieldStart(sep, null)
  BY DEF EncodeNull
<1>2. PlanOK(P) /\ P.n = Len(value) /\ Len(value) \in Nat /\ i \in Nat \ {0} /\ IsText(input)
  BY DEF RowPlanned, Base, IsText
<1>3. i \in 1..P.n /\ i \in 1..Len(value) /\ i' - 1 = i /\ i' <= P.n + 1
  BY <1>1, <1>2
<1>4. value[i].str = <<>>
  BY <1>1, <1>3 DEF IsRow, Nil, Str, Base
<1>5. Body(P, i) = <<>> /\ Trail(P, i) = <<>>
  BY <1>1, <1>3, <1>4 DEF RowPlanned, RowTrail
<1>6. Joined(input', input, Lead(P, i))
  <2>1. null = IF value[i].kind = "nil" THEN null ELSE quote
    BY <1>1
  <2> QED
    BY <1>1, <2>1, FieldLed
<1>7. Laid(P, input, i - 1, Len(input) + 1)
  BY <1>1 DEF Writing
<1>8. IsText(input') /\ Opened(P, input', i, 0, Len(input') + 1)
  BY <1>2, <1>3, <1>6, <1>7, OpenStarts
<1>9. Joined(input', input', Trail(P, i)) /\ Len(Body(P, i)) = 0
  <2>1. input' \o <<>> = input'
    BY <1>8, ConcatEmptySeq DEF IsText
  <2> QED
    BY <1>5, <2>1 DEF Joined
<1>10. Laid(P, input', i, Len(input') + 1)
  BY <1>2, <1>3, <1>8, <1>9, OpenEnds
<1> QED
  BY <1>1, <1>3, <1>10 DEF Writing

LEMMA StringStarted ==
  ASSUME NEW CONSTANT P, NEW CONSTANT sep \in Seq(Nat), NEW CONSTANT null \in Seq(Nat),
         NEW CONSTANT quote \in Seq(Nat), NEW CONSTANT Special, NEW CONSTANT escape,
         RowPlanned(P, value, sep, null, quote, Special, escape), Base, Writing(P),
         EncodeString(sep, quote)
  PROVE  Writing(P)'
<1>1. /\ mode = "encode" /\ i <= Len(value) /\ j = 0 /\ value[i].kind = "str"
      /\ mode' = "encode" /\ j' = 1 /\ i' = i /\ value' = value
      /\ input' = FieldStart(sep, quote)
  BY DEF EncodeString
<1>2. PlanOK(P) /\ P.n = Len(value) /\ Len(value) \in Nat /\ i \in Nat \ {0} /\ IsText(input)
  BY DEF RowPlanned, Base, IsText
<1>3. i \in 1..P.n /\ i \in 1..Len(value) /\ Len(Body(P, i)) \in Nat
  BY <1>1, <1>2 DEF PlanOK
<1>4. Joined(input', input, Lead(P, i))
  <2>1. quote = IF value[i].kind = "nil" THEN null ELSE quote
    BY <1>1
  <2> QED
    BY <1>1, <2>1, FieldLed
<1>5. Laid(P, input, i - 1, Len(input) + 1)
  BY <1>1 DEF Writing
<1>6. Opened(P, input', i, 0, Len(input') + 1)
  BY <1>2, <1>3, <1>4, <1>5, OpenStarts
<1>7. i' <= P.n /\ value'[i'].kind = "str" /\ j' <= Len(Body(P, i')) + 1 /\ j' - 1 = 0
  <2>1. 1 <= Len(Body(P, i)) + 1
    BY <1>3
  <2> QED
    BY <1>1, <1>3, <2>1
<1>8. Opened(P, input', i', j' - 1, Len(input') + 1)
  BY <1>1, <1>6, <1>7
<1> QED
  BY <1>1, <1>7, <1>8 DEF Writing

LEMMA ByteWritten ==
  ASSUME NEW CONSTANT P, NEW CONSTANT sep \in Seq(Nat), NEW CONSTANT null \in Seq(Nat),
         NEW CONSTANT quote \in Seq(Nat), NEW CONSTANT Special, NEW CONSTANT escape,
         RowPlanned(P, value, sep, null, quote, Special, escape), Base, Writing(P),
         EncodeByte(Special, escape)
  PROVE  Writing(P)'
<1>1. /\ mode = "encode" /\ i <= Len(value) /\ j \in 1..Len(value[i].str)
      /\ mode' = "encode" /\ j' = j + 1 /\ i' = i /\ value' = value
  BY DEF EncodeByte
<1>2. /\ PlanOK(P) /\ Escapable(P) /\ P.n = Len(value) /\ Len(value) \in Nat /\ i \in Nat \ {0}
      /\ j \in Nat /\ IsText(input)
  BY DEF RowPlanned, Base, IsText
<1>3. i \in 1..P.n /\ i \in 1..Len(value) /\ Body(P, i) = value[i].str /\ Len(Body(P, i)) \in Nat
  BY <1>1, <1>2 DEF PlanOK, RowPlanned
<1>4. Opened(P, input, i, j - 1, Len(input) + 1) /\ value[i].kind = "str"
  <2>1. j > 0
    BY <1>1, <1>2
  <2> QED
    BY <1>1, <2>1 DEF Writing
<1>5. Joined(input', input, Spelled(P, Body(P, i)[j]))
  <2> DEFINE c == value[i].str[j]
  <2>1. input' = input \o (IF c \in Special THEN <<escape[c], c>> ELSE <<c>>)
    BY DEF EncodeByte
  <2>2. Body(P, i)[j] = c
    BY <1>3
  <2>3. Escape(P, c) = escape[c] /\ P.special = Special
    BY DEF RowPlanned
  <2> HIDE DEF c
  <2> QED
    BY <2>1, <2>2, <2>3 DEF Joined, Spelled
<1>6. j - 1 \in Nat /\ j - 1 < Len(Body(P, i)) /\ (j - 1) + 1 = j /\ j' - 1 = j /\ j' <= Len(Body(P, i)) + 1
  <2>1. j \in 1..Len(Body(P, i))
    BY <1>1, <1>3
  <2> QED
    BY <1>1, <1>2, <1>3, <2>1
<1>7. Opened(P, input', i, j, Len(input') + 1)
  BY <1>2, <1>3, <1>4, <1>5, <1>6, OpenGrows
<1>8. j' # 0 /\ i' <= P.n /\ value'[i'].kind = "str"
  BY <1>1, <1>2, <1>3, <1>4
<1> QED
  BY <1>1, <1>6, <1>7, <1>8 DEF Writing

LEMMA StringEnded ==
  ASSUME NEW CONSTANT P, NEW CONSTANT sep \in Seq(Nat), NEW CONSTANT null \in Seq(Nat),
         NEW CONSTANT quote \in Seq(Nat), NEW CONSTANT Special, NEW CONSTANT escape,
         RowPlanned(P, value, sep, null, quote, Special, escape), Base, Writing(P),
         EncodeStringEnd(quote)
  PROVE  Writing(P)'
<1>1. /\ mode = "encode" /\ i <= Len(value) /\ j > 0 /\ j = Len(value[i].str) + 1
      /\ mode' = "encode" /\ j' = 0 /\ i' = i + 1 /\ input' = input \o quote
  BY DEF EncodeStringEnd
<1>2. PlanOK(P) /\ P.n = Len(value) /\ Len(value) \in Nat /\ i \in Nat \ {0} /\ IsText(input)
  BY DEF RowPlanned, Base, IsText
<1>3. /\ i \in 1..P.n /\ i \in 1..Len(value) /\ Body(P, i) = value[i].str /\ Len(Body(P, i)) \in Nat
      /\ i' - 1 = i /\ i' <= P.n + 1
  BY <1>1, <1>2 DEF PlanOK, RowPlanned
<1>4. Opened(P, input, i, j - 1, Len(input) + 1) /\ value[i].kind = "str"
  BY <1>1 DEF Writing
<1>5. j - 1 = Len(Body(P, i))
  BY <1>1, <1>3
<1>6. Joined(input', input, Trail(P, i))
  BY <1>1, <1>3, <1>4 DEF Joined, RowPlanned, RowTrail
<1>7. Laid(P, input', i, Len(input') + 1)
  BY <1>2, <1>3, <1>4, <1>5, <1>6, OpenEnds
<1> QED
  BY <1>1, <1>3, <1>7 DEF Writing

LEMMA RowEnded ==
  ASSUME NEW CONSTANT P, NEW CONSTANT sep \in Seq(Nat), NEW CONSTANT null \in Seq(Nat),
         NEW CONSTANT quote \in Seq(Nat), NEW CONSTANT Special, NEW CONSTANT escape,
         RowPlanned(P, value, sep, null, quote, Special, escape), Base, Writing(P),
         NEW CONSTANT end \in Seq(Nat), EncodeEnd(end)
  PROVE  Writing(P)' /\ Written(P, input', end)
<1>1. /\ mode = "encode" /\ i > Len(value) /\ mode' = "decode" /\ input' = input \o end
  BY DEF EncodeEnd
<1>2. /\ PlanOK(P) /\ P.n = Len(value) /\ Len(value) \in Nat /\ i \in Nat \ {0} /\ j \in Nat
      /\ IsText(input) /\ IsText(end)
  BY DEF RowPlanned, Base, IsText
<1>3. j = 0
  <2>1. j > 0 => i <= P.n
    BY <1>1 DEF Writing
  <2> QED
    BY <1>1, <1>2, <2>1
<1>4. i <= P.n + 1 /\ Laid(P, input, i - 1, Len(input) + 1)
  BY <1>1, <1>3 DEF Writing
<1>5. i - 1 = P.n
  BY <1>1, <1>2, <1>4
<1>6. /\ Len(input') = Len(input) + Len(end) /\ Len(input) \in Nat /\ Len(end) \in Nat
      /\ Agree(input, input', Len(input) + 1) /\ Has(input', Len(input) + 1, end)
  BY <1>1, <1>2, Appended DEF Joined
<1>7. Len(input) + 1 \in Nat \ {0} /\ Len(input') + 1 = (Len(input) + 1) + Len(end) /\ Len(input) + 1 \in Nat
  BY <1>6
<1>8. Laid(P, input', P.n, Len(input) + 1)
  <2>1. P.n \in Nat /\ P.n <= P.n
    BY <1>2
  <2> QED
    BY <1>2, <1>4, <1>5, <1>6, <1>7, <2>1, LaidKept
<1> QED
  BY <1>1, <1>6, <1>7, <1>8 DEF Writing, Written

(* A byte or two of the text are overwritten. *)
Put(other, text, b, c) == other = [text EXCEPT ![b] = c]
PutTwo(other, text, b, c, d) == other = [text EXCEPT ![b] = c, ![b - 1] = d]

LEMMA Overwritten ==
  ASSUME NEW text \in Seq(Nat), NEW b \in 1..Len(text), NEW c \in Nat, NEW s \in Nat,
         s <= b, NEW other, Put(other, text, b, c)
  PROVE  /\ IsText(other) /\ Len(other) = Len(text)
         /\ Agree(text, other, s) /\ AgreeAbove(text, other, b + 1, Len(text) + 1) /\ other[b] = c
<1>1. /\ other \in Seq(Nat) /\ Len(other) = Len(text)
      /\ \A k \in 1..Len(text) : other[k] = IF k = b THEN c ELSE text[k]
  BY ExceptSeq DEF Put
<1>2. Len(text) \in Nat /\ b \in Nat
  OBVIOUS
<1>3. Agree(text, other, s)
  <2> SUFFICES ASSUME NEW q \in 1..(s - 1) PROVE other[q] = text[q]
    BY DEF Agree
  <2>1. q \in 1..Len(text) /\ q # b
    BY <1>2
  <2> QED
    BY <1>1, <2>1
<1>4. AgreeAbove(text, other, b + 1, Len(text) + 1)
  <2> SUFFICES ASSUME NEW q \in Nat, b + 1 <= q, q < Len(text) + 1 PROVE other[q] = text[q]
    BY DEF AgreeAbove
  <2>1. q \in 1..Len(text) /\ q # b
    BY <1>2
  <2> QED
    BY <1>1, <2>1
<1> QED
  BY <1>1, <1>3, <1>4 DEF IsText

LEMMA OverwrittenTwice ==
  ASSUME NEW text \in Seq(Nat), NEW b \in 1..Len(text), NEW c \in Nat, NEW d \in Nat,
         NEW s \in Nat \ {0}, s <= b - 1, NEW other, PutTwo(other, text, b, c, d)
  PROVE  /\ IsText(other) /\ Len(other) = Len(text)
         /\ Agree(text, other, s) /\ AgreeAbove(text, other, b + 1, Len(text) + 1)
         /\ other[b] = c /\ other[b - 1] = d
<1> DEFINE t == [text EXCEPT ![b] = c]
<1>1. t \in Seq(Nat) /\ Len(t) = Len(text)
      /\ \A k \in 1..Len(text) : t[k] = IF k = b THEN c ELSE text[k]
  BY ExceptSeq
<1>2. other = [t EXCEPT ![b - 1] = d]
  BY DEF PutTwo
<1> HIDE DEF t
<1>3. Len(text) \in Nat /\ b \in Nat /\ b - 1 \in 1..Len(text)
  OBVIOUS
<1>4. /\ other \in Seq(Nat) /\ Len(other) = Len(t)
      /\ \A k \in 1..Len(t) : other[k] = IF k = b - 1 THEN d ELSE t[k]
  <2>1. b - 1 \in 1..Len(t)
    BY <1>1, <1>3
  <2>2. /\ [t EXCEPT ![b - 1] = d] \in Seq(Nat) /\ Len([t EXCEPT ![b - 1] = d]) = Len(t)
        /\ \A k \in 1..Len(t) : [t EXCEPT ![b - 1] = d][k] = IF k = b - 1 THEN d ELSE t[k]
    BY <1>1, <2>1, ExceptSeq
  <2> QED
    BY <1>2, <2>2
<1>5. \A k \in 1..Len(text) : other[k] = IF k = b - 1 THEN d ELSE IF k = b THEN c ELSE text[k]
  BY <1>1, <1>4
<1>6. Agree(text, other, s)
  <2> SUFFICES ASSUME NEW q \in 1..(s - 1) PROVE other[q] = text[q]
    BY DEF Agree
  <2>1. q \in 1..Len(text) /\ q # b /\ q # b - 1
    BY <1>3
  <2> QED
    BY <1>5, <2>1
<1>7. AgreeAbove(text, other, b + 1, Len(text) + 1)
  <2> SUFFICES ASSUME NEW q \in Nat, b + 1 <= q, q < Len(text) + 1 PROVE other[q] = text[q]
    BY DEF AgreeAbove
  <2>1. q \in 1..Len(text) /\ q # b /\ q # b - 1
    BY <1>3
  <2> QED
    BY <1>5, <2>1
<1>8. other[b] = c /\ other[b - 1] = d
  <2>1. b # b - 1
    BY <1>3
  <2> QED
    BY <1>3, <1>5, <2>1
<1> QED
  BY <1>1, <1>4, <1>6, <1>7, <1>8 DEF IsText

(* MoveByte writes the byte before ptr1 where P has it. *)
LEMMA ByteShifted ==
  ASSUME NEW CONSTANT P, PlanOK(P), Escapable(P), NEW CONSTANT Special, P.special = Special,
         NEW CONSTANT escape, \A c : Escape(P, c) = escape[c],
         NEW CONSTANT extra \in Nat, Base, EscapeRoom(Special, extra), ptr1 >= start,
         MoveByte(Special, escape), i \in 1..P.n, Body(P, i) = value[i].str,
         ptr1 - start + 1 <= Len(Body(P, i)),
         NEW CONSTANT lead \in Seq(Nat), NEW CONSTANT end \in Nat, end <= Len(input) + 1,
         Shifting(P, input, i, lead, start, ptr1 - start + 1, ptr2 + 1, end)
  PROVE  /\ Shifting(P, input', i, lead, start, ptr1' - start + 1, ptr2' + 1, end)
         /\ ptr1' - start + 1 <= Len(Body(P, i)) /\ Len(input') = Len(input)
         /\ AgreeAbove(input, input', ptr2 + 1, Len(input) + 1)
<1>0. /\ start \in Nat \ {0} /\ ptr1 \in Nat /\ ptr2 \in Nat
      /\ input \in Seq(Nat) /\ Len(input) \in Nat /\ start <= ptr1 /\ ptr1' = ptr1 - 1
      /\ Len(Body(P, i)) \in Nat
  <2>1. Body(P, i) \in Seq(Nat)
    BY DEF PlanOK
  <2>2. Len(Body(P, i)) \in Nat
    BY <2>1
  <2> QED
    BY <2>2 DEF Base, MoveByte
<1> DEFINE c == input[ptr1]
           q == ptr1 - start + 1
<1>1. /\ mode = "escape"
      /\ ptr1 <= ptr2 /\ ptr2 <= Len(input)
      /\ ptr2 - ptr1 = extra + Cardinality(Marked(input, start, ptr1, Special))
      /\ \A k \in start..ptr1 : input[k] = value[i].str[k - start + 1]
  BY DEF MoveByte, EscapeRoom, Marked
<1>2. c = Body(P, i)[q]
  <2>1. ptr1 \in start..ptr1
    BY <1>0
  <2> QED
    BY <1>1, <2>1
<1>3. ptr1 \in 1..Len(input) /\ ptr2 \in 1..Len(input) /\ q \in 1..Len(Body(P, i)) /\ ptr1' - start + 1 = q - 1
  BY <1>0, <1>1
<1>4. c \in Nat
  BY <1>0, <1>3, ElementOfSeq
<1>5. Len(input) + 1 \in Nat /\ start \in Nat /\ start <= ptr2
  BY <1>0, <1>1
<1>6. CASE c \in Special
  <2>1. start <= ptr2 - 1 /\ ptr2 - 1 \in Nat \ {0}
    <3>1. /\ Cardinality(Marked(input, start, ptr1, Special)) = Cardinality(Marked(input, start, ptr1 - 1, Special)) + 1
          /\ Cardinality(Marked(input, start, ptr1 - 1, Special)) \in Nat
      <4>1. start \in Int /\ ptr1 \in Int /\ ptr1 - 1 \in Int /\ start <= ptr1
        BY <1>0
      <4>2. Cardinality(Marked(input, start, ptr1 - 1, Special)) \in Nat
        BY <4>1, MarkedFinite
      <4>3. Cardinality(Marked(input, start, ptr1, Special))
              = Cardinality(Marked(input, start, ptr1 - 1, Special)) + (IF c \in Special THEN 1 ELSE 0)
        BY <4>1, MarkedLast
      <4> QED
        BY <1>6, <4>2, <4>3
    <3>2. /\ start \in Nat \ {0} /\ ptr1 \in Nat /\ ptr2 \in Nat /\ start <= ptr1
          /\ ptr2 - ptr1 = extra + Cardinality(Marked(input, start, ptr1, Special))
      BY <1>0, <1>1
    <3> HIDE DEF c, q
    <3> QED
      BY <3>1, <3>2
  <2>2. PutTwo(input', input, ptr2, c, escape[c]) /\ ptr2' = ptr2 - 2
    BY <1>6 DEF MoveByte, PutTwo
  <2>3. escape[c] \in Nat /\ Escape(P, c) = escape[c]
    BY <1>6 DEF Escapable
  <2> HIDE DEF c, q
  <2>4. /\ Len(input') = Len(input)
        /\ Agree(input, input', start) /\ AgreeAbove(input, input', ptr2 + 1, Len(input) + 1)
        /\ input'[ptr2] = c /\ input'[ptr2 - 1] = escape[c]
    <3>1. /\ input \in Seq(Nat) /\ ptr2 \in 1..Len(input) /\ c \in Nat /\ escape[c] \in Nat
          /\ start \in Nat \ {0} /\ start <= ptr2 - 1 /\ PutTwo(input', input, ptr2, c, escape[c])
      BY <1>0, <1>3, <1>4, <2>1, <2>2, <2>3
    <3>2. PICK b, x, d, t : b = ptr2 /\ x = c /\ d = escape[c] /\ t = input'
      OBVIOUS
    <3>3. /\ b \in 1..Len(input) /\ x \in Nat /\ d \in Nat /\ start <= b - 1
          /\ PutTwo(t, input, b, x, d)
      BY <3>1, <3>2
    <3>4. /\ Len(t) = Len(input)
          /\ Agree(input, t, start) /\ AgreeAbove(input, t, b + 1, Len(input) + 1)
          /\ t[b] = x /\ t[b - 1] = d
      BY <3>1, <3>3, OverwrittenTwice, SMTT(60)
    <3> QED
      BY <3>2, <3>4
  <2>5. ByteAt(P, input', ptr2 - 1, ptr2 + 1, c)
    <3>1. ptr2 + 1 = (ptr2 - 1) + 2 /\ (ptr2 - 1) + 1 = ptr2
      BY <1>0
    <3> QED
      BY <1>6, <2>3, <2>4, <3>1 DEF ByteAt
  <2>6. Shifting(P, input', i, lead, start, q - 1, ptr2 - 1, end)
    <3>1. Shifting(P, input, i, lead, start, q, ptr2 + 1, end)
      BY DEF q
    <3>2. AgreeAbove(input, input', ptr2 + 1, end)
      <4>1. ptr2 + 1 \in Int /\ Len(input) + 1 \in Int /\ end \in Int /\ end <= Len(input) + 1
        BY <1>0
      <4> QED
        BY <2>4, <4>1, AgreeAboveLess
    <3> QED
      BY <1>0, <1>2, <1>3, <2>1, <2>4, <2>5, <3>1, <3>2, ShiftingStep
  <2>7. ptr2' + 1 = ptr2 - 1 /\ q - 1 <= Len(Body(P, i))
    <3>1. ptr2 \in Nat /\ Len(Body(P, i)) \in Nat /\ q \in 1..Len(Body(P, i)) /\ ptr2' = ptr2 - 2
      BY <1>0, <1>3, <2>2
    <3> QED
      BY <3>1
  <2> QED
    BY <1>3, <2>4, <2>6, <2>7
<1>7. CASE c \notin Special
  <2>2. Put(input', input, ptr2, c) /\ ptr2' = ptr2 - 1
    BY <1>7 DEF MoveByte, Put
  <2> HIDE DEF c, q
  <2>4. /\ Len(input') = Len(input)
        /\ Agree(input, input', start) /\ AgreeAbove(input, input', ptr2 + 1, Len(input) + 1)
        /\ input'[ptr2] = c
    BY <1>0, <1>3, <1>4, <1>5, <2>2, Overwritten
  <2>5. ByteAt(P, input', ptr2, ptr2 + 1, c)
    BY <1>7, <2>4 DEF ByteAt
  <2>6. Shifting(P, input', i, lead, start, q - 1, ptr2, end)
    <3>1. Shifting(P, input, i, lead, start, q, ptr2 + 1, end)
      BY DEF q
    <3>2. ptr2 \in Nat \ {0}
      BY <1>3
    <3>3. AgreeAbove(input, input', ptr2 + 1, end)
      <4>1. ptr2 + 1 \in Int /\ Len(input) + 1 \in Int /\ end \in Int /\ end <= Len(input) + 1
        BY <1>0
      <4> QED
        BY <2>4, <4>1, AgreeAboveLess
    <3> QED
      BY <1>0, <1>2, <1>3, <2>4, <2>5, <3>1, <3>2, <3>3, ShiftingStep
  <2>7. ptr2' + 1 = ptr2 /\ q - 1 <= Len(Body(P, i))
    BY <1>0, <1>3, <2>2, SMTT(60)
  <2> QED
    BY <1>3, <2>4, <2>6, <2>7
<1> QED
  BY <1>6, <1>7

LEMMA ByteMoved ==
  ASSUME NEW CONSTANT P, PlanOK(P), Escapable(P), NEW CONSTANT Special, P.special = Special,
         NEW CONSTANT escape, \A c : Escape(P, c) = escape[c],
         NEW CONSTANT extra \in Nat, Base, EscapeRoom(Special, extra), ptr1 >= start,
         MoveByte(Special, escape), i \in 1..P.n, Body(P, i) = value[i].str,
         ptr1 - start + 1 <= Len(Body(P, i)),
         Moving(P, input, i, start, ptr1 - start + 1, ptr2 + 1, Len(input) + 1)
  PROVE  /\ Moving(P, input', i, start, ptr1' - start + 1, ptr2' + 1, Len(input') + 1)
         /\ ptr1' - start + 1 <= Len(Body(P, i))
<1>1. PICK lead \in Seq(Nat) : lead = Lead(P, i)
  BY DEF PlanOK
<1>2. PICK end \in Nat : end = Len(input) + 1
  <2>1. input \in Seq(Nat)
    BY DEF Base
  <2>2. Len(input) \in Nat
    BY <2>1
  <2> QED
    BY <2>2
<1>3. end <= Len(input) + 1 /\ Shifting(P, input, i, lead, start, ptr1 - start + 1, ptr2 + 1, end)
  BY <1>1, <1>2 DEF Moving
<1>4. /\ Shifting(P, input', i, lead, start, ptr1' - start + 1, ptr2' + 1, end)
      /\ ptr1' - start + 1 <= Len(Body(P, i)) /\ Len(input') = Len(input)
  BY <1>3, ByteShifted
<1> QED
  BY <1>1, <1>2, <1>4 DEF Moving

LEMMA BufferStarted ==
  ASSUME NEW CONSTANT P, NEW CONSTANT sep \in Seq(Nat), NEW CONSTANT null \in Seq(Nat),
         NEW CONSTANT quote \in Seq(Nat), NEW CONSTANT Special, NEW CONSTANT escape,
         RowPlanned(P, value, sep, null, quote, Special, escape), Base, Writing(P),
         EncodeBuffer(sep, quote, Special)
  PROVE  Writing(P)'
<1> DEFINE str == value[i].str
           n == Cardinality(Escapes(str, Special))
           open == FieldStart(sep, quote)
           pad == [k \in 1..n |-> NUL]
           full == open \o str
<1>1. /\ mode = "encode" /\ i <= Len(value) /\ j = 0 /\ value[i].kind = "str"
      /\ mode' = "escape" /\ j' = j /\ i' = i /\ value' = value
      /\ input' = full \o pad /\ start' = Len(open) + 1
      /\ ptr1' = Len(open) + Len(str) /\ ptr2' = Len(open) + Len(str) + n
  BY DEF EncodeBuffer
<1>2. PlanOK(P) /\ P.n = Len(value) /\ Len(value) \in Nat /\ i \in Nat \ {0} /\ IsText(input)
  BY DEF RowPlanned, Base, IsText
<1>3. i \in 1..P.n /\ i \in 1..Len(value) /\ Body(P, i) = str /\ Lead(P, i) \in Seq(Nat)
  <2>1. i <= Len(value)
    BY <1>1
  <2>2. i \in 1..P.n /\ i \in 1..Len(value)
    BY <1>2, <2>1
  <2> QED
    BY <2>2 DEF PlanOK, RowPlanned
<1>4. str \in Seq(Nat) /\ n \in Nat
  BY <1>1, FieldStrings, EscapesCount
<1>5. pad \in Seq(Nat) /\ Len(pad) = n
  BY <1>4, Zeros
<1>6. Joined(open, input, Lead(P, i))
  <2>1. quote = IF value[i].kind = "nil" THEN null ELSE quote
    BY <1>1
  <2> QED
    BY <1>1, <2>1, FieldLed
<1>7. Laid(P, input, i - 1, Len(input) + 1)
  BY <1>1 DEF Writing
<1>8. Joined(full, open, Body(P, i)) /\ Joined(input', full, pad) /\ IsText(pad) /\ IsText(str) /\ IsText(Lead(P, i))
  BY <1>1, <1>3, <1>4, <1>5 DEF Joined, IsText
<1> HIDE DEF open, full, pad, n
<1>9. Moving(P, input', i, Len(open) + 1, Len(Body(P, i)), Len(input') + 1, Len(input') + 1)
  BY <1>2, <1>3, <1>6, <1>7, <1>8, MovingStarts
<1>10. Len(open) \in Nat /\ Len(str) \in Nat /\ Len(input') = Len(open) + Len(str) + n
  <2>1. IsText(open) /\ Len(open) \in Nat
    BY <1>2, <1>6, <1>8, Appended
  <2>2. IsText(full) /\ Len(full) = Len(open) + Len(str) /\ Len(str) \in Nat
    BY <1>3, <1>8, <2>1, Appended
  <2>3. Len(input') = Len(full) + Len(pad)
    BY <1>8, <2>2, Appended
  <2> QED
    BY <1>5, <2>1, <2>2, <2>3
<1>11. ptr1' - start' + 1 = Len(Body(P, i)) /\ ptr2' + 1 = Len(input') + 1
  <2>1. /\ start' = Len(open) + 1 /\ ptr1' = Len(open) + Len(str) /\ ptr2' = Len(open) + Len(str) + n
        /\ Len(Body(P, i)) = Len(str)
    BY <1>1, <1>3
  <2> HIDE DEF str
  <2> QED
    BY <1>4, <1>10, <2>1
<1>12. Moving(P, input', i', start', ptr1' - start' + 1, ptr2' + 1, Len(input') + 1)
  BY <1>1, <1>9, <1>11
<1>13. ptr1' - start' + 1 <= Len(Body(P, i')) /\ i' <= P.n /\ j' = 0 /\ value'[i'].kind = "str"
  <2>1. Len(str) <= Len(str)
    BY <1>10
  <2> QED
    BY <1>1, <1>3, <1>11, <2>1
<1> QED
  BY <1>1, <1>12, <1>13 DEF Writing

LEMMA EscapeMoved ==
  ASSUME NEW CONSTANT P, NEW CONSTANT sep \in Seq(Nat), NEW CONSTANT null \in Seq(Nat),
         NEW CONSTANT quote \in Seq(Nat), NEW CONSTANT Special, NEW CONSTANT escape,
         RowPlanned(P, value, sep, null, quote, Special, escape), Base, Writing(P),
         EscapeRoom(Special, 0), EscapeByte(Special, escape)
  PROVE  Writing(P)'
<1>1. /\ mode = "escape" /\ mode' = "escape" /\ i' = i /\ j' = j /\ value' = value /\ start' = start
      /\ ptr1 # ptr2 /\ MoveByte(Special, escape)
  BY DEF EscapeByte, MoveByte
<1>2. /\ PlanOK(P) /\ Escapable(P) /\ P.n = Len(value) /\ Len(value) \in Nat /\ i \in Nat \ {0}
      /\ P.special = Special /\ \A c : Escape(P, c) = escape[c]
      /\ ptr1 \in Nat /\ ptr2 \in Nat /\ start \in Nat
  BY DEF RowPlanned, Base
<1>3. /\ j = 0 /\ i <= P.n /\ value[i].kind = "str" /\ ptr1 - start + 1 <= Len(Body(P, i))
      /\ Moving(P, input, i, start, ptr1 - start + 1, ptr2 + 1, Len(input) + 1)
  BY <1>1 DEF Writing
<1>4. i \in 1..P.n /\ Body(P, i) = value[i].str
  BY <1>2, <1>3 DEF RowPlanned
<1>5. ptr1 >= start
  <2> SUFFICES ASSUME start > ptr1 PROVE FALSE
    BY <1>2
  <2>1. Cardinality(Marked(input, start, ptr1, Special)) = 0
    BY <1>2, MarkedNone
  <2>2. ptr2 - ptr1 = 0 + Cardinality(Marked(input, start, ptr1, Special))
    BY <1>1 DEF EscapeRoom, Marked
  <2> QED
    BY <1>1, <1>2, <2>1, <2>2
<1>6. /\ Moving(P, input', i, start, ptr1' - start + 1, ptr2' + 1, Len(input') + 1)
      /\ ptr1' - start + 1 <= Len(Body(P, i))
  <2>1. 0 \in Nat
    OBVIOUS
  <2> QED
    BY <1>1, <1>2, <1>3, <1>4, <1>5, <2>1, ByteMoved
<1> QED
  BY <1>1, <1>3, <1>6 DEF Writing

(* Where the pointers meet, no byte is left that has to be escaped. *)
LEMMA EscapeMet ==
  ASSUME NEW CONSTANT P, PlanOK(P), Base, mode = "escape", ptr1 = ptr2, EscapeRoom(P.special, 0),
         i \in 1..P.n, Body(P, i) = value[i].str, ptr1 - start + 1 <= Len(Body(P, i)),
         Moving(P, input, i, start, ptr1 - start + 1, ptr2 + 1, Len(input) + 1)
  PROVE  Opened(P, input, i, Len(Body(P, i)), Len(input) + 1)
<1> DEFINE q == ptr1 - start + 1
<1>1. ptr1 \in Nat /\ ptr2 \in Nat /\ start \in Nat \ {0} /\ Len(Body(P, i)) \in Nat
  <2>1. Body(P, i) \in Seq(Nat)
    BY DEF PlanOK
  <2>2. Len(Body(P, i)) \in Nat
    BY <2>1
  <2> QED
    BY <2>2 DEF Base
<1>2. /\ start - 1 <= ptr1 /\ ptr2 - ptr1 = 0 + Cardinality(Marked(input, start, ptr1, P.special))
      /\ \A k \in start..ptr1 : input[k] = value[i].str[k - start + 1]
  BY DEF EscapeRoom, Marked
<1>3. Marked(input, start, ptr1, P.special) = {}
  <2>1. IsFiniteSet(Marked(input, start, ptr1, P.special)) /\ Cardinality(Marked(input, start, ptr1, P.special)) \in Nat
    BY <1>1, MarkedFinite
  <2>2. Cardinality(Marked(input, start, ptr1, P.special)) = 0
    BY <1>1, <1>2, <2>1
  <2> QED
    BY <2>1, <2>2, FS_EmptySet
<1>4. q \in 0..Len(Body(P, i)) /\ ptr2 + 1 = start + q
  BY <1>1, <1>2
<1>5. ASSUME NEW p \in 1..q
      PROVE  input[start + p - 1] = Body(P, i)[p] /\ Body(P, i)[p] \notin P.special
  <2>1. start + p - 1 \in start..ptr1 /\ (start + p - 1) - start + 1 = p
    BY <1>1, <1>2
  <2>2. input[start + p - 1] = Body(P, i)[p]
    BY <1>2, <2>1
  <2>3. input[start + p - 1] \notin P.special
    BY <1>3, <2>1 DEF Marked
  <2> QED
    BY <2>2, <2>3
<1>6. Moving(P, input, i, start, q, start + q, Len(input) + 1)
  BY <1>4
<1> HIDE DEF q
<1> QED
  BY <1>1, <1>4, <1>5, <1>6, MovingEnds

LEMMA EscapeEnded ==
  ASSUME NEW CONSTANT P, NEW CONSTANT sep \in Seq(Nat), NEW CONSTANT null \in Seq(Nat),
         NEW CONSTANT quote \in Seq(Nat), NEW CONSTANT Special, NEW CONSTANT escape,
         RowPlanned(P, value, sep, null, quote, Special, escape), Base, Writing(P),
         EscapeRoom(Special, 0), EscapeEnd(quote)
  PROVE  Writing(P)'
<1>1. /\ mode = "escape" /\ mode' = "encode" /\ i' = i + 1 /\ j' = j
      /\ ptr1 = ptr2 /\ input' = input \o quote
  BY DEF EscapeEnd
<1>2. /\ PlanOK(P) /\ P.n = Len(value) /\ Len(value) \in Nat /\ i \in Nat \ {0}
      /\ P.special = Special /\ IsText(input)
  BY DEF RowPlanned, Base, IsText
<1>3. /\ j = 0 /\ i <= P.n /\ value[i].kind = "str" /\ ptr1 - start + 1 <= Len(Body(P, i))
      /\ Moving(P, input, i, start, ptr1 - start + 1, ptr2 + 1, Len(input) + 1)
  BY <1>1 DEF Writing
<1>4. /\ i \in 1..P.n /\ i \in 1..Len(value) /\ Body(P, i) = value[i].str
      /\ i' - 1 = i /\ i' <= P.n + 1
  BY <1>1, <1>2, <1>3 DEF RowPlanned
<1>5. Opened(P, input, i, Len(Body(P, i)), Len(input) + 1)
  BY <1>1, <1>2, <1>3, <1>4, EscapeMet
<1>6. Joined(input', input, Trail(P, i))
  BY <1>1, <1>3, <1>4 DEF Joined, RowPlanned, RowTrail
<1>7. Laid(P, input', i, Len(input') + 1)
  BY <1>2, <1>4, <1>5, <1>6, OpenEnds
<1> QED
  BY <1>1, <1>3, <1>4, <1>7 DEF Writing

(* One step of the encoder of a row. *)
LEMMA RowWrites ==
  ASSUME NEW CONSTANT P, NEW CONSTANT sep \in Seq(Nat), NEW CONSTANT null \in Seq(Nat),
         NEW CONSTANT quote \in Seq(Nat), NEW CONSTANT end \in Seq(Nat),
         NEW CONSTANT Special, NEW CONSTANT escape,
         RowPlanned(P, value, sep, null, quote, Special, escape), IsRow(value), Base,
         EscapeRoom(Special, 0), Writing(P),
         EncodeRow(sep, null, quote, end, Special, escape)
  PROVE  Writing(P)' /\ (mode' = "decode" => Written(P, input', end))
<1>1. ASSUME EncodeNull(sep, null) PROVE Writing(P)' /\ mode' # "decode"
  BY <1>1, NullWritten DEF EncodeNull
<1>2. ASSUME EncodeString(sep, quote) PROVE Writing(P)' /\ mode' # "decode"
  BY <1>2, StringStarted DEF EncodeString
<1>3. ASSUME EncodeBuffer(sep, quote, Special) PROVE Writing(P)' /\ mode' # "decode"
  BY <1>3, BufferStarted DEF EncodeBuffer
<1>4. ASSUME EncodeByte(Special, escape) PROVE Writing(P)' /\ mode' # "decode"
  BY <1>4, ByteWritten DEF EncodeByte
<1>5. ASSUME EncodeStringEnd(quote) PROVE Writing(P)' /\ mode' # "decode"
  BY <1>5, StringEnded DEF EncodeStringEnd
<1>6. ASSUME EscapeByte(Special, escape) PROVE Writing(P)' /\ mode' # "decode"
  BY <1>6, EscapeMoved DEF EscapeByte, MoveByte
<1>7. ASSUME EscapeEnd(quote) PROVE Writing(P)' /\ mode' # "decode"
  BY <1>7, EscapeEnded DEF EscapeEnd
<1>8. ASSUME EncodeEnd(end) PROVE Writing(P)' /\ Written(P, input', end)
  BY <1>8, RowEnded
<1> QED
  BY <1>1, <1>2, <1>3, <1>4, <1>5, <1>6, <1>7, <1>8 DEF EncodeRow


-----------------------------------------------------------------------------
(* Reading *)

(* w is the beginning of s. *)
Begins(w, s, S) ==
  /\ w \in Seq(S) /\ Len(w) \in Nat /\ Len(w) <= Len(s)
  /\ \A x \in 1..Len(w) : w[x] = s[x]

LEMMA BeginsEmpty ==
  ASSUME NEW S, NEW s \in Seq(S)
  PROVE  Begins(<<>>, s, S) /\ Len(<<>>) = 0
<1>1. Len(s) \in Nat
  OBVIOUS
<1>2. <<>> \in Seq(S) /\ Len(<<>>) = 0
  OBVIOUS
<1>3. 1..0 = {}
  OBVIOUS
<1> QED
  BY <1>1, <1>2, <1>3 DEF Begins

LEMMA BeginsGrows ==
  ASSUME NEW S, NEW s \in Seq(S), NEW w, Begins(w, s, S), Len(w) < Len(s),
         NEW c, c = s[Len(w) + 1], NEW other, other = Append(w, c)
  PROVE  Begins(other, s, S) /\ Len(other) = Len(w) + 1 /\ c \in S
<1>1. w \in Seq(S) /\ Len(w) \in Nat /\ Len(s) \in Nat
  BY DEF Begins
<1>2. c \in S
  <2>1. Len(w) + 1 \in 1..Len(s)
    BY <1>1
  <2> QED
    BY <2>1, ElementOfSeq
<1>3. /\ other \in Seq(S) /\ Len(other) = Len(w) + 1
      /\ \A x \in 1..Len(w) : other[x] = w[x]
      /\ other[Len(w) + 1] = c
  BY <1>1, <1>2, AppendProperties
<1>4. \A x \in 1..Len(other) : other[x] = s[x]
  <2> TAKE x \in 1..Len(other)
  <2>1. CASE x \in 1..Len(w)
    BY <1>3, <2>1 DEF Begins
  <2>2. CASE x = Len(w) + 1
    BY <1>3, <2>2
  <2>3. x \in 1..(Len(w) + 1)
    BY <1>3
  <2>4. x \in 1..Len(w) \/ x = Len(w) + 1
    BY <1>1, <2>3
  <2> QED
    BY <2>1, <2>2, <2>4
<1>5. Len(other) \in Nat /\ Len(other) <= Len(s)
  <2>1. Len(other) = Len(w) + 1 /\ Len(w) \in Nat /\ Len(s) \in Nat /\ Len(w) < Len(s)
    BY <1>1, <1>3
  <2> QED
    BY <2>1
<1> QED
  BY <1>2, <1>3, <1>4, <1>5 DEF Begins

LEMMA BeginsAll ==
  ASSUME NEW S, NEW s \in Seq(S), NEW w, Begins(w, s, S), Len(w) = Len(s)
  PROVE  w = s
<1>1. w \in Seq(S) /\ \A x \in 1..Len(w) : w[x] = s[x]
  BY DEF Begins
<1> QED
  BY <1>1, SeqEqual

(* What is at token k of the text. *)
LEMMA TokenRead ==
  ASSUME NEW P, PlanOK(P), NEW text, NEW at, NEW pos, NEW e,
         Layout(P, text, at, pos, P.n, e), NEW k \in 1..P.n
  PROVE  /\ at[k] \in Nat \ {0} /\ at[k + 1] \in Nat \ {0} /\ at[k + 1] <= e
         /\ TokenAt(P, text, k, at[k], at[k + 1], pos[k])
<1>1. k \in 1..(P.n + 1) /\ k + 1 \in 1..(P.n + 1)
  BY DEF PlanOK
<1> QED
  BY <1>1 DEF Layout

LEMMA BytesRead ==
  ASSUME NEW P, NEW text, NEW f, NEW str \in Seq(Nat), Run(P, text, f, str, 0, Len(str)),
         NEW p \in Nat, p < Len(str)
  PROVE  /\ f[p] \in Nat \ {0} /\ f[p + 1] \in Nat \ {0} /\ f[Len(str)] \in Nat
         /\ f[p] < f[p + 1] /\ f[p + 1] <= f[Len(str)] /\ f[0] <= f[p] /\ f[0] \in Nat
         /\ ByteAt(P, text, f[p], f[p + 1], str[p + 1]) /\ str[p + 1] \in Nat
<1>1. Len(str) \in Nat
  OBVIOUS
<1>2. /\ p \in 0..Len(str) /\ p + 1 \in 0..Len(str) /\ Len(str) \in 0..Len(str) /\ 0 \in 0..Len(str)
      /\ p \in 0..(Len(str) - 1) /\ p + 1 \in 1..Len(str)
  BY <1>1
<1>3. /\ f[p] \in Nat \ {0} /\ f[p + 1] \in Nat \ {0} /\ f[Len(str)] \in Nat /\ f[0] \in Nat
      /\ f[p + 1] <= f[Len(str)] /\ f[0] <= f[p]
      /\ ByteAt(P, text, f[p], f[p + 1], str[p + 1])
  BY <1>2 DEF Run
<1>4. f[p] < f[p + 1]
  <2>1. f[p + 1] = f[p] + 2 \/ f[p + 1] = f[p] + 1
    BY <1>3 DEF ByteAt
  <2> QED
    BY <1>3, <2>1
<1>5. str[p + 1] \in Nat
  BY <1>2, ElementOfSeq
<1> QED
  BY <1>3, <1>4, <1>5

(* The separators that are written are one byte d. *)
Skip(k) == IF k = 1 THEN 0 ELSE 1
LedBy(lead, k, d, open) == lead = (IF k = 1 THEN <<>> ELSE <<d>>) \o open

LedRead(text, a, k, d, lead, open) ==
  /\ Len(lead) = Skip(k) + Len(open) /\ Len(open) \in Nat /\ Skip(k) \in {0, 1}
  /\ k # 1 => text[a] = d
  /\ Has(text, a + Skip(k), open)

LEMMA LedText ==
  ASSUME NEW text, NEW a \in Nat \ {0}, NEW k \in Nat \ {0}, NEW d \in Nat, NEW open \in Seq(Nat),
         NEW lead, LedBy(lead, k, d, open), Has(text, a, lead)
  PROVE  LedRead(text, a, k, d, lead, open)
<1>0. Len(open) \in Nat
  OBVIOUS
<1>1. CASE k = 1
  <2>1. lead = open
    BY <1>1, ConcatEmptySeq DEF LedBy
  <2>2. Skip(k) = 0 /\ a + Skip(k) = a
    BY <1>1 DEF Skip
  <2>3. Len(lead) = Skip(k) + Len(open)
    BY <1>0, <2>1, <2>2
  <2> QED
    BY <1>0, <1>1, <2>1, <2>2, <2>3 DEF LedRead
<1>2. CASE k # 1
  <2>1. lead = <<d>> \o open
    BY <1>2 DEF LedBy
  <2>2. <<d>> \in Seq(Nat) /\ Len(<<d>>) = 1 /\ <<d>>[1] = d
    OBVIOUS
  <2>3. /\ Len(lead) = 1 + Len(open)
        /\ \A x \in 1..(1 + Len(open)) : lead[x] = IF x <= 1 THEN <<d>>[x] ELSE open[x - 1]
    BY <2>1, <2>2, ConcatProperties
  <2>4. Skip(k) = 1
    BY <1>2 DEF Skip
  <2>5. text[a] = d
    <3>1. 1 \in 1..Len(lead) /\ a + 1 - 1 = a /\ 1 \in 1..(1 + Len(open))
      BY <1>0, <2>3
    <3>2. text[a + 1 - 1] = lead[1] /\ lead[1] = d
      BY <2>2, <2>3, <3>1 DEF Has
    <3> QED
      BY <3>1, <3>2
  <2>6. ASSUME NEW x \in 1..Len(open) PROVE text[(a + 1) + x - 1] = open[x]
    <3>1. x + 1 \in 1..Len(lead) /\ ~(x + 1 <= 1) /\ (x + 1) - 1 = x /\ x + 1 \in 1..(1 + Len(open))
      BY <1>0, <2>3
    <3>2. text[a + (x + 1) - 1] = lead[x + 1] /\ lead[x + 1] = open[x]
      BY <2>3, <3>1 DEF Has
    <3>3. a + (x + 1) - 1 = (a + 1) + x - 1
      OBVIOUS
    <3> QED
      BY <3>2, <3>3
  <2> QED
    BY <1>0, <1>2, <2>3, <2>4, <2>5, <2>6 DEF Has, LedRead
<1> QED
  BY <1>1, <1>2

(* Field k of a row, from position s to before b, in a text of such tokens. *)
FieldAt(P, text, v, k, s, b, f, null, quote) ==
  /\ v[k].kind = "nil" => Has(text, s, null) /\ b = s + Len(null)
  /\ v[k].kind # "nil" =>
       /\ Has(text, s, quote) /\ f[0] = s + Len(quote)
       /\ Run(P, text, f, v[k].str, 0, Len(v[k].str))
       /\ Has(text, f[Len(v[k].str)], quote) /\ b = f[Len(v[k].str)] + Len(quote)

FieldFound(P, text, v, k, at, pos, e, d, null, quote) ==
  /\ at[k] \in Nat \ {0} /\ at[k + 1] \in Nat \ {0} /\ at[k + 1] <= e
  /\ k # 1 => text[at[k]] = d
  /\ FieldAt(P, text, v, k, at[k] + Skip(k), at[k + 1], pos[k], null, quote)

LEMMA FieldRead ==
  ASSUME NEW P, NEW v \in Seq(Fields), NEW d \in Nat, NEW null \in Seq(Nat), NEW quote \in Seq(Nat),
         NEW Special, NEW escape, RowPlanned(P, v, <<d>>, null, quote, Special, escape), IsRow(v),
         NEW text, NEW at, NEW pos, NEW e, Layout(P, text, at, pos, P.n, e), NEW k \in 1..Len(v)
  PROVE  FieldFound(P, text, v, k, at, pos, e, d, null, quote)
<1> DEFINE a == at[k]
           b == at[k + 1]
           f == pos[k]
<1>1. PlanOK(P) /\ P.n = Len(v) /\ k \in 1..P.n /\ k \in Nat \ {0}
  BY DEF RowPlanned
<1>2. /\ Lead(P, k) = RowLead(v, k, <<d>>, null, quote)
      /\ Body(P, k) = v[k].str /\ Trail(P, k) = RowTrail(v, k, quote)
  BY DEF RowPlanned
<1>3. a \in Nat \ {0} /\ b \in Nat \ {0} /\ b <= e /\ TokenAt(P, text, k, a, b, f)
  BY <1>1, TokenRead
<1> HIDE DEF a, b, f
<1>4. /\ Has(text, a, Lead(P, k)) /\ f[0] = a + Len(Lead(P, k))
      /\ Run(P, text, f, v[k].str, 0, Len(v[k].str))
      /\ Has(text, f[Len(v[k].str)], Trail(P, k))
      /\ b = f[Len(v[k].str)] + Len(Trail(P, k))
  BY <1>2, <1>3 DEF TokenAt
<1>5. CASE v[k].kind = "nil"
  <2>1. LedBy(Lead(P, k), k, d, null) /\ Trail(P, k) = <<>>
    BY <1>2, <1>5 DEF RowLead, RowTrail, LedBy
  <2>2. /\ Len(Lead(P, k)) = Skip(k) + Len(null) /\ Len(null) \in Nat /\ Skip(k) \in {0, 1}
        /\ k # 1 => text[a] = d
        /\ Has(text, a + Skip(k), null)
    <3>1. LedBy(Lead(P, k), k, d, null) /\ Has(text, a, Lead(P, k)) /\ a \in Nat \ {0} /\ k \in Nat \ {0}
      BY <1>1, <1>3, <1>4, <2>1
    <3>2. LedRead(text, a, k, d, Lead(P, k), null)
      BY <3>1, LedText
    <3> QED
      BY <3>2 DEF LedRead
  <2>3. v[k].str = <<>>
    BY <1>5 DEF IsRow, Nil, Str
  <2>4. b = (a + Skip(k)) + Len(null)
    <3>1. Len(v[k].str) = 0 /\ Len(Trail(P, k)) = 0
      BY <2>1, <2>3
    <3>2. b = f[0] + 0 /\ f[0] = a + (Skip(k) + Len(null))
      BY <1>4, <2>2, <3>1
    <3>3. Skip(k) \in Nat
      BY <2>2
    <3> QED
      BY <1>3, <2>2, <3>2, <3>3
  <2> QED
    BY <1>3, <1>5, <2>2, <2>4 DEF FieldFound, FieldAt, a, b, f
<1>6. CASE v[k].kind # "nil"
  <2>1. LedBy(Lead(P, k), k, d, quote) /\ Trail(P, k) = quote
    BY <1>2, <1>6 DEF RowLead, RowTrail, LedBy
  <2>2. /\ Len(Lead(P, k)) = Skip(k) + Len(quote) /\ Len(quote) \in Nat /\ Skip(k) \in {0, 1}
        /\ k # 1 => text[a] = d
        /\ Has(text, a + Skip(k), quote)
    <3>1. LedBy(Lead(P, k), k, d, quote) /\ Has(text, a, Lead(P, k)) /\ a \in Nat \ {0} /\ k \in Nat \ {0}
      BY <1>1, <1>3, <1>4, <2>1
    <3>2. LedRead(text, a, k, d, Lead(P, k), quote)
      BY <3>1, LedText
    <3> QED
      BY <3>2 DEF LedRead
  <2>3. f[0] = (a + Skip(k)) + Len(quote)
    <3>1. f[0] = a + (Skip(k) + Len(quote)) /\ Skip(k) \in Nat
      BY <1>4, <2>2
    <3> QED
      BY <1>3, <2>2, <3>1
  <2> QED
    BY <1>3, <1>4, <1>6, <2>1, <2>2, <2>3 DEF FieldFound, FieldAt, a, b, f
<1> QED
  BY <1>5, <1>6

(* What follows field k: the separator, or the end of the row. *)
RowGoesOn(text, v, k, at, e, d) ==
  /\ k < Len(v) => text[at[k + 1]] = d
  /\ k = Len(v) => at[k + 1] = e

LEMMA FieldFollowed ==
  ASSUME NEW P, NEW v \in Seq(Fields), NEW d \in Nat, NEW null \in Seq(Nat), NEW quote \in Seq(Nat),
         NEW Special, NEW escape, RowPlanned(P, v, <<d>>, null, quote, Special, escape), IsRow(v),
         NEW text, NEW at, NEW pos, NEW e, Layout(P, text, at, pos, P.n, e), NEW k \in 1..Len(v)
  PROVE  RowGoesOn(text, v, k, at, e, d)
<1>1. CASE k < Len(v)
  <2>1. k + 1 \in 1..Len(v) /\ k + 1 # 1
    BY <1>1
  <2>2. FieldFound(P, text, v, k + 1, at, pos, e, d, null, quote)
    BY <2>1, FieldRead
  <2> QED
    BY <1>1, <2>1, <2>2 DEF FieldFound, RowGoesOn
<1>2. CASE k = Len(v)
  <2>1. P.n = Len(v)
    BY DEF RowPlanned
  <2>2. at[P.n + 1] = e
    BY DEF Layout
  <2> QED
    BY <1>2, <2>1, <2>2 DEF RowGoesOn
<1> QED
  BY <1>1, <1>2


-----------------------------------------------------------------------------
(* pg_text_dec_copy_row reads what pg_text_enc_copy_row has written *)

LEMMA BytesSmall == \A c \in Byte : c \in Nat
  BY DEF Byte

LEMMA CopyLetters ==
  /\ \A c \in Nat : c \in EscapeLetters <=> c \in 48..55 \/ c \in DOMAIN Control \/ c = 120
  /\ \A c \in CopySpecial : c \notin EscapeLetters /\ c \in Nat
  /\ Delimiter \in Nat /\ Delimiter # NL /\ Delimiter # BACKSLASH
  /\ NL \in CopySpecial /\ BACKSLASH \in CopySpecial /\ Delimiter \in CopySpecial
  /\ NL # BACKSLASH /\ BACKSLASH \in Nat /\ NL \in Nat
<1>1. Delimiter \in Nat /\ Delimiter # NL /\ Delimiter # BACKSLASH
  BY CopyAssumption DEF Byte
<1>2. NL = 10 /\ CR = 13 /\ BACKSLASH = 92 /\ DOMAIN Control = {98, 102, 110, 114, 116, 118}
  BY DEF NL, CR, BACKSLASH, Control
<1>3. \A c : c \in EscapeLetters <=> c \in 48..55 \/ c \in {98, 102, 110, 114, 116, 118} \/ c = 120
  BY <1>2 DEF EscapeLetters
<1>4. \A c : c \in CopySpecial <=> c \in {10, 13, 92} \/ c = Delimiter
  BY <1>2 DEF CopySpecial
<1>5. Delimiter \notin EscapeLetters
  BY CopyReadable
<1>6. 10 \notin EscapeLetters /\ 13 \notin EscapeLetters /\ 92 \notin EscapeLetters
  BY <1>3
<1> QED
  BY <1>1, <1>2, <1>3, <1>4, <1>5, <1>6

(* A backslash before another byte stands for that byte. *)
LEMMA SimpleEscape ==
  ASSUME NEW k, NEW c \in Nat, At(k + 1) = c, c \notin EscapeLetters
  PROVE  EscapeAt(k).c = c /\ EscapeAt(k).next = k + 2
<1>1. c \notin 48..55 /\ c \notin DOMAIN Control /\ c # 120
  BY CopyLetters
<1>2. EscapeAt(k) = [c |-> At(k + 1), next |-> k + 2]
  BY <1>1 DEF EscapeAt, Octal
<1> QED
  BY <1>2

(* A string between position s and cur, up to which it is read. *)
Unescaped(text, s, c) == \A x \in s..(c - 1) : text[x] # BACKSLASH
CopyInString(text, str, s, f, c, w) ==
  /\ Begins(w, str, Nat) /\ c = f[Len(w)]
  /\ Unescaped(text, s, c) =>
       c = s + Len(w) /\ \A x \in 1..Len(w) : w[x] = text[s + x - 1]

LEMMA CopyStringStarts ==
  ASSUME NEW text, NEW str \in Seq(Nat), NEW s \in Nat, NEW f, f[0] = s
  PROVE  CopyInString(text, str, s, f, s, <<>>)
<1>1. Begins(<<>>, str, Nat) /\ Len(<<>>) = 0
  BY BeginsEmpty
<1>2. s = s + 0 /\ 1..0 = {}
  OBVIOUS
<1> QED
  BY <1>1, <1>2 DEF CopyInString

(* One more byte of it, next being where the text goes on. *)
CopyByteRead(text, c, b, x) ==
  \/ x \in CopySpecial /\ b = c + 2 /\ text[c] = BACKSLASH /\ text[c + 1] = x
  \/ x \notin CopySpecial /\ b = c + 1 /\ text[c] = x

LEMMA CopyStringGrows ==
  ASSUME NEW text, NEW str \in Seq(Nat), NEW s \in Nat \ {0}, NEW f, NEW w, NEW c \in Nat, s <= c,
         CopyInString(text, str, s, f, c, w), Len(w) < Len(str), NEW b \in Nat,
         b = f[Len(w) + 1], CopyByteRead(text, c, b, str[Len(w) + 1]),
         NEW other, other = Append(w, str[Len(w) + 1])
  PROVE  CopyInString(text, str, s, f, b, other)
<1> DEFINE x == str[Len(w) + 1]
<1>1. Begins(other, str, Nat) /\ Len(other) = Len(w) + 1 /\ w \in Seq(Nat) /\ Len(w) \in Nat /\ x \in Nat
  BY BeginsGrows DEF CopyInString, Begins
<1> HIDE DEF x
<1>2. ASSUME Unescaped(text, s, b)
      PROVE  b = s + Len(other) /\ \A y \in 1..Len(other) : other[y] = text[s + y - 1]
  <2>1. b = c + 1 \/ b = c + 2
    BY DEF CopyByteRead
  <2>2. text[c] # BACKSLASH
    <3>1. c \in s..(b - 1)
      BY <2>1
    <3> QED
      BY <1>2, <3>1 DEF Unescaped
  <2>3. b = c + 1 /\ text[c] = x
    BY <2>2 DEF CopyByteRead, x
  <2>4. Unescaped(text, s, c)
    <3>1. \A y \in s..(c - 1) : y \in s..(b - 1)
      BY <2>1
    <3> QED
      BY <1>2, <3>1 DEF Unescaped
  <2>5. c = s + Len(w) /\ \A y \in 1..Len(w) : w[y] = text[s + y - 1]
    BY <2>4 DEF CopyInString
  <2>6. b = s + Len(other)
    BY <1>1, <2>3, <2>5
  <2>7. /\ \A y \in 1..Len(w) : other[y] = w[y]
        /\ other[Len(w) + 1] = x
    BY <1>1, AppendProperties DEF x
  <2>8. ASSUME NEW y \in 1..Len(other) PROVE other[y] = text[s + y - 1]
    <3>1. y \in 1..(Len(w) + 1)
      BY <1>1
    <3>2. y \in 1..Len(w) \/ y = Len(w) + 1
      BY <1>1, <3>1
    <3>3. CASE y \in 1..Len(w)
      BY <2>5, <2>7, <3>3
    <3>4. CASE y = Len(w) + 1
      <4>1. s + y - 1 = c
        BY <1>1, <2>5, <3>4
      <4> QED
        BY <2>3, <2>7, <3>4, <4>1
    <3> QED
      BY <3>2, <3>3, <3>4
  <2> QED
    BY <2>6, <2>8
<1> QED
  BY <1>1, <1>2 DEF CopyInString

(* A string is not written like NULL. *)
SpellsNull(text, s, c) == SubSeq(text, s, c - 1) = NullString
NullFree(str) == NullIsEscape \/ (NullIsPlain /\ str # NullString)

LEMMA CopyNotNull ==
  ASSUME NEW P, P.special = CopySpecial, NEW text \in Seq(Nat), NEW str \in Seq(Nat), NullFree(str),
         NEW s \in Nat \ {0}, NEW f, f[0] = s, Run(P, text, f, str, 0, Len(str)),
         NEW c \in Nat, s <= c, c <= Len(text) + 1, CopyInString(text, str, s, f, c, str)
  PROVE  ~SpellsNull(text, s, c)
<1> SUFFICES ASSUME SpellsNull(text, s, c) PROVE FALSE
  OBVIOUS
<1>0. Len(str) \in Nat /\ Len(text) \in Nat /\ NullString \in Seq(Nat)
  BY CopyAssumption, BytesCount
<1>1. Len(NullString) = c - s /\ \A x \in 1..(c - s) : NullString[x] = text[s + x - 1]
  <2>1. \A x \in s..(c - 1) : x \in DOMAIN text
    BY <1>0
  <2>2. Len(SubSeq(text, s, c - 1)) = IF s <= c - 1 THEN (c - 1) - s + 1 ELSE 0
    BY <2>1, SubSeqProperties
  <2>3. \A x \in 1..((c - 1) - s + 1) : SubSeq(text, s, c - 1)[x] = text[s + x - 1]
    BY <2>1, SubSeqProperties
  <2>4. (c - 1) - s + 1 = c - s
    OBVIOUS
  <2>5. Len(SubSeq(text, s, c - 1)) = c - s
    BY <2>2
  <2> QED
    BY <2>3, <2>4, <2>5 DEF SpellsNull
<1>2. c = f[Len(str)]
  BY DEF CopyInString
<1>3. CASE NullIsEscape
  <2>1. PICK n \in Byte : NullString = <<BACKSLASH, n>> /\ n \notin CopySpecial \cup EscapeLetters
    BY <1>3 DEF NullIsEscape
  <2>2. Len(NullString) = 2 /\ NullString[1] = BACKSLASH /\ NullString[2] = n
    BY <2>1
  <2>3. c = s + 2 /\ text[s] = BACKSLASH /\ text[s + 1] = n
    <3>1. c = s + 2 /\ 1 \in 1..(c - s) /\ 2 \in 1..(c - s) /\ s + 1 - 1 = s /\ s + 2 - 1 = s + 1
      <4>1. c - s = 2
        BY <1>1, <2>2
      <4> QED
        BY <4>1
    <3> QED
      BY <1>1, <2>2, <3>1
  <2>4. 0 < Len(str)
    <3>1. ASSUME Len(str) = 0 PROVE FALSE
      <4>1. s = s + 2
        BY <1>2, <2>3, <3>1
      <4> QED
        BY <4>1
    <3> QED
      BY <1>0, <3>1
  <2>5. ByteAt(P, text, f[0], f[0 + 1], str[0 + 1])
    BY <2>4, BytesRead
  <2>6. CASE str[0 + 1] \in CopySpecial
    BY <2>1, <2>3, <2>5, <2>6 DEF ByteAt
  <2>7. CASE str[0 + 1] \notin CopySpecial
    BY <2>3, <2>5, <2>7, CopyLetters DEF ByteAt
  <2> QED
    BY <2>6, <2>7
<1>4. CASE NullIsPlain /\ str # NullString
  <2>1. \A x \in 1..Len(NullString) : NullString[x] # BACKSLASH
    <3>1. DOMAIN NullString = 1..Len(NullString)
      BY <1>0
    <3> QED
      BY <1>4, <3>1 DEF NullIsPlain
  <2>2. Unescaped(text, s, c)
    <3> SUFFICES ASSUME NEW x \in s..(c - 1) PROVE text[x] # BACKSLASH
      BY DEF Unescaped
    <3>1. x - s + 1 \in 1..(c - s) /\ s + (x - s + 1) - 1 = x
      OBVIOUS
    <3>2. NullString[x - s + 1] = text[s + (x - s + 1) - 1] /\ NullString[x - s + 1] # BACKSLASH
      BY <1>1, <2>1, <3>1
    <3> QED
      BY <3>1, <3>2
  <2>3. c = s + Len(str) /\ \A x \in 1..Len(str) : str[x] = text[s + x - 1]
    BY <2>2 DEF CopyInString
  <2>4. Len(str) = c - s
    BY <1>0, <2>3
  <2>5. \A x \in 1..Len(str) : str[x] = NullString[x]
    BY <1>1, <2>3, <2>4
  <2>6. str = NullString
    <3>1. Len(str) = Len(NullString)
      BY <1>1, <2>4
    <3> QED
      BY <1>0, <2>5, <3>1, SeqEqual
  <2> QED
    BY <1>4, <2>6
<1> QED
  BY <1>3, <1>4 DEF NullFree

CopyStops(s) == IF NullIsEscape THEN {s, s + 2} ELSE s..(s + Len(NullString))
CopyAtField(v, at, pos, k) ==
  /\ start = at[k] + Skip(k)
  /\ v[k].kind = "nil" => cur \in CopyStops(start)
  /\ v[k].kind # "nil" => CopyInString(input, v[k].str, start, pos[k], cur, word)
CopySpot(P, v, at, pos, e) ==
  /\ Layout(P, input, at, pos, P.n, e) /\ Len(input) = e /\ input[e] = NL
  /\ Begins(row, v, Fields) /\ Len(row) < Len(v)
  /\ CopyAtField(v, at, pos, Len(row) + 1)
CopyPlanned(P, v) ==
  /\ RowPlanned(P, v, <<Delimiter>>, NullString, <<>>, CopySpecial, CopyEscape)
  /\ IsRow(v) /\ v \in Seq(Fields) /\ v \in CopyRows

(* Field k of the text. *)
CopyFound(P, v, text, s, b, f, k, e) ==
  /\ s \in Nat \ {0} /\ b \in Nat \ {0} /\ b <= e
  /\ v[k].kind = "nil" => Has(text, s, NullString) /\ b = s + Len(NullString)
  /\ v[k].kind # "nil" =>
       /\ f[0] = s /\ Run(P, text, f, v[k].str, 0, Len(v[k].str)) /\ b = f[Len(v[k].str)]
       /\ f[0] <= b
  /\ k < Len(v) => text[b] = Delimiter
  /\ k = Len(v) => b = e
  /\ v[k].str \in Seq(Nat) /\ Len(v[k].str) \in Nat

LEMMA CopyFinds ==
  ASSUME NEW P, NEW v, CopyPlanned(P, v), NEW text, NEW at, NEW pos, NEW e,
         Layout(P, text, at, pos, P.n, e), NEW k \in 1..Len(v), NEW s, s = at[k] + Skip(k)
  PROVE  CopyFound(P, v, text, s, at[k + 1], pos[k], k, e)
<1>1. /\ RowPlanned(P, v, <<Delimiter>>, NullString, <<>>, CopySpecial, CopyEscape)
      /\ IsRow(v) /\ v \in Seq(Fields)
  BY DEF CopyPlanned
<1>2. Delimiter \in Nat /\ NullString \in Seq(Nat) /\ <<>> \in Seq(Nat)
  BY CopyAssumption, BytesCount, BytesSmall
<1>3. FieldFound(P, text, v, k, at, pos, e, Delimiter, NullString, <<>>)
  BY <1>1, <1>2, FieldRead
<1>4. (k < Len(v) => text[at[k + 1]] = Delimiter) /\ (k = Len(v) => at[k + 1] = e)
  <2>1. RowGoesOn(text, v, k, at, e, Delimiter)
    BY <1>1, <1>2, FieldFollowed
  <2> QED
    BY <2>1 DEF RowGoesOn
<1>5. v[k].str \in Seq(Nat) /\ Len(v[k].str) \in Nat
  <2>1. v[k] \in Fields
    BY <1>1
  <2>2. v[k].str \in Seq(Byte)
    BY <2>1 DEF Fields
  <2>3. v[k].str \in Seq(Nat)
    BY <2>2, BytesCount
  <2> QED
    BY <2>3
<1>6. at[k] \in Nat \ {0} /\ at[k + 1] \in Nat \ {0} /\ at[k + 1] <= e /\ Skip(k) \in Nat
  BY <1>3 DEF FieldFound, Skip
<1>7. s \in Nat \ {0}
  BY <1>6
<1>8. FieldAt(P, text, v, k, s, at[k + 1], pos[k], NullString, <<>>)
  BY <1>3 DEF FieldFound
<1> DEFINE f == pos[k]
           b == at[k + 1]
<1>9. ASSUME v[k].kind # "nil"
      PROVE  f[0] = s /\ Run(P, text, f, v[k].str, 0, Len(v[k].str)) /\ b = f[Len(v[k].str)] /\ f[0] <= b
  <2>1. /\ f[0] = s + Len(<<>>) /\ Run(P, text, f, v[k].str, 0, Len(v[k].str))
        /\ b = f[Len(v[k].str)] + Len(<<>>)
    BY <1>8, <1>9 DEF FieldAt
  <2> HIDE DEF f, b
  <2>2. Len(<<>>) = 0 /\ 0 \in 0..Len(v[k].str) /\ Len(v[k].str) \in 0..Len(v[k].str)
    BY <1>5
  <2>3. f[0] \in Nat /\ f[Len(v[k].str)] \in Nat /\ f[0] <= f[Len(v[k].str)]
    BY <2>1, <2>2 DEF Run
  <2>4. b = f[Len(v[k].str)] /\ f[0] = s
    BY <1>7, <2>1, <2>2, <2>3
  <2> QED
    BY <2>1, <2>3, <2>4
<1> QED
  BY <1>4, <1>5, <1>6, <1>7, <1>8, <1>9 DEF CopyFound, FieldAt

(* The fields are NULL or strings that are not taken for it. *)
LEMMA CopyFieldKinds ==
  ASSUME NEW P, NEW v, CopyPlanned(P, v), NEW k \in 1..Len(v)
  PROVE  /\ v[k].kind = "nil" => v[k] = Nil
         /\ v[k].kind # "nil" => v[k] = Str(v[k].str) /\ NullFree(v[k].str)
<1>1. IsRow(v) /\ v \in Seq(Fields) /\ v \in CopyRows /\ k \in DOMAIN v
  BY DEF CopyPlanned
<1>2. v[k] = Nil \/ v[k] = Str(v[k].str)
  BY <1>1 DEF IsRow
<1>3. v[k].kind = "nil" => v[k] = Nil
  BY <1>2 DEF Nil, Str
<1>4. v[k].kind # "nil" => v[k] = Str(v[k].str)
  BY <1>2 DEF Nil, Str
<1>5. NullIsPlain => v[k] # Str(NullString)
  BY <1>1 DEF NullIsPlain
<1> QED
  BY <1>3, <1>4, <1>5, CopyReadable DEF NullFree

(* Within a field. *)
LEMMA CopyInside ==
  ASSUME NEW CONSTANT P, NEW CONSTANT v, CopyPlanned(P, v), NEW CONSTANT at, NEW CONSTANT pos,
         NEW CONSTANT e, NEW CONSTANT k \in 1..Len(v), input \in Seq(Nat), Len(input) = e,
         CopyFound(P, v, input, start, at[k + 1], pos[k], k, e), CopyAtField(v, at, pos, k),
         IF v[k].kind = "nil" THEN cur # at[k + 1] ELSE Len(word) # Len(v[k].str)
  PROVE  /\ cur \in Nat \ {0} /\ cur < Len(input) /\ input[cur] \notin {Delimiter, NL}
         /\ CopyByte => CopyAtField(v, at, pos, k)'
<1> DEFINE s == start
           b == at[k + 1]
           f == pos[k]
           str == v[k].str
<1>0. /\ s \in Nat \ {0} /\ b \in Nat \ {0} /\ b <= e /\ str \in Seq(Nat) /\ Len(str) \in Nat
      /\ e \in Nat /\ P.special = CopySpecial
  BY DEF CopyFound, CopyPlanned, RowPlanned
<1>1. CASE v[k].kind = "nil"
  <2>1. Has(input, s, NullString) /\ b = s + Len(NullString) /\ cur \in CopyStops(s) /\ cur # b
    BY <1>1 DEF CopyFound, CopyAtField
  <2>2. CASE NullIsEscape
    <3>1. PICK n \in Byte : NullString = <<BACKSLASH, n>> /\ n \notin CopySpecial \cup EscapeLetters
      BY <2>2 DEF NullIsEscape
    <3>2. Len(NullString) = 2 /\ NullString[1] = BACKSLASH /\ NullString[2] = n /\ n \in Nat
      BY <3>1, BytesSmall
    <3>3. cur = s /\ b = s + 2
      BY <2>1, <2>2, <3>2 DEF CopyStops
    <3>4. input[s] = BACKSLASH /\ input[s + 1] = n
      <4>1. 1 \in 1..Len(NullString) /\ 2 \in 1..Len(NullString)
        BY <3>2
      <4>2. input[s + 1 - 1] = NullString[1] /\ input[s + 2 - 1] = NullString[2]
        BY <2>1, <4>1 DEF Has
      <4>3. s + 1 - 1 = s /\ s + 2 - 1 = s + 1
        BY <1>0
      <4> QED
        BY <3>2, <4>2, <4>3
    <3>5. cur < Len(input) /\ cur + 1 \in 1..Len(input)
      BY <1>0, <3>3
    <3>6. At(cur + 1) = n
      BY <3>3, <3>4, <3>5 DEF At
    <3>7. EscapeAt(cur).next = cur + 2
      BY <3>1, <3>2, <3>6, SimpleEscape
    <3>8. CopyByte => cur' = s + 2 /\ start' = start
      BY <3>3, <3>4, <3>7 DEF CopyByte
    <3>9. CopyByte => CopyAtField(v, at, pos, k)'
      BY <1>1, <2>2, <3>8 DEF CopyAtField, CopyStops
    <3> QED
      BY <1>0, <3>3, <3>4, <3>5, <3>9, CopyLetters
  <2>3. CASE ~NullIsEscape
    <3>1. NullIsPlain /\ NullString \in Seq(Nat)
      BY <2>3, CopyReadable, CopyAssumption, BytesCount
    <3>2. Len(NullString) \in Nat /\ DOMAIN NullString = 1..Len(NullString)
      BY <3>1
    <3>3. cur \in s..(s + Len(NullString)) /\ cur < b
      <4>1. cur \in s..(s + Len(NullString))
        BY <2>1, <2>3 DEF CopyStops
      <4>2. b = s + Len(NullString) /\ cur # b /\ s \in Nat /\ Len(NullString) \in Nat
        BY <1>0, <2>1, <3>2
      <4> HIDE DEF b
      <4> QED
        BY <4>1, <4>2
    <3>4. cur - s + 1 \in 1..Len(NullString) /\ s + (cur - s + 1) - 1 = cur
      BY <1>0, <2>1, <3>2, <3>3
    <3>5. input[cur] \notin {Delimiter, NL, BACKSLASH}
      <4>1. input[s + (cur - s + 1) - 1] = NullString[cur - s + 1]
        BY <2>1, <3>4 DEF Has
      <4>2. NullString[cur - s + 1] \notin {Delimiter, NL, BACKSLASH}
        <5>1. \A y \in 1..Len(NullString) : NullString[y] \notin {Delimiter, NL, BACKSLASH}
          BY <3>1, <3>2 DEF NullIsPlain
        <5> QED
          BY <3>4, <5>1
      <4> QED
        BY <3>4, <4>1, <4>2
    <3>6. cur \in Nat \ {0} /\ cur < Len(input) /\ cur + 1 \in s..(s + Len(NullString))
      BY <1>0, <2>1, <3>2, <3>3
    <3>7. CopyByte => cur' = cur + 1 /\ start' = start
      BY <3>5 DEF CopyByte
    <3>8. CopyByte => CopyAtField(v, at, pos, k)'
      BY <1>1, <2>3, <3>6, <3>7 DEF CopyAtField, CopyStops
    <3> QED
      BY <3>5, <3>6, <3>8
  <2> QED
    BY <2>2, <2>3
<1>2. CASE v[k].kind # "nil"
  <2>1. /\ f[0] = s /\ Run(P, input, f, str, 0, Len(str)) /\ b = f[Len(str)] /\ f[0] <= b
        /\ CopyInString(input, str, s, f, cur, word) /\ Len(word) # Len(str)
    BY <1>2 DEF CopyFound, CopyAtField
  <2>2. Len(word) \in Nat /\ Len(word) < Len(str) /\ cur = f[Len(word)]
    <3>1. Len(word) \in Nat /\ Len(word) <= Len(str) /\ cur = f[Len(word)]
      BY <2>1 DEF CopyInString, Begins
    <3> QED
      BY <1>0, <2>1, <3>1
  <2> DEFINE p == Len(word)
             x == str[p + 1]
             n == f[p + 1]
  <2>3. /\ cur \in Nat \ {0} /\ n \in Nat \ {0} /\ cur < n /\ n <= b /\ s <= cur
        /\ ByteAt(P, input, cur, n, x) /\ x \in Nat
    <3>1. /\ f[p] \in Nat \ {0} /\ f[p + 1] \in Nat \ {0} /\ f[Len(str)] \in Nat
          /\ f[p] < f[p + 1] /\ f[p + 1] <= f[Len(str)] /\ f[0] <= f[p] /\ f[0] \in Nat
          /\ ByteAt(P, input, f[p], f[p + 1], str[p + 1]) /\ str[p + 1] \in Nat
      BY <1>0, <2>1, <2>2, BytesRead
    <3> QED
      BY <2>1, <2>2, <3>1
  <2> HIDE DEF p, x, n, f, str, b
  <2>4. CopyByteRead(input, cur, n, x)
    BY <1>0, <2>3 DEF ByteAt, CopyByteRead, CopyPlanned, RowPlanned, CopyEscape
  <2>5. CASE x \in CopySpecial
    <3>1. n = cur + 2 /\ input[cur] = BACKSLASH /\ input[cur + 1] = x
      BY <2>4, <2>5 DEF CopyByteRead
    <3>2. cur < Len(input) /\ cur + 1 \in 1..Len(input)
      BY <1>0, <2>3, <3>1
    <3>3. At(cur + 1) = x /\ x \notin EscapeLetters
      BY <2>5, <3>1, <3>2, CopyLetters DEF At
    <3>4. EscapeAt(cur).c = x /\ EscapeAt(cur).next = cur + 2
      BY <2>3, <3>3, SimpleEscape
    <3>5. CopyByte => word' = Append(word, x) /\ cur' = n /\ start' = start /\ input' = input
      BY <3>1, <3>4 DEF CopyByte
    <3>6. CopyByte => CopyInString(input, str, s, f, n, word')
      BY <1>0, <2>1, <2>2, <2>3, <2>4, <3>5, CopyStringGrows DEF p, x, n
    <3>7. CopyByte => CopyAtField(v, at, pos, k)'
      BY <1>2, <3>5, <3>6 DEF CopyAtField, str, f
    <3> QED
      BY <2>3, <3>1, <3>2, <3>7, CopyLetters
  <2>6. CASE x \notin CopySpecial
    <3>1. n = cur + 1 /\ input[cur] = x
      BY <2>4, <2>6 DEF CopyByteRead
    <3>2. cur < Len(input)
      BY <1>0, <2>3, <3>1
    <3>3. x \notin {Delimiter, NL, BACKSLASH}
      BY <2>6, CopyLetters
    <3>5. CopyByte => word' = Append(word, x) /\ cur' = n /\ start' = start /\ input' = input
      BY <3>1, <3>3 DEF CopyByte
    <3>6. CopyByte => CopyInString(input, str, s, f, n, word')
      BY <1>0, <2>1, <2>2, <2>3, <2>4, <3>5, CopyStringGrows DEF p, x, n
    <3>7. CopyByte => CopyAtField(v, at, pos, k)'
      BY <1>2, <3>5, <3>6 DEF CopyAtField, str, f
    <3> QED
      BY <2>3, <3>1, <3>2, <3>3, <3>7
  <2> QED
    BY <2>5, <2>6
<1> QED
  BY <1>1, <1>2

(* At the end of a field. *)
LEMMA CopyAtEnd ==
  ASSUME NEW CONSTANT P, NEW CONSTANT v, CopyPlanned(P, v), NEW CONSTANT at, NEW CONSTANT pos,
         NEW CONSTANT e, NEW CONSTANT k \in 1..Len(v), input \in Seq(Nat), Len(input) = e,
         CopyFound(P, v, input, start, at[k + 1], pos[k], k, e), CopyAtField(v, at, pos, k),
         IF v[k].kind = "nil" THEN cur = at[k + 1] ELSE Len(word) = Len(v[k].str)
  PROVE  cur = at[k + 1] /\ FieldOf(cur) = v[k]
<1> DEFINE s == start
           b == at[k + 1]
           f == pos[k]
           str == v[k].str
<1>0. /\ s \in Nat \ {0} /\ b \in Nat \ {0} /\ b <= e /\ str \in Seq(Nat) /\ Len(str) \in Nat
      /\ e \in Nat /\ P.special = CopySpecial
  BY DEF CopyFound, CopyPlanned, RowPlanned
<1>1. CASE v[k].kind = "nil"
  <2>1. Has(input, s, NullString) /\ b = s + Len(NullString) /\ cur = b /\ v[k] = Nil
    BY <1>1, CopyFieldKinds DEF CopyFound
  <2>2. NullString \in Seq(Nat) /\ Len(NullString) \in Nat
    <3>1. NullString \in Seq(Nat)
      BY CopyAssumption, BytesCount
    <3> QED
      BY <3>1
  <2> DEFINE raw == SubSeq(input, s, cur - 1)
  <2>3. /\ raw \in Seq(Nat)
        /\ Len(raw) = IF s <= cur - 1 THEN (cur - 1) - s + 1 ELSE 0
        /\ \A x \in 1..((cur - 1) - s + 1) : raw[x] = input[s + x - 1]
    <3>1. cur - 1 \in Int /\ s \in Int /\ \A x \in s..(cur - 1) : x \in 1..Len(input)
      BY <1>0, <2>1
    <3>2. \A x \in s..(cur - 1) : input[x] \in Nat
      BY <3>1, ElementOfSeq
    <3> QED
      BY <3>1, <3>2, SubSeqProperties
  <2> HIDE DEF raw
  <2>4. (cur - 1) - s + 1 = Len(NullString) /\ Len(raw) = Len(NullString)
    <3>1. cur = s + Len(NullString) /\ s \in Nat
      BY <1>0, <2>1
    <3>2. Len(raw) = IF s <= cur - 1 THEN (cur - 1) - s + 1 ELSE 0
      BY <2>3
    <3> QED
      BY <2>2, <3>1, <3>2
  <2>5. \A x \in 1..Len(raw) : raw[x] = NullString[x]
    BY <2>1, <2>3, <2>4 DEF Has
  <2>6. raw = NullString
    BY <2>2, <2>3, <2>4, <2>5, SeqEqual
  <2> QED
    BY <2>1, <2>6 DEF FieldOf, raw
<1>2. CASE v[k].kind # "nil"
  <2>1. /\ f[0] = s /\ Run(P, input, f, str, 0, Len(str)) /\ b = f[Len(str)] /\ f[0] <= b
        /\ CopyInString(input, str, s, f, cur, word) /\ Len(word) = Len(str)
        /\ v[k] = Str(str) /\ NullFree(str)
    BY <1>2, CopyFieldKinds DEF CopyFound, CopyAtField
  <2>2. Begins(word, str, Nat) /\ cur = f[Len(word)]
    BY <2>1 DEF CopyInString
  <2>3. word = str /\ cur = b
    BY <1>0, <2>1, <2>2, BeginsAll
  <2>4. cur \in Nat /\ s <= cur /\ cur <= Len(input) + 1
    BY <1>0, <2>1, <2>3
  <2> HIDE DEF f, b, str, s
  <2>5. ~SpellsNull(input, s, cur)
    <3>1. CopyInString(input, str, s, f, cur, str)
      BY <2>1, <2>3
    <3> QED
      BY <1>0, <2>1, <2>4, <3>1, CopyNotNull
  <2>6. FieldOf(cur) = Str(word)
    BY <2>5 DEF FieldOf, SpellsNull, s
  <2> QED
    BY <2>1, <2>3, <2>6 DEF b
<1> QED
  BY <1>1, <1>2

(* One step of pg_text_dec_copy_row on a text of pg_text_enc_copy_row. *)
LEMMA CopyReads ==
  ASSUME NEW CONSTANT P, NEW CONSTANT v, CopyPlanned(P, v), NEW CONSTANT at, NEW CONSTANT pos,
         NEW CONSTANT e, input \in Seq(Nat), CopySpot(P, v, at, pos, e),
         NEW CONSTANT k, k = Len(row) + 1,
         CopyByte \/ CopyDelimiter \/ CopyRowEnd
  PROVE  \/ mode' = "decode" /\ CopySpot(P, v, at, pos, e)'
         \/ mode' = "done" /\ row' = v
<1> DEFINE b == at[k + 1]
<1>1. /\ Layout(P, input, at, pos, P.n, e) /\ Len(input) = e /\ input[e] = NL
      /\ Begins(row, v, Fields) /\ Len(row) < Len(v)
      /\ CopyAtField(v, at, pos, k)
  BY DEF CopySpot
<1>2. v \in Seq(Fields) /\ Len(v) \in Nat /\ Len(row) \in Nat /\ k \in 1..Len(v) /\ row \in Seq(Fields)
  <2>1. v \in Seq(Fields) /\ Len(row) \in Nat /\ row \in Seq(Fields)
    BY <1>1 DEF CopyPlanned, Begins
  <2>2. Len(v) \in Nat
    BY <2>1
  <2> QED
    BY <1>1, <2>1, <2>2
<1>3. CopyFound(P, v, input, start, b, pos[k], k, e)
  <2>1. start = at[k] + Skip(k)
    BY <1>1 DEF CopyAtField
  <2> QED
    BY <1>1, <1>2, <2>1, CopyFinds
<1>4. b \in Nat \ {0} /\ b <= e /\ (k < Len(v) => input[b] = Delimiter) /\ (k = Len(v) => b = e) /\ e \in Nat
  BY <1>1, <1>3 DEF CopyFound
<1> HIDE DEF b
<1>5. CASE IF v[k].kind = "nil" THEN cur # at[k + 1] ELSE Len(word) # Len(v[k].str)
  <2>1. /\ cur \in Nat \ {0} /\ cur < Len(input) /\ input[cur] \notin {Delimiter, NL}
        /\ CopyByte => CopyAtField(v, at, pos, k)'
    BY <1>1, <1>2, <1>3, <1>5, CopyInside DEF b
  <2>2. ~CopyDelimiter
    BY <2>1 DEF CopyDelimiter
  <2>3. ~CopyRowEnds
    <3>1. cur \in 1..Len(input) /\ ~(cur > Len(input)) /\ cur # Len(input)
      BY <1>1, <1>4, <2>1
    <3>2. At(cur) = input[cur]
      BY <3>1 DEF At
    <3> QED
      BY <2>1, <3>1, <3>2 DEF CopyRowEnds
  <2>4. CopyByte
    BY <2>2, <2>3 DEF CopyRowEnd
  <2>5. mode' = "decode" /\ row' = row /\ input' = input
    BY <2>4 DEF CopyByte, Decoding
  <2> QED
    BY <1>1, <2>1, <2>4, <2>5 DEF CopySpot
<1>6. CASE IF v[k].kind = "nil" THEN cur = at[k + 1] ELSE Len(word) = Len(v[k].str)
  <2>1. cur = b /\ FieldOf(cur) = v[k]
    BY <1>1, <1>2, <1>3, <1>6, CopyAtEnd DEF b
  <2>2. Append(row, v[k]) \in Seq(Fields) /\ Len(Append(row, v[k])) = Len(row) + 1 /\ Begins(Append(row, v[k]), v, Fields)
    BY <1>1, <1>2, BeginsGrows DEF Begins
  <2>3. cur \in 1..Len(input) /\ At(cur) = input[cur]
    <3>1. cur \in 1..Len(input)
      BY <1>1, <1>4, <2>1
    <3> QED
      BY <3>1 DEF At
  <2>4. CASE k < Len(v)
    <3>1. input[cur] = Delimiter
      BY <1>4, <2>1, <2>4
    <3>2. ~CopyByte
      BY <3>1 DEF CopyByte
    <3>3. ~CopyRowEnds
      <4>1. ~(cur > Len(input))
        BY <1>1, <1>4, <2>3
      <4> QED
        BY <2>3, <3>1, <4>1, CopyLetters DEF CopyRowEnds
    <3>4. CopyDelimiter
      BY <3>2, <3>3 DEF CopyRowEnd
    <3>5. /\ mode' = "decode" /\ row' = Append(row, v[k]) /\ word' = <<>> /\ input' = input
          /\ cur' = b + 1 /\ start' = b + 1
      BY <2>1, <3>4 DEF CopyDelimiter, Decoding
    <3>6. k + 1 \in 1..Len(v) /\ Skip(k + 1) = 1 /\ Len(row') = k /\ k < Len(v)
      <4>1. k \in Nat \ {0}
        BY <1>2
      <4>2. Skip(k + 1) = 1 /\ k + 1 \in 1..Len(v)
        BY <1>2, <2>4, <4>1 DEF Skip
      <4> QED
        BY <2>2, <2>4, <3>5, <4>2
    <3>7. start' = at[k + 1] + Skip(k + 1)
      BY <3>5, <3>6 DEF b
    <3>8. CopyFound(P, v, input, start', at[(k + 1) + 1], pos[k + 1], k + 1, e)
      BY <1>1, <3>6, <3>7, CopyFinds
    <3>9. start' \in Nat /\ start' \in CopyStops(start')
      <4>1. start' \in Nat /\ Len(NullString) \in Nat
        <5>1. NullString \in Seq(Byte)
          BY CopyAssumption
        <5> QED
          BY <1>4, <3>5, <5>1
      <4> QED
        BY <4>1 DEF CopyStops
    <3>10. v[k + 1].kind # "nil" => CopyInString(input, v[k + 1].str, start', pos[k + 1], start', <<>>)
      <4> SUFFICES ASSUME v[k + 1].kind # "nil"
                   PROVE  CopyInString(input, v[k + 1].str, start', pos[k + 1], start', <<>>)
        OBVIOUS
      <4>1. pos[k + 1][0] = start' /\ v[k + 1].str \in Seq(Nat)
        BY <3>8 DEF CopyFound
      <4> QED
        BY <3>9, <4>1, CopyStringStarts
    <3>11. CopyAtField(v, at, pos, k + 1)'
      BY <3>5, <3>7, <3>9, <3>10 DEF CopyAtField
    <3> QED
      BY <1>1, <2>2, <3>5, <3>6, <3>11 DEF CopySpot
  <2>5. CASE k = Len(v)
    <3>1. cur = e /\ input[cur] = NL
      BY <1>1, <1>4, <2>1, <2>5
    <3>2. ~CopyByte /\ ~CopyDelimiter
      BY <3>1, CopyLetters DEF CopyByte, CopyDelimiter
    <3>3. CopyRowEnd /\ ~(cur < Len(input))
      BY <1>1, <1>4, <3>1, <3>2
    <3>4. mode' = "done" /\ row' = Append(row, v[k])
      BY <2>1, <3>3 DEF CopyRowEnd
    <3>5. Append(row, v[k]) = v
      <4>1. Len(Append(row, v[k])) = Len(v)
        BY <2>2, <2>5
      <4> QED
        BY <1>2, <2>2, <4>1, BeginsAll
    <3> QED
      BY <3>4, <3>5
  <2> QED
    BY <1>2, <2>4, <2>5
<1> QED
  BY <1>5, <1>6


(* The decoder begins at the first field. *)
CopyReady(P, v, text, at, pos, e) ==
  /\ Layout(P, text, at, pos, P.n, e) /\ Len(text) = e /\ text[e] = NL
  /\ 1 = at[1] + Skip(1) /\ 1 \in CopyStops(1)
  /\ v[1].kind # "nil" => CopyInString(text, v[1].str, 1, pos[1], 1, <<>>)

LEMMA CopyBegins ==
  ASSUME NEW P, NEW v, CopyPlanned(P, v), P.prefix = <<>>, v # <<>>, NEW text, IsText(text),
         Written(P, text, <<NL>>)
  PROVE  \E at, pos, e : CopyReady(P, v, text, at, pos, e)
<1>1. PICK e \in Nat \ {0} : Laid(P, text, P.n, e) /\ Has(text, e, <<NL>>) /\ Len(text) + 1 = e + Len(<<NL>>)
  BY DEF Written
<1>2. PICK at, pos : Layout(P, text, at, pos, P.n, e)
  BY <1>1 DEF Laid
<1>3. Len(text) = e /\ text[e] = NL
  <2>1. Len(<<NL>>) = 1 /\ <<NL>>[1] = NL /\ Len(text) \in Nat
    BY DEF IsText
  <2>2. 1 \in 1..Len(<<NL>>) /\ e + 1 - 1 = e
    BY <2>1
  <2>3. text[e + 1 - 1] = <<NL>>[1]
    BY <1>1, <2>2 DEF Has
  <2> QED
    BY <1>1, <2>1, <2>2, <2>3
<1>4. 1 = at[1] + Skip(1)
  <2>1. at[1] = 1 + Len(P.prefix) /\ Len(P.prefix) = 0 /\ Skip(1) = 0
    BY <1>2 DEF Layout, Skip
  <2> QED
    BY <2>1
<1>5. 1 \in 1..Len(v)
  <2>1. v \in Seq(Fields)
    BY DEF CopyPlanned
  <2> QED
    BY <2>1, EmptySeq
<1>6. CopyFound(P, v, text, 1, at[1 + 1], pos[1], 1, e)
  BY <1>2, <1>4, <1>5, CopyFinds
<1>7. 1 \in CopyStops(1)
  <2>1. NullString \in Seq(Byte)
    BY CopyAssumption
  <2>2. Len(NullString) \in Nat
    BY <2>1
  <2> QED
    BY <2>2 DEF CopyStops
<1>8. ASSUME v[1].kind # "nil" PROVE CopyInString(text, v[1].str, 1, pos[1], 1, <<>>)
  <2>1. pos[1][0] = 1 /\ v[1].str \in Seq(Nat)
    BY <1>6, <1>8 DEF CopyFound
  <2> QED
    BY <2>1, CopyStringStarts
<1>9. CopyReady(P, v, text, at, pos, e)
  BY <1>2, <1>3, <1>4, <1>7, <1>8 DEF CopyReady
<1> QED
  BY <1>9

CopyPlan(v) == RowPlan(v, <<>>, <<Delimiter>>, NullString, <<>>, CopySpecial, CopyEscape)

LEMMA CopyPlanning ==
  ASSUME NEW v \in CopyRows
  PROVE  CopyPlanned(CopyPlan(v), v) /\ CopyPlan(v).prefix = <<>>
<1>1. v \in Seq(Fields) /\ IsRow(v)
  BY CopyAssumption, CopyReadable
<1>2. /\ <<>> \in Seq(Nat) /\ <<Delimiter>> \in Seq(Nat) /\ NullString \in Seq(Nat)
      /\ \A c \in CopySpecial : CopyEscape[c] \in Nat
  BY CopyAssumption, BytesCount, BytesSmall, CopyLetters DEF CopyEscape
<1>3. /\ RowPlanned(CopyPlan(v), v, <<Delimiter>>, NullString, <<>>, CopySpecial, CopyEscape)
      /\ CopyPlan(v).prefix = <<>>
  <2>1. PICK P, none, sep, null, escape :
          P = CopyPlan(v) /\ none = <<>> /\ sep = <<Delimiter>> /\ null = NullString /\ escape = CopyEscape
    OBVIOUS
  <2>2. IsRowPlan(P, v, none, sep, null, none, CopySpecial, escape)
    BY <2>1 DEF CopyPlan, IsRowPlan
  <2>3. none \in Seq(Nat) /\ sep \in Seq(Nat) /\ null \in Seq(Nat) /\ \A c \in CopySpecial : escape[c] \in Nat
    BY <1>2, <2>1
  <2>4. RowPlanned(P, v, sep, null, none, CopySpecial, escape) /\ P.prefix = none
    BY <1>1, <2>2, <2>3, RowPlanFacts
  <2> QED
    BY <2>1, <2>4
<1> QED
  BY <1>1, <1>3 DEF CopyPlanned

(* The way of a row through the encoder and the decoder. *)
CopyTrip ==
  codec = "copy" /\ value # <<>> =>
    /\ value \in CopyRows
    /\ mode \in {"encode", "escape"} => row = <<>> /\ Writing(CopyPlan(value))
    /\ mode = "decode" => \E at, pos, e : CopySpot(CopyPlan(value), value, at, pos, e)
    /\ mode # "error"
    /\ mode = "done" => row = value

LEMMA CopyTripStep ==
  ASSUME Base, CopyInv, CopyTrip, CopyNext
  PROVE  CopyTrip'
<1> SUFFICES ASSUME value' # <<>> PROVE CopyTrip'
  BY DEF CopyTrip
<1>0. codec = "copy" /\ value' = value
  BY DEF CopyNext, pg_text_enc_copy_row, EncodeRow, EncodeNull, EncodeString, EncodeBuffer, EncodeByte,
         EncodeStringEnd, EscapeByte, MoveByte, EscapeEnd, EncodeEnd, CopyByte, CopyDelimiter,
         CopyRowEnd, Decoding, Raise, encVars
<1>1. PICK v : v = value
  OBVIOUS
<1>2. PICK P : P = CopyPlan(v)
  OBVIOUS
<1>3. /\ v \in CopyRows /\ v # <<>>
      /\ mode \in {"encode", "escape"} => row = <<>> /\ Writing(P)
      /\ mode = "decode" => \E at, pos, e : CopySpot(P, v, at, pos, e)
  BY <1>0, <1>1, <1>2 DEF CopyTrip
<1>4. CopyPlanned(P, v) /\ P.prefix = <<>>
  BY <1>2, <1>3, CopyPlanning
<1>5. input \in Seq(Nat)
  BY DEF Base
<1>6. CASE pg_text_enc_copy_row
  <2>1. EncodeRow(<<Delimiter>>, NullString, <<>>, <<NL>>, CopySpecial, CopyEscape)
    BY <1>6 DEF pg_text_enc_copy_row
  <2>2. /\ <<>> \in Seq(Nat) /\ <<Delimiter>> \in Seq(Nat) /\ NullString \in Seq(Nat) /\ <<NL>> \in Seq(Nat)
        /\ \A c \in CopySpecial : CopyEscape[c] \in Nat
    BY CopyAssumption, BytesCount, BytesSmall, CopyLetters DEF CopyEscape
  <2>3. EscapeRoom(CopySpecial, 0)
    BY <1>0 DEF CopyInv
  <2>4. /\ Base' /\ mode \in {"encode", "escape"} /\ mode' \in {"encode", "escape", "decode"}
        /\ cur' = 1 /\ word' = <<>> /\ (mode' = "decode" => start' = 1)
    BY <2>1, <2>2, <2>3, EncodeRowStep, Zenon
  <2>5. /\ RowPlanned(P, value, <<Delimiter>>, NullString, <<>>, CopySpecial, CopyEscape)
        /\ IsRow(value)
    BY <1>1, <1>4 DEF CopyPlanned
  <2>6. Writing(P)
    BY <1>3, <2>4
  <2>7. Writing(P)' /\ (mode' = "decode" => Written(P, input', <<NL>>))
    BY <2>1, <2>2, <2>3, <2>5, <2>6, RowWrites, Zenon
  <2>8. row' = <<>>
    <3>1. row = <<>>
      BY <1>3, <2>4
    <3> QED
      BY <2>1, <3>1 DEF EncodeRow, EncodeNull, EncodeString, EncodeBuffer, EncodeByte,
         EncodeStringEnd, EscapeByte, MoveByte, EscapeEnd, EncodeEnd, decVars
  <2>9. ASSUME mode' = "decode" PROVE \E at, pos, e : CopySpot(P, v, at, pos, e)'
    <3>1. IsText(input')
      BY <2>4 DEF Base, IsText
    <3>2. PICK at, pos, e : CopyReady(P, v, input', at, pos, e)
      BY <1>3, <1>4, <2>7, <2>9, <3>1, CopyBegins
    <3>3. start' = 1 /\ cur' = 1 /\ word' = <<>> /\ row' = <<>>
      BY <2>4, <2>8, <2>9
    <3>4. v \in Seq(Fields) /\ Begins(<<>>, v, Fields) /\ Len(<<>>) = 0 /\ Len(v) \in Nat /\ 0 < Len(v)
      <4>1. v \in Seq(Fields)
        BY <1>4 DEF CopyPlanned
      <4> QED
        BY <1>3, <4>1, BeginsEmpty, EmptySeq
    <3>5. CopyAtField(v, at, pos, 1)'
      BY <3>2, <3>3 DEF CopyReady, CopyAtField
    <3>6. CopySpot(P, v, at, pos, e)'
      BY <3>2, <3>3, <3>4, <3>5 DEF CopyReady, CopySpot
    <3> QED
      BY <3>6
  <2>10. value' = v /\ CopyPlan(value') = P
    BY <1>0, <1>1, <1>2
  <2> QED
    BY <1>3, <2>4, <2>7, <2>8, <2>9, <2>10 DEF CopyTrip
<1>7. CASE CopyByte \/ CopyDelimiter \/ CopyRowEnd
  <2>1. mode = "decode"
    BY <1>7 DEF CopyByte, CopyDelimiter, CopyRowEnd, Decoding
  <2>2. PICK at, pos, e : CopySpot(P, v, at, pos, e)
    BY <1>3, <2>1
  <2>3. PICK k : k = Len(row) + 1
    OBVIOUS
  <2>4. \/ mode' = "decode" /\ CopySpot(P, v, at, pos, e)'
        \/ mode' = "done" /\ row' = v
    BY <1>4, <1>5, <1>7, <2>2, <2>3, CopyReads
  <2>5. value' = v /\ CopyPlan(value') = P
    BY <1>0, <1>1, <1>2
  <2>6. CASE mode' = "decode" /\ CopySpot(P, v, at, pos, e)'
    BY <1>3, <2>5, <2>6 DEF CopyTrip
  <2>7. CASE mode' = "done" /\ row' = v
    BY <1>3, <2>5, <2>7 DEF CopyTrip
  <2> QED
    BY <2>4, <2>6, <2>7
<1> QED
  BY <1>6, <1>7 DEF CopyNext


-----------------------------------------------------------------------------
(* pg_text_dec_record reads what pg_text_enc_record has written *)

(* Field k between quotes, NULL being nothing at all. *)
QuotedFound(P, v, text, s, b, f, k, e, d) ==
  /\ s \in Nat \ {0} /\ b \in Nat \ {0} /\ b <= e
  /\ v[k].kind = "nil" => b = s
  /\ v[k].kind # "nil" =>
       /\ text[s] = QUOTE /\ f[0] = s + 1
       /\ Run(P, text, f, v[k].str, 0, Len(v[k].str))
       /\ f[Len(v[k].str)] \in Nat \ {0} /\ text[f[Len(v[k].str)]] = QUOTE
       /\ b = f[Len(v[k].str)] + 1
  /\ k < Len(v) => text[b] = d
  /\ k = Len(v) => b = e
  /\ v[k].str \in Seq(Nat) /\ Len(v[k].str) \in Nat

LEMMA QuotedFinds ==
  ASSUME NEW P, NEW v \in Seq(Fields), NEW d \in Nat, NEW Special, NEW escape,
         RowPlanned(P, v, <<d>>, <<>>, <<QUOTE>>, Special, escape), IsRow(v),
         NEW text, NEW at, NEW pos, NEW e, Layout(P, text, at, pos, P.n, e),
         NEW k \in 1..Len(v), NEW s, s = at[k] + Skip(k)
  PROVE  QuotedFound(P, v, text, s, at[k + 1], pos[k], k, e, d)
<1>1. <<>> \in Seq(Nat) /\ <<QUOTE>> \in Seq(Nat) /\ Len(<<>>) = 0 /\ Len(<<QUOTE>>) = 1 /\ <<QUOTE>>[1] = QUOTE
  BY DEF QUOTE
<1>2. PICK none, quote : none = <<>> /\ quote = <<QUOTE>>
  OBVIOUS
<1>3. none \in Seq(Nat) /\ quote \in Seq(Nat) /\ Len(none) = 0 /\ Len(quote) = 1 /\ quote[1] = QUOTE
  BY <1>1, <1>2
<1>4. RowPlanned(P, v, <<d>>, none, quote, Special, escape)
  BY <1>2
<1>5. FieldFound(P, text, v, k, at, pos, e, d, none, quote)
  BY <1>3, <1>4, FieldRead
<1>6. (k < Len(v) => text[at[k + 1]] = d) /\ (k = Len(v) => at[k + 1] = e)
  <2>1. RowGoesOn(text, v, k, at, e, d)
    BY <1>3, <1>4, FieldFollowed
  <2> QED
    BY <2>1 DEF RowGoesOn
<1>7. v[k].str \in Seq(Nat) /\ Len(v[k].str) \in Nat
  <2>1. v[k] \in Fields
    OBVIOUS
  <2>2. v[k].str \in Seq(Byte)
    BY <2>1 DEF Fields
  <2>3. v[k].str \in Seq(Nat)
    BY <2>2, BytesCount
  <2> QED
    BY <2>3
<1>8. at[k] \in Nat \ {0} /\ at[k + 1] \in Nat \ {0} /\ at[k + 1] <= e /\ Skip(k) \in Nat
  BY <1>5 DEF FieldFound, Skip
<1>9. s \in Nat \ {0}
  BY <1>8
<1>10. FieldAt(P, text, v, k, s, at[k + 1], pos[k], none, quote)
  BY <1>5 DEF FieldFound
<1> DEFINE f == pos[k]
           b == at[k + 1]
<1>11. ASSUME v[k].kind = "nil" PROVE b = s
  <2>1. b = s + Len(none)
    BY <1>10, <1>11 DEF FieldAt
  <2> QED
    BY <1>3, <1>9, <2>1
<1>12. ASSUME v[k].kind # "nil"
       PROVE  /\ text[s] = QUOTE /\ f[0] = s + 1 /\ Run(P, text, f, v[k].str, 0, Len(v[k].str))
              /\ f[Len(v[k].str)] \in Nat \ {0} /\ text[f[Len(v[k].str)]] = QUOTE
              /\ b = f[Len(v[k].str)] + 1
  <2>1. /\ Has(text, s, quote) /\ f[0] = s + Len(quote) /\ Run(P, text, f, v[k].str, 0, Len(v[k].str))
        /\ Has(text, f[Len(v[k].str)], quote) /\ b = f[Len(v[k].str)] + Len(quote)
    BY <1>10, <1>12 DEF FieldAt
  <2> HIDE DEF f, b
  <2>2. Len(v[k].str) \in 0..Len(v[k].str)
    BY <1>7
  <2>3. f[Len(v[k].str)] \in Nat \ {0}
    BY <2>1, <2>2 DEF Run
  <2>4. \A a \in Nat : Has(text, a, quote) => text[a] = QUOTE
    <3> SUFFICES ASSUME NEW a \in Nat, Has(text, a, quote) PROVE text[a] = QUOTE
      OBVIOUS
    <3>1. 1 \in 1..Len(quote) /\ a + 1 - 1 = a
      BY <1>3
    <3>2. text[a + 1 - 1] = quote[1]
      BY <3>1 DEF Has
    <3> QED
      BY <1>3, <3>1, <3>2
  <2> QED
    BY <1>3, <1>9, <2>1, <2>3, <2>4
<1> QED
  BY <1>6, <1>7, <1>8, <1>9, <1>11, <1>12 DEF QuotedFound

NulFree(v) == \A k \in 1..Len(v) : \A m \in 1..Len(v[k].str) : v[k].str[m] # NUL
RecordPlanned(P, v) ==
  /\ RowPlanned(P, v, <<COMMA>>, <<>>, <<QUOTE>>, RecordSpecial, RecordEscape)
  /\ IsRow(v) /\ v \in Seq(Fields) /\ v # <<>> /\ NulFree(v)

(* Where the decoder is, in the text and in the row, k being the field. *)
RecordFieldAt(v, at, pos, k) ==
  /\ state = "field" => word = <<>> /\ cur = at[k] + Skip(k)
  /\ state = "out" =>
       /\ v[k].kind # "nil"
       /\ \/ word = <<>> /\ cur = at[k] + Skip(k)
          \/ word = v[k].str /\ cur = at[k + 1]
  /\ state = "in" =>
       v[k].kind # "nil" /\ Begins(word, v[k].str, Nat) /\ cur = pos[k][Len(word)]
RecordSpot(P, v, at, pos, e) ==
  /\ Layout(P, input, at, pos, P.n, e) /\ Len(input) = e /\ input[e] = CLOSE /\ input[1] = OPEN
  /\ at[1] = 2
  /\ state \in {"lead", "field", "out", "in", "trail"}
  /\ Begins(row, v, Fields)
  /\ state = "lead" => cur = 1 /\ row = <<>> /\ word = <<>>
  /\ state \in {"field", "out", "in"} => Len(row) < Len(v) /\ RecordFieldAt(v, at, pos, Len(row) + 1)
  /\ state = "trail" => row = v /\ cur = e + 1

LEMMA RecordLetters ==
  /\ COMMA = 44 /\ CLOSE = 41 /\ OPEN = 40 /\ QUOTE = 34 /\ BACKSLASH = 92 /\ NUL = 0
  /\ ~record_isspace(40) /\ ~record_isspace(0)
  /\ \A c : c \in RecordSpecial <=> c = 34 \/ c = 92
  /\ \A c \in RecordSpecial : RecordEscape[c] = c
  BY DEF COMMA, CLOSE, OPEN, QUOTE, BACKSLASH, NUL, record_isspace, SPACE, TAB, NL, CR, VT, FF,
         RecordSpecial, RecordEscape

(* A field is complete. *)
LEMMA RecordEnds ==
  ASSUME NEW CONSTANT P, NEW CONSTANT v, RecordPlanned(P, v), NEW CONSTANT at, NEW CONSTANT pos,
         NEW CONSTANT e, input \in Seq(Nat), RecordSpot(P, v, at, pos, e), mode = "decode",
         NEW CONSTANT k \in 1..Len(v), k = Len(row) + 1,
         NEW CONSTANT s, QuotedFound(P, v, input, s, at[k + 1], pos[k], k, e, COMMA),
         cur = at[k + 1]
  PROVE  /\ FieldEnd(cur)
         /\ EndField(v[k]) => mode' = "decode" /\ RecordSpot(P, v, at, pos, e)'
<1> DEFINE b == at[k + 1]
<1>1. /\ Layout(P, input, at, pos, P.n, e) /\ Len(input) = e /\ input[e] = CLOSE /\ input[1] = OPEN
      /\ at[1] = 2 /\ Begins(row, v, Fields)
  BY DEF RecordSpot
<1>2. b \in Nat \ {0} /\ b <= e /\ (k < Len(v) => input[b] = COMMA) /\ (k = Len(v) => b = e) /\ e \in Nat
  BY <1>1 DEF QuotedFound
<1>3. v \in Seq(Fields) /\ Len(v) \in Nat /\ Len(row) \in Nat /\ Len(row) < Len(v) /\ row \in Seq(Fields)
  <2>1. v \in Seq(Fields) /\ Len(row) \in Nat /\ row \in Seq(Fields)
    BY <1>1 DEF RecordPlanned, Begins
  <2>2. Len(v) \in Nat
    BY <2>1
  <2> QED
    BY <2>1, <2>2
<1>4. Append(row, v[k]) \in Seq(Fields) /\ Len(Append(row, v[k])) = k /\ Begins(Append(row, v[k]), v, Fields)
  BY <1>1, <1>3, BeginsGrows DEF Begins
<1>5. cur = b /\ At(cur) = input[b]
  <2>1. b \in 1..Len(input)
    BY <1>1, <1>2
  <2> QED
    BY <2>1 DEF At
<1> HIDE DEF b
<1>6. ASSUME EndField(v[k])
      PROVE  /\ mode' = "decode" /\ input' = input /\ row' = Append(row, v[k]) /\ word' = <<>> /\ cur' = b + 1
             /\ state' = IF At(cur) = COMMA THEN "field" ELSE "trail"
  BY <1>5, <1>6 DEF EndField
<1>7. CASE k < Len(v)
  <2>1. FieldEnd(cur) /\ At(cur) = COMMA
    BY <1>2, <1>5, <1>7 DEF FieldEnd
  <2>2. Skip(k + 1) = 1
    <3>1. k + 1 # 1
      OBVIOUS
    <3> QED
      BY <3>1 DEF Skip
  <2>3. ASSUME EndField(v[k]) PROVE RecordSpot(P, v, at, pos, e)'
    <3>1. state' = "field" /\ Len(row') = k /\ cur' = at[k + 1] + Skip(k + 1)
      BY <1>4, <1>6, <2>1, <2>2, <2>3 DEF b
    <3>2. RecordFieldAt(v, at, pos, k + 1)'
      BY <1>6, <2>3, <3>1 DEF RecordFieldAt
    <3> QED
      BY <1>1, <1>4, <1>6, <1>7, <2>3, <3>1, <3>2 DEF RecordSpot
  <2> QED
    BY <1>6, <2>1, <2>3
<1>8. CASE k = Len(v)
  <2>1. FieldEnd(cur) /\ At(cur) # COMMA
    BY <1>1, <1>2, <1>5, <1>8, RecordLetters DEF FieldEnd
  <2>2. Append(row, v[k]) = v
    <3>1. Len(Append(row, v[k])) = Len(v)
      BY <1>4, <1>8
    <3> QED
      BY <1>3, <1>4, <3>1, BeginsAll
  <2>3. ASSUME EndField(v[k]) PROVE RecordSpot(P, v, at, pos, e)'
    <3>1. state' = "trail" /\ row' = v /\ cur' = e + 1
      BY <1>2, <1>6, <1>8, <2>1, <2>2, <2>3
    <3> QED
      BY <1>1, <1>4, <1>6, <2>2, <2>3, <3>1 DEF RecordSpot
  <2> QED
    BY <1>6, <2>1, <2>3
<1> QED
  BY <1>3, <1>7, <1>8


LEMMA RecordKinds ==
  ASSUME NEW P, NEW v, RecordPlanned(P, v), NEW k \in 1..Len(v)
  PROVE  /\ v[k].kind = "nil" => v[k] = Nil
         /\ v[k].kind # "nil" => v[k] = Str(v[k].str)
<1>1. IsRow(v) /\ v \in Seq(Fields) /\ k \in DOMAIN v
  BY DEF RecordPlanned
<1>2. v[k] = Nil \/ v[k] = Str(v[k].str)
  BY <1>1 DEF IsRow
<1> QED
  BY <1>2 DEF Nil, Str

(* Before a field, and outside of quotes. *)
LEMMA RecordOutside ==
  ASSUME NEW CONSTANT P, NEW CONSTANT v, RecordPlanned(P, v), NEW CONSTANT at, NEW CONSTANT pos,
         NEW CONSTANT e, input \in Seq(Nat), RecordSpot(P, v, at, pos, e), mode = "decode",
         NEW CONSTANT k \in 1..Len(v), k = Len(row) + 1,
         NEW CONSTANT s, s = at[k] + Skip(k),
         QuotedFound(P, v, input, s, at[k + 1], pos[k], k, e, COMMA),
         RecordFieldAt(v, at, pos, k), state \in {"field", "out"},
         RecordNull \/ RecordField \/ RecordByte
  PROVE  mode' = "decode" /\ RecordSpot(P, v, at, pos, e)'
<1>1. /\ Layout(P, input, at, pos, P.n, e) /\ Len(input) = e /\ input[e] = CLOSE /\ input[1] = OPEN
      /\ at[1] = 2 /\ Begins(row, v, Fields)
  BY DEF RecordSpot
<1>2. k < Len(v) + 1 /\ Len(row) < Len(v) /\ Len(row) \in Nat
  <2>1. v \in Seq(Fields) /\ Len(row) \in Nat
    BY <1>1 DEF RecordPlanned, Begins
  <2>2. Len(v) \in Nat
    BY <2>1
  <2> QED
    BY <2>1, <2>2
<1>3. CASE cur = at[k + 1]
  <2>1. FieldEnd(cur) /\ (EndField(v[k]) => mode' = "decode" /\ RecordSpot(P, v, at, pos, e)')
    BY <1>3, RecordEnds
  <2>2. CASE state = "field"
    <3>1. RecordNull
      BY <2>2 DEF RecordField, RecordByte, RecordAt
    <3>2. v[k].kind = "nil"
      <4>1. v[k].kind # "nil" => input[s] = QUOTE
        BY DEF QuotedFound
      <4>2. cur = s
        BY <2>2 DEF RecordFieldAt
      <4>3. s \in 1..Len(input) /\ s \in Nat
        BY <1>1, <1>3, <4>2 DEF QuotedFound
      <4>4. input[s] \in {COMMA, CLOSE}
        BY <2>1, <4>2, <4>3 DEF FieldEnd, At
      <4> QED
        BY <4>1, <4>4, RecordLetters
    <3>3. EndField(v[k])
      BY <2>1, <3>1, <3>2, RecordKinds DEF RecordNull
    <3> QED
      BY <2>1, <3>3
  <2>3. CASE state = "out"
    <3>1. RecordField
      BY <2>1, <2>3 DEF RecordNull, RecordByte, RecordAt
    <3>2. v[k].kind # "nil"
      BY <2>3 DEF RecordFieldAt
    <3>3. word = v[k].str
      <4>1. s \in Nat /\ pos[k][Len(v[k].str)] \in Nat /\ pos[k][0] = s + 1
            /\ at[k + 1] = pos[k][Len(v[k].str)] + 1
            /\ Run(P, input, pos[k], v[k].str, 0, Len(v[k].str)) /\ Len(v[k].str) \in Nat
        BY <3>2 DEF QuotedFound
      <4>2. Len(v[k].str) \in 0..Len(v[k].str)
        BY <4>1
      <4>3. pos[k][0] <= pos[k][Len(v[k].str)]
        BY <4>1, <4>2 DEF Run
      <4>4. cur # s
        BY <1>3, <4>1, <4>3
      <4> QED
        BY <2>3, <4>4 DEF RecordFieldAt
    <3>4. EndField(v[k])
      BY <3>1, <3>2, <3>3, RecordKinds DEF RecordField
    <3> QED
      BY <2>1, <3>4
  <2> QED
    BY <2>2, <2>3
<1>4. CASE cur # at[k + 1]
  <2>1. v[k].kind # "nil"
    BY <1>4 DEF QuotedFound, RecordFieldAt
  <2>2. cur = s /\ word = <<>>
    BY <1>4 DEF RecordFieldAt
  <2>3. /\ s \in Nat /\ input[s] = QUOTE /\ pos[k][0] = s + 1 /\ v[k].str \in Seq(Nat)
        /\ s \in 1..Len(input)
    <3>1. /\ s \in Nat \ {0} /\ input[s] = QUOTE /\ pos[k][0] = s + 1 /\ v[k].str \in Seq(Nat)
          /\ Run(P, input, pos[k], v[k].str, 0, Len(v[k].str)) /\ Len(v[k].str) \in Nat
          /\ at[k + 1] = pos[k][Len(v[k].str)] + 1 /\ at[k + 1] <= e /\ pos[k][Len(v[k].str)] \in Nat
      BY <2>1 DEF QuotedFound
    <3>2. Len(v[k].str) \in 0..Len(v[k].str)
      BY <3>1
    <3>3. pos[k][0] <= pos[k][Len(v[k].str)]
      BY <3>1, <3>2 DEF Run
    <3>4. s <= e /\ e \in Nat
      BY <1>1, <3>1, <3>3, SMTT(60)
    <3> QED
      BY <1>1, <3>1, <3>4
  <2>4. At(cur) = QUOTE /\ ~FieldEnd(cur)
    <3>1. At(cur) = QUOTE
      BY <2>2, <2>3 DEF At
    <3> QED
      BY <3>1, RecordLetters DEF FieldEnd
  <2>5. CASE state = "field"
    <3>1. /\ state' = "out" /\ mode' = "decode"
          /\ UNCHANGED <<input, cur, word, row>>
      BY <2>4, <2>5 DEF RecordNull, RecordField, RecordByte, RecordAt
    <3>2. RecordFieldAt(v, at, pos, k)'
      BY <2>1, <2>2, <3>1 DEF RecordFieldAt
    <3> QED
      BY <1>1, <1>2, <3>1, <3>2 DEF RecordSpot
  <2>6. CASE state = "out"
    <3>1. RecordByte
      BY <2>4, <2>6 DEF RecordNull, RecordField, RecordAt
    <3>2. /\ state' = "in" /\ mode' = "decode" /\ cur' = cur + 1
          /\ UNCHANGED <<input, word, row>>
      BY <2>4, <2>6, <3>1, RecordLetters DEF RecordByte
    <3>3. Begins(<<>>, v[k].str, Nat) /\ Len(<<>>) = 0
      BY <2>3, BeginsEmpty
    <3>4. RecordFieldAt(v, at, pos, k)'
      BY <2>1, <2>2, <2>3, <3>2, <3>3 DEF RecordFieldAt
    <3> QED
      BY <1>1, <1>2, <3>2, <3>4 DEF RecordSpot
  <2> QED
    BY <2>5, <2>6
<1> QED
  BY <1>3, <1>4

(* Between the quotes. *)
LEMMA RecordInside ==
  ASSUME NEW CONSTANT P, NEW CONSTANT v, RecordPlanned(P, v), NEW CONSTANT at, NEW CONSTANT pos,
         NEW CONSTANT e, input \in Seq(Nat), RecordSpot(P, v, at, pos, e), mode = "decode",
         NEW CONSTANT k \in 1..Len(v), k = Len(row) + 1,
         NEW CONSTANT s,
         QuotedFound(P, v, input, s, at[k + 1], pos[k], k, e, COMMA),
         RecordFieldAt(v, at, pos, k), state = "in", RecordByte
  PROVE  mode' = "decode" /\ RecordSpot(P, v, at, pos, e)'
<1> DEFINE b == at[k + 1]
           f == pos[k]
           str == v[k].str
<1>1. /\ Layout(P, input, at, pos, P.n, e) /\ Len(input) = e /\ input[e] = CLOSE /\ input[1] = OPEN
      /\ at[1] = 2 /\ Begins(row, v, Fields)
  BY DEF RecordSpot
<1>2. Len(row) < Len(v) /\ Len(row) \in Nat
  <2>1. v \in Seq(Fields) /\ Len(row) \in Nat
    BY <1>1 DEF RecordPlanned, Begins
  <2>2. Len(v) \in Nat
    BY <2>1
  <2> QED
    BY <2>1, <2>2
<1>3. v[k].kind # "nil" /\ Begins(word, str, Nat) /\ cur = f[Len(word)]
  BY DEF RecordFieldAt
<1>4. /\ Run(P, input, f, str, 0, Len(str)) /\ f[Len(str)] \in Nat \ {0} /\ input[f[Len(str)]] = QUOTE
      /\ b = f[Len(str)] + 1 /\ b <= e /\ b \in Nat /\ e \in Nat
      /\ (k < Len(v) => input[b] = COMMA) /\ (k = Len(v) => b = e)
      /\ str \in Seq(Nat) /\ Len(str) \in Nat
  BY <1>1, <1>3 DEF QuotedFound
<1>5. Len(word) \in Nat /\ Len(word) <= Len(str) /\ P.special = RecordSpecial
  BY <1>3 DEF Begins, RecordPlanned, RowPlanned
<1> HIDE DEF b, f, str
<1>6. CASE Len(word) = Len(str)
  <2>1. cur = f[Len(str)] /\ word = str
    BY <1>3, <1>4, <1>6, BeginsAll
  <2>2. At(cur) = QUOTE
    <3>1. cur \in 1..Len(input)
      BY <1>1, <1>4, <2>1
    <3> QED
      BY <1>4, <2>1, <3>1 DEF At
  <2>3. At(cur + 1) # QUOTE
    <3>1. b \in 1..Len(input) /\ b = cur + 1
      BY <1>1, <1>4, <2>1
    <3>2. input[b] \in {COMMA, CLOSE}
      <4>1. k < Len(v) \/ k = Len(v)
        BY <1>2
      <4> QED
        BY <1>1, <1>4, <4>1
    <3>3. At(cur + 1) = input[b]
      BY <3>1 DEF At
    <3> QED
      BY <3>2, <3>3, RecordLetters
  <2>4. mode' = "decode" /\ cur' = b /\ state' = "out" /\ UNCHANGED <<input, word, row>>
    <3>1. mode' = "decode" /\ cur' = cur + 1 /\ state' = "out" /\ UNCHANGED <<input, word, row>>
      BY <2>2, <2>3, RecordLetters DEF RecordByte
    <3> QED
      BY <1>4, <2>1, <3>1
  <2>5. RecordFieldAt(v, at, pos, k)'
    BY <1>3, <2>1, <2>4 DEF RecordFieldAt, b, str
  <2> QED
    BY <1>1, <1>2, <2>4, <2>5 DEF RecordSpot
<1>7. CASE Len(word) < Len(str)
  <2> DEFINE p == Len(word)
             x == str[p + 1]
             n == f[p + 1]
  <2>1. /\ f[p] \in Nat \ {0} /\ f[p + 1] \in Nat \ {0} /\ f[p] < f[p + 1] /\ f[p + 1] <= f[Len(str)]
        /\ ByteAt(P, input, f[p], f[p + 1], str[p + 1]) /\ str[p + 1] \in Nat
    BY <1>4, <1>5, <1>7, BytesRead
  <2>2. cur \in Nat \ {0} /\ n \in Nat \ {0} /\ cur < n /\ n < e /\ ByteAt(P, input, cur, n, x) /\ x \in Nat
    BY <1>3, <1>4, <2>1, SMTT(60)
  <2>3. x # NUL
    <3>1. PICK l, o : l = Len(str) /\ o = Len(word)
      OBVIOUS
    <3>2. l \in Nat /\ o \in Nat /\ o < l
      BY <1>4, <1>5, <1>7, <3>1
    <3>3. o + 1 \in 1..l
      BY <3>2
    <3>4. p + 1 \in 1..Len(str)
      BY <3>1, <3>3
    <3> QED
      BY <3>4 DEF RecordPlanned, NulFree, str
  <2> HIDE DEF x, n
  <2>4. Begins(Append(word, x), str, Nat) /\ Len(Append(word, x)) = p + 1
    <3>1. Begins(Append(word, str[Len(word) + 1]), str, Nat)
      BY <1>3, <1>4, <1>7, BeginsGrows, ZenonT(60)
    <3>2. word \in Seq(Nat)
      BY <1>3 DEF Begins
    <3> QED
      BY <2>2, <3>1, <3>2 DEF x
  <2> HIDE DEF p
  <2>5. /\ mode' = "decode" /\ word' = Append(word, x) /\ cur' = n /\ state' = "in" /\ UNCHANGED <<input, row>>
    <3>1. cur \in 1..Len(input) /\ At(cur) = input[cur]
      <4>1. cur \in 1..Len(input)
        BY <1>1, <1>4, <2>2
      <4> QED
        BY <4>1 DEF At
    <3>2. CASE x \in RecordSpecial
      <4>1. n = cur + 2 /\ input[cur] = x /\ input[cur + 1] = x
        <5>1. Escape(P, x) = x
          BY <3>2, RecordLetters DEF RecordPlanned, RowPlanned
        <5> QED
          BY <1>5, <2>2, <3>2, <5>1 DEF ByteAt
      <4>2. At(cur + 1) = x
        <5>1. cur + 1 \in 1..Len(input)
          BY <1>1, <1>4, <2>2, <4>1
        <5> QED
          BY <4>1, <5>1 DEF At
      <4>3. x = 34 \/ x = 92
        BY <3>2, RecordLetters
      <4>4. Take(1, "in")
        <5>1. At(cur) = x /\ At(cur + 1) = x
          BY <3>1, <4>1, <4>2
        <5>2. CASE x = 34
          BY <5>1, <5>2, RecordLetters DEF RecordByte
        <5>3. CASE x = 92
          BY <5>1, <5>3, RecordLetters DEF RecordByte
        <5> QED
          BY <4>3, <5>2, <5>3
      <4>5. cur + 1 + 1 = cur + 2
        BY <2>2
      <4> QED
        BY <4>1, <4>2, <4>4, <4>5 DEF Take
    <3>3. CASE x \notin RecordSpecial
      <4>1. n = cur + 1 /\ input[cur] = x
        BY <1>5, <2>2, <3>3 DEF ByteAt
      <4>2. x # 34 /\ x # 92 /\ x # 0
        BY <2>3, <3>3, RecordLetters
      <4>3. Take(0, "in")
        BY <3>1, <4>1, <4>2, RecordLetters DEF RecordByte
      <4>4. cur + 0 + 1 = cur + 1 /\ cur + 0 = cur
        BY <2>2
      <4> QED
        BY <3>1, <4>1, <4>3, <4>4 DEF Take
    <3> QED
      BY <3>2, <3>3
  <2>6. RecordFieldAt(v, at, pos, k)'
    BY <1>3, <2>4, <2>5 DEF RecordFieldAt, n, f, str
  <2> QED
    BY <1>1, <1>2, <2>5, <2>6 DEF RecordSpot
<1> QED
  BY <1>4, <1>5, <1>6, <1>7

(* One step of pg_text_dec_record on a text of pg_text_enc_record. *)
LEMMA RecordReads ==
  ASSUME NEW CONSTANT P, NEW CONSTANT v, RecordPlanned(P, v), NEW CONSTANT at, NEW CONSTANT pos,
         NEW CONSTANT e, input \in Seq(Nat), RecordSpot(P, v, at, pos, e), mode = "decode",
         RecordLead \/ RecordNull \/ RecordField \/ RecordByte \/ RecordTrail
  PROVE  \/ mode' = "decode" /\ RecordSpot(P, v, at, pos, e)'
         \/ mode' = "done" /\ row' = v
<1>1. /\ Layout(P, input, at, pos, P.n, e) /\ Len(input) = e /\ input[e] = CLOSE /\ input[1] = OPEN
      /\ at[1] = 2 /\ Begins(row, v, Fields) /\ state \in {"lead", "field", "out", "in", "trail"}
  BY DEF RecordSpot
<1>2. v \in Seq(Fields) /\ Len(v) \in Nat \ {0} /\ Len(input) \in Nat
  <2>1. v \in Seq(Fields) /\ v # <<>>
    BY DEF RecordPlanned
  <2> QED
    BY <2>1, EmptySeq
<1>3. CASE state = "lead"
  <2>1. cur = 1 /\ row = <<>> /\ word = <<>>
    BY <1>3 DEF RecordSpot
  <2>2. At(cur) = 40
    <3>1. 1 \in 1..Len(input)
      <4>1. 1 \in 1..Len(v) /\ 1 \in Nat
        BY <1>2
      <4>2. at[1] <= e
        <5>1. P.n \in Nat /\ 1 \in 1..(P.n + 1)
          BY DEF RecordPlanned, RowPlanned, PlanOK
        <5> QED
          BY <1>1, <5>1 DEF Layout
      <4> QED
        BY <1>1, <1>2, <4>2
    <3> QED
      BY <1>1, <2>1, <3>1, RecordLetters DEF At
  <2>3. RecordLead
    BY <1>3 DEF RecordNull, RecordField, RecordByte, RecordTrail, RecordAt
  <2>4. cur' = 1 + 1 /\ state' = "field" /\ mode' = "decode" /\ UNCHANGED <<input, row, word>>
    BY <2>1, <2>2, <2>3, RecordLetters DEF RecordLead
  <2>5. cur' = at[1] + Skip(1) /\ Len(row') = 0 /\ 0 < Len(v)
    BY <1>1, <1>2, <2>1, <2>4 DEF Skip
  <2>6. RecordFieldAt(v, at, pos, 1)'
    BY <2>1, <2>4, <2>5 DEF RecordFieldAt
  <2>7. RecordSpot(P, v, at, pos, e)'
    BY <1>1, <2>4, <2>5, <2>6 DEF RecordSpot
  <2> QED
    BY <2>4, <2>7
<1>4. CASE state \in {"field", "out", "in"}
  <2>1. PICK k : k = Len(row) + 1
    OBVIOUS
  <2>2. Len(row) < Len(v) /\ RecordFieldAt(v, at, pos, k)
    BY <1>4, <2>1 DEF RecordSpot
  <2>3. k \in 1..Len(v)
    <3>1. Len(row) \in Nat
      BY <1>1 DEF Begins
    <3> QED
      BY <1>2, <2>1, <2>2, <3>1
  <2>4. PICK s : s = at[k] + Skip(k)
    OBVIOUS
  <2>5. QuotedFound(P, v, input, s, at[k + 1], pos[k], k, e, COMMA)
    <3>1. RowPlanned(P, v, <<COMMA>>, <<>>, <<QUOTE>>, RecordSpecial, RecordEscape) /\ IsRow(v) /\ COMMA \in Nat
      BY DEF RecordPlanned, COMMA
    <3> QED
      BY <1>1, <1>2, <2>3, <2>4, <3>1, QuotedFinds
  <2>6. ~RecordLead /\ ~RecordTrail
    BY <1>4 DEF RecordLead, RecordTrail, RecordAt
  <2>7. CASE state = "in"
    <3>1. RecordByte
      BY <2>6, <2>7 DEF RecordNull, RecordField, RecordAt
    <3> QED
      BY <2>1, <2>2, <2>3, <2>5, <2>7, <3>1, RecordInside
  <2>8. CASE state \in {"field", "out"}
    BY <2>1, <2>2, <2>3, <2>4, <2>5, <2>6, <2>8, RecordOutside
  <2> QED
    BY <1>4, <2>7, <2>8
<1>5. CASE state = "trail"
  <2>1. row = v /\ cur = e + 1
    BY <1>5 DEF RecordSpot
  <2>2. At(cur) = 0
    BY <1>1, <1>2, <2>1, RecordLetters DEF At
  <2>3. RecordTrail
    BY <1>5 DEF RecordNull, RecordField, RecordByte, RecordLead, RecordAt
  <2>4. mode' = "done" /\ row' = row
    BY <2>2, <2>3, RecordLetters DEF RecordTrail, decVars
  <2> QED
    BY <2>1, <2>4
<1> QED
  BY <1>1, <1>3, <1>4, <1>5


(* The decoder begins at the parenthesis. *)
RecordReady(P, text, at, pos, e) ==
  /\ Layout(P, text, at, pos, P.n, e) /\ Len(text) = e /\ text[e] = CLOSE /\ text[1] = OPEN
  /\ at[1] = 2

LEMMA RecordBegins ==
  ASSUME NEW P, P.prefix = <<OPEN>>, NEW text, IsText(text), Written(P, text, <<CLOSE>>)
  PROVE  \E at, pos, e : RecordReady(P, text, at, pos, e)
<1>1. PICK e \in Nat \ {0} :
        Laid(P, text, P.n, e) /\ Has(text, e, <<CLOSE>>) /\ Len(text) + 1 = e + Len(<<CLOSE>>)
  BY DEF Written
<1>2. PICK at, pos : Layout(P, text, at, pos, P.n, e)
  BY <1>1 DEF Laid
<1>3. \A a \in Nat : \A c : Has(text, a, <<c>>) => text[a] = c
  <2> SUFFICES ASSUME NEW a \in Nat, NEW c, Has(text, a, <<c>>) PROVE text[a] = c
    OBVIOUS
  <2>1. Len(<<c>>) = 1 /\ <<c>>[1] = c /\ 1 \in 1..1 /\ a + 1 - 1 = a
    OBVIOUS
  <2>2. text[a + 1 - 1] = <<c>>[1]
    BY <2>1 DEF Has
  <2> QED
    BY <2>1, <2>2
<1>4. Len(text) = e /\ text[e] = CLOSE
  <2>1. Len(<<CLOSE>>) = 1 /\ Len(text) \in Nat
    BY DEF IsText
  <2> QED
    BY <1>1, <1>3, <2>1
<1>5. text[1] = OPEN /\ at[1] = 2
  <2>1. Has(text, 1, P.prefix) /\ at[1] = 1 + Len(P.prefix)
    BY <1>2 DEF Layout
  <2>2. Has(text, 1, <<OPEN>>) /\ at[1] = 1 + 1
    BY <2>1
  <2> QED
    BY <1>3, <2>2
<1>6. RecordReady(P, text, at, pos, e)
  BY <1>2, <1>4, <1>5 DEF RecordReady
<1> QED
  BY <1>6

RecordPlan(v) == RowPlan(v, <<OPEN>>, <<COMMA>>, <<>>, <<QUOTE>>, RecordSpecial, RecordEscape)

LEMMA RecordTextsRead ==
  /\ <<OPEN>> \in Seq(Nat) /\ <<COMMA>> \in Seq(Nat) /\ <<>> \in Seq(Nat) /\ <<QUOTE>> \in Seq(Nat)
  /\ <<CLOSE>> \in Seq(Nat) /\ \A c \in RecordSpecial : RecordEscape[c] \in Nat
<1>1. \A c \in RecordSpecial : RecordEscape[c] \in Nat
  BY RecordLetters
<1> QED
  BY <1>1 DEF OPEN, COMMA, QUOTE, CLOSE

LEMMA RecordPlanning ==
  ASSUME NEW v \in RecordRows, v # <<>>
  PROVE  RecordPlanned(RecordPlan(v), v) /\ RecordPlan(v).prefix = <<OPEN>>
<1>1. v \in Seq(Fields) /\ IsRow(v)
  BY RecordAssumption, RecordReadable
<1>2. NulFree(v)
  <2> SUFFICES ASSUME NEW k \in 1..Len(v), NEW m \in 1..Len(v[k].str) PROVE v[k].str[m] # NUL
    BY DEF NulFree
  <2>1. k \in DOMAIN v /\ v[k] \in Fields
    BY <1>1
  <2>2. v[k].str \in Seq(Byte)
    BY <2>1 DEF Fields
  <2>3. m \in DOMAIN v[k].str
    BY <2>2
  <2> QED
    BY <2>1, <2>3, RecordReadable
<1>3. /\ RowPlanned(RecordPlan(v), v, <<COMMA>>, <<>>, <<QUOTE>>, RecordSpecial, RecordEscape)
      /\ RecordPlan(v).prefix = <<OPEN>>
  <2>1. PICK P, open, sep, none, quote, escape :
          /\ P = RecordPlan(v) /\ open = <<OPEN>> /\ sep = <<COMMA>> /\ none = <<>> /\ quote = <<QUOTE>>
          /\ escape = RecordEscape
    OBVIOUS
  <2>2. IsRowPlan(P, v, open, sep, none, quote, RecordSpecial, escape)
    BY <2>1 DEF RecordPlan, IsRowPlan
  <2>3. /\ open \in Seq(Nat) /\ sep \in Seq(Nat) /\ none \in Seq(Nat) /\ quote \in Seq(Nat)
        /\ \A c \in RecordSpecial : escape[c] \in Nat
    BY <2>1, RecordTextsRead
  <2>4. RowPlanned(P, v, sep, none, quote, RecordSpecial, escape) /\ P.prefix = open
    BY <1>1, <2>2, <2>3, RowPlanFacts
  <2> QED
    BY <2>1, <2>4
<1> QED
  BY <1>1, <1>2, <1>3 DEF RecordPlanned

(* The way of a record through the encoder and the decoder. *)
RecordTrip ==
  codec = "record" /\ value # <<>> =>
    /\ value \in RecordRows
    /\ mode \in {"encode", "escape"} => row = <<>> /\ state = "lead" /\ Writing(RecordPlan(value))
    /\ mode = "decode" => \E at, pos, e : RecordSpot(RecordPlan(value), value, at, pos, e)
    /\ mode # "error"
    /\ mode = "done" => row = value

LEMMA RecordTripStep ==
  ASSUME Base, RecordInv, RecordTrip, RecordNext
  PROVE  RecordTrip'
<1> SUFFICES ASSUME value' # <<>> PROVE RecordTrip'
  BY DEF RecordTrip
<1>0. codec = "record" /\ value' = value
  <2>1. CASE pg_text_enc_record
    BY <2>1 DEF pg_text_enc_record, EncodeRow, EncodeNull, EncodeString, EncodeBuffer, EncodeByte,
         EncodeStringEnd, EscapeByte, MoveByte, EscapeEnd, EncodeEnd, encVars
  <2>2. CASE RecordLead \/ RecordNull \/ RecordField \/ RecordByte \/ RecordTrail
    BY <2>2 DEF RecordLead, RecordNull, RecordField, RecordByte, RecordTrail, RecordAt, EndField, Take,
         Raise, encVars
  <2> QED
    BY <2>1, <2>2 DEF RecordNext
<1>1. PICK v : v = value
  OBVIOUS
<1>2. PICK P : P = RecordPlan(v)
  OBVIOUS
<1>3. /\ v \in RecordRows /\ v # <<>>
      /\ mode \in {"encode", "escape"} => row = <<>> /\ state = "lead" /\ Writing(P)
      /\ mode = "decode" => \E at, pos, e : RecordSpot(P, v, at, pos, e)
  BY <1>0, <1>1, <1>2 DEF RecordTrip
<1>4. RecordPlanned(P, v) /\ P.prefix = <<OPEN>>
  BY <1>2, <1>3, RecordPlanning
<1>5. input \in Seq(Nat)
  BY DEF Base
<1>6. CASE pg_text_enc_record
  <2>1. EncodeRow(<<COMMA>>, <<>>, <<QUOTE>>, <<CLOSE>>, RecordSpecial, RecordEscape)
    BY <1>6 DEF pg_text_enc_record
  <2>3. EscapeRoom(RecordSpecial, 0)
    BY <1>0 DEF RecordInv
  <2>4. /\ Base' /\ mode \in {"encode", "escape"} /\ mode' \in {"encode", "escape", "decode"}
        /\ cur' = 1 /\ word' = <<>>
    BY <2>1, <2>3, RecordTextsRead, EncodeRowStep, Zenon
  <2>5. /\ RowPlanned(P, value, <<COMMA>>, <<>>, <<QUOTE>>, RecordSpecial, RecordEscape)
        /\ IsRow(value)
    BY <1>1, <1>4 DEF RecordPlanned
  <2>6. Writing(P)
    BY <1>3, <2>4
  <2>7. Writing(P)' /\ (mode' = "decode" => Written(P, input', <<CLOSE>>))
    BY <2>1, <2>3, <2>5, <2>6, RecordTextsRead, RowWrites, Zenon
  <2>8. row' = <<>> /\ state' = "lead"
    <3>1. row = <<>> /\ state = "lead"
      BY <1>3, <2>4
    <3> QED
      BY <2>1, <3>1 DEF EncodeRow, EncodeNull, EncodeString, EncodeBuffer, EncodeByte,
         EncodeStringEnd, EscapeByte, MoveByte, EscapeEnd, EncodeEnd, decVars
  <2>9. ASSUME mode' = "decode" PROVE \E at, pos, e : RecordSpot(P, v, at, pos, e)'
    <3>1. IsText(input')
      BY <2>4 DEF Base, IsText
    <3>2. PICK at, pos, e : RecordReady(P, input', at, pos, e)
      BY <1>4, <2>7, <2>9, <3>1, RecordBegins
    <3>3. cur' = 1 /\ word' = <<>> /\ row' = <<>> /\ state' = "lead"
      BY <2>4, <2>8
    <3>4. Begins(<<>>, v, Fields)
      <4>1. v \in Seq(Fields)
        BY <1>4 DEF RecordPlanned
      <4> QED
        BY <4>1, BeginsEmpty
    <3>5. RecordSpot(P, v, at, pos, e)'
      BY <3>2, <3>3, <3>4 DEF RecordReady, RecordSpot
    <3> QED
      BY <3>5
  <2>10. value' = v /\ RecordPlan(value') = P
    BY <1>0, <1>1, <1>2
  <2> QED
    BY <1>3, <2>4, <2>7, <2>8, <2>9, <2>10 DEF RecordTrip
<1>7. CASE RecordLead \/ RecordNull \/ RecordField \/ RecordByte \/ RecordTrail
  <2>1. mode = "decode"
    BY <1>7 DEF RecordLead, RecordNull, RecordField, RecordByte, RecordTrail, RecordAt
  <2>2. PICK at, pos, e : RecordSpot(P, v, at, pos, e)
    BY <1>3, <2>1
  <2>4. \/ mode' = "decode" /\ RecordSpot(P, v, at, pos, e)'
        \/ mode' = "done" /\ row' = v
    BY <1>4, <1>5, <1>7, <2>1, <2>2, RecordReads
  <2>5. value' = v /\ RecordPlan(value') = P
    BY <1>0, <1>1, <1>2
  <2>6. CASE mode' = "decode" /\ RecordSpot(P, v, at, pos, e)'
    BY <1>3, <2>5, <2>6 DEF RecordTrip
  <2>7. CASE mode' = "done" /\ row' = v
    BY <1>3, <2>5, <2>7 DEF RecordTrip
  <2> QED
    BY <2>4, <2>6, <2>7
<1> QED
  BY <1>6, <1>7 DEF RecordNext


-----------------------------------------------------------------------------
(* pg_text_dec_identifier reads what pg_text_enc_identifier has written *)

IdentifierPlanned(P, v) ==
  /\ RowPlanned(P, v, <<DOT>>, <<>>, <<QUOTE>>, IdentifierSpecial, IdentifierEscape)
  /\ IsRow(v) /\ v \in Seq(Fields) /\ v # <<>>
  /\ \A k \in 1..Len(v) : v[k] = Str(v[k].str)

(* Where the decoder is, in the text and in the names, k being the name:   *)
(* behind a quote it does not know yet whether another one follows.        *)
IdentifierName(v, at, pos, k) ==
  /\ state = "out" => word = <<>> /\ cur = at[k] + Skip(k)
  /\ state = "in" => Begins(word, v[k].str, Nat) /\ cur = pos[k][Len(word)]
  /\ state = "quote" =>
       \/ /\ Begins(word, v[k].str, Nat) /\ Len(word) < Len(v[k].str)
          /\ v[k].str[Len(word) + 1] = QUOTE /\ cur = pos[k][Len(word)] + 1
       \/ word = v[k].str /\ cur = at[k + 1]
IdentifierSpot(P, v, at, pos, e) ==
  /\ Layout(P, input, at, pos, P.n, e) /\ e = Len(input) + 1
  /\ state \in {"out", "in", "quote"}
  /\ Begins(row, v, Fields) /\ Len(row) < Len(v)
  /\ IdentifierName(v, at, pos, Len(row) + 1)

LEMMA IdentifierLetters ==
  /\ DOT = 46 /\ QUOTE = 34 /\ DOT \in Nat
  /\ \A c : c \in IdentifierSpecial <=> c = 34
  /\ \A c \in IdentifierSpecial : IdentifierEscape[c] = c
  BY DEF DOT, QUOTE, IdentifierSpecial, IdentifierEscape

LEMMA IdentifierKinds ==
  ASSUME NEW P, NEW v, IdentifierPlanned(P, v), NEW k \in 1..Len(v)
  PROVE  v[k] = Str(v[k].str) /\ v[k].kind # "nil"
<1>1. v[k] = Str(v[k].str)
  BY DEF IdentifierPlanned
<1>2. Str(v[k].str).kind = "str"
  BY DEF Str
<1> QED
  BY <1>1, <1>2

(* The next byte of a string. *)
NextByte(P, text, str, f, w) ==
  /\ f[Len(w)] \in Nat \ {0} /\ f[Len(w) + 1] \in Nat \ {0}
  /\ f[Len(w)] < f[Len(w) + 1] /\ f[Len(w) + 1] <= f[Len(str)]
  /\ ByteAt(P, text, f[Len(w)], f[Len(w) + 1], str[Len(w) + 1])
  /\ Begins(Append(w, str[Len(w) + 1]), str, Nat)
  /\ Len(Append(w, str[Len(w) + 1])) = Len(w) + 1

LEMMA NextByteRead ==
  ASSUME NEW P, NEW text, NEW f, NEW str \in Seq(Nat), Run(P, text, f, str, 0, Len(str)),
         NEW w, Begins(w, str, Nat), Len(w) < Len(str)
  PROVE  NextByte(P, text, str, f, w)
<1>1. Len(w) \in Nat
  BY DEF Begins
<1>2. /\ f[Len(w)] \in Nat \ {0} /\ f[Len(w) + 1] \in Nat \ {0}
      /\ f[Len(w)] < f[Len(w) + 1] /\ f[Len(w) + 1] <= f[Len(str)]
      /\ ByteAt(P, text, f[Len(w)], f[Len(w) + 1], str[Len(w) + 1])
  BY <1>1, BytesRead
<1>3. Begins(Append(w, str[Len(w) + 1]), str, Nat)
  BY BeginsGrows
<1>4. Len(Append(w, str[Len(w) + 1])) = Len(w) + 1
  <2>1. w \in Seq(Nat) /\ str[Len(w) + 1] \in Nat
    BY <1>1, BytesRead DEF Begins
  <2> QED
    BY <2>1
<1> QED
  BY <1>2, <1>3, <1>4 DEF NextByte

(* A string takes at least its quotes. *)
LEMMA QuotedLong ==
  ASSUME NEW P, NEW v, NEW text, NEW s, NEW b, NEW f, NEW k, NEW e, NEW d,
         QuotedFound(P, v, text, s, b, f, k, e, d), v[k].kind # "nil"
  PROVE  s + 1 < b
<1>1. /\ s \in Nat /\ b = f[Len(v[k].str)] + 1 /\ f[Len(v[k].str)] \in Nat /\ f[0] = s + 1
      /\ Run(P, text, f, v[k].str, 0, Len(v[k].str)) /\ Len(v[k].str) \in Nat
  BY DEF QuotedFound
<1>2. Len(v[k].str) \in 0..Len(v[k].str)
  BY <1>1
<1>3. f[0] <= f[Len(v[k].str)]
  BY <1>1, <1>2 DEF Run
<1> QED
  BY <1>1, <1>3

(* One step of pg_text_dec_identifier on a text of pg_text_enc_identifier. *)
LEMMA IdentifierReads ==
  ASSUME NEW CONSTANT P, NEW CONSTANT v, IdentifierPlanned(P, v), NEW CONSTANT at, NEW CONSTANT pos,
         NEW CONSTANT e, input \in Seq(Nat), IdentifierSpot(P, v, at, pos, e),
         NEW CONSTANT k, k = Len(row) + 1,
         IdentifierDot \/ IdentifierByte \/ IdentifierEnd
  PROVE  \/ mode' = "decode" /\ IdentifierSpot(P, v, at, pos, e)'
         \/ mode' = "done" /\ row' = v
<1> DEFINE s == at[k] + Skip(k)
           b == at[k + 1]
           f == pos[k]
           str == v[k].str
<1>1. /\ Layout(P, input, at, pos, P.n, e) /\ e = Len(input) + 1 /\ Len(input) \in Nat /\ e \in Nat
      /\ state \in {"out", "in", "quote"} /\ Begins(row, v, Fields) /\ Len(row) < Len(v)
      /\ IdentifierName(v, at, pos, k) /\ mode = "decode"
  BY DEF IdentifierSpot, IdentifierDot, IdentifierByte, IdentifierEnd, InName, IdentifierDecoding
<1>2. v \in Seq(Fields) /\ Len(v) \in Nat /\ Len(row) \in Nat /\ k \in 1..Len(v) /\ row \in Seq(Fields)
  <2>1. v \in Seq(Fields) /\ Len(row) \in Nat /\ row \in Seq(Fields)
    BY <1>1 DEF IdentifierPlanned, Begins
  <2>2. Len(v) \in Nat
    BY <2>1
  <2> QED
    BY <1>1, <2>1, <2>2
<1>3. QuotedFound(P, v, input, s, b, f, k, e, DOT)
  <2>1. /\ RowPlanned(P, v, <<DOT>>, <<>>, <<QUOTE>>, IdentifierSpecial, IdentifierEscape)
        /\ IsRow(v) /\ DOT \in Nat
    BY IdentifierLetters DEF IdentifierPlanned
  <2> QED
    BY <1>1, <1>2, <2>1, QuotedFinds
<1>4. v[k] = Str(str) /\ v[k].kind # "nil" /\ P.special = IdentifierSpecial
  BY <1>2, IdentifierKinds DEF IdentifierPlanned, RowPlanned
<1>5. /\ s \in Nat \ {0} /\ b \in Nat \ {0} /\ b <= e /\ input[s] = QUOTE /\ f[0] = s + 1
      /\ f[Len(str)] \in Nat \ {0} /\ input[f[Len(str)]] = QUOTE /\ b = f[Len(str)] + 1
      /\ (k < Len(v) => input[b] = DOT) /\ (k = Len(v) => b = e)
      /\ str \in Seq(Nat) /\ Len(str) \in Nat /\ f[0] <= f[Len(str)]
      /\ Run(P, input, f, str, 0, Len(str))
  <2>1. /\ s \in Nat \ {0} /\ b \in Nat \ {0} /\ b <= e /\ input[s] = QUOTE /\ f[0] = s + 1
        /\ f[Len(str)] \in Nat \ {0} /\ input[f[Len(str)]] = QUOTE /\ b = f[Len(str)] + 1
        /\ (k < Len(v) => input[b] = DOT) /\ (k = Len(v) => b = e)
        /\ str \in Seq(Nat) /\ Len(str) \in Nat /\ Run(P, input, f, str, 0, Len(str))
    BY <1>3, <1>4 DEF QuotedFound
  <2> HIDE DEF s, b, f, str
  <2>2. Len(str) \in 0..Len(str)
    BY <2>1
  <2> QED
    BY <2>1, <2>2 DEF Run
<1>6. Escape(P, QUOTE) = QUOTE /\ QUOTE \in IdentifierSpecial
  BY IdentifierLetters DEF IdentifierPlanned, RowPlanned
(* A step within the name. *)
<1>7. ASSUME mode' = "decode", input' = input, row' = row, state' \in {"out", "in", "quote"},
             IdentifierName(v, at, pos, k)'
      PROVE  IdentifierSpot(P, v, at, pos, e)'
  BY <1>1, <1>7 DEF IdentifierSpot
<1>8. ASSUME cur \in 1..Len(input), input[cur] = QUOTE
      PROVE  /\ mode' = "decode" /\ input' = input /\ row' = row /\ cur' = cur + 1
             /\ word' = IF state = "quote" THEN Append(word, QUOTE) ELSE word
             /\ state' = IF state = "in" THEN "quote" ELSE "in"
  <2>1. ~IdentifierDot /\ ~IdentifierEnd
    BY <1>1, <1>8, IdentifierLetters DEF IdentifierDot, IdentifierEnd
  <2>2. IdentifierByte
    BY <2>1
  <2> QED
    BY <1>1, <1>8, <2>2, IdentifierLetters DEF IdentifierByte, AfterQuote
<1>9. CASE state = "out"
  <2>1. word = <<>> /\ cur = s
    BY <1>1, <1>9 DEF IdentifierName
  <2> HIDE DEF s, b, f, str
  <2>2. cur \in 1..Len(input) /\ input[cur] = QUOTE
    BY <1>1, <1>5, <2>1
  <2>3. /\ mode' = "decode" /\ input' = input /\ row' = row /\ cur' = cur + 1
        /\ word' = <<>> /\ state' = "in"
    BY <1>8, <1>9, <2>1, <2>2
  <2>4. Begins(<<>>, str, Nat) /\ Len(<<>>) = 0
    BY <1>5, BeginsEmpty
  <2>5. cur' = f[Len(word')]
    BY <1>5, <2>1, <2>3, <2>4
  <2>6. IdentifierName(v, at, pos, k)'
    BY <2>3, <2>4, <2>5 DEF IdentifierName, f, str
  <2> QED
    BY <1>7, <2>3, <2>6
<1>10. CASE state = "in"
  <2>1. Begins(word, str, Nat) /\ cur = f[Len(word)]
    BY <1>1, <1>10 DEF IdentifierName
  <2>2. CASE Len(word) = Len(str)
    <3>1. word = str
      BY <1>5, <2>1, <2>2, BeginsAll
    <3> HIDE DEF s, b, f, str
    <3>2. cur \in 1..Len(input) /\ input[cur] = QUOTE
      <4>1. cur = f[Len(str)]
        BY <2>1, <2>2
      <4> QED
        BY <1>1, <1>5, <4>1, SMTT(60)
    <3>3. /\ mode' = "decode" /\ input' = input /\ row' = row /\ cur' = cur + 1
          /\ word' = word /\ state' = "quote"
      BY <1>8, <1>10, <3>2
    <3>4. cur' = b
      BY <1>5, <2>1, <2>2, <3>3
    <3>5. IdentifierName(v, at, pos, k)'
      BY <3>1, <3>3, <3>4 DEF IdentifierName, b, str
    <3> QED
      BY <1>7, <3>3, <3>5
  <2>3. CASE Len(word) # Len(str)
    <3>1. Len(word) \in Nat /\ Len(word) < Len(str)
      <4>1. Len(word) \in Nat /\ Len(word) <= Len(str)
        BY <2>1 DEF Begins
      <4> QED
        BY <1>5, <2>3, <4>1
    <3> DEFINE x == str[Len(word) + 1]
    <3>2. /\ f[Len(word)] \in Nat \ {0} /\ f[Len(word) + 1] \in Nat \ {0}
          /\ f[Len(word)] < f[Len(word) + 1] /\ f[Len(word) + 1] < e
          /\ ByteAt(P, input, f[Len(word)], f[Len(word) + 1], x)
          /\ Begins(Append(word, x), str, Nat) /\ Len(Append(word, x)) = Len(word) + 1
      <4>1. NextByte(P, input, str, f, word)
        BY <1>5, <2>1, <3>1, NextByteRead
      <4> HIDE DEF s, b, f, str
      <4>2. f[Len(word) + 1] < e
        <5>1. f[Len(word) + 1] <= f[Len(str)] /\ f[Len(word) + 1] \in Nat
          BY <4>1 DEF NextByte
        <5>2. f[Len(str)] \in Nat /\ b = f[Len(str)] + 1 /\ b <= e /\ e \in Nat
          BY <1>1, <1>5
        <5> QED
          BY <5>1, <5>2
      <4> QED
        BY <4>1, <4>2 DEF NextByte
    <3>3. cur \in 1..Len(input) /\ ByteAt(P, input, cur, f[Len(word) + 1], x)
      BY <1>1, <2>1, <3>2
    <3> HIDE DEF s, b, f, x
    <3>4. CASE x = QUOTE
      <4>1. input[cur] = QUOTE
        BY <1>4, <1>6, <3>3, <3>4 DEF ByteAt
      <4>2. /\ mode' = "decode" /\ input' = input /\ row' = row /\ cur' = cur + 1
            /\ word' = word /\ state' = "quote"
        BY <1>8, <1>10, <3>3, <4>1
      <4>3. IdentifierName(v, at, pos, k)'
        BY <2>1, <3>1, <3>4, <4>2 DEF IdentifierName, f, x
      <4> QED
        BY <1>7, <4>2, <4>3
    <3>5. CASE x # QUOTE
      <4>1. input[cur] = x /\ f[Len(word) + 1] = cur + 1
        BY <1>4, <3>3, <3>5, IdentifierLetters DEF ByteAt
      <4>2. ~IdentifierDot /\ ~IdentifierEnd
        BY <1>1, <1>10, <3>3 DEF IdentifierDot, IdentifierEnd
      <4>3. /\ mode' = "decode" /\ input' = input /\ row' = row /\ cur' = cur + 1
            /\ word' = Append(word, x) /\ state' = "in"
        BY <1>1, <1>10, <3>5, <4>1, <4>2 DEF IdentifierByte
      <4>4. cur' = f[Len(word')]
        BY <3>2, <4>1, <4>3
      <4>5. IdentifierName(v, at, pos, k)'
        BY <3>2, <4>3, <4>4 DEF IdentifierName, f
      <4> QED
        BY <1>7, <4>3, <4>5
    <3> QED
      BY <3>4, <3>5
  <2> QED
    BY <2>2, <2>3
<1>11. CASE /\ state = "quote" /\ Begins(word, str, Nat) /\ Len(word) < Len(str)
            /\ str[Len(word) + 1] = QUOTE /\ cur = f[Len(word)] + 1
  <2>1. /\ f[Len(word)] \in Nat \ {0} /\ f[Len(word) + 1] \in Nat \ {0} /\ f[Len(word) + 1] < e
        /\ ByteAt(P, input, f[Len(word)], f[Len(word) + 1], str[Len(word) + 1])
        /\ Begins(Append(word, str[Len(word) + 1]), str, Nat)
        /\ Len(Append(word, str[Len(word) + 1])) = Len(word) + 1
    <3>1. NextByte(P, input, str, f, word)
      BY <1>5, <1>11, NextByteRead
    <3> HIDE DEF s, b, f, str
    <3>2. f[Len(word) + 1] < e
      <4>1. f[Len(word) + 1] <= f[Len(str)] /\ f[Len(word) + 1] \in Nat
        BY <3>1 DEF NextByte
      <4>2. f[Len(str)] \in Nat /\ b = f[Len(str)] + 1 /\ b <= e /\ e \in Nat
        BY <1>1, <1>5
      <4> QED
        BY <4>1, <4>2
    <3> QED
      BY <3>1, <3>2 DEF NextByte
  <2> HIDE DEF s, b, f, str
  <2>2. f[Len(word) + 1] = f[Len(word)] + 2 /\ input[f[Len(word)] + 1] = QUOTE
    <3>1. ByteAt(P, input, f[Len(word)], f[Len(word) + 1], QUOTE) /\ QUOTE \in P.special
      BY <1>4, <1>6, <1>11, <2>1
    <3> QED
      BY <3>1 DEF ByteAt
  <2>3. cur \in 1..Len(input) /\ input[cur] = QUOTE /\ cur + 1 = f[Len(word) + 1]
    <3>1. f[Len(word)] \in Nat \ {0} /\ f[Len(word) + 1] < e /\ cur = f[Len(word)] + 1
      BY <1>11, <2>1
    <3>2. e = Len(input) + 1 /\ Len(input) \in Nat
      BY <1>1
    <3>3. cur \in 1..Len(input) /\ cur + 1 = f[Len(word) + 1]
      <4>1. PICK a, n, len : a = f[Len(word)] /\ n = f[Len(word) + 1] /\ len = Len(input)
        OBVIOUS
      <4>2. a \in Nat \ {0} /\ n < e /\ cur = a + 1 /\ e = len + 1 /\ len \in Nat /\ n = a + 2
        BY <2>2, <3>1, <3>2, <4>1
      <4>3. cur \in 1..len /\ cur + 1 = n
        BY <4>2
      <4> QED
        BY <4>1, <4>3
    <3> QED
      BY <2>2, <3>1, <3>3
  <2>4. /\ mode' = "decode" /\ input' = input /\ row' = row /\ cur' = cur + 1
        /\ word' = Append(word, QUOTE) /\ state' = "in"
    BY <1>8, <1>11, <2>3
  <2>5. Begins(word', str, Nat) /\ cur' = f[Len(word')]
    BY <1>11, <2>1, <2>3, <2>4
  <2>6. IdentifierName(v, at, pos, k)'
    BY <2>4, <2>5 DEF IdentifierName, f, str
  <2> QED
    BY <1>7, <2>4, <2>6
<1>12. CASE state = "quote" /\ word = str /\ cur = b
  <2> HIDE DEF s, b, f
  <2>1. Append(row, v[k]) \in Seq(Fields) /\ Len(Append(row, v[k])) = k /\ Begins(Append(row, v[k]), v, Fields)
    BY <1>1, <1>2, BeginsGrows DEF Begins
  <2>2. CASE k < Len(v)
    <3>1. input[cur] = DOT
      BY <1>5, <1>12, <2>2
    <3>2. ~(cur > Len(input))
      <4>1. k + 1 \in 1..Len(v) /\ Skip(k + 1) = 1
        BY <1>2, <2>2 DEF Skip
      <4>2. PICK t, c : t = at[k + 1] + Skip(k + 1) /\ c = at[(k + 1) + 1]
        OBVIOUS
      <4>3. QuotedFound(P, v, input, t, c, pos[k + 1], k + 1, e, DOT)
        <5>1. /\ RowPlanned(P, v, <<DOT>>, <<>>, <<QUOTE>>, IdentifierSpecial, IdentifierEscape)
              /\ IsRow(v) /\ DOT \in Nat
          BY IdentifierLetters DEF IdentifierPlanned
        <5> QED
          BY <1>1, <1>2, <4>1, <4>2, <5>1, QuotedFinds
      <4>4. v[k + 1].kind # "nil"
        BY <4>1, IdentifierKinds
      <4>5. t + 1 < c /\ c <= e /\ c \in Nat
        <5>1. t + 1 < c
          BY <4>3, <4>4, QuotedLong
        <5>2. c <= e /\ c \in Nat
          BY <4>3 DEF QuotedFound
        <5> QED
          BY <5>1, <5>2
      <4>6. t = b + 1
        BY <4>1, <4>2 DEF b
      <4>7. b \in Nat /\ cur = b /\ e = Len(input) + 1 /\ Len(input) \in Nat
        BY <1>1, <1>5, <1>12
      <4>8. PICK len, q : len = Len(input) /\ q = b
        OBVIOUS
      <4>9. q \in Nat /\ cur = q /\ e = len + 1 /\ len \in Nat /\ t = q + 1 /\ t + 1 < c /\ c <= e /\ c \in Nat
        BY <4>5, <4>6, <4>7, <4>8
      <4>10. ~(cur > len)
        BY <4>9
      <4> QED
        BY <4>8, <4>10
    <3>3. IdentifierDot
      BY <1>1, <1>12, <3>1, <3>2 DEF IdentifierByte, IdentifierEnd
    <3>4. /\ mode' = "decode" /\ input' = input /\ row' = Append(row, v[k]) /\ word' = <<>>
          /\ state' = "out" /\ cur' = b + 1
      BY <1>1, <1>4, <1>12, <3>3 DEF IdentifierDot
    <3>5. Skip(k + 1) = 1 /\ Len(row') = k
      BY <1>2, <2>1, <3>4 DEF Skip
    <3>6. IdentifierName(v, at, pos, k + 1)'
      BY <3>4, <3>5 DEF IdentifierName, b
    <3>7. IdentifierSpot(P, v, at, pos, e)'
      BY <1>1, <2>1, <2>2, <3>4, <3>5, <3>6 DEF IdentifierSpot
    <3> QED
      BY <3>4, <3>7
  <2>3. CASE k = Len(v)
    <3>1. cur > Len(input)
      BY <1>1, <1>5, <1>12, <2>3
    <3>2. IdentifierEnd
      BY <1>1, <1>5, <1>12, <3>1 DEF IdentifierByte, IdentifierDot, InName
    <3>3. mode' = "done" /\ row' = Append(row, v[k])
      BY <1>4, <1>12, <3>2 DEF IdentifierEnd
    <3>4. Append(row, v[k]) = v
      <4>1. Len(Append(row, v[k])) = Len(v)
        BY <2>1, <2>3
      <4> QED
        BY <1>2, <2>1, <4>1, BeginsAll
    <3> QED
      BY <3>3, <3>4
  <2> QED
    BY <1>2, <2>2, <2>3
<1> QED
  BY <1>1, <1>9, <1>10, <1>11, <1>12 DEF IdentifierName


(* The decoder begins at the first name. *)
IdentifierReady(P, text, at, pos, e) ==
  Layout(P, text, at, pos, P.n, e) /\ e = Len(text) + 1 /\ 1 = at[1] + Skip(1)

LEMMA IdentifierBegins ==
  ASSUME NEW P, P.prefix = <<>>, NEW text, IsText(text), Written(P, text, <<>>)
  PROVE  \E at, pos, e : IdentifierReady(P, text, at, pos, e)
<1>1. PICK e \in Nat \ {0} : Laid(P, text, P.n, e) /\ Len(text) + 1 = e + Len(<<>>)
  BY DEF Written
<1>2. PICK at, pos : Layout(P, text, at, pos, P.n, e)
  BY <1>1 DEF Laid
<1>3. e = Len(text) + 1
  <2>1. Len(<<>>) = 0
    OBVIOUS
  <2> QED
    BY <1>1, <2>1
<1>4. 1 = at[1] + Skip(1)
  <2>1. at[1] = 1 + Len(P.prefix) /\ Len(P.prefix) = 0 /\ Skip(1) = 0
    BY <1>2 DEF Layout, Skip
  <2> QED
    BY <2>1
<1>5. IdentifierReady(P, text, at, pos, e)
  BY <1>2, <1>3, <1>4 DEF IdentifierReady
<1> QED
  BY <1>5

IdentifierPlan(v) == RowPlan(v, <<>>, <<DOT>>, <<>>, <<QUOTE>>, IdentifierSpecial, IdentifierEscape)

LEMMA IdentifierTextsRead ==
  /\ <<DOT>> \in Seq(Nat) /\ <<>> \in Seq(Nat) /\ <<QUOTE>> \in Seq(Nat)
  /\ \A c \in IdentifierSpecial : IdentifierEscape[c] \in Nat
<1>1. \A c \in IdentifierSpecial : IdentifierEscape[c] \in Nat
  BY IdentifierLetters
<1> QED
  BY <1>1 DEF DOT, QUOTE

LEMMA IdentifierPlanning ==
  ASSUME NEW v \in Identifiers, v # <<>>
  PROVE  IdentifierPlanned(IdentifierPlan(v), v) /\ IdentifierPlan(v).prefix = <<>>
<1>1. v \in Seq(Fields) /\ \A k \in DOMAIN v : v[k] = Str(v[k].str)
  BY IdentifierAssumption, IdentifierNames
<1>2. IsRow(v) /\ DOMAIN v = 1..Len(v)
  BY <1>1 DEF IsRow
<1>3. /\ RowPlanned(IdentifierPlan(v), v, <<DOT>>, <<>>, <<QUOTE>>, IdentifierSpecial, IdentifierEscape)
      /\ IdentifierPlan(v).prefix = <<>>
  <2>1. PICK P, sep, none, quote, escape :
          /\ P = IdentifierPlan(v) /\ sep = <<DOT>> /\ none = <<>> /\ quote = <<QUOTE>>
          /\ escape = IdentifierEscape
    OBVIOUS
  <2>2. IsRowPlan(P, v, none, sep, none, quote, IdentifierSpecial, escape)
    BY <2>1 DEF IdentifierPlan, IsRowPlan
  <2>3. /\ sep \in Seq(Nat) /\ none \in Seq(Nat) /\ quote \in Seq(Nat)
        /\ \A c \in IdentifierSpecial : escape[c] \in Nat
    BY <2>1, IdentifierTextsRead
  <2>4. RowPlanned(P, v, sep, none, quote, IdentifierSpecial, escape) /\ P.prefix = none
    BY <1>1, <2>2, <2>3, RowPlanFacts
  <2> QED
    BY <2>1, <2>4
<1> QED
  BY <1>1, <1>2, <1>3 DEF IdentifierPlanned

(* A NUL in the names is not behind the encoder. *)
NulNotYet(v, n, m) ==
  \A k \in 1..Len(v) : \A q \in 1..Len(v[k].str) : v[k].str[q] = NUL => k > n \/ (k = n /\ q >= m)

(* The way of the names through the encoder and the decoder. *)
IdentifierTrip ==
  codec = "identifier" /\ value # <<>> =>
    /\ value \in Identifiers /\ mode \in {"encode", "decode", "done", "error"}
    /\ mode = "encode" =>
         row = <<>> /\ state = "out" /\ Writing(IdentifierPlan(value)) /\ NulNotYet(value, i, j)
    /\ mode = "decode" => \E at, pos, e : IdentifierSpot(IdentifierPlan(value), value, at, pos, e)
    /\ mode \in {"decode", "done"} => NulFree(value)
    /\ mode = "error" => ~NulFree(value)
    /\ mode = "done" => row = value

LEMMA NulSteps ==
  ASSUME NEW v, NEW n \in Nat \ {0}, NEW m \in Nat, NulNotYet(v, n, m), Len(v) \in Nat
  PROVE  /\ m = 0 => NulNotYet(v, n, 1)
         /\ n <= Len(v) /\ m \in 1..Len(v[n].str) /\ v[n].str[m] # NUL => NulNotYet(v, n, m + 1)
         /\ n <= Len(v) /\ Len(v[n].str) \in Nat /\ m = Len(v[n].str) + 1 => NulNotYet(v, n + 1, 0)
         /\ n > Len(v) => NulFree(v)
<1>1. ASSUME m = 0 PROVE NulNotYet(v, n, 1)
  <2> SUFFICES ASSUME NEW k \in 1..Len(v), NEW q \in 1..Len(v[k].str), v[k].str[q] = NUL
               PROVE  k > n \/ (k = n /\ q >= 1)
    BY DEF NulNotYet
  <2>1. k > n \/ k = n
    BY DEF NulNotYet
  <2> QED
    BY <2>1
<1>2. ASSUME n <= Len(v), m \in 1..Len(v[n].str), v[n].str[m] # NUL PROVE NulNotYet(v, n, m + 1)
  <2> SUFFICES ASSUME NEW k \in 1..Len(v), NEW q \in 1..Len(v[k].str), v[k].str[q] = NUL
               PROVE  k > n \/ (k = n /\ q >= m + 1)
    BY DEF NulNotYet
  <2>1. k > n \/ (k = n /\ q >= m)
    BY DEF NulNotYet
  <2>2. k = n => q # m
    BY <1>2
  <2>3. q \in Int /\ m \in Int
    OBVIOUS
  <2> QED
    BY <2>1, <2>2, <2>3
<1>3. ASSUME n <= Len(v), Len(v[n].str) \in Nat, m = Len(v[n].str) + 1 PROVE NulNotYet(v, n + 1, 0)
  <2> SUFFICES ASSUME NEW k \in 1..Len(v), NEW q \in 1..Len(v[k].str), v[k].str[q] = NUL
               PROVE  k > n + 1 \/ (k = n + 1 /\ q >= 0)
    BY DEF NulNotYet
  <2>1. k > n \/ (k = n /\ q >= m)
    BY DEF NulNotYet
  <2>2. k = n => ~(q >= m)
    BY <1>3
  <2>3. k \in Int /\ q \in Int /\ q >= 0
    OBVIOUS
  <2> QED
    BY <2>1, <2>2, <2>3
<1>4. ASSUME n > Len(v) PROVE NulFree(v)
  <2> SUFFICES ASSUME NEW k \in 1..Len(v), NEW q \in 1..Len(v[k].str), v[k].str[q] = NUL
               PROVE  FALSE
    BY DEF NulFree
  <2>1. k > n \/ k = n
    BY DEF NulNotYet
  <2> QED
    BY <1>4, <2>1
<1> QED
  BY <1>1, <1>2, <1>3, <1>4

LEMMA IdentifierTripStep ==
  ASSUME Base, IdentifierInv, IdentifierTrip, IdentifierNext
  PROVE  IdentifierTrip'
<1> SUFFICES ASSUME value' # <<>> PROVE IdentifierTrip'
  BY DEF IdentifierTrip
<1>0. codec = "identifier" /\ value' = value
  <2>1. CASE pg_text_enc_identifier
    BY <2>1 DEF pg_text_enc_identifier, EncodeString, EncodeByte, EncodeStringEnd, EncodeEnd, Raise, encVars
  <2>2. CASE IdentifierDot \/ IdentifierByte \/ IdentifierEnd
    BY <2>2 DEF IdentifierDot, IdentifierByte, IdentifierEnd, InName, IdentifierDecoding, encVars
  <2> QED
    BY <2>1, <2>2 DEF IdentifierNext
<1>1. PICK v : v = value
  OBVIOUS
<1>2. PICK P : P = IdentifierPlan(v)
  OBVIOUS
<1>3. /\ v \in Identifiers /\ v # <<>> /\ mode \in {"encode", "decode", "done", "error"}
      /\ mode = "encode" => row = <<>> /\ state = "out" /\ Writing(P) /\ NulNotYet(v, i, j)
      /\ mode = "decode" => \E at, pos, e : IdentifierSpot(P, v, at, pos, e)
      /\ mode \in {"decode", "done"} => NulFree(v)
  BY <1>0, <1>1, <1>2 DEF IdentifierTrip
<1>4. IdentifierPlanned(P, v) /\ P.prefix = <<>>
  BY <1>2, <1>3, IdentifierPlanning
<1>5. input \in Seq(Nat) /\ i \in Nat \ {0} /\ j \in Nat /\ Len(v) \in Nat
  BY <1>1 DEF Base
<1>6. value' = v /\ IdentifierPlan(value') = P
  BY <1>0, <1>1, <1>2
<1>7. CASE mode = "encode" /\ i <= Len(value) /\ NulAhead /\ Raise
  <2>1. mode' = "error"
    BY <1>7 DEF Raise
  <2>2. ~NulFree(v)
    <3>1. i \in 1..Len(v) /\ j \in 1..Len(v[i].str) /\ v[i].str[j] = NUL
      BY <1>1, <1>5, <1>7 DEF NulAhead
    <3> QED
      BY <3>1 DEF NulFree
  <2> QED
    BY <1>3, <1>6, <2>1, <2>2 DEF IdentifierTrip
<1>8. CASE \/ EncodeString(<<DOT>>, <<QUOTE>>)
           \/ i <= Len(value) /\ ~NulAhead /\ EncodeByte(IdentifierSpecial, IdentifierEscape)
           \/ EncodeStringEnd(<<QUOTE>>) \/ EncodeEnd(<<>>)
  <2>1. EncodeRow(<<DOT>>, <<>>, <<QUOTE>>, <<>>, IdentifierSpecial, IdentifierEscape)
    BY <1>8 DEF EncodeRow
  <2>2. mode = "encode" /\ mode' \in {"encode", "decode"} /\ row' = row /\ state' = state
    BY <1>8 DEF EncodeString, EncodeByte, EncodeStringEnd, EncodeEnd, decVars
  <2>3. EscapeRoom(IdentifierSpecial, 0)
    BY <2>2 DEF EscapeRoom
  <2>4. Base' /\ cur' = 1 /\ word' = <<>>
    BY <2>1, <2>3, IdentifierTextsRead, EncodeRowStep, Zenon
  <2>5. /\ RowPlanned(P, value, <<DOT>>, <<>>, <<QUOTE>>, IdentifierSpecial, IdentifierEscape)
        /\ IsRow(value)
    BY <1>1, <1>4 DEF IdentifierPlanned
  <2>6. Writing(P) /\ NulNotYet(v, i, j) /\ row' = <<>> /\ state' = "out"
    BY <1>3, <2>2
  <2>7. Writing(P)' /\ (mode' = "decode" => Written(P, input', <<>>))
    BY <2>1, <2>3, <2>5, <2>6, IdentifierTextsRead, RowWrites, Zenon
  <2>8. (mode' = "encode" => NulNotYet(v, i', j')) /\ (mode' = "decode" => NulFree(v))
    <3>0. /\ j = 0 => NulNotYet(v, i, 1)
          /\ i <= Len(v) /\ j \in 1..Len(v[i].str) /\ v[i].str[j] # NUL => NulNotYet(v, i, j + 1)
          /\ i <= Len(v) /\ Len(v[i].str) \in Nat /\ j = Len(v[i].str) + 1 => NulNotYet(v, i + 1, 0)
          /\ i > Len(v) => NulFree(v)
      BY <1>5, <2>6, NulSteps
    <3>1. CASE EncodeString(<<DOT>>, <<QUOTE>>)
      BY <3>0, <3>1 DEF EncodeString
    <3>2. CASE i <= Len(value) /\ ~NulAhead /\ EncodeByte(IdentifierSpecial, IdentifierEscape)
      BY <1>1, <3>0, <3>2 DEF EncodeByte, NulAhead
    <3>3. CASE EncodeStringEnd(<<QUOTE>>)
      <4>1. i <= Len(value)
        BY <3>3 DEF EncodeStringEnd
      <4>2. value[i].str \in Seq(Nat)
        BY <4>1, FieldStrings
      <4>3. Len(v[i].str) \in Nat
        BY <1>1, <4>2
      <4> QED
        BY <1>1, <3>0, <3>3, <4>3 DEF EncodeStringEnd
    <3>4. CASE EncodeEnd(<<>>)
      BY <1>1, <3>0, <3>4 DEF EncodeEnd
    <3> QED
      BY <1>8, <3>1, <3>2, <3>3, <3>4
  <2>9. ASSUME mode' = "decode" PROVE \E at, pos, e : IdentifierSpot(P, v, at, pos, e)'
    <3>1. IsText(input')
      BY <2>4 DEF Base, IsText
    <3>2. PICK at, pos, e : IdentifierReady(P, input', at, pos, e)
      BY <1>4, <2>7, <2>9, <3>1, IdentifierBegins
    <3>3. cur' = 1 /\ word' = <<>> /\ row' = <<>> /\ state' = "out"
      BY <2>4, <2>6
    <3>4. Begins(<<>>, v, Fields) /\ Len(<<>>) = 0 /\ 0 < Len(v)
      <4>1. v \in Seq(Fields)
        BY <1>4 DEF IdentifierPlanned
      <4> QED
        BY <1>3, <4>1, BeginsEmpty, EmptySeq
    <3>5. IdentifierName(v, at, pos, 1)'
      BY <3>2, <3>3 DEF IdentifierReady, IdentifierName
    <3>6. IdentifierSpot(P, v, at, pos, e)'
      BY <3>2, <3>3, <3>4, <3>5 DEF IdentifierReady, IdentifierSpot
    <3> QED
      BY <3>6
  <2> QED
    BY <1>3, <1>6, <2>2, <2>6, <2>7, <2>8, <2>9 DEF IdentifierTrip
<1>9. CASE IdentifierDot \/ IdentifierByte \/ IdentifierEnd
  <2>1. mode = "decode"
    BY <1>9 DEF IdentifierDot, IdentifierByte, IdentifierEnd, InName, IdentifierDecoding
  <2>2. PICK at, pos, e : IdentifierSpot(P, v, at, pos, e)
    BY <1>3, <2>1
  <2>3. PICK k : k = Len(row) + 1
    OBVIOUS
  <2>4. \/ mode' = "decode" /\ IdentifierSpot(P, v, at, pos, e)'
        \/ mode' = "done" /\ row' = v
    BY <1>4, <1>5, <1>9, <2>2, <2>3, IdentifierReads
  <2>5. NulFree(v)
    BY <1>3, <2>1
  <2>6. CASE mode' = "decode" /\ IdentifierSpot(P, v, at, pos, e)'
    BY <1>3, <1>6, <2>5, <2>6 DEF IdentifierTrip
  <2>7. CASE mode' = "done" /\ row' = v
    BY <1>3, <1>6, <2>5, <2>7 DEF IdentifierTrip
  <2> QED
    BY <2>4, <2>6, <2>7
<1> QED
  BY <1>7, <1>8, <1>9 DEF IdentifierNext, pg_text_enc_identifier

-----------------------------------------------------------------------------
(* Numbers in network byte order *)

Number32(n) == n = -1 \/ (n \in Nat /\ n <= 2147483647)

LEMMA Bytes32 ==
  ASSUME NEW n \in Nat, n <= 2147483647
  PROVE  /\ n \div 16777216 \in 0..127 /\ (n \div 65536) % 256 \in 0..255
         /\ (n \div 256) % 256 \in 0..255 /\ n % 256 \in 0..255
         /\ n = (n \div 16777216) * 16777216 + ((n \div 65536) % 256) * 65536
                  + ((n \div 256) % 256) * 256 + (n % 256)
<1> DEFINE x == n \div 256
           y == n \div 65536
           z == n \div 16777216
<1>1. x \in Nat /\ y \in Nat /\ z \in 0..127
  BY SMT
<1>2. n = 256 * x + (n % 256) /\ n % 256 \in 0..255
  BY SMT
<1>3. x = 256 * y + (x % 256) /\ x % 256 \in 0..255
  BY SMT
<1>4. y = 256 * z + (y % 256) /\ y % 256 \in 0..255
  BY SMT
<1> QED
  BY <1>1, <1>2, <1>3, <1>4, SMT

LEMMA Bytes16 ==
  ASSUME NEW n \in Nat, n <= 32767
  PROVE  /\ n \div 256 \in 0..127 /\ n % 256 \in 0..255 /\ n = (n \div 256) * 256 + (n % 256)
  BY SMT

(* Four bytes of a text. *)
Four(text, k, a, b, c, d) == text[k] = a /\ text[k + 1] = b /\ text[k + 2] = c /\ text[k + 3] = d

LEMMA HasFour ==
  ASSUME NEW text, NEW k \in Nat, NEW a, NEW b, NEW c, NEW d, Has(text, k, <<a, b, c, d>>)
  PROVE  Four(text, k, a, b, c, d)
<1>1. /\ Len(<<a, b, c, d>>) = 4 /\ <<a, b, c, d>>[1] = a /\ <<a, b, c, d>>[2] = b
      /\ <<a, b, c, d>>[3] = c /\ <<a, b, c, d>>[4] = d
  OBVIOUS
<1>2. 1 \in 1..4 /\ 2 \in 1..4 /\ 3 \in 1..4 /\ 4 \in 1..4
  OBVIOUS
<1>3. k + 1 - 1 = k /\ k + 2 - 1 = k + 1 /\ k + 3 - 1 = k + 2 /\ k + 4 - 1 = k + 3
  OBVIOUS
<1>4. \A m \in 1..4 : text[k + m - 1] = <<a, b, c, d>>[m]
  BY <1>1 DEF Has
<1>5. text[k + 1 - 1] = a /\ text[k + 2 - 1] = b /\ text[k + 3 - 1] = c /\ text[k + 4 - 1] = d
  BY <1>1, <1>2, <1>4
<1> QED
  BY <1>3, <1>5 DEF Four

(* The four bytes of a number. *)
Spells(n, a, b, c, d) ==
  /\ write_nbo32(n) = <<a, b, c, d>>
  /\ n = (IF a > 127 THEN a - 256 ELSE a) * 16777216 + b * 65536 + c * 256 + d

LEMMA LengthRead ==
  ASSUME input \in Seq(Nat), NEW k \in Nat \ {0}, k + 3 <= Len(input), NEW n, Number32(n),
         Has(input, k, write_nbo32(n))
  PROVE  read_nbo32(k) = n
<1>0. PICK a, b, c, d : Spells(n, a, b, c, d)
  <2>1. CASE n = -1
    <3>1. write_nbo32(n) = <<255, 255, 255, 255>>
      BY <2>1, SMT DEF write_nbo32
    <3>2. -1 = (255 - 256) * 16777216 + 255 * 65536 + 255 * 256 + 255
      BY SMT
    <3>3. Spells(n, 255, 255, 255, 255)
      BY <2>1, <3>1, <3>2, SMT DEF Spells
    <3> QED
      BY <3>3
  <2>2. CASE n \in Nat /\ n <= 2147483647
    <3>1. write_nbo32(n) = <<n \div 16777216, (n \div 65536) % 256, (n \div 256) % 256, n % 256>>
      BY <2>2, SMTT(60) DEF write_nbo32
    <3>2. PICK a, b, c, d : /\ a = n \div 16777216 /\ b = (n \div 65536) % 256
                            /\ c = (n \div 256) % 256 /\ d = n % 256
      OBVIOUS
    <3>3. a \in 0..127 /\ b \in 0..255 /\ c \in 0..255 /\ d \in 0..255
          /\ n = a * 16777216 + b * 65536 + c * 256 + d
      BY <2>2, <3>2, Bytes32, SMT
    <3>4. (IF a > 127 THEN a - 256 ELSE a) = a /\ a \in 0..255
      BY <3>3
    <3>5. Spells(n, a, b, c, d)
      BY <3>1, <3>2, <3>3, <3>4, SMT DEF Spells
    <3> QED
      BY <3>5
  <2> QED
    BY <2>1, <2>2, SMT DEF Number32
<1>1. write_nbo32(n) = <<a, b, c, d>> /\ n = (IF a > 127 THEN a - 256 ELSE a) * 16777216 + b * 65536 + c * 256 + d
  BY <1>0 DEF Spells
<1>2. Four(input, k, a, b, c, d)
  BY <1>1, HasFour
<1>3. k \in 1..Len(input) /\ k + 1 \in 1..Len(input) /\ k + 2 \in 1..Len(input) /\ k + 3 \in 1..Len(input)
  <2>1. Len(input) \in Nat
    OBVIOUS
  <2> QED
    BY <2>1
<1>4. At(k) = a /\ At(k + 1) = b /\ At(k + 2) = c /\ At(k + 3) = d
  BY <1>2, <1>3 DEF At, Four
<1>5. read_nbo32(k) = (IF a > 127 THEN a - 256 ELSE a) * 16777216 + b * 65536 + c * 256 + d
  BY <1>4, SMT DEF read_nbo32
<1> QED
  BY <1>1, <1>5, SMT

LEMMA CountRead ==
  ASSUME input \in Seq(Nat), 2 <= Len(input), NEW n \in Nat, n <= 32767, Has(input, 1, write_nbo16(n))
  PROVE  read_nbo16(1) = n
<1>1. PICK a, b : a = n \div 256 /\ b = n % 256
  OBVIOUS
<1>2. a \in 0..127 /\ b \in 0..255 /\ n = a * 256 + b
  BY <1>1, Bytes16, SMT
<1>3. write_nbo16(n) = <<a, b>> /\ Len(<<a, b>>) = 2 /\ <<a, b>>[1] = a /\ <<a, b>>[2] = b
  BY <1>1, SMT DEF write_nbo16
<1>4. 1 + 1 - 1 = 1 /\ 1 + 2 - 1 = 2 /\ 1 \in 1..2 /\ 2 \in 1..2
  OBVIOUS
<1>5. input[1 + 1 - 1] = a /\ input[1 + 2 - 1] = b
  BY <1>3, <1>4 DEF Has
<1>6. 1 \in 1..Len(input) /\ 2 \in 1..Len(input)
  <2>1. Len(input) \in Nat
    OBVIOUS
  <2> QED
    BY <2>1
<1>7. At(1) = a /\ At(2) = b
  BY <1>4, <1>5, <1>6 DEF At
<1>8. read_nbo16(1) = (IF a > 127 THEN a - 256 ELSE a) * 256 + b
  BY <1>7, SMT DEF read_nbo16
<1> QED
  BY <1>2, <1>8, SMT

-----------------------------------------------------------------------------
(* pg_bin_enc_copy_row *)

LEMMA HasBoth ==
  ASSUME NEW text, NEW a \in Nat \ {0}, NEW s \in Seq(Nat), NEW t \in Seq(Nat), Has(text, a, s \o t)
  PROVE  Has(text, a, s) /\ Has(text, a + Len(s), t)
<1>1. /\ Len(s \o t) = Len(s) + Len(t) /\ Len(s) \in Nat /\ Len(t) \in Nat
      /\ \A q \in 1..(Len(s) + Len(t)) : (s \o t)[q] = IF q <= Len(s) THEN s[q] ELSE t[q - Len(s)]
  BY ConcatProperties
<1>2. ASSUME NEW m \in 1..Len(s) PROVE text[a + m - 1] = s[m]
  <2>1. m \in 1..(Len(s) + Len(t)) /\ m <= Len(s)
    BY <1>1
  <2> QED
    BY <1>1, <2>1 DEF Has
<1>3. ASSUME NEW m \in 1..Len(t) PROVE text[(a + Len(s)) + m - 1] = t[m]
  <2> DEFINE q == m + Len(s)
  <2>1. q \in 1..(Len(s) + Len(t)) /\ ~(q <= Len(s)) /\ q - Len(s) = m /\ a + q - 1 = (a + Len(s)) + m - 1
    BY <1>1
  <2>2. text[a + q - 1] = (s \o t)[q]
    BY <1>1, <2>1 DEF Has
  <2> QED
    BY <1>1, <2>1, <2>2
<1> QED
  BY <1>2, <1>3 DEF Has

(* A field and its length. *)
FieldLength(f) == IF f.kind = "nil" THEN -1 ELSE Len(f.str)
FieldSize(f) == IF f.kind = "nil" THEN 4 ELSE 4 + Len(f.str)

LEMMA NumberSize == \A n \in Int : Len(write_nbo32(n)) = 4
<1> TAKE n \in Int
<1>1. PICK a, b, c, d : write_nbo32(n) = <<a, b, c, d>>
  BY SMT DEF write_nbo32
<1> QED
  BY <1>1

LEMMA FieldSpelled ==
  ASSUME NEW f \in Fields
  PROVE  /\ FieldText(f) \in Seq(Nat) /\ f.str \in Seq(Nat) /\ Len(f.str) \in Nat
         /\ FieldSize(f) \in Nat /\ Len(FieldText(f)) = FieldSize(f)
<1>1. f.str \in Seq(Nat)
  BY BytesCount DEF Fields
<1>2. Len(f.str) \in Nat
  BY <1>1
<1>3. PICK w : w = write_nbo32(Len(f.str))
  OBVIOUS
<1>4. w \in Seq(Nat) /\ Len(w) = 4 /\ write_nbo32(-1) \in Seq(Nat) /\ Len(write_nbo32(-1)) = 4
  <2>1. -1 \in Int /\ Len(f.str) \in Int
    BY <1>2
  <2> QED
    BY <1>2, <1>3, <2>1, NumbersWritten, NumberSize, Zenon
<1>5. w \o f.str \in Seq(Nat) /\ Len(w \o f.str) = 4 + Len(f.str)
  <2>1. PICK s : s = f.str
    OBVIOUS
  <2>2. w \o s \in Seq(Nat) /\ Len(w \o s) = Len(w) + Len(s)
    BY <1>1, <1>4, <2>1, ConcatProperties
  <2> QED
    BY <1>4, <2>1, <2>2
<1>6. FieldSize(f) \in Nat
  BY <1>2 DEF FieldSize
<1>7. CASE f.kind = "nil"
  <2>1. FieldText(f) = write_nbo32(-1) /\ FieldSize(f) = 4
    BY <1>7 DEF FieldText, FieldSize
  <2> QED
    BY <1>1, <1>2, <1>4, <1>6, <2>1
<1>8. CASE f.kind # "nil"
  <2>1. FieldText(f) = w \o f.str /\ FieldSize(f) = 4 + Len(f.str)
    BY <1>3, <1>8 DEF FieldText, FieldSize
  <2> QED
    BY <1>1, <1>2, <1>5, <1>6, <2>1
<1> QED
  BY <1>7, <1>8

LEMMA FieldTextHeld ==
  ASSUME NEW text, NEW a \in Nat \ {0}, NEW f \in Fields, Has(text, a, FieldText(f))
  PROVE  /\ Has(text, a, write_nbo32(FieldLength(f)))
         /\ f.kind # "nil" => Has(text, a + 4, f.str)
<1>1. CASE f.kind = "nil"
  BY <1>1 DEF FieldText, FieldLength
<1>2. CASE f.kind # "nil"
  <2>1. f.str \in Seq(Nat) /\ Len(f.str) \in Nat
    BY FieldSpelled
  <2>2. PICK w : w = write_nbo32(Len(f.str))
    OBVIOUS
  <2>3. w \in Seq(Nat) /\ Len(w) = 4
    <3>1. Len(f.str) \in Int
      BY <2>1
    <3> QED
      BY <2>1, <2>2, <3>1, NumbersWritten, NumberSize, Zenon
  <2>4. Has(text, a, w \o f.str)
    BY <1>2, <2>2 DEF FieldText
  <2>5. Has(text, a, w) /\ Has(text, a + Len(w), f.str)
    BY <2>1, <2>3, <2>4, HasBoth
  <2> QED
    BY <1>2, <2>2, <2>3, <2>5 DEF FieldLength
<1> QED
  BY <1>1, <1>2

(* The plan: a count, and the fields one after the other. *)
BinaryPlan(v) ==
  [n |-> Len(v), prefix |-> write_nbo16(Len(v)),
   lead |-> [k \in 1..Len(v) |-> FieldText(v[k])],
   body |-> [k \in 1..Len(v) |-> <<>>], trail |-> [k \in 1..Len(v) |-> <<>>],
   special |-> {}, escape |-> <<>>]
BinaryPlanned(P, v) ==
  /\ PlanOK(P) /\ P.n = Len(v) /\ P.prefix = write_nbo16(Len(v))
  /\ \A k \in 1..Len(v) : Lead(P, k) = FieldText(v[k]) /\ Body(P, k) = <<>> /\ Trail(P, k) = <<>>
  /\ v \in BinaryRows /\ v \in Seq(Fields) /\ IsRow(v) /\ v # <<>>
  /\ \A k \in 1..Len(v) : v[k] \in Fields /\ Len(v[k].str) < MaxFieldSize

(* The count has room for the number of fields. *)
Countable(v) == Len(v) < 32768

LEMMA BinaryPlanning ==
  ASSUME NEW v \in BinaryRows, v # <<>>
  PROVE  BinaryPlanned(BinaryPlan(v), v)
<1>1. v \in Seq(Fields) /\ IsRow(v) /\ \A k \in DOMAIN v : Len(v[k].str) < MaxFieldSize
  BY BinaryAssumption, BinaryReadable, Zenon
<1>2. DOMAIN v = 1..Len(v) /\ Len(v) \in Nat /\ \A k \in 1..Len(v) : v[k] \in Fields
  BY <1>1
<1>3. PICK P : P = BinaryPlan(v)
  OBVIOUS
<1>4. /\ P.n = Len(v) /\ P.prefix = write_nbo16(Len(v))
      /\ \A k \in 1..Len(v) : Lead(P, k) = FieldText(v[k]) /\ Body(P, k) = <<>> /\ Trail(P, k) = <<>>
  <2>1. /\ P.n = Len(v) /\ P.prefix = write_nbo16(Len(v))
        /\ P.lead = [k \in 1..Len(v) |-> FieldText(v[k])]
        /\ P.body = [k \in 1..Len(v) |-> <<>>] /\ P.trail = [k \in 1..Len(v) |-> <<>>]
    BY <1>3 DEF BinaryPlan
  <2> QED
    BY <2>1 DEF Lead, Body, Trail
<1>5. PlanOK(P)
  <2>1. write_nbo16(Len(v)) \in Seq(Nat)
    BY <1>2, NumbersWritten, Zenon
  <2>2. \A k \in 1..Len(v) : FieldText(v[k]) \in Seq(Nat)
    BY <1>2, FieldSpelled, Zenon
  <2>3. <<>> \in Seq(Nat)
    OBVIOUS
  <2> QED
    BY <1>2, <1>4, <2>1, <2>2, <2>3, Zenon DEF PlanOK
<1>6. \A k \in 1..Len(v) : v[k] \in Fields /\ Len(v[k].str) < MaxFieldSize
  BY <1>1, <1>2, Zenon
<1> QED
  BY <1>1, <1>3, <1>4, <1>5, <1>6, Zenon DEF BinaryPlanned

(* How far the encoder has written the row. *)
BinaryWriting(P) ==
  /\ input = <<>> => i = 1
  /\ input # <<>> => i <= P.n + 1 /\ Laid(P, input, i - 1, Len(input) + 1)

LEMMA CountWritten ==
  ASSUME NEW CONSTANT P, BinaryPlanned(P, value), Base, BinaryWriting(P), mode = "encode", input = <<>>,
         input' = write_nbo16(Len(value)), UNCHANGED <<encVars, mode>>
  PROVE  BinaryWriting(P)' /\ input' # <<>>
<1>1. input' = P.prefix /\ PlanOK(P)
  BY DEF BinaryPlanned
<1>2. i' = 1
  BY DEF BinaryWriting, encVars
<1>3. input' # <<>>
  BY DEF write_nbo16
<1>4. Laid(P, input', 0, Len(input') + 1)
  BY <1>1, LaidStarts
<1>5. 1 <= P.n + 1 /\ i' - 1 = 0
  BY <1>1, <1>2 DEF PlanOK
<1> QED
  BY <1>2, <1>3, <1>4, <1>5 DEF BinaryWriting

LEMMA BinaryFieldWritten ==
  ASSUME NEW CONSTANT P, BinaryPlanned(P, value), Base, BinaryWriting(P), BinaryField
  PROVE  BinaryWriting(P)'
<1>1. input # <<>> /\ i <= Len(value) /\ i' = i + 1 /\ input' = input \o FieldText(value[i])
  BY DEF BinaryField, FieldText
<1>2. PlanOK(P) /\ P.n = Len(value) /\ Len(value) \in Nat /\ i \in Nat \ {0} /\ IsText(input)
  BY DEF BinaryPlanned, Base, IsText
<1>3. i \in 1..P.n /\ i \in 1..Len(value) /\ i' - 1 = i /\ i' <= P.n + 1
  BY <1>1, <1>2
<1>4. Lead(P, i) = FieldText(value[i]) /\ Body(P, i) = <<>> /\ Trail(P, i) = <<>>
  BY <1>3 DEF BinaryPlanned
<1>5. Joined(input', input, Lead(P, i))
  BY <1>1, <1>4 DEF Joined
<1>6. Laid(P, input, i - 1, Len(input) + 1)
  BY <1>1 DEF BinaryWriting
<1>7. IsText(input') /\ Opened(P, input', i, 0, Len(input') + 1)
  BY <1>2, <1>3, <1>5, <1>6, OpenStarts
<1>8. Joined(input', input', Trail(P, i)) /\ Len(Body(P, i)) = 0
  <2>1. input' \o <<>> = input'
    BY <1>7, ConcatEmptySeq DEF IsText
  <2> QED
    BY <1>4, <2>1 DEF Joined
<1>9. Laid(P, input', i, Len(input') + 1)
  BY <1>2, <1>3, <1>7, <1>8, OpenEnds
<1>10. input' # <<>>
  <2>1. FieldText(value[i]) \in Seq(Nat) /\ input \in Seq(Nat)
    BY <1>2, <1>3, <1>4 DEF PlanOK, IsText
  <2>2. Len(input') = Len(input) + Len(FieldText(value[i])) /\ Len(input) \in Nat /\ Len(FieldText(value[i])) \in Nat
        /\ Len(input) # 0
    BY <1>1, <2>1, ConcatProperties, EmptySeq
  <2>3. Len(input') # 0
    BY <2>2
  <2> QED
    BY <2>3
<1> QED
  BY <1>1, <1>3, <1>9, <1>10 DEF BinaryWriting

-----------------------------------------------------------------------------
(* pg_bin_dec_copy_row *)

(* Where the decoder is, in the text and in the row. *)
BinarySpot(P, v, at, pos) ==
  /\ Layout(P, input, at, pos, P.n, Len(input) + 1)
  /\ state \in {"header", "count", "field"}
  /\ state # "field" => cur = 1 /\ row = <<>>
  /\ state = "field" => start = 1 /\ Begins(row, v, Fields) /\ cur = at[Len(row) + 1]

(* Field k of the text. *)
BinaryFound(v, k, a, b) ==
  /\ a \in Nat \ {0} /\ b \in Nat \ {0} /\ b <= Len(input) + 1 /\ b = a + FieldSize(v[k])
  /\ read_nbo32(a) = FieldLength(v[k]) /\ Len(v[k].str) \in Nat
  /\ v[k].kind # "nil" => SubSeq(input, a + 4, a + 3 + Len(v[k].str)) = v[k].str

LEMMA StringFound ==
  ASSUME NEW text, IsText(text), NEW a \in Nat \ {0}, NEW s \in Seq(Byte), Has(text, a, s),
         a + Len(s) <= Len(text) + 1
  PROVE  SubSeq(text, a, a + Len(s) - 1) = s
<1>1. PICK n : n = Len(s)
  OBVIOUS
<1>2. n \in Nat /\ text \in Seq(Nat) /\ Len(text) \in Nat
  BY <1>1 DEF IsText
<1>3. \A x \in a..(a + n - 1) : text[x] \in Nat
  <2> TAKE x \in a..(a + n - 1)
  <2>1. x \in 1..Len(text)
    BY <1>1, <1>2
  <2> QED
    BY <1>2, <2>1, ElementOfSeq
<1>4. PICK t : t = SubSeq(text, a, a + n - 1)
  OBVIOUS
<1>5. a \in Int /\ a + n - 1 \in Int /\ (a + n - 1) - a + 1 = n /\ (a <= a + n - 1 <=> n # 0)
  BY <1>2
<1>6. /\ t \in Seq(Nat) /\ Len(t) = (IF a <= a + n - 1 THEN (a + n - 1) - a + 1 ELSE 0)
      /\ \A x \in 1..((a + n - 1) - a + 1) : t[x] = text[a + x - 1]
  <2>1. PICK z : z = a + n - 1
    OBVIOUS
  <2>2. \A x \in a..z : text[x] \in Nat
    BY <1>3, <2>1
  <2>3. a \in Int /\ z \in Int
    BY <1>5, <2>1
  <2>4. /\ SubSeq(text, a, z) \in Seq(Nat)
        /\ Len(SubSeq(text, a, z)) = IF a <= z THEN z - a + 1 ELSE 0
        /\ \A x \in 1..(z - a + 1) : SubSeq(text, a, z)[x] = text[a + x - 1]
    BY <2>2, <2>3, SubSeqProperties
  <2> QED
    BY <1>4, <2>1, <2>4, Zenon
<1>7. Len(t) = n
  BY <1>2, <1>5, <1>6
<1>8. \A x \in 1..n : t[x] = s[x]
  BY <1>1, <1>5, <1>6 DEF Has
<1>9. s \in Seq(Nat)
  BY BytesCount
<1>10. t = s
  BY <1>1, <1>6, <1>7, <1>8, <1>9, SeqEqual
<1> QED
  BY <1>1, <1>4, <1>10, Zenon

LEMMA BinaryFinds ==
  ASSUME NEW P, NEW v, BinaryPlanned(P, v), input \in Seq(Nat), NEW at, NEW pos,
         Layout(P, input, at, pos, P.n, Len(input) + 1), NEW k \in 1..Len(v)
  PROVE  BinaryFound(v, k, at[k], at[k + 1])
<1>1. PICK a, b, f : a = at[k] /\ b = at[k + 1] /\ f = v[k]
  OBVIOUS
<1>2. a \in Nat \ {0} /\ b \in Nat \ {0} /\ b <= Len(input) + 1 /\ TokenAt(P, input, k, a, b, pos[k])
  <2>1. PlanOK(P) /\ k \in 1..P.n
    BY DEF BinaryPlanned
  <2> QED
    BY <1>1, <2>1, TokenRead
<1>3. f \in Fields /\ Lead(P, k) = FieldText(f) /\ Body(P, k) = <<>> /\ Trail(P, k) = <<>>
      /\ Len(f.str) < MaxFieldSize
  BY <1>1 DEF BinaryPlanned
<1>4. /\ FieldText(f) \in Seq(Nat) /\ f.str \in Seq(Nat) /\ Len(f.str) \in Nat
      /\ FieldSize(f) \in Nat /\ Len(FieldText(f)) = FieldSize(f)
  BY <1>3, FieldSpelled
<1>5. Has(input, a, FieldText(f)) /\ b = a + FieldSize(f)
  <2>1. Len(<<>>) = 0
    OBVIOUS
  <2>2. PICK c : c = pos[k][0]
    OBVIOUS
  <2>3. Has(input, a, FieldText(f)) /\ c = a + FieldSize(f) /\ b = c + 0
    BY <1>2, <1>3, <1>4, <2>1, <2>2 DEF TokenAt
  <2> QED
    BY <1>2, <1>4, <2>3
<1>6. Has(input, a, write_nbo32(FieldLength(f))) /\ (f.kind # "nil" => Has(input, a + 4, f.str))
  BY <1>2, <1>3, <1>5, FieldTextHeld
<1>7. read_nbo32(a) = FieldLength(f)
  <2>1. Number32(FieldLength(f))
    BY <1>3, <1>4, SMT DEF Number32, FieldLength, MaxFieldSize
  <2>2. FieldSize(f) >= 4
    BY <1>4 DEF FieldSize
  <2>3. a + 3 <= Len(input)
    <3>1. PICK n, m : n = Len(input) /\ m = FieldSize(f)
      OBVIOUS
    <3>2. n \in Nat /\ m \in Nat /\ m >= 4 /\ b = a + m /\ b <= n + 1
      BY <1>2, <1>4, <1>5, <2>2, <3>1
    <3>3. a + 3 <= n
      BY <1>2, <3>2
    <3> QED
      BY <3>1, <3>3
  <2> QED
    BY <1>2, <1>6, <2>1, <2>3, LengthRead
<1>8. ASSUME f.kind # "nil" PROVE SubSeq(input, a + 4, a + 3 + Len(f.str)) = f.str
  <2>1. PICK n, m, s : n = Len(input) /\ m = Len(f.str) /\ s = f.str
    OBVIOUS
  <2>2. n \in Nat /\ m \in Nat /\ b = a + (4 + m) /\ b <= n + 1
    BY <1>2, <1>4, <1>5, <1>8, <2>1 DEF FieldSize
  <2>3. a + 4 \in Nat \ {0} /\ (a + 4) + m <= n + 1 /\ (a + 4) + m - 1 = a + 3 + m
    BY <1>2, <2>2
  <2>4. s \in Seq(Byte) /\ Has(input, a + 4, s) /\ Len(s) = m
    BY <1>3, <1>6, <1>8, <2>1 DEF Fields
  <2>5. SubSeq(input, a + 4, (a + 4) + Len(s) - 1) = s
    BY <2>1, <2>3, <2>4, StringFound DEF IsText
  <2> QED
    BY <2>1, <2>3, <2>4, <2>5
<1> QED
  BY <1>1, <1>2, <1>4, <1>5, <1>7, <1>8 DEF BinaryFound

(* A row is never taken for the header of a file: the bytes of the         *)
(* signature where the length of the first field is stand for more than a  *)
(* field can have.                                                         *)
LEMMA FirstBytes ==
  ASSUME NEW s, NEW n \in Nat
  PROVE  \A x \in 1..n : SubSeq(s, 1, n)[x] = s[x]
<1> DEFINE S == {s[x] : x \in 1..n}
<1>1. \A x \in 1..n : s[x] \in S
  OBVIOUS
<1> HIDE DEF S
<1>2. 1 \in Int /\ n \in Int
  OBVIOUS
<1>3. \A x \in 1..(n - 1 + 1) : SubSeq(s, 1, n)[x] = s[1 + x - 1]
  BY <1>1, <1>2, SubSeqProperties
<1>4. n - 1 + 1 = n /\ \A x \in 1..n : 1 + x - 1 = x
  OBVIOUS
<1> QED
  BY <1>3, <1>4

LEMMA NoSignature ==
  ASSUME NEW P, NEW v, BinaryPlanned(P, v), input \in Seq(Nat), NEW at, NEW pos,
         Layout(P, input, at, pos, P.n, Len(input) + 1)
  PROVE  /\ at[1] = 3 /\ 3 <= Len(input) /\ Has(input, 1, write_nbo16(Len(v)))
         /\ SubSeq(input, 1, 11) # BinarySignature
<1>1. at[1] = 1 + Len(P.prefix) /\ Has(input, 1, P.prefix)
  BY DEF Layout
<1>2. P.prefix = write_nbo16(Len(v)) /\ Len(P.prefix) = 2
  BY DEF write_nbo16, BinaryPlanned
<1>3. at[1] = 3
  BY <1>1, <1>2
<1>4. 1 \in 1..Len(v) /\ 1 + 1 = 2
  <2>1. v \in Seq(Fields) /\ v # <<>>
    BY DEF BinaryPlanned
  <2> QED
    BY <2>1, EmptySeq
<1>5. BinaryFound(v, 1, 3, at[2])
  BY <1>3, <1>4, BinaryFinds
<1>6. PICK n, m : n = Len(input) /\ m = FieldSize(v[1])
  OBVIOUS
<1>7. n \in Nat /\ m \in Nat /\ m >= 4 /\ at[2] = 3 + m /\ at[2] <= n + 1
  BY <1>5, <1>6 DEF BinaryFound, FieldSize
<1>8. 6 <= n
  BY <1>7
<1>9. ASSUME SubSeq(input, 1, 11) = BinarySignature PROVE FALSE
  <2>1. \A x \in 1..11 : SubSeq(input, 1, 11)[x] = input[x]
    BY FirstBytes
  <2>2. BinarySignature[3] = 67 /\ BinarySignature[4] = 79 /\ BinarySignature[5] = 80 /\ BinarySignature[6] = 89
    BY DEF BinarySignature
  <2>3. input[3] = 67 /\ input[4] = 79 /\ input[5] = 80 /\ input[6] = 89
    <3>1. 3 \in 1..11 /\ 4 \in 1..11 /\ 5 \in 1..11 /\ 6 \in 1..11
      OBVIOUS
    <3> QED
      BY <1>9, <2>1, <2>2, <3>1, ZenonT(60)
  <2>4. At(3) = 67 /\ At(4) = 79 /\ At(5) = 80 /\ At(6) = 89
    BY <1>6, <1>7, <1>8, <2>3, SMTT(60) DEF At
  <2>5. read_nbo32(3) = 67 * 16777216 + 79 * 65536 + 80 * 256 + 89
    BY <2>4, SMT DEF read_nbo32
  <2>6. FieldLength(v[1]) < MaxFieldSize
    <3>1. Len(v[1].str) < MaxFieldSize
      BY <1>4 DEF BinaryPlanned
    <3> QED
      BY <3>1, SMT DEF FieldLength, MaxFieldSize
  <2>7. read_nbo32(3) = FieldLength(v[1])
    BY <1>5 DEF BinaryFound
  <2> QED
    BY <2>5, <2>6, <2>7, SMT DEF MaxFieldSize
<1> QED
  BY <1>1, <1>2, <1>3, <1>6, <1>7, <1>8, <1>9

(* One step of the decoder over the text of a row. *)
LEMMA BinaryReads ==
  ASSUME NEW CONSTANT P, NEW CONSTANT v, BinaryPlanned(P, v), Countable(v),
         NEW CONSTANT at, NEW CONSTANT pos, NEW CONSTANT k, k = Len(row) + 1,
         Base, BinarySpot(P, v, at, pos), pg_bin_dec_copy_row
  PROVE  \/ mode' = "decode" /\ BinarySpot(P, v, at, pos)'
         \/ mode' = "done" /\ row' = v
<1>1. input \in Seq(Nat) /\ Layout(P, input, at, pos, P.n, Len(input) + 1)
  BY DEF Base, BinarySpot
<1>2. /\ at[1] = 3 /\ 3 <= Len(input) /\ Has(input, 1, write_nbo16(Len(v)))
      /\ SubSeq(input, 1, 11) # BinarySignature
  BY <1>1, NoSignature, Zenon
<1>3. Len(v) \in Nat /\ v \in Seq(Fields) /\ P.n = Len(v) /\ Len(input) \in Nat
  BY <1>1 DEF BinaryPlanned
<1>4. read_nbo16(1) = Len(v)
  <2>1. Len(v) <= 32767
    BY <1>3, SMT DEF Countable
  <2> QED
    BY <1>1, <1>2, <1>3, <2>1, CountRead, SMT
<1>5. mode = "decode"
  BY DEF pg_bin_dec_copy_row, BinaryHeader, BinaryFieldCount, BinaryFieldData, BinaryEnd, BinaryAt
<1>6. CASE BinaryHeader
  <2>1. state = "header" /\ Move(0, "count") /\ UNCHANGED <<start, row>>
    BY <1>2, <1>6 DEF BinaryHeader, BinaryAt
  <2>2. cur = 1 /\ row = <<>> /\ cur + 0 = cur
    BY <2>1 DEF BinarySpot
  <2> QED
    BY <1>1, <1>5, <2>1, <2>2 DEF BinarySpot, Move
<1>7. CASE BinaryFieldCount
  <2>1. state = "count" /\ cur = 1 /\ row = <<>>
    BY <1>7 DEF BinaryFieldCount, BinaryAt, BinarySpot
  <2>2. ~(Left(cur) < 2) /\ ~(read_nbo16(cur) < -1) /\ read_nbo16(cur) # -1
    BY <1>2, <1>3, <1>4, <2>1 DEF Left
  <2>3. start' = cur /\ Move(2, "field") /\ row' = row
    BY <1>7, <2>2 DEF BinaryFieldCount
  <2>4. start' = 1 /\ cur' = 3 /\ state' = "field" /\ input' = input /\ mode' = "decode" /\ row' = <<>>
    BY <1>5, <2>1, <2>3 DEF Move
  <2>5. Begins(<<>>, v, Fields) /\ Len(<<>>) = 0
    BY <1>3, BeginsEmpty
  <2> QED
    BY <1>1, <1>2, <2>4, <2>5 DEF BinarySpot
<1>8. CASE state = "field"
  <2>1. start = 1 /\ Begins(row, v, Fields) /\ cur = at[k]
    BY <1>8 DEF BinarySpot
  <2>2. nfields = Len(v)
    BY <1>4, <2>1 DEF nfields
  <2>3. Len(row) \in Nat /\ Len(row) <= Len(v)
    BY <2>1 DEF Begins
  <2>4. CASE BinaryFieldData
    <3>1. Len(row) < Len(v)
      BY <2>2, <2>4 DEF BinaryFieldData
    <3>2. k \in 1..Len(v)
      BY <1>3, <2>3, <3>1
    <3>3. PICK f, b : f = v[k] /\ b = at[k + 1]
      OBVIOUS
    <3>4. BinaryFound(v, k, cur, b)
      BY <1>1, <2>1, <3>2, <3>3, BinaryFinds, Zenon
    <3>5. PICK c, n, m : c = cur /\ n = Len(f.str) /\ m = FieldLength(f)
      OBVIOUS
    <3>6. /\ c \in Nat \ {0} /\ b \in Nat \ {0} /\ b <= Len(input) + 1 /\ n \in Nat
          /\ b = c + FieldSize(f) /\ read_nbo32(cur) = m
          /\ f.kind # "nil" => SubSeq(input, c + 4, c + 3 + n) = f.str
      BY <3>3, <3>4, <3>5 DEF BinaryFound
    <3>7. /\ f.kind = "nil" => m = -1 /\ b = c + 4
          /\ f.kind # "nil" => m = n /\ b = c + (4 + n)
      BY <3>5, <3>6 DEF FieldSize, FieldLength
    <3>8. ~(Left(cur) < 4) /\ ~(m < -1) /\ ~(Left(cur) - 4 < m)
      <4>1. PICK e : e = Len(input)
        OBVIOUS
      <4>2. e \in Nat /\ b <= e + 1 /\ Left(cur) = e + 1 - c
        BY <1>3, <3>5, <3>6, <4>1 DEF Left
      <4>3. ~(e + 1 - c < 4) /\ ~(m < -1) /\ ~((e + 1 - c) - 4 < m)
        BY <3>6, <3>7, <4>2
      <4> QED
        BY <4>2, <4>3
    <3>9. /\ row' = Append(row, IF m = -1 THEN Nil ELSE Str(SubSeq(input, cur + 4, cur + 3 + m)))
          /\ Move(IF m = -1 THEN 4 ELSE 4 + m, "field") /\ start' = start
      BY <2>4, <3>6, <3>8 DEF BinaryFieldData
    <3>10. f = Nil \/ f = Str(f.str)
      BY <1>3, <3>2, <3>3 DEF BinaryPlanned, IsRow
    <3>11. /\ f = IF m = -1 THEN Nil ELSE Str(SubSeq(input, cur + 4, cur + 3 + m))
           /\ cur + (IF m = -1 THEN 4 ELSE 4 + m) = b
      <4>1. CASE f.kind = "nil"
        <5>1. f = Nil
          BY <3>10, <4>1 DEF Str
        <5> QED
          BY <3>5, <3>6, <3>7, <4>1, <5>1
      <4>2. CASE f.kind # "nil"
        <5>1. f = Str(f.str)
          BY <3>10, <4>2 DEF Nil
        <5>2. m = n /\ m # -1 /\ SubSeq(input, c + 4, c + 3 + n) = f.str
          BY <3>6, <3>7, <4>2
        <5> QED
          BY <3>5, <3>6, <3>7, <4>2, <5>1, <5>2
      <4> QED
        BY <4>1, <4>2
    <3>12. row' = Append(row, f) /\ cur' = b /\ state' = "field" /\ input' = input /\ mode' = "decode" /\ start' = 1
      BY <1>5, <2>1, <3>9, <3>11 DEF Move
    <3>13. Begins(row', v, Fields) /\ Len(row') = Len(row) + 1
      <4>1. Append(row, v[k]) \in Seq(Fields) /\ Len(Append(row, v[k])) = Len(row) + 1 /\ Begins(Append(row, v[k]), v, Fields)
        BY <1>3, <2>1, <2>3, <3>1, BeginsGrows DEF Begins
      <4> QED
        BY <3>3, <3>12, <4>1
    <3>14. Len(row') + 1 = k + 1
      BY <3>13
    <3> QED
      BY <1>1, <3>3, <3>12, <3>13, <3>14 DEF BinarySpot
  <2>5. CASE BinaryEnd
    <3>1. ~(Len(row) < Len(v))
      BY <1>3, <1>8, <2>2, <2>3, <2>5 DEF BinaryEnd, BinaryAt
    <3>2. Len(row) = Len(v) /\ k = Len(v) + 1
      BY <1>3, <2>3, <3>1
    <3>3. row = v
      BY <1>3, <2>1, <3>2, BeginsAll
    <3>4. cur = Len(input) + 1
      BY <1>1, <1>3, <2>1, <3>2 DEF Layout
    <3>5. ~(Left(cur) > 0)
      BY <1>3, <3>4 DEF Left
    <3> QED
      BY <2>5, <3>3, <3>5 DEF BinaryEnd, decVars
  <2> QED
    BY <1>6, <1>7, <1>8, <2>4, <2>5 DEF pg_bin_dec_copy_row
<1> QED
  BY <1>6, <1>7, <1>8 DEF pg_bin_dec_copy_row, BinaryFieldData, BinaryEnd, BinaryAt, BinarySpot

(* The way of a row through the binary encoder and decoder. *)
BinaryTrip ==
  codec = "binary" /\ value # <<>> =>
    /\ value \in BinaryRows /\ mode \in {"encode", "decode", "done", "error"}
    /\ mode = "encode" => row = <<>> /\ state = "header" /\ BinaryWriting(BinaryPlan(value))
    /\ mode = "encode" /\ input # <<>> => Countable(value)
    /\ mode = "decode" => \E at, pos : BinarySpot(BinaryPlan(value), value, at, pos)
    /\ mode \in {"decode", "done"} => Countable(value)
    /\ mode = "error" => ~Countable(value)
    /\ mode = "done" => row = value

LEMMA BinaryTripStep ==
  ASSUME Base, BinaryTrip, BinaryNext
  PROVE  BinaryTrip'
<1> SUFFICES ASSUME value' # <<>> PROVE BinaryTrip'
  BY DEF BinaryTrip
<1>0. codec = "binary" /\ value' = value
  <2>1. CASE pg_bin_enc_copy_row
    <3>1. BinaryCount => codec = "binary" /\ value' = value
      BY SMT DEF BinaryCount, Raise, encVars
    <3>2. BinaryField => codec = "binary" /\ value' = value
      BY DEF BinaryField
    <3>3. EncodeEnd(<<>>) => value' = value
      BY DEF EncodeEnd, encVars
    <3> QED
      BY <2>1, <3>1, <3>2, <3>3 DEF pg_bin_enc_copy_row
  <2>2. CASE pg_bin_dec_copy_row
    <3>1. codec = "binary" /\ \/ BinaryHeader \/ BinaryFieldCount \/ BinaryFieldData \/ BinaryEnd
      BY <2>2 DEF pg_bin_dec_copy_row, BinaryHeader, BinaryFieldCount, BinaryFieldData, BinaryEnd, BinaryAt
    <3>2. Raise \/ (\E n, s : Move(n, s)) \/ UNCHANGED <<codec, encVars, input, start, decVars>>
      BY <3>1 DEF BinaryHeader, BinaryFieldCount, BinaryFieldData, BinaryEnd
    <3> QED
      BY <3>1, <3>2 DEF Raise, Move, encVars
  <2> QED
    BY <2>1, <2>2 DEF BinaryNext
<1>1. PICK v : v = value
  OBVIOUS
<1>2. PICK P : P = BinaryPlan(v)
  OBVIOUS
<1>3. /\ v \in BinaryRows /\ v # <<>> /\ mode \in {"encode", "decode", "done", "error"}
      /\ mode = "encode" => row = <<>> /\ state = "header" /\ BinaryWriting(P)
      /\ mode = "encode" /\ input # <<>> => Countable(v)
      /\ mode = "decode" => \E at, pos : BinarySpot(P, v, at, pos)
      /\ mode \in {"decode", "done"} => Countable(v)
  BY <1>0, <1>1, <1>2 DEF BinaryTrip
<1>4. BinaryPlanned(P, v) /\ BinaryPlanned(P, value)
  BY <1>1, <1>2, <1>3, BinaryPlanning
<1>5. value' = v /\ BinaryPlan(value') = P
  BY <1>0, <1>1, <1>2
<1>6. CASE BinaryCount
  <2>1. mode = "encode" /\ input = <<>>
    BY <1>6 DEF BinaryCount
  <2>2. CASE Countable(v)
    <3>1. input' = write_nbo16(Len(value)) /\ UNCHANGED <<codec, encVars, start, decVars, mode>>
      BY <1>1, <1>6, <2>2, SMT DEF BinaryCount, Countable, Base
    <3>2. BinaryWriting(P)' /\ mode' = "encode" /\ row' = <<>> /\ state' = "header"
      BY <1>3, <1>4, <2>1, <3>1, CountWritten DEF decVars
    <3> QED
      BY <1>3, <1>5, <2>2, <3>2 DEF BinaryTrip
  <2>3. CASE ~Countable(v)
    <3>1. Raise
      BY <1>1, <1>6, <2>3, SMT DEF BinaryCount, Countable, Base
    <3>2. mode' = "error"
      BY <3>1 DEF Raise
    <3> QED
      BY <1>3, <1>5, <2>3, <3>2 DEF BinaryTrip
  <2> QED
    BY <2>2, <2>3
<1>7. CASE BinaryField
  <2>1. /\ mode = "encode" /\ input # <<>> /\ mode' = "encode" /\ row' = row /\ state' = state
    BY <1>7 DEF BinaryField, decVars
  <2>2. BinaryWriting(P)'
    BY <1>3, <1>4, <1>7, <2>1, BinaryFieldWritten
  <2>3. Countable(v) /\ row' = <<>> /\ state' = "header"
    BY <1>3, <2>1
  <2> QED
    BY <1>3, <1>5, <2>1, <2>2, <2>3 DEF BinaryTrip
<1>8. CASE codec = "binary" /\ input # <<>> /\ EncodeEnd(<<>>)
  <2>1. input \o <<>> = input
    BY ConcatEmptySeq DEF Base
  <2>2. /\ mode = "encode" /\ i > Len(value) /\ mode' = "decode" /\ input' = input
        /\ cur' = cur /\ row' = row /\ state' = state
    BY <1>8, <2>1 DEF EncodeEnd, decVars
  <2>3. /\ cur' = 1 /\ row' = <<>> /\ state' = "header" /\ Countable(v)
        /\ i <= P.n + 1 /\ Laid(P, input, i - 1, Len(input) + 1)
    BY <1>3, <1>8, <2>2 DEF Base, BinaryWriting
  <2>4. i - 1 = P.n
    <3>1. P.n = Len(value) /\ Len(value) \in Nat /\ i \in Nat
      BY <1>4 DEF BinaryPlanned, Base
    <3> QED
      BY <2>2, <2>3, <3>1
  <2>5. PICK at, pos : Layout(P, input, at, pos, P.n, Len(input) + 1)
    BY <2>3, <2>4 DEF Laid
  <2>6. BinarySpot(P, v, at, pos)'
    BY <2>2, <2>3, <2>5 DEF BinarySpot
  <2> QED
    BY <1>3, <1>5, <2>2, <2>3, <2>6 DEF BinaryTrip
<1>9. CASE pg_bin_dec_copy_row
  <2>1. mode = "decode"
    BY <1>9 DEF pg_bin_dec_copy_row, BinaryHeader, BinaryFieldCount, BinaryFieldData, BinaryEnd, BinaryAt
  <2>2. Countable(v)
    BY <1>3, <2>1
  <2>3. PICK at, pos : BinarySpot(P, v, at, pos)
    BY <1>3, <2>1
  <2>4. PICK k : k = Len(row) + 1
    OBVIOUS
  <2>5. \/ mode' = "decode" /\ BinarySpot(P, v, at, pos)'
        \/ mode' = "done" /\ row' = v
    BY <1>4, <1>9, <2>2, <2>3, <2>4, BinaryReads
  <2>6. CASE mode' = "decode" /\ BinarySpot(P, v, at, pos)'
    BY <1>3, <1>5, <2>2, <2>6 DEF BinaryTrip
  <2>7. CASE mode' = "done" /\ row' = v
    BY <1>3, <1>5, <2>2, <2>7 DEF BinaryTrip
  <2> QED
    BY <2>5, <2>6, <2>7
<1> QED
  BY <1>6, <1>7, <1>8, <1>9 DEF BinaryNext, pg_bin_enc_copy_row

-----------------------------------------------------------------------------
(* The coders of rows together *)

TripsInv == CopyTrip /\ RecordTrip /\ IdentifierTrip /\ BinaryTrip

LEMMA WritingStarts ==
  ASSUME NEW P, PlanOK(P), mode = "encode", i = 1, j = 0, input = P.prefix
  PROVE  Writing(P)
<1>1. Laid(P, input, 0, Len(input) + 1)
  BY LaidStarts
<1>2. 1 <= P.n + 1 /\ i - 1 = 0
  BY DEF PlanOK
<1> QED
  BY <1>1, <1>2 DEF Writing

LEMMA TripsStart == Init => TripsInv
<1> SUFFICES ASSUME Init PROVE TripsInv
  OBVIOUS
<1> USE CodersDistinct
<1>1. CASE CopyInit
  <2>1. CoderInit("copy", CopyRows, CopyTexts, <<>>, "scan")
    BY <1>1 DEF CopyInit
  <2>2. RecordTrip /\ IdentifierTrip /\ BinaryTrip
    BY <2>1 DEF CoderInit, RecordTrip, IdentifierTrip, BinaryTrip
  <2>3. ASSUME value # <<>>, codec = "copy" PROVE CopyTrip
    <3>1. /\ value \in CopyRows /\ input = <<>> /\ mode = "encode" /\ i = 1 /\ j = 0 /\ row = <<>>
      BY <2>1, <2>3 DEF CoderInit
    <3>2. CopyPlanned(CopyPlan(value), value) /\ CopyPlan(value).prefix = <<>>
      BY <3>1, CopyPlanning
    <3>3. PlanOK(CopyPlan(value))
      BY <3>2 DEF CopyPlanned, RowPlanned
    <3>4. Writing(CopyPlan(value))
      BY <3>1, <3>2, <3>3, WritingStarts
    <3> QED
      BY <3>1, <3>4 DEF CopyTrip
  <2> QED
    BY <2>2, <2>3 DEF TripsInv, CopyTrip
<1>2. CASE RecordInit
  <2>1. CoderInit("record", RecordRows, RecordTexts, <<OPEN>>, "lead")
    BY <1>2 DEF RecordInit
  <2>2. CopyTrip /\ IdentifierTrip /\ BinaryTrip
    BY <2>1 DEF CoderInit, CopyTrip, IdentifierTrip, BinaryTrip
  <2>3. ASSUME value # <<>>, codec = "record" PROVE RecordTrip
    <3>1. /\ value \in RecordRows /\ input = <<OPEN>> /\ mode = "encode" /\ i = 1 /\ j = 0 /\ row = <<>>
          /\ state = "lead"
      BY <2>1, <2>3 DEF CoderInit
    <3>2. RecordPlanned(RecordPlan(value), value) /\ RecordPlan(value).prefix = <<OPEN>>
      BY <2>3, <3>1, RecordPlanning
    <3>3. PlanOK(RecordPlan(value))
      BY <3>2 DEF RecordPlanned, RowPlanned
    <3>4. Writing(RecordPlan(value))
      BY <3>1, <3>2, <3>3, WritingStarts
    <3> QED
      BY <3>1, <3>4 DEF RecordTrip
  <2> QED
    BY <2>2, <2>3 DEF TripsInv, RecordTrip
<1>3. CASE IdentifierInit
  <2>1. CoderInit("identifier", Identifiers, IdentifierTexts, <<>>, "out")
    BY <1>3 DEF IdentifierInit
  <2>2. CopyTrip /\ RecordTrip /\ BinaryTrip
    BY <2>1 DEF CoderInit, CopyTrip, RecordTrip, BinaryTrip
  <2>3. ASSUME value # <<>>, codec = "identifier" PROVE IdentifierTrip
    <3>1. /\ value \in Identifiers /\ input = <<>> /\ mode = "encode" /\ i = 1 /\ j = 0 /\ row = <<>>
          /\ state = "out"
      BY <2>1, <2>3 DEF CoderInit
    <3>2. IdentifierPlanned(IdentifierPlan(value), value) /\ IdentifierPlan(value).prefix = <<>>
      BY <2>3, <3>1, IdentifierPlanning
    <3>3. PlanOK(IdentifierPlan(value))
      BY <3>2 DEF IdentifierPlanned, RowPlanned
    <3>4. Writing(IdentifierPlan(value))
      BY <3>1, <3>2, <3>3, WritingStarts
    <3>5. NulNotYet(value, 1, 0)
      BY DEF NulNotYet
    <3> QED
      BY <3>1, <3>4, <3>5 DEF IdentifierTrip
  <2> QED
    BY <2>2, <2>3 DEF TripsInv, IdentifierTrip
<1>4. CASE BinaryInit
  <2>1. CoderInit("binary", BinaryRows, BinaryTexts, <<>>, "header")
    BY <1>4 DEF BinaryInit
  <2>2. CopyTrip /\ RecordTrip /\ IdentifierTrip
    BY <2>1 DEF CoderInit, CopyTrip, RecordTrip, IdentifierTrip
  <2>3. ASSUME value # <<>>, codec = "binary" PROVE BinaryTrip
    <3>1. /\ value \in BinaryRows /\ input = <<>> /\ mode = "encode" /\ i = 1 /\ row = <<>>
          /\ state = "header"
      BY <2>1, <2>3 DEF CoderInit
    <3>2. BinaryWriting(BinaryPlan(value))
      BY <3>1 DEF BinaryWriting
    <3> QED
      BY <3>1, <3>2 DEF BinaryTrip
  <2> QED
    BY <2>2, <2>3 DEF TripsInv, BinaryTrip
<1>5. CASE ArrayInit \/ BinArrayInit
  <2>1. codec \notin {"copy", "record", "identifier", "binary"}
    BY <1>5 DEF ArrayInit, BinArrayInit, CoderInit
  <2> QED
    BY <2>1 DEF TripsInv, CopyTrip, RecordTrip, IdentifierTrip, BinaryTrip
<1> QED
  BY <1>1, <1>2, <1>3, <1>4, <1>5 DEF Init

LEMMA TripsStep == CodersInv /\ TripsInv /\ [Next]_rowVars => TripsInv'
<1> SUFFICES ASSUME CodersInv, TripsInv, [Next]_rowVars PROVE TripsInv'
  OBVIOUS
<1>1. Base /\ CopyInv /\ RecordInv /\ BinaryInv /\ ArrayInv /\ BinArrayInv /\ IdentifierInv
  BY DEF CodersInv
<1>2. CopyTrip /\ RecordTrip /\ IdentifierTrip /\ BinaryTrip
  BY DEF TripsInv
<1>3. /\ codec' = "copy" => RecordTrip' /\ IdentifierTrip' /\ BinaryTrip'
      /\ codec' = "record" => CopyTrip' /\ IdentifierTrip' /\ BinaryTrip'
      /\ codec' = "identifier" => CopyTrip' /\ RecordTrip' /\ BinaryTrip'
      /\ codec' = "binary" => CopyTrip' /\ RecordTrip' /\ IdentifierTrip'
      /\ codec' \notin {"copy", "record", "identifier", "binary"} => TripsInv'
  BY DEF TripsInv, CopyTrip, RecordTrip, IdentifierTrip, BinaryTrip
<1>4. CASE CopyNext
  BY <1>1, <1>2, <1>3, <1>4, CopyStep, CopyTripStep DEF TripsInv
<1>5. CASE BinaryNext
  BY <1>1, <1>2, <1>3, <1>5, BinaryStep, BinaryTripStep DEF TripsInv
<1>6. CASE RecordNext
  BY <1>1, <1>2, <1>3, <1>6, RecordStep, RecordTripStep DEF TripsInv
<1>7. CASE ArrayNext
  BY <1>1, <1>3, <1>7, ArrayStep, CodersDistinct DEF IsArray
<1>8. CASE BinArrayNext
  BY <1>1, <1>3, <1>8, BinArrayStep, CodersDistinct DEF IsBinArray
<1>9. CASE IdentifierNext
  BY <1>1, <1>2, <1>3, <1>9, IdentifierStep, IdentifierTripStep DEF TripsInv
<1>10. CASE UNCHANGED rowVars
  <2>1. /\ codec' = codec /\ value' = value /\ i' = i /\ j' = j /\ ptr1' = ptr1 /\ ptr2' = ptr2
        /\ input' = input /\ start' = start /\ mode' = mode
        /\ cur' = cur /\ word' = word /\ state' = state /\ stack' = stack /\ row' = row
    BY <1>10 DEF rowVars, encVars, decVars
  <2>2. ASSUME NEW CONSTANT P PROVE /\ Writing(P) => Writing(P)'
                                    /\ BinaryWriting(P) => BinaryWriting(P)'
    BY <2>1 DEF Writing, BinaryWriting
  <2>3. ASSUME NEW CONSTANT P, NEW CONSTANT v, NEW CONSTANT at, NEW CONSTANT pos, NEW CONSTANT e
        PROVE  /\ CopySpot(P, v, at, pos, e) => CopySpot(P, v, at, pos, e)'
               /\ RecordSpot(P, v, at, pos, e) => RecordSpot(P, v, at, pos, e)'
               /\ IdentifierSpot(P, v, at, pos, e) => IdentifierSpot(P, v, at, pos, e)'
               /\ BinarySpot(P, v, at, pos) => BinarySpot(P, v, at, pos)'
    BY <2>1 DEF CopySpot, CopyAtField, RecordSpot, RecordFieldAt, IdentifierSpot, IdentifierName, BinarySpot
  <2>4. PICK v, P, R, D, Q : /\ v = value /\ P = CopyPlan(v) /\ R = RecordPlan(v)
                             /\ D = IdentifierPlan(v) /\ Q = BinaryPlan(v)
    OBVIOUS
  <2>5. CopyTrip'
    BY <1>2, <2>1, <2>2, <2>3, <2>4 DEF CopyTrip
  <2>6. RecordTrip'
    BY <1>2, <2>1, <2>2, <2>3, <2>4 DEF RecordTrip
  <2>7. IdentifierTrip'
    BY <1>2, <2>1, <2>2, <2>3, <2>4 DEF IdentifierTrip
  <2>8. BinaryTrip'
    BY <1>2, <2>1, <2>2, <2>3, <2>4 DEF BinaryTrip
  <2> QED
    BY <2>5, <2>6, <2>7, <2>8 DEF TripsInv
<1> QED
  BY <1>4, <1>5, <1>6, <1>7, <1>8, <1>9, <1>10 DEF Next

(* What the invariants of the texts mean when a row or a name is read.     *)
LEMMA TripsMean ==
  CodersInv /\ TripsInv => CopyRoundTrip /\ BinaryRoundTrip /\ RecordRoundTrip /\ IdentifierRoundTrip
<1> SUFFICES ASSUME CodersInv, TripsInv
             PROVE  CopyRoundTrip /\ BinaryRoundTrip /\ RecordRoundTrip /\ IdentifierRoundTrip
  OBVIOUS
<1>1. CopyTrip /\ RecordTrip /\ IdentifierTrip /\ BinaryTrip
  BY DEF TripsInv
<1>2. CopyRoundTrip /\ RecordRoundTrip
  BY <1>1 DEF CopyTrip, RecordTrip, CopyRoundTrip, RecordRoundTrip, RoundTrip
<1>3. NulFree(value) <=> ~ \E k \in DOMAIN value : \E m \in DOMAIN value[k].str : value[k].str[m] = NUL
  <2>1. value \in Seq(Fields)
    BY DEF CodersInv, Base
  <2>2. DOMAIN value = 1..Len(value)
    BY <2>1
  <2>3. ASSUME NEW k \in 1..Len(value) PROVE DOMAIN value[k].str = 1..Len(value[k].str)
    <3>1. value[k] \in Fields
      BY <2>1
    <3>2. value[k].str \in Seq(Byte)
      BY <3>1 DEF Fields
    <3> QED
      BY <3>2
  <2> QED
    BY <2>2, <2>3, Zenon DEF NulFree
<1>4. IdentifierRoundTrip
  BY <1>1, <1>3 DEF IdentifierTrip, IdentifierRoundTrip
<1>5. Countable(value) <=> ~(Len(value) >= 32768)
  <2>1. Len(value) \in Nat
    BY DEF CodersInv, Base
  <2> QED
    BY <2>1, SMT DEF Countable
<1>6. BinaryRoundTrip
  BY <1>1, <1>5, SMT DEF BinaryTrip, BinaryRoundTrip
<1> QED
  BY <1>2, <1>4, <1>6
=============================================================================
