----------------------------- MODULE ArrayText ------------------------------
(***************************************************************************)
(* PG::TextEncoder::Array (ext/pg_text_encoder.c) and                      *)
(* PG::TextDecoder::Array (ext/pg_text_decoder.c).  The recursion of       *)
(* write_array is a walk over the elements with their Open and Close, that *)
(* of read_array_without_dim has a stack of its local variables.  Values   *)
(* that are nested deeper than the dimensions of the encoder are left to   *)
(* the encoder of the elements and not part of ArrayValues.                *)
(***************************************************************************)
EXTENDS RowScanner

CONSTANTS
  ArrayCoders,      \* name -> [dimensions, raise]: dimensions is -1 when not set,
                    \* raise stands for FORMAT_ERROR_TO_RAISE
  ArrayValues,      \* arrays to encode
  ArrayTexts,       \* other texts to decode
  ArrayDelimiter    \* the delimiter between elements

ASSUME ArrayAssumption ==
  /\ \A c \in DOMAIN ArrayCoders : ArrayCoders[c] \in [dimensions : Int, raise : BOOLEAN]
  /\ ArrayValues \subseteq Seq(Fields)
  /\ ArrayTexts \subseteq Seq(Byte)
  /\ ArrayDelimiter \in Byte

LBRACE == 123
RBRACE == 125
NULL == <<78, 85, 76, 76>>
Lower(c) == IF c \in 65..90 THEN c + 32 ELSE c

IsArray == codec \in DOMAIN ArrayCoders

ArrayInit == \E c \in DOMAIN ArrayCoders : CoderInit(c, ArrayValues, ArrayTexts, <<>>, "dims")

-----------------------------------------------------------------------------
(* pg_text_enc_array and write_array *)

array_isspace(c) == c \in {SPACE, TAB, NL, CR, VT, FF}

ArraySpecial == {QUOTE, BACKSLASH}
ArrayEscape == [c \in ArraySpecial |-> BACKSLASH]

(* The dimension of write_array at the k-th element. *)
Dimension(k) == Within(value, k)

(* Whether the element at this dimension is refused. *)
LessDimensions(dimension) ==
  LET dimensions == ArrayCoders[codec].dimensions IN
  dimensions >= 0 /\ dimension # dimensions

AtElement(kind) ==
  IsArray /\ mode = "encode" /\ i <= Len(value) /\ value[i].kind = kind

Separator == IF i > 1 /\ value[i - 1].kind # "open" THEN <<ArrayDelimiter>> ELSE <<>>

Emit(text) ==
  /\ input' = input \o text
  /\ i' = i + 1
  /\ UNCHANGED <<codec, value, j, ptr1, ptr2, start, decVars, mode>>

WriteOpen ==
  /\ AtElement("open")
  /\ IF value[i + 1].kind = "close" /\ LessDimensions(Dimension(i) + 1)
     THEN Raise
     ELSE Emit(Separator \o <<LBRACE>>)

WriteClose == AtElement("close") /\ Emit(<<RBRACE>>)

WriteNull ==
  /\ AtElement("nil")
  /\ IF LessDimensions(Dimension(i)) THEN Raise ELSE Emit(Separator \o NULL)

(* quote_array_buffer: whether a string needs quotes.  A coder without     *)
(* needs_quotation copies its text, which needs none.                      *)
NeedQuote_null(s) ==
  s = <<>> \/ \E k \in DOMAIN s :
    s[k] \in ArraySpecial \cup {LBRACE, RBRACE, ArrayDelimiter} \/ array_isspace(s[k])
NeedQuote(s) ==
  \/ s = <<>>
  \/ Len(s) = 4 /\ \A k \in 1..4 : Lower(s[k]) = Lower(NULL[k])
  \/ \E k \in DOMAIN s :
       s[k] \in ArraySpecial \cup {LBRACE, RBRACE, ArrayDelimiter} \/ array_isspace(s[k])

(* The string is placed at the output position, with room for the escapes  *)
(* and two quotes, and the end quote is written.                           *)
WriteString ==
  LET str == value[i].str
      base == Len(input) + Len(Separator)
      backslashes == Cardinality(Escapes(str, ArraySpecial))
  IN
  /\ AtElement("str")
  /\ CASE LessDimensions(Dimension(i)) -> Raise
       [] ~LessDimensions(Dimension(i)) /\ ~NeedQuote(str) -> Emit(Separator \o str)
       [] OTHER ->
            /\ input' = input \o Separator \o str \o [k \in 1..(backslashes + 1) |-> NUL] \o <<QUOTE>>
            /\ start' = base + 1
            /\ ptr1' = base + Len(str)
            /\ ptr2' = base + Len(str) + backslashes + 1
            /\ mode' = "escape"
            /\ UNCHANGED <<codec, value, i, j, decVars>>

QuoteByte ==
  /\ IsArray
  /\ ptr1 # start - 1
  /\ MoveByte(ArraySpecial, ArrayEscape)

QuoteEnd ==
  /\ IsArray /\ mode = "escape" /\ ptr1 = start - 1
  /\ input' = [input EXCEPT ![start] = QUOTE]
  /\ i' = i + 1 /\ mode' = "encode"
  /\ UNCHANGED <<codec, value, j, ptr1, ptr2, start, decVars>>

pg_text_enc_array ==
  \/ WriteOpen \/ WriteClose \/ WriteNull \/ WriteString \/ QuoteByte \/ QuoteEnd
  \/ IsArray /\ EncodeEnd(<<>>)

-----------------------------------------------------------------------------
(* pg_text_dec_array.  The states: dims and dims1 before a dimension item, *)
(* none or some already read; item and item1 within one; assign at the =,  *)
(* brace at the left brace, read in the array, end behind it.              *)

array_isdim(c) == c \in 48..57 \cup {45, 43, 58}

ArrayAt(S) == IsArray /\ mode = "decode" /\ state \in S

(* Whether array_parser_error raises. *)
Strict == ArrayCoders[codec].raise

GoTo(pos, s) ==
  /\ cur' = pos /\ state' = s
  /\ UNCHANGED <<codec, encVars, input, start, word, stack, row, mode>>

SkipSpace ==
  /\ ArrayAt({"dims", "dims1", "space"}) /\ array_isspace(At(cur))
  /\ GoTo(cur + 1, state)

AfterDims == IF state \in {"dims", "item"} THEN "brace" ELSE "assign"

DimStart ==
  /\ ArrayAt({"dims", "dims1"}) /\ ~array_isspace(At(cur))
  /\ IF At(cur) = 91
     THEN GoTo(cur + 1, IF state = "dims" THEN "item" ELSE "item1")
     ELSE GoTo(cur, AfterDims)

DimItem ==
  /\ ArrayAt({"item", "item1"})
  /\ CASE array_isdim(At(cur)) -> GoTo(cur + 1, state)
       [] At(cur) = 93 -> GoTo(cur + 1, "dims1")
       [] OTHER -> IF Strict THEN Raise ELSE GoTo(cur, AfterDims)

DimAssign ==
  /\ ArrayAt({"assign"})
  /\ CASE At(cur) = 61 -> GoTo(cur + 1, "space")
       [] OTHER -> IF Strict THEN Raise ELSE GoTo(cur - 1, "space")

SpaceEnd == ArrayAt({"space"}) /\ ~array_isspace(At(cur)) /\ GoTo(cur, "brace")

(* A call of read_array_without_dim with its local variables; an empty     *)
(* array returns at once, the caller goes on behind its right brace.       *)
Call == [idx |-> 0, openQuote |-> 0, escapeNext |-> FALSE]
Empty(pos) == pos <= Len(input) /\ input[pos] = RBRACE

ArrayStart ==
  /\ ArrayAt({"brace"})
  /\ IF At(cur) # LBRACE /\ Strict
     THEN Raise
     ELSE /\ cur' = cur + 1
          /\ IF Empty(cur + 1)
             THEN row' = <<Open, Close>> /\ state' = "end" /\ UNCHANGED stack
             ELSE row' = <<Open>> /\ state' = "read" /\ stack' = <<Call>>
          /\ UNCHANGED <<codec, encVars, input, start, word, mode>>

top == stack[Len(stack)]
Locals(call) == stack' = [stack EXCEPT ![Len(stack)] = call]
Unquoted == top.openQuote < 1

Reading == ArrayAt({"read"}) /\ cur <= Len(input)

(* The innermost call returns: at the right brace, or at the end of the    *)
(* text, which is an error.  The caller drops the word beside a subarray.  *)
Return(fields) ==
  /\ row' = row \o fields \o <<Close>>
  /\ IF Len(stack) = 1
     THEN state' = "end" /\ stack' = <<>> /\ cur' = cur
     ELSE /\ stack' = [k \in 1..(Len(stack) - 1) |->
                         IF k = Len(stack) - 1
                         THEN [stack[k] EXCEPT !.escapeNext = TRUE] ELSE stack[k]]
          /\ cur' = cur + 1 /\ state' = state
  /\ UNCHANGED <<codec, encVars, input, start, mode>>

Word == SubSeq(word, 1, top.idx)
Element ==   \* what a delimiter or right brace adds to the array
  IF top.escapeNext THEN <<>>
  ELSE IF top.openQuote = 0 /\ Word = NULL THEN <<Nil>> ELSE <<Str(Word)>>

(* The calls share one buffer: what an inner call writes to it overwrites  *)
(* the word of the outer one.                                              *)
WordWith(idx, c) == SubSeq(word, 1, idx) \o <<c>> \o SubSeq(word, idx + 2, Len(word))

(* A string is terminated by a NUL before it is decoded. *)
ReadElement ==
  /\ Reading /\ Unquoted
  /\ input[cur] \in {ArrayDelimiter, RBRACE}
  /\ word' = IF Element \in {<<>>, <<Nil>>} THEN word ELSE WordWith(top.idx, NUL)
  /\ IF input[cur] = RBRACE
     THEN Return(Element)
     ELSE /\ row' = row \o Element
          /\ Locals(Call)
          /\ cur' = cur + 1
          /\ UNCHANGED <<codec, encVars, input, start, state, mode>>

ReadSubarray ==
  /\ Reading /\ Unquoted
  /\ input[cur] = LBRACE
  /\ IF Empty(cur + 1)
     THEN /\ row' = row \o <<Open, Close>>
          /\ Locals([top EXCEPT !.escapeNext = TRUE])
          /\ cur' = cur + 2
     ELSE /\ row' = Append(row, Open)
          /\ stack' = Append(stack, Call)
          /\ cur' = cur + 1
  /\ UNCHANGED <<codec, encVars, input, start, word, state, mode>>

(* The text ends, or has a NUL, within the array. *)
ReadPremature ==
  /\ ArrayAt({"read"})
  /\ cur > Len(input) \/ (Unquoted /\ At(cur) = NUL)
  /\ IF Strict THEN Raise ELSE Return(<<>>) /\ UNCHANGED word

PutWord(call) ==
  /\ word' = WordWith(call.idx, input[cur])
  /\ Locals([call EXCEPT !.idx = @ + 1])

ReadByte ==
  /\ Reading
  /\ Unquoted => input[cur] \notin {ArrayDelimiter, LBRACE, RBRACE, NUL}
  /\ CASE Unquoted /\ input[cur] = QUOTE ->
            Locals([top EXCEPT !.openQuote = 1]) /\ UNCHANGED word
       [] ~Unquoted /\ ~top.escapeNext /\ input[cur] = BACKSLASH ->
            Locals([top EXCEPT !.escapeNext = TRUE]) /\ UNCHANGED word
       [] ~Unquoted /\ ~top.escapeNext /\ input[cur] = QUOTE ->
            Locals([top EXCEPT !.openQuote = -1]) /\ UNCHANGED word
       [] OTHER -> PutWord(IF Unquoted THEN top ELSE [top EXCEPT !.escapeNext = FALSE])
  /\ cur' = cur + 1
  /\ UNCHANGED <<codec, encVars, input, start, state, row, mode>>

(* Only whitespace may follow the right brace.  Without Strict the bytes   *)
(* are looked at, too, but decide nothing: where the text ended within     *)
(* nested arrays, the position is one further behind it for each of them.  *)
ArrayEnd ==
  /\ ArrayAt({"end"})
  /\ IF Strict /\ (At(cur) # RBRACE \/ \E k \in (cur + 1)..Len(input) : ~array_isspace(input[k]))
     THEN Raise
     ELSE mode' = "done" /\ UNCHANGED <<codec, encVars, input, start, decVars>>

pg_text_dec_array ==
  \/ SkipSpace \/ DimStart \/ DimItem \/ DimAssign \/ SpaceEnd
  \/ ArrayStart \/ ReadElement \/ ReadSubarray \/ ReadPremature \/ ReadByte \/ ArrayEnd

ArrayNext == pg_text_enc_array \/ pg_text_dec_array

ArraySpec == ArrayInit /\ [][ArrayNext]_rowVars

(* The arrays that can be read back: properly nested, with no NUL in their *)
(* strings, and with a delimiter that does not look like anything else.    *)
Arrays ==
  {v \in Seq(Fields) :
     /\ Len(v) >= 2
     /\ \A k \in DOMAIN v :
          \/ v[k] \in {Nil, Open, Close}
          \/ v[k] = Str(v[k].str) /\ \A m \in DOMAIN v[k].str : v[k].str[m] # NUL
     /\ Within(v, Len(v) + 1) = 0 /\ \A k \in 2..Len(v) : Within(v, k) > 0}

ASSUME ArrayReadable ==
  /\ ArrayValues \subseteq Arrays
  /\ ArrayDelimiter \notin {NUL, QUOTE, LBRACE, RBRACE}
  /\ \A k \in DOMAIN NULL : ArrayDelimiter # NULL[k]

-----------------------------------------------------------------------------
(* Properties *)

Depths == {Dimension(k) : k \in {k \in DOMAIN value : value[k].kind \in {"nil", "str"}}}
            \cup {Dimension(k) + 1 : k \in {k \in DOMAIN value :
                    value[k].kind = "open" /\ value[k + 1].kind = "close"}}

(* An array comes back from PG::TextDecoder::Array as it was encoded, with *)
(* its nesting, NULLs and empty strings; with the dimensions set, exactly  *)
(* the arrays with an element at another depth are refused.                *)
ArrayRoundTrip ==
  IsArray /\ value # <<>> =>
    /\ mode = "done" => row = value
    /\ mode \in {"done", "error"} =>
         (mode = "error" <=> \E d \in Depths : LessDimensions(d))

(* The right to left loop of quote_array_buffer never overwrites a byte    *)
(* that it has still to move, and leaves one byte for the start quote.     *)
ArrayEscapeRoom == IsArray => EscapeRoom(ArraySpecial, 1)

(* The array that the decoder returns is properly nested, each subarray    *)
(* being closed before the array around it, even where it was not in the   *)
(* text; and a strict decoder returns one only for a text whose last       *)
(* character but whitespace is a right brace.                              *)
ArrayWellNested ==
  IsArray /\ mode = "done" =>
    /\ Within(row, Len(row) + 1) = 0 /\ \A k \in 2..Len(row) : Within(row, k) > 0
    /\ Strict => \E k \in 1..Len(input) :
                   input[k] = RBRACE /\ \A m \in (k + 1)..Len(input) : array_isspace(input[m])
=============================================================================
