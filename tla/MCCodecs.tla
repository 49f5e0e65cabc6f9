------------------------------ MODULE MCCodecs ------------------------------
(* The coders, one at a time, over small sets of values and texts. *)
EXTENDS Codecs, SequencesExt

Rows(C) ==
  LET F == {Nil} \cup {Str(s) : s \in SeqOf(C, 2)}
  IN  {<<f>> : f \in F} \cup {<<f, g>> : f \in F, g \in F}

MCDelimiter == TAB
MCNullString == <<BACKSLASH, 78>>
MCCopyRows == Rows({BACKSLASH, NL, TAB, 78})
MCCopyTexts == SeqOf({BACKSLASH, NL, TAB, 78, 55, 120}, 4)

MCRecordRows == Rows({BACKSLASH, QUOTE, COMMA, CLOSE})
MCRecordTexts == {<<OPEN>> \o t : t \in SeqOf({BACKSLASH, QUOTE, COMMA, CLOSE, SPACE, 97}, 4)}
                   \cup SeqOf({SPACE, OPEN, CLOSE, QUOTE}, 3)

MCBinaryRows == {<<f>> : f \in {Nil, Str(<<>>), Str(<<0>>), Str(<<255, 255>>)}}
                  \cup {<<f, g>> : f \in {Nil, Str(<<1>>)}, g \in {Nil, Str(<<>>), Str(<<255>>)}}
Whole == {BinaryText(r) : r \in MCBinaryRows \cup {<<>>}} \cup {<<255, 255>>}
Header == BinarySignature \o <<0, 0, 0, 0, 0, 0, 0, 1, 7>>
MCBinaryTexts ==
  LET T == Whole \cup {Header \o t : t \in Whole} IN
  UNION {{SubSeq(t, 1, n) : n \in 0..Len(t)}
         \cup {[t EXCEPT ![k] = c] : k \in DOMAIN t, c \in {0, 1, 2, 127, 255}}
         \cup {t \o <<0>>} : t \in T}

MCArrayDelimiter == COMMA
MCArrayCoders ==
  [array        |-> [dimensions |-> -1, raise |-> FALSE],
   array_strict |-> [dimensions |-> -1, raise |-> TRUE],
   array_2d     |-> [dimensions |-> 2, raise |-> TRUE]]
Elements ==
  {Nil, Str(NULL), Str(<<110, 85, 108, 76>>)}
    \cup {Str(s) : s \in SeqOf({QUOTE, BACKSLASH, LBRACE, RBRACE, COMMA, 97}, 2)}
MCArrayValues ==
  LET A == {<<Open, Close>>} \cup {<<Open, e, Close>> : e \in Elements}
      E == {Nil, Str(<<>>), Str(<<QUOTE, RBRACE>>)}
      B == {<<Open, Close>>} \cup {<<Open, e, f, Close>> : e \in E, f \in E}
  IN  A \cup B \cup {<<Open>> \o a \o <<Close>> : a \in A}
        \cup {<<Open>> \o a \o b \o <<Close>> : a \in B, b \in B}
        \cup {<<Open>> \o a \o <<e, Close>> : a \in B, e \in E}
MCArrayTexts ==
  {<<LBRACE>> \o t : t \in SeqOf({QUOTE, BACKSLASH, LBRACE, RBRACE, COMMA, 97}, 4)}
    \cup SeqOf({SPACE, 91, 48, 93, 61}, 4)
    \cup {t \o <<LBRACE, 97>> \o u : t \in SeqOf({SPACE, 91, 93, 61}, 3), u \in SeqOf({RBRACE, SPACE, NUL}, 2)}

MCElemOid == 25
MCBinArrayCoders == [binarray |-> -1, binarray_2d |-> 2]
MCBinArrayValues ==
  LET E == {Nil, Str(<<>>), Str(<<0, 255>>)}
      A == {<<Open, Close>>} \cup {<<Open, e, Close>> : e \in E}
             \cup {<<Open, e, f, Close>> : e \in E, f \in E}
  IN  A \cup {<<Open>> \o a \o <<Close>> : a \in A}
        \cup {<<Open>> \o a \o b \o <<Close>> : a \in A, b \in A \cup {<<e>> : e \in E}}
BinArrayHead(sizes, items) ==
  write_nbo32(Len(sizes)) \o write_nbo32(0) \o write_nbo32(ElemOid)
    \o FlattenSeq([d \in DOMAIN sizes |-> write_nbo32(sizes[d]) \o write_nbo32(1)])
    \o FlattenSeq([k \in 1..items |-> write_nbo32(0)])
MCBinArrayTexts ==
  LET T == {BinArrayHead(s, n) : s \in SeqOf({0, 1, 2, 3}, 3), n \in 0..3}
           \cup {BinArrayHead(<<2, 2, 1>>, 4)}
  IN  T \cup UNION {{SubSeq(t, 1, n) : n \in 0..Len(t)}
                    \cup {[t EXCEPT ![k] = c] : k \in DOMAIN t, c \in {0, 1, 2, 7, 127, 255}} :
                    t \in {BinArrayHead(<<2, 2>>, 4), BinArrayHead(<<1, 2>>, 2)}}

MCIdentifiers == {<<Str(s)>> : s \in SeqOf({QUOTE, DOT, NUL, 97}, 3)}
                   \cup {<<Str(s), Str(t)>> : s \in SeqOf({QUOTE, DOT, 97}, 2), t \in SeqOf({QUOTE, DOT, NUL}, 2)}
MCIdentifierTexts == SeqOf({QUOTE, DOT, 97}, 4)
=============================================================================
