------------------------ MODULE ResultsAndMapsProofs ------------------------
(***************************************************************************)
(* Results, tuples, the type maps behind them and the parameters of        *)
(* queries, for every instance: who frees a PGresult (ResultOwnership),    *)
(* when a tuple releases its result (TupleFields), that parameters are     *)
(* within the memory that was measured for them (QueryParams), and that    *)
(* the caches of the type maps say what the hashes behind them say.        *)
(* PG::TypeMapByClass: two classes never have one address, so that an      *)
(* entry is that of one class, and an empty entry is that of none.         *)
(* PG::TypeMapByOid: a cached coder is the one in the hash, in the maps of *)
(* the program and in the copies that fit_to_result made of them.          *)
(***************************************************************************)
EXTENDS ResultOwnership, TupleFields, TypeMapByClass, TypeMapByOid, QueryParams,
        FiniteSetTheorems, SequenceTheorems, WellFoundedInduction, TLAPS

-----------------------------------------------------------------------------
(* The ownership of PGresults for any number of results, objects, streams  *)
(* and notices: each PGresult is freed once, by its one owner, and (when   *)
(* no block of #each clears its own result) never read afterwards.         *)
(*                                                                         *)
(* That one object at most has a pointer (Apart) is not enough: a lent     *)
(* pointer must be held by the object of the notice alone (Lent), and one  *)
(* that a raising receiver left behind by none that frees (Stranded), an   *)
(* object the program can reach must not be one whose construction raised  *)
(* (Reached), and a stream must have an object that frees (Streaming).     *)

RoTypeOK ==
  /\ heap \in [Ptrs -> {"unused", "live", "freed"}]
  /\ state \in [Objs -> {"none", "live", "collected"}]
  /\ pgresult \in [Objs -> Ptrs \cup {Null}]
  /\ autoclear \in [Objs -> BOOLEAN]
  /\ lent \subseteq Ptrs /\ unfinished \subseteq Ptrs /\ abandoned \subseteq Ptrs
  /\ reach \subseteq Objs /\ tupled \subseteq Objs

(* Whoever has a pointer lives, and so does the PGresult. *)
Held ==
  \A o \in Objs : pgresult[o] # Null =>
    state[o] = "live" /\ heap[pgresult[o]] = "live"

(* No two objects have the same pointer. *)
Apart ==
  \A o, q \in Objs : pgresult[o] # Null /\ pgresult[o] = pgresult[q] => o = q

(* An object that will not free its pointer has one that libpq frees, or   *)
(* that libpq was kept from freeing, or was never completed.               *)
Borrowed ==
  \A o \in Objs : pgresult[o] # Null /\ autoclear[o] /\ pgresult[o] \notin unfinished
                    => pgresult[o] \in lent \cup abandoned

(* What libpq lends lives, is known to the object of the notice alone, and *)
(* is returned with the notice.                                            *)
Lent ==
  /\ notice = NoObj => lent = {}
  /\ \A p \in lent :
       /\ heap[p] = "live" /\ p \notin unfinished
       /\ \A o \in Objs : pgresult[o] = p => autoclear[o] /\ o = notice

(* What a raising receiver left behind lives on, and whoever still has it  *)
(* will not free it.                                                       *)
Stranded ==
  \A p \in abandoned :
    /\ heap[p] = "live" /\ p \notin unfinished \cup lent
    /\ \A o \in Objs : pgresult[o] = p => autoclear[o]

(* The object of a notice has a lent pointer or none, and is not streamed. *)
Noticed ==
  notice # NoObj =>
    /\ notice \in Objs /\ state[notice] = "live" /\ notice # stream
    /\ pgresult[notice] # Null => pgresult[notice] \in lent

(* Objects whose construction raised are out of the program's reach. *)
Reached ==
  /\ \A o \in reach \cup tupled : state[o] # "none" /\ pgresult[o] \notin unfinished
  /\ \A p \in unfinished : heap[p] # "unused"

(* The object of a stream frees what it has; between two rows it has none. *)
Streaming ==
  /\ phase \in {"none", "row", "yield", "next"}
  /\ stream # NoObj => phase # "none"
  /\ phase # "none" =>
       /\ stream \in Objs /\ state[stream] = "live" /\ ~autoclear[stream]
       /\ pgresult[stream] \notin unfinished
  /\ phase = "next" => pgresult[stream] = Null

(* Nothing else is left without an owner. *)
Owned ==
  \A p \in Ptrs \ unfinished : heap[p] = "live" /\ p \notin lent \cup abandoned =>
    \E o \in Objs : pgresult[o] = p /\ ~autoclear[o]

OwnInv ==
  /\ RoTypeOK /\ Held /\ Apart /\ Borrowed /\ Lent /\ Stranded
  /\ Noticed /\ Reached /\ Streaming /\ Owned

LEMMA OwnedResults == ASSUME OwnInv PROVE ResultsOwned
<1> USE NullAssumption DEF OwnInv, RoTypeOK
<1>1. FreedOnce
  BY DEF FreedOnce
<1>2. NoDangling
  BY DEF NoDangling, Held
<1>3. OneOwner
  BY DEF OneOwner, Owner, Held, Apart, Lent, Stranded, Owned
<1>4. QED
  BY <1>1, <1>2, <1>3 DEF ResultsOwned

LEMMA OwnStep == ASSUME OwnInv, [RoNext]_roVars PROVE OwnInv'
<1> USE NullAssumption DEF OwnInv, RoTypeOK
<1>1. ASSUME NEW o \in Objs, NEW p \in Ptrs, pg_new_result(o, p) PROVE OwnInv'
  <2> USE <1>1 DEF pg_new_result, Create, Fresh, Allocate, loopVars
  <2>1. RoTypeOK' OBVIOUS
  <2>2. Held' BY DEF Held
  <2>3. Apart' BY DEF Held, Apart
  <2>4. Borrowed' BY DEF Borrowed
  <2>5. Lent' BY DEF Lent
  <2>6. Noticed' BY DEF Noticed
  <2>7. Reached' BY DEF Reached
  <2>8. Streaming' BY DEF Streaming
  <2>9. Owned' BY DEF Owned, Held
  <2>10. Stranded' BY DEF Stranded
  <2>11. QED BY <2>1, <2>2, <2>3, <2>4, <2>5, <2>6, <2>7, <2>8, <2>9, <2>10
<1>2. ASSUME NEW o \in Objs, NEW p \in Ptrs, pg_new_result2_raises(o, p) PROVE OwnInv'
  <2> USE <1>2 DEF pg_new_result2_raises, Create, Fresh, Allocate
  <2>1. RoTypeOK' OBVIOUS
  <2>2. Held' BY DEF Held
  <2>3. Apart' BY DEF Held, Apart
  <2>4. Borrowed' BY DEF Borrowed
  <2>5. Lent' BY DEF Lent
  <2>6. Noticed' BY DEF Noticed
  <2>7. Reached' BY DEF Reached, Held
  <2>8. Streaming' BY DEF Streaming, Held
  <2>9. Owned' BY DEF Owned, Held
  <2>10. Stranded' BY DEF Stranded
  <2>11. QED BY <2>1, <2>2, <2>3, <2>4, <2>5, <2>6, <2>7, <2>8, <2>9, <2>10
<1>3. ASSUME NEW o \in Objs, NEW p \in Ptrs, NoticeBegin(o, p) PROVE OwnInv'
  <2> USE <1>3 DEF NoticeBegin, Create, Fresh, Allocate
  <2>1. RoTypeOK' OBVIOUS
  <2>2. Held' BY DEF Held
  <2>3. Apart' BY DEF Held, Apart
  <2>4. Borrowed' BY DEF Borrowed, Lent
  <2>5. Lent' BY DEF Lent, Held, Reached
  <2>6. Noticed' BY DEF Noticed, Streaming
  <2>7. Reached' BY DEF Reached
  <2>8. Streaming' BY DEF Streaming
  <2>9. Owned' BY DEF Owned, Held, Lent
  <2>10. Stranded' BY DEF Stranded
  <2>11. QED BY <2>1, <2>2, <2>3, <2>4, <2>5, <2>6, <2>7, <2>8, <2>9, <2>10
<1>4. ASSUME NEW o \in Objs, pg_result_clear(o) PROVE OwnInv'
  <2> USE <1>4 DEF pg_result_clear, pgresult_clear, PQclear, Forget, loopVars
  <2>1. RoTypeOK' BY DEF Held
  <2>2. Held' BY DEF Held, Apart
  <2>3. Apart' BY DEF Apart
  <2>4. Borrowed' BY DEF Borrowed
  <2>5. Lent' BY DEF Lent
  <2>6. Noticed' BY DEF Noticed
  <2>7. Reached' BY DEF Reached
  <2>8. Streaming' BY DEF Streaming
  <2>9. Owned' BY DEF Owned, Borrowed, Reached, Held
  <2>10. Stranded' BY DEF Stranded
  <2>11. QED BY <2>1, <2>2, <2>3, <2>4, <2>5, <2>6, <2>7, <2>8, <2>9, <2>10
<1>5. ASSUME NEW o \in Objs, pgresult_gc_free(o) PROVE OwnInv'
  <2> USE <1>5 DEF pgresult_gc_free, pgresult_clear, PQclear, Forget, loopVars
  <2>1. RoTypeOK' BY DEF Held
  <2>2. Held' BY DEF Held, Apart
  <2>3. Apart' BY DEF Apart
  <2>4. Borrowed' BY DEF Borrowed
  <2>5. Lent' BY DEF Lent
  <2>6. Noticed' BY DEF Noticed
  <2>7. Reached' BY DEF Reached
  <2>8. Streaming' BY DEF Streaming
  <2>9. Owned' BY DEF Owned, Borrowed, Lent, Held
  <2>10. Stranded' BY DEF Stranded
  <2>11. QED BY <2>1, <2>2, <2>3, <2>4, <2>5, <2>6, <2>7, <2>8, <2>9, <2>10
<1>6. ASSUME NEW o \in Objs,
             pg_result_freeze(o) \/ pgresult_access(o) \/ Drop(o) \/ pg_tuple_detach(o)
               \/ pgresult_each(o)
      PROVE  OwnInv'
  <2>1. /\ UNCHANGED <<heap, lent, state, pgresult, autoclear, notice, stream, phase, unfinished, abandoned>>
        /\ reach' \cup tupled' \subseteq reach \cup tupled
    BY <1>6 DEF pg_result_freeze, pgresult_access, Drop, pg_tuple_detach, pgresult_each, loopVars
  <2>2. QED
    BY <2>1 DEF Held, Apart, Borrowed, Lent, Stranded, Noticed, Reached, Streaming, Owned
<1>7. ASSUME NEW o \in Objs, StreamStart(o) PROVE OwnInv'
  <2>1. Streaming'
    BY <1>7 DEF StreamStart, Streaming, Held, Reached
  <2>2. QED
    BY <1>7, <2>1 DEF StreamStart, Held, Apart, Borrowed, Lent, Stranded, Noticed, Reached, Owned
<1>8. ASSUME NEW c \in Objs, yield_tuple(c) PROVE OwnInv'
  <2>0. c # stream /\ pgresult[c] = Null /\ stream \in Objs /\ pgresult[stream] # Null
        /\ ~autoclear[stream] /\ pgresult[stream] \notin unfinished
    BY <1>8 DEF yield_tuple, Streaming, Held
  <2> USE <1>8, <2>0 DEF yield_tuple, MovedTo
  <2>1. RoTypeOK' OBVIOUS
  <2>2. Held' BY DEF Held
  <2>3. Apart' BY DEF Apart
  <2>4. Borrowed' BY DEF Borrowed
  <2>5. Lent' BY DEF Lent
  <2>6. Noticed' BY DEF Noticed
  <2>7. Reached' BY DEF Reached
  <2>8. Streaming' BY DEF Streaming
  <2>9. Owned' BY DEF Owned
  <2>10. Stranded' BY DEF Stranded
  <2>11. QED BY <2>1, <2>2, <2>3, <2>4, <2>5, <2>6, <2>7, <2>8, <2>9, <2>10
<1>9. CASE EachNext \/ yield_rows \/ StreamLeave
  <2>1. UNCHANGED <<heap, lent, state, pgresult, autoclear, reach, tupled, notice, unfinished, abandoned>>
    BY <1>9 DEF EachNext, yield_rows, StreamLeave
  <2>2. Streaming' /\ Noticed'
    BY <1>9 DEF EachNext, yield_rows, StreamLeave, Streaming, Noticed
  <2>3. QED
    BY <2>1, <2>2 DEF Held, Apart, Borrowed, Lent, Stranded, Reached, Owned
<1>10. CASE StreamClear
  <2> USE <1>10 DEF StreamClear, pgresult_clear, PQclear, Forget
  <2>0. stream \in Objs /\ ~autoclear[stream]
    BY DEF Streaming
  <2>1. RoTypeOK' BY <2>0 DEF Held
  <2>2. Held' BY <2>0 DEF Held, Apart
  <2>3. Apart' BY <2>0 DEF Apart
  <2>4. Borrowed' BY <2>0 DEF Borrowed
  <2>5. Lent' BY <2>0 DEF Lent
  <2>6. Noticed' BY <2>0 DEF Noticed
  <2>7. Reached' BY <2>0 DEF Reached
  <2>8. Streaming' BY <2>0 DEF Streaming
  <2>9. Owned' BY <2>0 DEF Owned, Held
  <2>10. Stranded' BY <2>0 DEF Stranded
  <2>11. QED BY <2>1, <2>2, <2>3, <2>4, <2>5, <2>6, <2>7, <2>8, <2>9, <2>10
<1>11. CASE NoticeEnd
  <2> USE <1>11 DEF NoticeEnd, NoticeForget, Forget, PQclear
  <2>0. notice \in Objs
    BY DEF Noticed
  <2>1. RoTypeOK' BY <2>0 DEF Lent
  <2>2. Held' BY <2>0 DEF Held, Lent
  <2>3. Apart' BY <2>0 DEF Apart
  <2>4. Borrowed' BY <2>0 DEF Borrowed, Lent
  <2>5. Lent' BY DEF Lent
  <2>6. Noticed' BY DEF Noticed
  <2>7. Reached' BY <2>0 DEF Reached, Lent
  <2>8. Streaming' BY <2>0 DEF Streaming, Noticed
  <2>9. Owned' BY <2>0 DEF Owned, Noticed, Lent
  <2>10. Stranded' BY DEF Stranded
  <2>11. QED BY <2>1, <2>2, <2>3, <2>4, <2>5, <2>6, <2>7, <2>8, <2>9, <2>10
<1>12. ASSUME NEW p \in Ptrs, StreamNext(p) PROVE OwnInv'
  <2> USE <1>12 DEF StreamNext, Fresh, Allocate
  <2>0. /\ stream \in Objs /\ ~autoclear[stream] /\ pgresult[stream] = Null
        /\ state[stream] = "live" /\ p \notin unfinished
    BY DEF Streaming, Reached
  <2>1. RoTypeOK' BY <2>0
  <2>2. Held' BY <2>0 DEF Held
  <2>3. Apart' BY <2>0 DEF Held, Apart
  <2>4. Borrowed' BY <2>0 DEF Borrowed
  <2>5. Lent' BY <2>0 DEF Lent
  <2>6. Noticed' BY <2>0 DEF Noticed
  <2>7. Reached' BY <2>0 DEF Reached
  <2>8. Streaming' BY <2>0 DEF Streaming
  <2>9. Owned' BY <2>0 DEF Owned, Held
  <2>10. Stranded' BY DEF Stranded
  <2>11. QED BY <2>1, <2>2, <2>3, <2>4, <2>5, <2>6, <2>7, <2>8, <2>9, <2>10
<1>13. ASSUME NEW p \in Ptrs, StreamFieldsChanged(p) PROVE OwnInv'
  <2>1. /\ heap' = [heap EXCEPT ![p] = "freed"] /\ heap[p] = "unused"
        /\ pgresult' = pgresult /\ phase' = "none" /\ stream' = NoObj
        /\ UNCHANGED <<lent, state, autoclear, reach, tupled, notice, unfinished, abandoned>>
    BY <1>13 DEF StreamFieldsChanged, Fresh, Allocate, PQclear, Forget, Streaming
  <2>2. QED
    BY <2>1 DEF Held, Apart, Borrowed, Lent, Stranded, Noticed, Reached, Streaming, Owned
<1>14. CASE UNCHANGED roVars
  BY <1>14 DEF roVars, Held, Apart, Borrowed, Lent, Stranded, Noticed, Reached, Streaming, Owned
<1>15. CASE NoticeRaises
  <2> USE <1>15 DEF NoticeRaises
  <2>1. RoTypeOK' OBVIOUS
  <2>2. Held' /\ Apart' BY DEF Held, Apart
  <2>3. Borrowed' BY DEF Borrowed
  <2>4. Lent' /\ Noticed' BY DEF Lent, Noticed
  <2>5. Stranded' BY DEF Stranded, Lent
  <2>6. Reached' /\ Streaming' BY DEF Reached, Streaming
  <2>7. Owned' BY DEF Owned
  <2>8. QED BY <2>1, <2>2, <2>3, <2>4, <2>5, <2>6, <2>7
<1>16. QED
  BY <1>1, <1>2, <1>3, <1>4, <1>5, <1>6, <1>7, <1>8, <1>9, <1>10, <1>11, <1>12, <1>13, <1>14,
     <1>15
  DEF RoNext
(* Whatever the order of #clear, #freeze, garbage collection, streams,     *)
(* tuples and notice receivers that return or raise: no PGresult is freed  *)
(* twice, no object keeps a pointer to a freed one, and each one that      *)
(* lives has one owner to free it, except that of a receiver that raised,  *)
(* which has none, and that of an object that could not be completed.      *)
THEOREM ResultsAreOwned == RoSpec => []ResultsOwned
<1>1. RoInit => OwnInv
  BY NullAssumption
  DEF RoInit, OwnInv, RoTypeOK, Held, Apart, Borrowed, Lent, Stranded, Noticed, Reached,
      Streaming, Owned
<1>2. QED
  BY <1>1, OwnStep, OwnedResults, PTL DEF RoSpec

-----------------------------------------------------------------------------
(* The pointer that #each keeps is still that of its object. *)
EachHolds == each # NoObj => each \in Objs /\ result = pgresult[each] /\ result # Null

UseInv == EachHolds /\ NoUseAfterClear

(* Reading through a pointer that an object has is no misuse. *)
LEMMA HeldRead ==
  ASSUME OwnInv, NoUseAfterClear, NEW o \in Objs, pgresult[o] # Null
  PROVE  ~Read(pgresult[o])
BY DEF OwnInv, Held, NoUseAfterClear, Read

LEMMA UseStep ==
  ASSUME OwnInv, UseInv, ~ClearInEach, [RoNext]_roVars
  PROVE  UseInv'
<1> USE NullAssumption DEF UseInv, EachHolds, OwnInv, RoTypeOK
<1>1. ASSUME NEW o \in Objs, NEW p \in Ptrs,
             pg_new_result(o, p) \/ pg_new_result2_raises(o, p) \/ NoticeBegin(o, p)
      PROVE  UseInv'
  <2>1. each # NoObj => each # o
    BY <1>1 DEF pg_new_result, pg_new_result2_raises, NoticeBegin, Create, Held
  <2>2. QED
    BY <1>1, <2>1
    DEF pg_new_result, pg_new_result2_raises, NoticeBegin, Create, loopVars, NoUseAfterClear
<1>2. ASSUME NEW o \in Objs, pg_result_clear(o) \/ pgresult_gc_free(o) PROVE UseInv'
  BY <1>2 DEF pg_result_clear, pgresult_gc_free, Forget, loopVars, NoUseAfterClear
<1>3. ASSUME NEW o \in Objs, Drop(o) \/ pg_tuple_detach(o) \/ StreamStart(o) PROVE UseInv'
  BY <1>3 DEF Drop, pg_tuple_detach, StreamStart, loopVars, NoUseAfterClear
<1>4. ASSUME NEW o \in Objs, pg_result_freeze(o) \/ pgresult_access(o) PROVE UseInv'
  BY <1>4, HeldRead DEF pg_result_freeze, pgresult_access, loopVars, NoUseAfterClear
<1>5. ASSUME NEW o \in Objs, pgresult_each(o) PROVE UseInv'
  BY <1>5, HeldRead DEF pgresult_each, NoUseAfterClear
<1>6. ASSUME NEW c \in Objs, yield_tuple(c) PROVE UseInv'
  <2>1. each # NoObj => each # c /\ each # stream
    BY <1>6 DEF yield_tuple, EachIsOver, Held
  <2>2. QED
    BY <1>6, <2>1 DEF yield_tuple, MovedTo, Streaming, NoUseAfterClear
<1>7. CASE EachNext
  BY <1>7, HeldRead DEF EachNext, NoUseAfterClear
<1>8. CASE yield_rows
  BY <1>8, HeldRead DEF yield_rows, Streaming, NoUseAfterClear
<1>9. CASE StreamLeave
  BY <1>9 DEF StreamLeave, NoUseAfterClear
<1>10. CASE StreamClear
  BY <1>10 DEF StreamClear, EachIsOver, Forget, Streaming, NoUseAfterClear
<1>11. CASE NoticeEnd
  BY <1>11 DEF NoticeEnd, NoticeForget, EachIsOver, Forget, Noticed, NoUseAfterClear
<1>12. ASSUME NEW p \in Ptrs, StreamNext(p) \/ StreamFieldsChanged(p) PROVE UseInv'
  BY <1>12 DEF StreamNext, StreamFieldsChanged, Forget, Streaming, NoUseAfterClear
<1>13. CASE NoticeRaises
  BY <1>13 DEF NoticeRaises, NoUseAfterClear
<1>14. CASE UNCHANGED roVars
  BY <1>14 DEF roVars, NoUseAfterClear
<1>15. QED
  BY <1>1, <1>2, <1>3, <1>4, <1>5, <1>6, <1>7, <1>8, <1>9, <1>10, <1>11, <1>12, <1>13, <1>14
  DEF RoNext

(* When no block of #each clears the result it iterates over, no method    *)
(* and no loop of the extension reads a PGresult after it was freed; with  *)
(* such a block pgresult_each does.                                        *)
THEOREM NeverUsedAfterClear ==
  ASSUME ~ClearInEach PROVE RoSpec => []NoUseAfterClear
<1>1. RoInit => OwnInv
  BY NullAssumption
  DEF RoInit, OwnInv, RoTypeOK, Held, Apart, Borrowed, Lent, Stranded, Noticed, Reached,
      Streaming, Owned
<1>2. RoInit => UseInv
  BY DEF RoInit, UseInv, EachHolds, NoUseAfterClear
<1>3. OwnInv /\ UseInv /\ [RoNext]_roVars => UseInv'
  BY UseStep
<1>4. UseInv => NoUseAfterClear
  BY DEF UseInv
<1>5. QED
  BY <1>1, <1>2, <1>3, <1>4, OwnStep, PTL DEF RoSpec

-----------------------------------------------------------------------------
(* A PG::Tuple has all of its fields once it has released its result, and  *)
(* each field has one value, for any columns, threads and number of nested *)
(* calls.                                                                  *)
(*                                                                         *)
(* What each running method relies on (Progress) is inductive because a    *)
(* field never gets lost: whatever the others do between two of its steps, *)
(* the fields that it has been through are there.                          *)

Frame ==
  [op : {"fetch", "each", "each_value", "values", "dump"}, todo : Seq(Cols),
   at : {"field", "cast", "yield"}, tm : TypeMaps]

TfTypeOK ==
  /\ fnames \in NameLists
  /\ type_map \in TypeMaps /\ tuple_map \in TypeMaps
  /\ there \in BOOLEAN /\ attached \in BOOLEAN /\ stray \in BOOLEAN
  /\ values \in [Cols -> {Undef} \cup (Cols \X TypeMaps)]
  /\ frames \in [Threads -> Seq(Frame)]

(* A method that goes through all fields has those that are not to do.  vs *)
(* are the fields and m is the type map of the tuple.                      *)
Progress(f, vs, m) ==
  /\ f.todo # <<>>
  /\ f.at = "cast" => f.tm = m
  /\ f.at = "yield" => f.op \in {"each", "each_value"} /\ vs[Head(f.todo)] # Undef
  /\ f.op # "fetch" =>
       \A c \in DOMAIN vs : vs[c] # Undef \/ \E i \in 1..Len(f.todo) : f.todo[i] = c

Underway ==
  \A t \in Threads : \A k \in 1..Len(frames[t]) : Progress(frames[t][k], values, tuple_map)

Unmade ==
  ~there => /\ ~attached /\ loaded = {}
            /\ \A c \in Cols : values[c] = Undef
            /\ \A t \in Threads : frames[t] = <<>>

TfInv == TfTypeOK /\ Underway /\ Unmade /\ DetachedComplete /\ TupleValuesFixed

LEMMA EmptyLength == ASSUME NEW S, NEW s \in Seq(S) PROVE s = <<>> <=> Len(s) = 0
OBVIOUS

LEMMA ColumnNumbers ==
  ASSUME TfTypeOK
  PROVE  /\ fnames \in Seq(STRING) /\ Len(fnames) \in Nat /\ Len(fnames) > 0 /\ Cols = 1..Len(fnames)
         /\ Undef \notin Cols \X TypeMaps
<1>1. fnames \in Seq(STRING) /\ Len(fnames) > 0 /\ Undef \notin (DOMAIN fnames) \X TypeMaps
  BY TupleAssumption DEF TfTypeOK
<1> QED
  BY <1>1 DEF Cols

(* Without duplicate names field_map has the columns in their order. *)
LEMMA NoDuplicates ==
  ASSUME TfTypeOK, ~dup_names, NEW c \in Cols
  PROVE  field_map(fnames)[fnames[c]] = c
<1> DEFINE n == Len(fnames)
           T == ToSet(fnames)
<1>1. n \in Nat /\ Cols = 1..n /\ fnames \in Seq(STRING) /\ DOMAIN fnames = 1..n
  BY ColumnNumbers DEF Cols
<1>2. DOMAIN field_map(fnames) = T
  BY DEF field_map
<1>3. Cardinality(T) = n
  BY <1>2 DEF dup_names
<1>4. IsFiniteSet(1..n) /\ Cardinality(1..n) = n
  BY <1>1, FS_Interval
<1>5. fnames \in Surjection(1..n, T)
  BY <1>1 DEF Surjection, ToSet
<1>6. fnames \in Injection(1..n, T)
  BY <1>3, <1>4, <1>5, FS_SurjSameCardinalityImpliesInj
<1>7. \A i, j \in 1..n : fnames[i] = fnames[j] => i = j
  BY <1>1, <1>6 DEF Injection, IsInjective
<1>8. fnames[c] \in T
  BY <1>1 DEF ToSet
<1>9. field_map(fnames)[fnames[c]] =
         CHOOSE i \in DOMAIN fnames : fnames[i] = fnames[c]
           /\ \A j \in DOMAIN fnames : fnames[j] = fnames[c] => j <= i
  BY <1>8 DEF field_map
<1>10. /\ c \in DOMAIN fnames
       /\ \A j \in DOMAIN fnames : fnames[j] = fnames[c] => j <= c
  BY <1>1, <1>7
<1> QED
  BY <1>1, <1>7, <1>9, <1>10

(* Every method but fetch goes through all columns, and a dump has them    *)
(* all.                                                                    *)
LEMMA AllColumns ==
  ASSUME TfTypeOK
  PROVE  DumpNames = fnames /\ \A op : Through(op) = [k \in Cols |-> k]
<1>1. CASE dup_names
  BY <1>1 DEF DumpNames, Through, EachColumns
<1>2. CASE ~dup_names
  <2>1. EachColumns = [c \in Cols |-> c]
    BY <1>2, NoDuplicates DEF EachColumns
  <2>2. fnames = [c \in Cols |-> fnames[c]]
    BY ColumnNumbers
  <2>3. DumpNames = fnames
    BY <1>2, <2>1, <2>2 DEF DumpNames
  <2> QED
    BY <2>1, <2>3 DEF Through
<1> QED
  BY <1>1, <1>2

-----------------------------------------------------------------------------
(* The frames of one thread change and those of the others keep what they  *)
(* rely on, since fields are only added.                                   *)

FieldsKept ==
  /\ UNCHANGED <<fnames, tuple_map>>
  /\ values' \in [Cols -> {Undef} \cup (Cols \X TypeMaps)]
  /\ \A c \in Cols : values[c] # Undef => values'[c] # Undef

LEMMA ProgressKeeps ==
  ASSUME TfTypeOK, FieldsKept, NEW f \in Frame, Progress(f, values, tuple_map)
  PROVE  Progress(f, values', tuple_map')
<1>1. f.todo \in Seq(Cols) /\ f.todo # <<>>
  BY DEF Frame, Progress
<1>2. Head(f.todo) \in Cols
  BY <1>1
<1>3. DOMAIN values = Cols /\ DOMAIN values' = Cols
  BY DEF TfTypeOK, FieldsKept
<1> QED
  BY <1>1, <1>2, <1>3 DEF FieldsKept, Progress

LEMMA FramesKeep ==
  ASSUME TfTypeOK, Underway, FieldsKept, NEW t \in Threads, NEW s \in Seq(Frame),
         frames' = [frames EXCEPT ![t] = s],
         \A k \in 1..Len(s) : Progress(s[k], values', tuple_map')
  PROVE  frames' \in [Threads -> Seq(Frame')] /\ Underway'
<1>1. Frame' = Frame
  BY DEF Frame, Cols, FieldsKept
<1>2. frames' \in [Threads -> Seq(Frame)] /\ frames'[t] = s
  BY DEF TfTypeOK
<1>3. ASSUME NEW u \in Threads, u # t, NEW k \in 1..Len(frames[u])
      PROVE  Progress(frames[u][k], values', tuple_map')
  <2>1. frames[u] \in Seq(Frame)
    BY DEF TfTypeOK
  <2>2. frames[u][k] \in Frame
    BY <1>3, <2>1
  <2> QED
    BY <1>3, <2>2, ProgressKeeps DEF Underway
<1>4. \A u \in Threads : u # t => frames'[u] = frames[u]
  BY DEF TfTypeOK
<1> QED
  BY <1>1, <1>2, <1>3, <1>4 DEF Underway

(* The top frame of a thread. *)
LEMMA TopFrame ==
  ASSUME TfTypeOK, Underway, NEW t \in Threads, Runs(t)
  PROVE  /\ Top(t) \in Frame /\ Progress(Top(t), values, tuple_map)
         /\ Top(t) = frames[t][Len(frames[t])]
         /\ Len(frames[t]) \in Nat \ {0} /\ frames[t] \in Seq(Frame)
         /\ Head(Top(t).todo) \in Cols /\ Top(t).todo \in Seq(Cols) /\ Top(t).todo # <<>>
<1>1. frames[t] \in Seq(Frame) /\ frames[t] # <<>>
  BY DEF TfTypeOK, Runs
<1>2. Len(frames[t]) \in Nat \ {0} /\ Len(frames[t]) \in 1..Len(frames[t])
  BY <1>1
<1>3. Top(t) = frames[t][Len(frames[t])]
  BY DEF Top, Last
<1>4. Top(t) \in Frame
  BY <1>1, <1>2, <1>3
<1>5. Progress(Top(t), values, tuple_map)
  BY <1>2, <1>3 DEF Underway
<1>6. Top(t).todo \in Seq(Cols) /\ Top(t).todo # <<>>
  BY <1>4, <1>5 DEF Frame, Progress
<1>7. Head(Top(t).todo) \in Cols
  BY <1>6
<1> QED
  BY <1>1, <1>2, <1>3, <1>4, <1>5, <1>6, <1>7

(* A method returns, raises or is left. *)
LEMMA PopKeeps ==
  ASSUME TfTypeOK, Underway, FieldsKept, NEW t \in Threads, Runs(t), Pop(t)
  PROVE  frames' \in [Threads -> Seq(Frame')] /\ Underway'
<1> DEFINE s == Front(frames[t])
<1>1. frames[t] \in Seq(Frame) /\ Len(frames[t]) \in Nat \ {0}
  BY TopFrame
<1>2. /\ s \in Seq(Frame) /\ Len(s) = Len(frames[t]) - 1
      /\ \A k \in 1..Len(s) : s[k] = frames[t][k]
  <2>1. /\ SubSeq(frames[t], 1, Len(frames[t]) - 1) \in Seq(Frame)
        /\ Len(SubSeq(frames[t], 1, Len(frames[t]) - 1)) = Len(frames[t]) - 1
        /\ \A k \in 1..(Len(frames[t]) - 1) :
             SubSeq(frames[t], 1, Len(frames[t]) - 1)[k] = frames[t][k]
    BY <1>1, SubSeqProperties
  <2> QED
    BY <2>1 DEF Front
<1>3. frames' = [frames EXCEPT ![t] = s]
  BY DEF Pop
<1> HIDE DEF s
<1>4. ASSUME NEW k \in 1..Len(s) PROVE Progress(s[k], values', tuple_map')
  <2>1. k \in 1..Len(frames[t]) /\ s[k] = frames[t][k]
    BY <1>1, <1>2, <1>4
  <2>2. frames[t][k] \in Frame
    BY <1>1, <2>1
  <2> QED
    BY <2>1, <2>2, ProgressKeeps DEF Underway
<1> QED
  BY <1>2, <1>3, <1>4, FramesKeep

(* A method goes on. *)
LEMMA FrameGoesOn ==
  ASSUME TfTypeOK, Underway, FieldsKept, NEW t \in Threads, Runs(t), NEW f \in Frame,
         Progress(f, values', tuple_map'),
         frames' = [frames EXCEPT ![t] = [@ EXCEPT ![Len(frames[t])] = f]]
  PROVE  frames' \in [Threads -> Seq(Frame')] /\ Underway'
<1> DEFINE s == [frames[t] EXCEPT ![Len(frames[t])] = f]
<1>1. frames[t] \in Seq(Frame) /\ Len(frames[t]) \in Nat \ {0}
  BY TopFrame
<1>2. /\ s \in Seq(Frame) /\ Len(s) = Len(frames[t])
      /\ \A k \in 1..Len(s) : s[k] = IF k = Len(frames[t]) THEN f ELSE frames[t][k]
  BY <1>1
<1>3. frames' = [frames EXCEPT ![t] = s]
  OBVIOUS
<1> HIDE DEF s
<1>4. ASSUME NEW k \in 1..Len(s) PROVE Progress(s[k], values', tuple_map')
  <2>1. CASE k = Len(frames[t])
    BY <1>2, <1>4, <2>1
  <2>2. CASE k # Len(frames[t])
    <3>1. frames[t][k] \in Frame /\ k \in 1..Len(frames[t])
      BY <1>1, <1>2, <1>4
    <3> QED
      BY <1>2, <1>4, <2>2, <3>1, ProgressKeeps DEF Underway
  <2> QED
    BY <2>1, <2>2
<1> QED
  BY <1>2, <1>3, <1>4, FramesKeep

-----------------------------------------------------------------------------
(* Steps of a method *)

(* The fields after a step: those that there were, and none of another     *)
(* type map.                                                               *)
Filled ==
  /\ FieldsKept /\ UNCHANGED <<type_map, there, stray>>
  /\ \A c \in Cols : values'[c] \in {Undef, <<c, tuple_map>>}

LEMMA TfInvNext ==
  ASSUME TfInv, Filled, frames' \in [Threads -> Seq(Frame')], Underway', there,
         attached' = attached \/ (attached' = FALSE /\ \A c \in Cols : values'[c] # Undef),
         \A l \in loaded' : l \in loaded \/ (/\ l.map = field_map(fnames)
                                             /\ l.values = [c \in Cols |-> <<c, tuple_map>>])
  PROVE  TfInv'
<1>1. Cols' = Cols /\ UNCHANGED <<fnames, tuple_map, there, stray, type_map>>
  BY DEF Filled, FieldsKept, Cols
<1>2. TfTypeOK'
  BY <1>1 DEF TfInv, TfTypeOK, Filled, FieldsKept
<1>3. Unmade'
  BY <1>1 DEF Unmade
<1>4. DetachedComplete'
  BY <1>1 DEF TfInv, DetachedComplete, Filled, FieldsKept
<1>5. TupleValuesFixed'
  <2>1. field_map(fnames)' = field_map(fnames)
    BY <1>1 DEF field_map
  <2> QED
    BY <1>1, <2>1 DEF TfInv, TupleValuesFixed, Filled
<1> QED
  BY <1>2, <1>3, <1>4, <1>5 DEF TfInv

LEMMA Made == ASSUME TfInv, NEW t \in Threads, Runs(t) PROVE there
BY DEF TfInv, TfTypeOK, Unmade, Runs

LEMMA NextFieldKeeps ==
  ASSUME TfInv, Filled, NEW t \in Threads, Runs(t), Top(t).op # "fetch",
         values'[Head(Top(t).todo)] # Undef, NextField(t)
  PROVE  TfInv'
<1> DEFINE f == Top(t)
<1>1. /\ f \in Frame /\ Progress(f, values, tuple_map) /\ Head(f.todo) \in Cols
      /\ f.todo \in Seq(Cols) /\ f.todo # <<>> /\ there
      /\ TfTypeOK /\ Underway /\ FieldsKept
  BY TopFrame, Made DEF TfInv, Filled
<1>2. /\ Len(f.todo) \in Nat \ {0} /\ Head(f.todo) = f.todo[1]
      /\ DOMAIN values = Cols /\ DOMAIN values' = Cols
  BY <1>1 DEF TfTypeOK, FieldsKept
<1>3. CASE Len(f.todo) > 1
  <2> DEFINE g == [f EXCEPT !.todo = Tail(@), !.at = "field"]
  <2>1. /\ frames' = [frames EXCEPT ![t] = [@ EXCEPT ![Len(frames[t])] = g]]
        /\ UNCHANGED <<attached, loaded>>
    BY <1>3 DEF NextField
  <2>2. /\ Tail(f.todo) \in Seq(Cols) /\ Len(Tail(f.todo)) = Len(f.todo) - 1 /\ Tail(f.todo) # <<>>
        /\ \A i \in 1..Len(Tail(f.todo)) : Tail(f.todo)[i] = f.todo[i + 1]
    <3>1. /\ Tail(f.todo) \in Seq(Cols) /\ Len(Tail(f.todo)) = Len(f.todo) - 1
          /\ \A i \in 1..Len(Tail(f.todo)) : Tail(f.todo)[i] = f.todo[i + 1]
      BY <1>1, HeadTailProperties
    <3>2. Len(Tail(f.todo)) # 0
      BY <1>2, <1>3, <3>1
    <3> QED
      BY <3>1, <3>2, EmptyLength
  <2>3. g \in Frame /\ g.todo = Tail(f.todo) /\ g.at = "field" /\ g.op = f.op
    BY <1>1, <2>2 DEF Frame
  <2>4. ASSUME NEW c \in Cols, values'[c] = Undef PROVE \E i \in 1..Len(g.todo) : g.todo[i] = c
    <3>1. PICK i \in 1..Len(f.todo) : f.todo[i] = c
      BY <1>1, <1>2, <2>4 DEF Progress, FieldsKept
    <3>2. i # 1
      BY <1>2, <2>4, <3>1
    <3>3. i - 1 \in 1..Len(g.todo) /\ g.todo[i - 1] = c
      BY <1>2, <2>2, <2>3, <3>1, <3>2
    <3> QED
      BY <3>3
  <2>5. Progress(g, values', tuple_map')
    BY <1>2, <2>2, <2>3, <2>4 DEF Progress
  <2>6. frames' \in [Threads -> Seq(Frame')] /\ Underway'
    BY <1>1, <2>1, <2>3, <2>5, FrameGoesOn
  <2> QED
    BY <1>1, <2>1, <2>6, TfInvNext
<1>4. CASE Len(f.todo) <= 1
  <2>1. Finish(t)
    BY <1>2, <1>4 DEF NextField
  <2>2. frames' \in [Threads -> Seq(Frame')] /\ Underway' /\ attached' = FALSE
    BY <1>1, <2>1, PopKeeps DEF Finish
  <2>3. \A c \in Cols : values'[c] # Undef
    <3>1. \A i \in 1..Len(f.todo) : f.todo[i] = Head(f.todo)
      BY <1>2, <1>4
    <3> QED
      BY <1>1, <1>2, <3>1 DEF Progress, FieldsKept
  <2>4. values' = [c \in Cols |-> <<c, tuple_map>>]
    BY <1>1, <2>3 DEF Filled, FieldsKept
  <2>5. loaded' \subseteq loaded \cup {[map |-> field_map(fnames), values |-> values']}
    <3>1. pg_tuple_load(DumpNames, values') \subseteq {[map |-> field_map(fnames), values |-> values']}
      BY <1>1, AllColumns DEF pg_tuple_load
    <3> QED
      BY <2>1, <3>1 DEF Finish
  <2>6. \A l \in loaded' : l \in loaded \/ (/\ l.map = field_map(fnames)
                                            /\ l.values = [c \in Cols |-> <<c, tuple_map>>])
    BY <2>4, <2>5
  <2> QED
    BY <1>1, <2>2, <2>3, <2>6, TfInvNext
<1> QED
  BY <1>2, <1>3, <1>4

LEMMA FieldedKeeps ==
  ASSUME TfInv, Filled, NEW t \in Threads, Runs(t),
         values'[Head(Top(t).todo)] # Undef, Fielded(t)
  PROVE  TfInv'
<1> DEFINE f == Top(t)
<1>1. /\ f \in Frame /\ Progress(f, values, tuple_map) /\ there
      /\ TfTypeOK /\ Underway /\ FieldsKept
      /\ Top(t) = frames[t][Len(frames[t])]
      /\ Len(frames[t]) \in Nat \ {0} /\ frames[t] \in Seq(Frame)
  BY TopFrame, Made DEF TfInv, Filled
<1>2. CASE f.op = "fetch"
  <2>1. Pop(t) /\ UNCHANGED <<attached, loaded>>
    BY <1>2 DEF Fielded
  <2>2. frames' \in [Threads -> Seq(Frame')] /\ Underway'
    BY <1>1, <2>1, PopKeeps
  <2> QED
    BY <1>1, <2>1, <2>2, TfInvNext
<1>3. CASE f.op \in {"each", "each_value"}
  <2> DEFINE g == [f EXCEPT !.at = "yield"]
  <2>1. Goto(t, "yield") /\ UNCHANGED <<attached, loaded>>
    BY <1>3 DEF Fielded
  <2>2. frames' = [frames EXCEPT ![t] = [@ EXCEPT ![Len(frames[t])] = g]]
    BY <1>1, <2>1 DEF Goto
  <2>3. g \in Frame /\ g.todo = f.todo /\ g.at = "yield" /\ g.op = f.op
    BY <1>1 DEF Frame
  <2>4. DOMAIN values = Cols /\ DOMAIN values' = Cols
    BY <1>1 DEF TfTypeOK, FieldsKept
  <2>5. Progress(g, values', tuple_map')
    BY <1>1, <1>3, <2>3, <2>4 DEF Progress, FieldsKept
  <2>6. frames' \in [Threads -> Seq(Frame')] /\ Underway'
    BY <1>1, <2>2, <2>3, <2>5, FrameGoesOn
  <2> QED
    BY <1>1, <2>1, <2>6, TfInvNext
<1>4. CASE f.op \notin {"fetch", "each", "each_value"}
  BY <1>4, NextFieldKeeps DEF Fielded
<1> QED
  BY <1>2, <1>3, <1>4

(* Ruby code calls a method, which has all of its columns to do. *)
LEMMA CallKeeps ==
  ASSUME TfInv, NEW t \in Threads, NEW op, NEW c, Call(t, op, c),
         \/ op = "fetch" /\ \E k \in Cols : c = <<k>>
         \/ op \in {"each", "each_value", "values", "dump"} /\ c = Through(op)
  PROVE  TfInv'
<1> DEFINE f == [op |-> op, todo |-> c, at |-> "field", tm |-> tuple_map]
           s == Append(frames[t], f)
<1>1. /\ there /\ TfTypeOK /\ Underway /\ Filled /\ FieldsKept /\ frames' = [frames EXCEPT ![t] = s]
      /\ UNCHANGED <<attached, loaded, values, tuple_map>>
  BY DEF Call, TfInv, Filled, FieldsKept, TfTypeOK, TupleValuesFixed
<1>2. /\ c \in Seq(Cols) /\ c # <<>>
      /\ op # "fetch" => \A k \in Cols : k \in 1..Len(c) /\ c[k] = k
  <2>1. CASE op = "fetch"
    BY <2>1
  <2>2. CASE op # "fetch"
    <3>1. c = [k \in Cols |-> k] /\ Cols = 1..Len(fnames) /\ Len(fnames) \in Nat \ {0}
      BY <1>1, <2>2, AllColumns, ColumnNumbers
    <3>2. c \in Seq(Cols) /\ Len(c) = Len(fnames) /\ c # <<>>
      BY <3>1
    <3> QED
      BY <3>1, <3>2
  <2> QED
    BY <2>1, <2>2
<1>3. f \in Frame
  BY <1>1, <1>2 DEF Frame, TfTypeOK
<1>4. Progress(f, values', tuple_map')
  BY <1>1, <1>2 DEF Progress, TfTypeOK
<1> HIDE DEF f
<1>5. frames[t] \in Seq(Frame)
  BY <1>1 DEF TfTypeOK
<1>6. /\ s \in Seq(Frame) /\ Len(s) = Len(frames[t]) + 1 /\ Len(frames[t]) \in Nat
      /\ \A k \in 1..Len(s) : s[k] = IF k = Len(frames[t]) + 1 THEN f ELSE frames[t][k]
  BY <1>3, <1>5
<1> HIDE DEF s
<1>7. ASSUME NEW k \in 1..Len(s) PROVE Progress(s[k], values', tuple_map')
  <2>1. CASE k = Len(frames[t]) + 1
    BY <1>4, <1>6, <2>1
  <2>2. CASE k # Len(frames[t]) + 1
    <3>1. k \in 1..Len(frames[t])
      BY <1>6, <2>2
    <3> QED
      BY <1>1, <1>6, <2>2, <3>1 DEF Underway
  <2> QED
    BY <2>1, <2>2
<1>8. frames' \in [Threads -> Seq(Frame')] /\ Underway'
  BY <1>1, <1>6, <1>7, FramesKeep
<1> QED
  BY <1>1, <1>8, TfInvNext

LEMMA TfStep == ASSUME TfInv, [TfNext]_tfVars PROVE TfInv'
<1>1. TfTypeOK /\ Underway
  BY DEF TfInv
<1>2. ASSUME UNCHANGED <<fnames, there, tuple_map, values, frames, attached, loaded, stray>>,
             type_map' \in TypeMaps
      PROVE  TfInv'
  <2>1. Cols' = Cols /\ Frame' = Frame /\ field_map(fnames)' = field_map(fnames)
    BY <1>2 DEF Cols, Frame, field_map
  <2>2. TfTypeOK'
    BY <1>1, <1>2, <2>1 DEF TfTypeOK
  <2>3. Underway' /\ Unmade' /\ DetachedComplete'
    BY <1>2, <2>1 DEF TfInv, Underway, Unmade, DetachedComplete
  <2>4. TupleValuesFixed'
    BY <1>2, <2>1 DEF TfInv, TupleValuesFixed
  <2> QED
    BY <2>2, <2>3, <2>4 DEF TfInv
<1>3. ASSUME UNCHANGED <<fnames, tuple_map, values, type_map, there, stray>> PROVE Filled /\ FieldsKept
  BY <1>1, <1>3 DEF Filled, FieldsKept, TfInv, TfTypeOK, TupleValuesFixed
<1>4. CASE pg_tuple_new
  <2>1. /\ ~there /\ there' /\ attached' /\ tuple_map' = type_map
        /\ UNCHANGED <<fnames, type_map, values, frames, loaded, stray>>
    BY <1>4 DEF pg_tuple_new
  <2>2. loaded = {} /\ (\A c \in Cols : values[c] = Undef) /\ \A t \in Threads : frames[t] = <<>>
    BY <2>1 DEF TfInv, Unmade
  <2>3. Cols' = Cols /\ Frame' = Frame
    BY <2>1 DEF Cols, Frame
  <2>4. TfTypeOK'
    BY <1>1, <2>1, <2>3, <1>4 DEF TfTypeOK, pg_tuple_new
  <2>5. Underway'
    BY <2>1, <2>2 DEF Underway
  <2> QED
    BY <2>1, <2>2, <2>3, <2>4, <2>5 DEF TfInv, Unmade, DetachedComplete, TupleValuesFixed
<1>5. ASSUME NEW t \in Threads, Runs(t), Pop(t),
             UNCHANGED <<fnames, type_map, there, attached, tuple_map, values, loaded, stray>>
      PROVE  TfInv'
  BY <1>1, <1>3, <1>5, PopKeeps, Made, TfInvNext
<1>6. ASSUME NEW t \in Threads, FieldThere(t) PROVE TfInv'
  BY <1>3, <1>6, FieldedKeeps DEF FieldThere
<1>7. ASSUME NEW t \in Threads, FieldCast(t) PROVE TfInv'
  <2> DEFINE f == Top(t)
             g == [f EXCEPT !.at = "cast", !.tm = tuple_map]
  <2>1. /\ f \in Frame /\ Progress(f, values, tuple_map) /\ there
        /\ f = frames[t][Len(frames[t])]
        /\ Len(frames[t]) \in Nat \ {0} /\ frames[t] \in Seq(Frame)
        /\ Head(f.todo) \in Cols
    BY <1>1, <1>7, TopFrame, Made DEF FieldCast
  <2>2. attached
    BY <1>7, <2>1 DEF FieldCast, TfInv, DetachedComplete
  <2>3. /\ frames' = [frames EXCEPT ![t] = [@ EXCEPT ![Len(frames[t])] = g]]
        /\ UNCHANGED <<fnames, type_map, there, attached, tuple_map, values, loaded>>
    BY <1>7, <2>1 DEF FieldCast, CastMap
  <2>4. UNCHANGED stray
    BY <1>7, <2>2 DEF FieldCast, TfInv, TfTypeOK, DetachedComplete
  <2>5. g \in Frame /\ Progress(g, values', tuple_map')
    BY <1>1, <2>1, <2>3 DEF Frame, Progress, TfTypeOK
  <2>6. frames' \in [Threads -> Seq(Frame')] /\ Underway'
    BY <1>1, <1>3, <1>7, <2>3, <2>4, <2>5, FrameGoesOn DEF FieldCast
  <2> QED
    BY <1>3, <2>1, <2>3, <2>4, <2>6, TfInvNext
<1>8. ASSUME NEW t \in Threads, CastEnds(t) PROVE TfInv'
  <2> DEFINE c == Head(Top(t).todo)
  <2>1. /\ c \in Cols /\ Top(t).tm = tuple_map /\ Runs(t) /\ Fielded(t)
        /\ values' = [values EXCEPT ![c] = <<c, tuple_map>>]
        /\ UNCHANGED <<fnames, type_map, there, tuple_map, stray>>
    BY <1>1, <1>8, TopFrame DEF CastEnds, Progress
  <2>2. <<c, tuple_map>> \in Cols \X TypeMaps /\ <<c, tuple_map>> # Undef
    BY <1>1, <2>1, ColumnNumbers DEF TfTypeOK
  <2> HIDE DEF c
  <2>3. FieldsKept
    BY <1>1, <2>1, <2>2 DEF FieldsKept, TfTypeOK
  <2>4. Filled
    BY <1>1, <2>1, <2>3 DEF Filled, TfInv, TfTypeOK, TupleValuesFixed
  <2>5. values'[c] # Undef
    BY <1>1, <2>1, <2>2 DEF TfTypeOK
  <2> QED
    BY <1>8, <2>1, <2>4, <2>5, FieldedKeeps DEF c
<1>9. ASSUME NEW t \in Threads, BlockReturns(t) PROVE TfInv'
  <2>1. /\ Runs(t) /\ Top(t).at = "yield" /\ NextField(t)
        /\ UNCHANGED <<fnames, type_map, there, tuple_map, values, stray>>
    BY <1>9 DEF BlockReturns
  <2>2. Top(t).op # "fetch" /\ values[Head(Top(t).todo)] # Undef
    BY <1>1, <2>1, TopFrame DEF Progress
  <2> QED
    BY <1>3, <2>1, <2>2, NextFieldKeeps
<1>10. CASE UNCHANGED tfVars
  BY <1>1, <1>2, <1>10 DEF tfVars, TfTypeOK
<1>11. ASSUME NEW tm \in TypeMaps, pgresult_type_map_assign(tm) PROVE TfInv'
  BY <1>2, <1>11 DEF pgresult_type_map_assign
<1>12. CASE pgresult_clear_all
  BY <1>1, <1>2, <1>12 DEF pgresult_clear_all, TfTypeOK
<1>13. ASSUME NEW t \in Threads, FieldRaises(t) \/ Unwind(t) PROVE TfInv'
  BY <1>5, <1>13 DEF FieldRaises, Unwind
<1> QED
  BY <1>4, <1>6, <1>7, <1>8, <1>9, <1>10, <1>11, <1>12, <1>13, CallKeeps DEF TfNext

LEMMA TfStart == ASSUME TfInit PROVE TfInv
<1>1. TfTypeOK
  <2>1. values \in [Cols -> {Undef} \cup (Cols \X TypeMaps)]
    BY DEF TfInit
  <2>2. <<>> \in Seq(Frame)
    OBVIOUS
  <2>3. frames \in [Threads -> Seq(Frame)]
    BY <2>2 DEF TfInit
  <2> QED
    BY <2>1, <2>3 DEF TfInit, TfTypeOK
<1> QED
  BY <1>1 DEF TfInit, TfInv, Underway, Unmade, DetachedComplete, TupleValuesFixed

(* A tuple that released its result has all its fields, whichever methods  *)
(* run at the same time, nested or in other threads, clear the result,     *)
(* raise or are left: pg_tuple_detach never comes too early.               *)
THEOREM TuplesComplete == TfSpec => []DetachedComplete
<1>1. TfInv => DetachedComplete
  BY DEF TfInv
<1>2. TfInit => TfInv
  BY TfStart
<1>3. TfInv /\ [TfNext]_tfVars => TfInv'
  BY TfStep
<1> QED
  BY <1>1, <1>2, <1>3, PTL DEF TfSpec

(* Each field of a tuple has one value, the one of the type map that the   *)
(* result had when the tuple was made, and so has a tuple that was dumped  *)
(* and loaded.                                                             *)
THEOREM TupleValuesAreFixed == TfSpec => []TupleValuesFixed
<1>1. TfInv => TupleValuesFixed
  BY DEF TfInv
<1>2. TfInit => TfInv
  BY TfStart
<1>3. TfInv /\ [TfNext]_tfVars => TfInv'
  BY TfStep
<1> QED
  BY <1>1, <1>2, <1>3, PTL DEF TfSpec

-----------------------------------------------------------------------------
(* PG::TypeMapByClass *)
(* Each class has an address of its own, and the cache its entries. *)
Placed ==
  /\ address \in [Classes -> Addresses]
  /\ \A j, k \in Classes : address[j] = address[k] => j = k
  /\ DOMAIN ancestors = Classes
  /\ DOMAIN cache_row = 0..(Slots - 1)

CacheInv == Placed /\ ClassCacheAgrees

LEMMA SlotExists ==
  ASSUME Placed, NEW k \in Classes
  PROVE  CACHE_LOOKUP(k) \in 0..(Slots - 1) /\ address[k] # 0
<1>1. address[k] \in Nat /\ address[k] # 0
  BY ByClassAssumption DEF Placed
<1>2. address[k] % Slots \in 0..(Slots - 1)
  BY <1>1, ByClassAssumption
<1>3. QED
  BY <1>1, <1>2 DEF CACHE_LOOKUP

(* An empty cache has no hits, whatever the addresses are. *)
LEMMA ClearedMisses ==
  ASSUME Placed', cache_row' = Cleared, NEW k \in Classes
  PROVE  ~Hits(k)'
<1>1. address'[k] \in Nat /\ address'[k] # 0
  BY ByClassAssumption DEF Placed
<1>2. address'[k] % Slots \in 0..(Slots - 1)
  BY <1>1, ByClassAssumption
<1>3. QED
  BY <1>1, <1>2 DEF Hits, CACHE_LOOKUP, Cleared

(* What the search finds depends on the assignments and on the ancestors   *)
(* of the class alone.                                                     *)
LEMMA SameSearch ==
  ASSUME NEW j \in Classes, klass_to_coder' = klass_to_coder, ancestors'[j] = ancestors[j]
  PROVE  FullLookup(j)' = FullLookup(j)
<1>1. Searched(j)' = Searched(j)
  BY DEF Searched
<1>2. QED
  BY <1>1 DEF FullLookup

LEMMA CacheStep == ASSUME CacheInv, [TkNext]_tkVars PROVE CacheInv'
<1> USE DEF CacheInv
<1>1. ASSUME NEW k \in Classes, pg_tmbk_lookup_klass(k) PROVE CacheInv'
  <2> DEFINE s == CACHE_LOOKUP(k)
  <2>1. s \in 0..(Slots - 1)
    BY SlotExists
  <2>2. /\ cache_row' = [cache_row EXCEPT ![s] = [klass |-> address[k], coder |-> FullLookup(k)]]
        /\ reopened' = reopened \ {j \in Classes : CACHE_LOOKUP(j) = s}
        /\ UNCHANGED <<klass_to_coder, ancestors, address>>
        /\ FullLookup(k) \notin Procs
    BY <1>1 DEF pg_tmbk_lookup_klass
  <2>3. Placed'
    BY <2>2 DEF Placed
  <2>4. \A j \in Classes : FullLookup(j)' = FullLookup(j) /\ CACHE_LOOKUP(j)' = CACHE_LOOKUP(j)
    BY <2>2, SameSearch DEF CACHE_LOOKUP
  <2>5. ASSUME NEW j \in Classes \ reopened', Hits(j)'
        PROVE  (cache_row[CACHE_LOOKUP(j)].coder)' = FullLookup(j)' /\ FullLookup(j)' \notin Procs
    <3>1. CASE CACHE_LOOKUP(j) = s
      <4>1. cache_row'[s] = [klass |-> address[k], coder |-> FullLookup(k)]
        BY <2>1, <2>2 DEF Placed
      <4>2. address[j] = address[k]
        BY <2>2, <2>4, <2>5, <3>1, <4>1 DEF Hits
      <4>3. j = k
        BY <4>2 DEF Placed
      <4>4. QED
        BY <2>2, <2>4, <3>1, <4>1, <4>3
    <3>2. CASE CACHE_LOOKUP(j) # s
      <4>1. cache_row'[CACHE_LOOKUP(j)] = cache_row[CACHE_LOOKUP(j)]
        BY <2>2, <3>2, SlotExists DEF Placed
      <4>2. Hits(j) /\ j \notin reopened
        BY <2>2, <2>4, <2>5, <3>2, <4>1 DEF Hits
      <4>3. QED
        BY <2>4, <4>1, <4>2 DEF ClassCacheAgrees
    <3>3. QED
      BY <3>1, <3>2
  <2>6. QED
    BY <2>3, <2>5 DEF ClassCacheAgrees
<1>2. ASSUME NEW k \in Classes, NEW coder, pg_tmbk_aset(k, coder) PROVE CacheInv'
  <2>1. Placed' /\ cache_row' = Cleared
    BY <1>2 DEF pg_tmbk_aset, Placed, Cleared
  <2>2. QED
    BY <2>1, ClearedMisses DEF ClassCacheAgrees
<1>3. ASSUME NEW a \in [Classes -> Addresses], pg_tmbk_compact(a) PROVE CacheInv'
  <2>1. Placed' /\ cache_row' = Cleared
    BY <1>3 DEF pg_tmbk_compact, Placed, Cleared
  <2>2. QED
    BY <2>1, ClearedMisses DEF ClassCacheAgrees
<1>4. ASSUME NEW k \in Classes, NEW lineage \in Lineages[k], Reopen(k, lineage) PROVE CacheInv'
  <2>1. Placed'
    BY <1>4 DEF Reopen, Placed
  <2>2. \A j \in Classes : (Hits(j)' <=> Hits(j)) /\ CACHE_LOOKUP(j)' = CACHE_LOOKUP(j)
    BY <1>4 DEF Reopen, Hits, CACHE_LOOKUP
  <2>3. \A j \in Classes : j # k => FullLookup(j)' = FullLookup(j)
    <3>1. \A j \in Classes : j # k => ancestors'[j] = ancestors[j]
      BY <1>4 DEF Reopen, Placed
    <3>2. QED
      BY <1>4, <3>1, SameSearch DEF Reopen
  <2>4. ASSUME NEW j \in Classes \ reopened', Hits(j)'
        PROVE  j # k /\ j \notin reopened /\ Hits(j)
    BY <1>4, <2>2, <2>4 DEF Reopen
  <2>5. QED
    BY <1>4, <2>1, <2>2, <2>3, <2>4 DEF Reopen, ClassCacheAgrees
<1>5. CASE UNCHANGED tkVars
  <2>1. \A j \in Classes : /\ FullLookup(j)' = FullLookup(j) /\ (Hits(j)' <=> Hits(j))
                           /\ CACHE_LOOKUP(j)' = CACHE_LOOKUP(j)
    BY <1>5, SameSearch DEF tkVars, Hits, CACHE_LOOKUP
  <2>2. QED
    BY <1>5, <2>1 DEF tkVars, Placed, ClassCacheAgrees
<1>6. QED
  BY <1>1, <1>2, <1>3, <1>4, <1>5 DEF TkNext

(* A hit in the cache answers what the lookup over the ancestors would,    *)
(* and never instead of a proc, except for a class that got other          *)
(* ancestors while it was cached: for every number of classes, ancestors,  *)
(* addresses and cache entries.                                            *)
THEOREM ClassCacheCorrect == TkSpec => []ClassCacheAgrees
<1>1. TkInit => CacheInv
  <2> SUFFICES ASSUME TkInit PROVE CacheInv
    OBVIOUS
  <2>1. Placed
    <3>1. DOMAIN cache_row = 0..(Slots - 1)
      BY DEF TkInit, Cleared
    <3>2. DOMAIN ancestors = Classes
      BY Zenon DEF TkInit
    <3>3. QED
      BY <3>1, <3>2 DEF TkInit, Placed
  <2>2. \A k \in Classes : ~Hits(k)
    BY <2>1, SlotExists DEF TkInit, Hits, Cleared
  <2>3. QED
    BY <2>1, <2>2 DEF CacheInv, ClassCacheAgrees
<1>2. CacheInv => ClassCacheAgrees
  BY DEF CacheInv
<1>3. QED
  BY <1>1, <1>2, CacheStep, PTL DEF TkSpec

-----------------------------------------------------------------------------
(* Walking along a chain *)

LEMMA Least ==
  ASSUME NEW T \in SUBSET Nat, T # {}
  PROVE  \E n \in T : \A k \in T : n <= k
<1>1. PICK n \in T : \A k \in T : <<k, n>> \notin OpToRel(<, Nat)
  BY WFMin, NatLessThanWellFounded
<1>2. \A k \in T : ~(k < n)
  BY <1>1 DEF OpToRel
<1>3. QED
  BY <1>2

LEMMA Climb ==
  ASSUME NEW n \in Nat, NEW T, 0 \in T, \A k \in 1..n : k - 1 \in T => k \in T
  PROVE  0..n \subseteq T
<1> DEFINE Left == (0..n) \ T
<1>1. SUFFICES ASSUME Left # {} PROVE FALSE
  OBVIOUS
<1>2. PICK j \in Left : \A k \in Left : j <= k
  <2>1. Left \in SUBSET Nat
    OBVIOUS
  <2> HIDE DEF Left
  <2>2. QED
    BY <1>1, <2>1, Least
<1>3. j \in 1..n /\ j - 1 \in 0..n /\ j - 1 \notin Left
  BY <1>2
<1>4. QED
  BY <1>2, <1>3

(* A walk can be continued for as long as there is a next step. *)
IsWalk(g, n, x, step) == g[0] = x /\ \A k \in 1..n : g[k] = step[k][g[k - 1]]

LEMMA Walk ==
  ASSUME NEW n \in Nat, NEW S, NEW x \in S, NEW step \in [1..n -> [S -> S]]
  PROVE  \E g \in [0..n -> S] : IsWalk(g, n, x, step)
<1> DEFINE W(j) == \E g \in [0..j -> S] : g[0] = x /\ \A k \in 1..j : g[k] = step[k][g[k - 1]]
           T == {j \in 0..n : W(j)}
<1>1. W(0)
  <2>1. WITNESS [k \in 0..0 |-> x] \in [0..0 -> S]
  <2>2. QED
    OBVIOUS
<1>2. ASSUME NEW j \in 1..n, W(j - 1) PROVE W(j)
  <2>1. PICK g \in [0..(j - 1) -> S] : g[0] = x /\ \A k \in 1..(j - 1) : g[k] = step[k][g[k - 1]]
    BY <1>2
  <2> DEFINE h == [k \in 0..j |-> IF k = j THEN step[j][g[j - 1]] ELSE g[k]]
  <2>2. h \in [0..j -> S] /\ h[0] = x
    BY <2>1
  <2>3. ASSUME NEW k \in 1..j PROVE h[k] = step[k][h[k - 1]]
    BY <2>1
  <2> HIDE DEF h
  <2>4. QED
    BY <2>2, <2>3
<1> HIDE DEF W
<1>3. 0 \in T
  BY <1>1
<1>4. ASSUME NEW k \in 1..n, k - 1 \in T PROVE k \in T
  BY <1>2, <1>4
<1>5. n \in T
  <2> HIDE DEF T
  <2>1. 0..n \subseteq T
    BY <1>3, <1>4, Climb
  <2>2. QED
    BY <2>1
<1>6. QED
  BY <1>5 DEF W, IsWalk

(* The chain of defaults in a state mp of the maps. *)
ChainIn(mp, m) ==
  LET next[k \in 1..Long] == IF k = 1 THEN m ELSE mp[next[k - 1]].default
  IN  next
LinkedIn(mp, m) == {ChainIn(mp, m)[k] : k \in 1..Long}

Closed(mp, S) == \A x \in S : mp[x].default \in S

LEMMA LongEnough == Long \in Nat /\ Long >= 2 /\ Cardinality(User) \in Nat
BY MapsAssumption, FS_CardinalityType DEF Long

(* A chain stays in a set that is closed under defaults. *)
LEMMA ChainSteps ==
  ASSUME NEW mp, NEW S, NEW m \in S, Closed(mp, S)
  PROVE  /\ ChainIn(mp, m) \in [1..Long -> S]
         /\ ChainIn(mp, m)[1] = m
         /\ \A k \in 2..Long : ChainIn(mp, m)[k] = mp[ChainIn(mp, m)[k - 1]].default
<1> DEFINE P(g) == g = [k \in 1..Long |-> IF k = 1 THEN m ELSE mp[g[k - 1]].default]
           n == Long - 1
<1>1. n \in Nat /\ Long \in Nat /\ Long >= 2
  BY LongEnough
<1>2. \E g : P(g)
  <2> DEFINE step == [k \in 1..n |-> [x \in S |-> mp[x].default]]
  <2>1. step \in [1..n -> [S -> S]]
    BY DEF Closed
  <2>2. PICK h \in [0..n -> S] : IsWalk(h, n, m, step)
    <3> HIDE DEF step, n
    <3>1. QED
      BY <1>1, <2>1, Walk
  <2>3. ASSUME NEW k \in 1..n PROVE h[k] = mp[h[k - 1]].default
    <3>1. h[k - 1] \in S
      BY <1>1, <2>2
    <3>2. QED
      BY <2>2, <3>1 DEF IsWalk
  <2> DEFINE g == [k \in 1..Long |-> h[k - 1]]
  <2>4. ASSUME NEW k \in 1..Long PROVE g[k] = IF k = 1 THEN m ELSE mp[g[k - 1]].default
    <3>1. CASE k = 1
      BY <2>2, <3>1, <1>1 DEF IsWalk
    <3>2. CASE k # 1
      <4>1. k - 1 \in 1..n /\ k - 1 \in 1..Long
        BY <3>2, <1>1
      <4>2. QED
        BY <2>3, <3>2, <4>1
    <3>3. QED
      BY <3>1, <3>2
  <2>5. P(g)
    BY <2>4
  <2>6. QED
    BY <2>5
<1>3. ChainIn(mp, m) = CHOOSE g : P(g)
  BY DEF ChainIn
<1>4. P(ChainIn(mp, m))
  BY <1>2, <1>3
<1> DEFINE c == ChainIn(mp, m)
<1> HIDE DEF c
<1>5. c = [k \in 1..Long |-> IF k = 1 THEN m ELSE mp[c[k - 1]].default]
  BY <1>4 DEF c
<1>6. c[1] = m /\ \A k \in 2..Long : c[k] = mp[c[k - 1]].default
  BY <1>1, <1>5
<1> DEFINE T == {k \in 0..n : c[k + 1] \in S}
<1>7. 0 \in T
  BY <1>1, <1>6
<1>8. ASSUME NEW k \in 1..n, k - 1 \in T PROVE k \in T
  <2>1. c[k] \in S /\ k + 1 \in 2..Long
    BY <1>1, <1>8
  <2>2. c[k + 1] = mp[c[k]].default
    BY <1>6, <2>1
  <2>3. QED
    BY <2>1, <2>2 DEF Closed
<1>9. 0..n \subseteq T
  <2> HIDE DEF T
  <2>1. QED
    BY <1>1, <1>7, <1>8, Climb
<1>10. \A k \in 1..Long : c[k] \in S
  BY <1>1, <1>9
<1>11. c \in [1..Long -> S]
  BY <1>5, <1>10
<1>12. QED
  BY <1>6, <1>11 DEF c


(* A set with fewer maps than the chain has links: the chain meets a map   *)
(* again, so that it holds the default of its last one too.                *)
LEMMA ChainCloses ==
  ASSUME NEW mp, NEW S, NEW m \in S, Closed(mp, S), IsFiniteSet(S), Cardinality(S) < Long
  PROVE  Closed(mp, LinkedIn(mp, m))
<1> DEFINE c == ChainIn(mp, m)
<1>1. /\ c \in [1..Long -> S]
      /\ \A k \in 2..Long : c[k] = mp[c[k - 1]].default
      /\ LinkedIn(mp, m) = {c[k] : k \in 1..Long}
  BY ChainSteps DEF LinkedIn
<1>2. Long \in Nat /\ Long >= 2 /\ IsFiniteSet(1..Long) /\ Cardinality(1..Long) = Long
  BY LongEnough, FS_Interval
<1> HIDE DEF c
<1>3. PICK i, j \in 1..Long : i < j /\ c[i] = c[j]
  <2>1. PICK a, b \in 1..Long : a # b /\ c[a] = c[b]
    BY <1>1, <1>2, FS_PigeonHole
  <2>2. CASE a < b
    BY <2>1, <2>2
  <2>3. CASE b < a
    BY <2>1, <2>3
  <2>4. QED
    BY <1>2, <2>1, <2>2, <2>3
<1> DEFINE n == Long - j
           T == {k \in 0..n : c[i + k] = c[j + k]}
<1>4. n \in Nat /\ n \in 0..n
  BY <1>2
<1>5. 0 \in T
  BY <1>2, <1>3
<1>6. ASSUME NEW k \in 1..n, k - 1 \in T PROVE k \in T
  <2>1. c[i + (k - 1)] = c[j + (k - 1)] /\ i + k \in 2..Long /\ j + k \in 2..Long
    BY <1>2, <1>3, <1>6
  <2>2. i + (k - 1) = (i + k) - 1 /\ j + (k - 1) = (j + k) - 1
    BY <1>2
  <2>3. c[i + k] = mp[c[(i + k) - 1]].default /\ c[j + k] = mp[c[(j + k) - 1]].default
    BY <1>1, <2>1
  <2>4. QED
    BY <2>1, <2>2, <2>3, <1>2
<1>7. 0..n \subseteq T
  <2> HIDE DEF T, n
  <2>1. QED
    BY <1>4, <1>5, <1>6, Climb
<1>8. c[i + n] = c[Long] /\ (i + n) + 1 \in 2..Long
  <2>1. n \in T
    BY <1>4, <1>7
  <2>2. j + n = Long
    BY <1>2
  <2>3. c[i + n] = c[j + n]
    BY <2>1
  <2>4. QED
    BY <1>2, <1>3, <2>2, <2>3
<1> HIDE DEF n
<1>9. ASSUME NEW k \in 1..Long PROVE mp[c[k]].default \in {c[l] : l \in 1..Long}
  <2>1. CASE k < Long
    <3>1. k + 1 \in 2..Long /\ (k + 1) - 1 = k
      BY <1>2, <2>1
    <3>2. c[k + 1] = mp[c[k]].default
      BY <1>1, <3>1
    <3>3. QED
      BY <3>1, <3>2
  <2>2. CASE k = Long
    <3>1. ((i + n) + 1) - 1 = i + n
      BY <1>2, <1>4
    <3>2. c[(i + n) + 1] = mp[c[i + n]].default
      BY <1>1, <1>8, <3>1
    <3>3. QED
      BY <1>8, <2>2, <3>2
  <2>3. QED
    BY <1>2, <2>1, <2>2
<1>10. QED
  BY <1>1, <1>9 DEF Closed

(* The maps that the values of a result are read through: those of the     *)
(* program and those built for this result.                                *)
Place(r) == {AllStrings} \cup User \cup ({r} \X User)

LEMMA PlaceIsShort == ASSUME NEW r PROVE IsFiniteSet(Place(r)) /\ Cardinality(Place(r)) < Long
<1> DEFINE A == {AllStrings}
           B == {r} \X User
           n == Cardinality(User)
<1>1. n \in Nat /\ IsFiniteSet(User)
  BY MapsAssumption, FS_CardinalityType
<1>2. IsFiniteSet(A) /\ Cardinality(A) = 1 /\ IsFiniteSet({r}) /\ Cardinality({r}) = 1
  BY FS_Singleton
<1>3. IsFiniteSet(B) /\ Cardinality(B) = 1 * n
  BY <1>1, <1>2, FS_Product
<1>4. Cardinality(B) = n
  BY <1>1, <1>3
<1> HIDE DEF A, B, n
<1>5. /\ IsFiniteSet(A \cup User) /\ Cardinality(A \cup User) \in Nat
      /\ Cardinality(A \cup User) <= 1 + n
  <2>1. /\ IsFiniteSet(A \cup User)
        /\ Cardinality(A \cup User) = Cardinality(A) + Cardinality(User) - Cardinality(A \cap User)
    BY <1>1, <1>2, FS_Union
  <2>2. Cardinality(A \cap User) \in Nat
    BY <1>2, FS_Subset, FS_CardinalityType
  <2>3. Cardinality(A \cup User) \in Nat
    BY <2>1, FS_CardinalityType
  <2>4. QED
    BY <1>1, <1>2, <2>1, <2>2, <2>3 DEF n
<1>6. /\ IsFiniteSet((A \cup User) \cup B) /\ Cardinality((A \cup User) \cup B) <= 1 + 2 * n
      /\ Cardinality((A \cup User) \cup B) \in Nat
  <2>1. /\ IsFiniteSet((A \cup User) \cup B)
        /\ Cardinality((A \cup User) \cup B)
             = Cardinality(A \cup User) + Cardinality(B) - Cardinality((A \cup User) \cap B)
    BY <1>3, <1>5, FS_Union
  <2>2. Cardinality((A \cup User) \cap B) \in Nat
    BY <1>5, FS_Subset, FS_CardinalityType
  <2>3. Cardinality((A \cup User) \cup B) \in Nat
    BY <2>1, FS_CardinalityType
  <2>4. QED
    BY <1>1, <1>4, <1>5, <2>1, <2>2, <2>3
<1>7. QED
  BY <1>1, <1>6 DEF A, B, n, Place, Long

(* What the proofs need of a chain. *)
LEMMA LinkedFacts ==
  ASSUME NEW mp, NEW r, NEW m \in Place(r), Closed(mp, Place(r))
  PROVE  /\ m \in LinkedIn(mp, m)
         /\ LinkedIn(mp, m) \subseteq Place(r)
         /\ Closed(mp, LinkedIn(mp, m))
<1>1. /\ ChainIn(mp, m) \in [1..Long -> Place(r)]
      /\ ChainIn(mp, m)[1] = m
  BY ChainSteps
<1>2. m \in LinkedIn(mp, m) /\ LinkedIn(mp, m) \subseteq Place(r)
  BY <1>1, LongEnough DEF LinkedIn
<1>3. QED
  BY <1>2, PlaceIsShort, ChainCloses

LEMMA LinkedWithin ==
  ASSUME NEW mp, NEW S, NEW m \in S, Closed(mp, S)
  PROVE  LinkedIn(mp, m) \subseteq S
<1>1. ChainIn(mp, m) \in [1..Long -> S]
  BY ChainSteps
<1>2. QED
  BY <1>1 DEF LinkedIn

-----------------------------------------------------------------------------
(* PG::TypeMapByOid: the inductive invariant *)

Coded == Coders \cup {NoCoder}
Entry == [oid : Nat, coder : Coded]
MapRecord ==
  [kind : {"none", "strings", "oid", "column"}, default : Maps, convs : Seq(Coded),
   max : Nat, hash : OidMaps \cup {AllStrings}, cache : [0..(CacheSize - 1) -> Entry]]

TmTypeOK ==
  /\ maps \in [Maps -> MapRecord]
  /\ hash \in [OidMaps -> [Oids -> Coded]]
  /\ typemap \in [Res -> Maps]
  /\ freed \subseteq Coders

(* The maps of the program keep their kind and hash and never have a built *)
(* map as their default; what is built for a result is seen by no other.   *)
Wired ==
  /\ maps[AllStrings].kind = "strings" /\ maps[AllStrings].default = AllStrings
  /\ \A m \in OidMaps : maps[m].kind = "oid" /\ maps[m].hash = m
  /\ \A m \in DOMAIN ColumnMaps : maps[m].kind = "column"
  /\ \A b \in Built : maps[b].kind = "oid" => maps[b].hash \in OidMaps
  /\ Closed(maps, {AllStrings} \cup User)
  /\ \A r \in Res : typemap[r] \in Place(r) /\ Closed(maps, Place(r))

AgreesWith(map, h) == \A o \in Oids : Hit(map, o) => map.cache[Slot(o)].coder = h[o]

CachesAgree == \A m \in OidMaps : AgreesWith(maps[m], hash[m])

CopiesAgree ==
  \A r \in Res \ shared : \A b \in Linked(typemap[r]) :
    b \in Built /\ maps[b].kind = "oid" => AgreesWith(maps[b], hash[maps[b].hash])

HoldsCoders ==
  /\ \A m \in OidMaps : \A o \in Oids : hash[m][o] \notin freed
  /\ \A m \in Maps : \A k \in DOMAIN maps[m].convs : maps[m].convs[k] \notin freed

FitsStill ==
  \A r \in Res \ refit : \A x \in Linked(typemap[r]) :
    maps[x].kind = "column" => Len(maps[x].convs) = Len(Results[r].oids)

TmInv ==
  TmTypeOK /\ Wired /\ CachesAgree /\ CopiesAgree /\ HoldsCoders /\ FitsStill

-----------------------------------------------------------------------------
(* PG::TypeMapByOid: the cache *)

LEMMA OidFacts ==
  /\ Oids \subseteq Nat
  /\ \A c \in Coders : OidOf[c] \in Oids
  /\ \A r \in Res : \A f \in DOMAIN Results[r].oids : Results[r].oids[f] \in Oids
<1>1. \A r \in Res : \A f \in DOMAIN Results[r].oids : Results[r].oids[f] \in Nat
  BY TypeMapAssumption DEF Res
<1>2. QED
  BY <1>1, TypeMapAssumption DEF Oids, Res

LEMMA SlotInRange == ASSUME NEW o \in Nat PROVE Slot(o) \in 0..(CacheSize - 1)
BY TypeMapAssumption DEF Slot

(* The maps that differ from map in what is cached only, correctly. *)
Versions(map) ==
  {x \in MapRecord :
     /\ x.kind = map.kind /\ x.default = map.default /\ x.convs = map.convs
     /\ x.max = map.max /\ x.hash = map.hash
     /\ AgreesWith(x, hash[map.hash])}

(* A lookup in a cache that agrees with the hash is one in the hash. *)
LEMMA LookupAgrees ==
  ASSUME NEW map, AgreesWith(map, hash[map.hash]), NEW o \in Oids
  PROVE  pg_tmbo_lookup_oid(map, o) = hash[map.hash][o]
BY DEF AgreesWith, pg_tmbo_lookup_oid

LEMMA CachedAgrees ==
  ASSUME hash \in [OidMaps -> [Oids -> Coded]],
         NEW map, map.hash \in OidMaps, NEW x \in Versions(map), NEW o \in Oids
  PROVE  Cached(x, o) \in Versions(map)
<1> DEFINE h == hash[map.hash]
           e == [oid |-> o, coder |-> h[o]]
           y == [x EXCEPT !.cache[Slot(o)] = e]
<1>1. /\ x \in MapRecord /\ x.hash = map.hash /\ AgreesWith(x, h)
      /\ h \in [Oids -> Coded] /\ o \in Nat /\ e \in Entry
  BY OidFacts DEF Versions, Entry
<1>2. Cached(x, o) = y
  BY <1>1, LookupAgrees DEF Cached
<1>3. Slot(o) \in 0..(CacheSize - 1)
  BY <1>1, SlotInRange
<1> HIDE DEF e, h
<1>4. /\ y.cache = [x.cache EXCEPT ![Slot(o)] = e]
      /\ y.kind = x.kind /\ y.default = x.default /\ y.convs = x.convs
      /\ y.max = x.max /\ y.hash = x.hash
      /\ y \in MapRecord
  BY <1>1, <1>3 DEF MapRecord
<1>5. \A s \in 0..(CacheSize - 1) : y.cache[s] = IF s = Slot(o) THEN e ELSE x.cache[s]
  BY <1>1, <1>3, <1>4 DEF MapRecord
<1> HIDE DEF y
<1>6. ASSUME NEW p \in Oids, Hit(y, p) PROVE y.cache[Slot(p)].coder = h[p]
  <2>1. p \in Nat /\ Slot(p) \in 0..(CacheSize - 1)
    BY OidFacts, SlotInRange
  <2>2. CASE Slot(p) = Slot(o)
    <3>1. y.cache[Slot(p)] = e
      BY <1>5, <2>1, <2>2
    <3>2. QED
      BY <1>6, <3>1 DEF Hit, e
  <2>3. CASE Slot(p) # Slot(o)
    <3>1. y.cache[Slot(p)] = x.cache[Slot(p)]
      BY <1>5, <2>1, <2>3
    <3>2. Hit(x, p)
      BY <1>6, <3>1 DEF Hit
    <3>3. QED
      BY <1>1, <3>1, <3>2 DEF AgreesWith
  <2>4. QED
    BY <2>2, <2>3
<1>7. AgreesWith(y, h)
  BY <1>6 DEF AgreesWith
<1>8. QED
  BY <1>1, <1>2, <1>4, <1>7 DEF Versions, h

(* All lookups of a result together. *)
LEMMA AllCachedAgrees ==
  ASSUME hash \in [OidMaps -> [Oids -> Coded]],
         NEW map \in MapRecord, map.hash \in OidMaps, AgreesWith(map, hash[map.hash]),
         NEW r \in Res
  PROVE  AllCached(map, Results[r].oids) \in Versions(map)
<1> DEFINE oids == Results[r].oids
           n == Len(oids)
           S == Versions(map)
           P(g) == g = [f \in 0..n |-> IF f = 0 THEN map ELSE Cached(g[f - 1], oids[f])]
<1>1. n \in Nat /\ \A f \in 1..n : oids[f] \in Oids
  BY OidFacts, TypeMapAssumption DEF Res
<1>2. map \in S
  BY DEF Versions
<1> HIDE DEF n, oids
<1>3. \E g : P(g)
  <2> DEFINE step == [k \in 1..n |-> [x \in S |-> Cached(x, oids[k])]]
  <2>1. step \in [1..n -> [S -> S]]
    BY <1>1, CachedAgrees
  <2>2. PICK g \in [0..n -> S] : IsWalk(g, n, map, step)
    <3> HIDE DEF step, S
    <3>1. QED
      BY <1>1, <1>2, <2>1, Walk
  <2>3. ASSUME NEW f \in 0..n PROVE g[f] = IF f = 0 THEN map ELSE Cached(g[f - 1], oids[f])
    <3>1. CASE f = 0
      BY <2>2, <3>1 DEF IsWalk
    <3>2. CASE f # 0
      <4>1. f \in 1..n /\ f - 1 \in 0..n
        BY <1>1, <3>2
      <4>2. g[f - 1] \in S
        BY <2>2, <4>1
      <4>3. QED
        BY <2>2, <3>2, <4>1, <4>2 DEF IsWalk
    <3>3. QED
      BY <3>1, <3>2
  <2>4. QED
    BY <1>1, <2>2, <2>3
<1> DEFINE a == CHOOSE g : P(g)
<1>4. AllCached(map, oids) = a[n]
  BY DEF AllCached, n, oids
<1>5. P(a)
  BY <1>3
<1> HIDE DEF a
<1>6. a[0] = map /\ \A k \in 1..n : a[k] = Cached(a[k - 1], oids[k])
  BY <1>1, <1>5
<1> DEFINE T == {k \in 0..n : a[k] \in S}
<1>7. 0 \in T
  BY <1>1, <1>2, <1>6
<1>8. ASSUME NEW k \in 1..n, k - 1 \in T PROVE k \in T
  BY <1>1, <1>6, <1>8, CachedAgrees
<1>9. n \in T
  <2> HIDE DEF T
  <2>1. 0..n \subseteq T
    BY <1>1, <1>7, <1>8, Climb
  <2>2. QED
    BY <1>1, <2>1
<1>10. QED
  BY <1>4, <1>9 DEF oids

-----------------------------------------------------------------------------
(* PG::TypeMapByOid: the steps *)

LEMMA LinkedIs ==
  /\ \A m : Linked(m) = LinkedIn(maps, m)
  /\ \A r \in Res : Linked(typemap[r])' = LinkedIn(maps', typemap'[r])
BY DEF Linked, LinkedIn, Chain, ChainIn

LEMMA PlaceInMaps == ASSUME NEW r \in Res PROVE Place(r) \subseteq Maps
BY DEF Place, Maps, Built

(* The maps behind that of a result, and behind one that is fitted to it. *)
LEMMA LinkedOfResult ==
  ASSUME Wired, NEW r \in Res, NEW m \in Place(r)
  PROVE  /\ m \in Linked(m)
         /\ Linked(m) \subseteq Place(r) /\ Linked(m) \subseteq Maps
         /\ Closed(maps, Linked(m))
BY LinkedFacts, LinkedIs, PlaceInMaps DEF Wired

(* A result reads on through the same maps if their defaults are the same. *)
LEMMA LinkedKept ==
  ASSUME Wired, NEW r \in Res, typemap'[r] = typemap[r],
         \A x \in Linked(typemap[r]) : maps'[x].default = maps[x].default
  PROVE  Linked(typemap[r])' \subseteq Linked(typemap[r])
<1> DEFINE S == Linked(typemap[r])
<1>1. typemap[r] \in S /\ Closed(maps, S)
  BY LinkedOfResult DEF Wired
<1>2. Closed(maps', S)
  BY <1>1 DEF Closed
<1> HIDE DEF S
<1>3. LinkedIn(maps', typemap[r]) \subseteq S
  BY <1>1, <1>2, LinkedWithin
<1>4. QED
  BY <1>3, LinkedIs DEF S

SameShape ==
  \A x \in Maps : /\ maps'[x].kind = maps[x].kind /\ maps'[x].default = maps[x].default
                  /\ maps'[x].convs = maps[x].convs /\ maps'[x].hash = maps[x].hash

(* What changes caches and limits alone keeps the links and the columns. *)
LEMMA ShapeKept ==
  ASSUME TmInv, SameShape, UNCHANGED <<typemap, refit>>
  PROVE  /\ Wired' /\ FitsStill'
         /\ \A r \in Res : /\ Linked(typemap[r])' \subseteq Linked(typemap[r])
                           /\ Linked(typemap[r]) \subseteq Maps
<1>1. Wired
  BY DEF TmInv
<1>2. \A r \in Res : Place(r) \subseteq Maps /\ typemap[r] \in Place(r)
  BY <1>1, PlaceInMaps DEF Wired
<1>3. \A r \in Res : Linked(typemap[r]) \subseteq Maps
  BY <1>1, <1>2, LinkedOfResult
<1>4. ASSUME NEW r \in Res PROVE Linked(typemap[r])' \subseteq Linked(typemap[r])
  <2>1. \A x \in Linked(typemap[r]) : maps'[x].default = maps[x].default
    BY <1>3 DEF SameShape
  <2>2. QED
    BY <1>1, <2>1, LinkedKept
<1>5. Wired'
  <2>1. \A S \in SUBSET Maps : Closed(maps, S) => Closed(maps', S)
    BY DEF Closed, SameShape
  <2>2. {AllStrings} \cup User \subseteq Maps /\ OidMaps \subseteq Maps
        /\ DOMAIN ColumnMaps \subseteq Maps /\ Built \subseteq Maps /\ AllStrings \in Maps
    BY DEF Maps, User
  <2>3. Closed(maps', {AllStrings} \cup User) /\ \A r \in Res : Closed(maps', Place(r))
    BY <1>1, <1>2, <2>1, <2>2 DEF Wired
  <2>4. QED
    BY <1>1, <2>2, <2>3 DEF Wired, SameShape
<1>6. FitsStill'
  <2>1. ASSUME NEW r \in Res \ refit', NEW x \in Linked(typemap[r])', maps'[x].kind = "column"
        PROVE  Len(maps'[x].convs) = Len(Results[r].oids)
    <3>1. x \in Linked(typemap[r]) /\ x \in Maps /\ r \in Res \ refit
      BY <1>3, <1>4, <2>1
    <3>2. QED
      BY <2>1, <3>1 DEF TmInv, FitsStill, SameShape
  <2>2. QED
    BY <2>1 DEF FitsStill
<1>7. QED
  BY <1>3, <1>4, <1>5, <1>6

(* Adding and removing a coder change the hash and the entry together. *)
LEMMA EntryStep ==
  ASSUME TmInv, NEW m \in OidMaps, NEW o \in Oids, NEW v \in Coded, v \notin freed, NEW e \in Entry,
         e = [oid |-> o, coder |-> v] \/ (e = Empty /\ v = NoCoder),
         maps' = [maps EXCEPT ![m].cache[Slot(o)] = e],
         hash' = [hash EXCEPT ![m][o] = v],
         shared' = shared \cup Sharing(m),
         UNCHANGED <<typemap, freed, refit>>
  PROVE  TmInv'
<1>1. TmTypeOK /\ Wired /\ m \in Maps /\ Slot(o) \in 0..(CacheSize - 1)
  BY OidFacts, SlotInRange DEF TmInv, Maps, User
<1>2. /\ maps'[m].cache = [maps[m].cache EXCEPT ![Slot(o)] = e]
      /\ maps'[m].kind = maps[m].kind /\ maps'[m].default = maps[m].default
      /\ maps'[m].convs = maps[m].convs /\ maps'[m].hash = maps[m].hash
      /\ maps'[m] \in MapRecord
  <2>1. maps[m] \in MapRecord
    BY <1>1 DEF TmTypeOK
  <2>2. maps'[m] = [maps[m] EXCEPT !.cache[Slot(o)] = e]
    BY <1>1 DEF TmTypeOK
  <2> DEFINE n == [maps[m].cache EXCEPT ![Slot(o)] = e]
  <2>3. n \in [0..(CacheSize - 1) -> Entry]
    BY <1>1, <2>1 DEF MapRecord
  <2>4. maps'[m] = [maps[m] EXCEPT !.cache = n]
    BY <2>1, <2>2
  <2> HIDE DEF n
  <2>5. maps'[m].cache = n
    BY <2>1, <2>4 DEF MapRecord
  <2>6. /\ maps'[m].kind = maps[m].kind /\ maps'[m].default = maps[m].default
        /\ maps'[m].convs = maps[m].convs /\ maps'[m].hash = maps[m].hash
    BY <2>1, <2>4 DEF MapRecord
  <2>7. maps'[m] \in MapRecord
    BY <2>1, <2>3, <2>4 DEF MapRecord
  <2>8. QED
    BY <2>5, <2>6, <2>7 DEF n
<1>3. \A x \in Maps : x # m => maps'[x] = maps[x]
  BY <1>1 DEF TmTypeOK
<1>4. /\ \A p \in Oids : hash'[m][p] = IF p = o THEN v ELSE hash[m][p]
      /\ \A x \in OidMaps : x # m => hash'[x] = hash[x]
      /\ hash' \in [OidMaps -> [Oids -> Coded]]
  BY <1>1 DEF TmTypeOK
<1>5. TmTypeOK'
  BY <1>1, <1>2, <1>3, <1>4 DEF TmTypeOK
<1>6. SameShape
  BY <1>2, <1>3 DEF SameShape
<1>7. Wired' /\ FitsStill' /\ \A r \in Res : /\ Linked(typemap[r])' \subseteq Linked(typemap[r])
                                            /\ Linked(typemap[r]) \subseteq Maps
  BY <1>6, ShapeKept
<1>8. AgreesWith(maps'[m], hash'[m])
  <2>1. ASSUME NEW p \in Oids, Hit(maps'[m], p) PROVE maps'[m].cache[Slot(p)].coder = hash'[m][p]
    <3>1. Slot(p) \in 0..(CacheSize - 1) /\ maps[m].cache \in [0..(CacheSize - 1) -> Entry]
      BY <1>1, OidFacts, SlotInRange DEF TmTypeOK, MapRecord
    <3>2. CASE Slot(p) = Slot(o)
      <4>1. maps'[m].cache[Slot(p)] = e
        BY <1>2, <3>1, <3>2, ZenonT(30)
      <4>2. p = o /\ e.coder = v
        BY <2>1, <4>1 DEF Hit, Empty
      <4>3. QED
        BY <1>4, <4>1, <4>2
    <3>3. CASE Slot(p) # Slot(o)
      <4>1. maps'[m].cache[Slot(p)] = maps[m].cache[Slot(p)]
        BY <1>2, <3>1, <3>3
      <4>2. Hit(maps[m], p) /\ p # o
        BY <2>1, <3>3, <4>1 DEF Hit
      <4>3. QED
        BY <1>4, <4>1, <4>2 DEF TmInv, CachesAgree, AgreesWith
    <3>4. QED
      BY <3>2, <3>3
  <2>2. QED
    BY <2>1 DEF AgreesWith
<1>9. CachesAgree'
  <2>1. ASSUME NEW x \in OidMaps PROVE AgreesWith(maps'[x], hash'[x])
    <3>1. CASE x = m
      BY <1>8, <3>1
    <3>2. CASE x # m
      <4>1. maps'[x] = maps[x] /\ hash'[x] = hash[x]
        BY <1>3, <1>4, <3>2 DEF Maps, User
      <4>2. QED
        BY <4>1 DEF TmInv, CachesAgree
    <3>3. QED
      BY <3>1, <3>2
  <2>2. QED
    BY <2>1 DEF CachesAgree, AgreesWith, Hit
<1>10. CopiesAgree'
  <2>1. ASSUME NEW r \in Res \ shared', NEW b \in Linked(typemap[r])',
               b \in Built, maps'[b].kind = "oid"
        PROVE  AgreesWith(maps'[b], hash'[maps'[b].hash])
    <3>1. b \in Linked(typemap[r]) /\ r \notin shared /\ r \notin Sharing(m) /\ b \in Maps
      BY <1>7, <2>1 DEF Maps
    <3>2. b # m
      BY <2>1, MapsAssumption DEF User
    <3>3. maps'[b] = maps[b]
      BY <1>3, <3>1, <3>2
    <3>4. maps[b].hash # m /\ maps[b].hash \in OidMaps
      BY <1>1, <2>1, <3>1, <3>3 DEF Sharing, Wired
    <3>5. QED
      BY <1>4, <2>1, <3>1, <3>3, <3>4 DEF TmInv, CopiesAgree
  <2>2. QED
    BY <2>1 DEF CopiesAgree, AgreesWith, Hit
<1>11. HoldsCoders'
  <2>1. \A x \in OidMaps : \A p \in Oids : hash'[x][p] \notin freed'
    BY <1>4 DEF TmInv, HoldsCoders
  <2>2. \A x \in Maps : maps'[x].convs = maps[x].convs
    BY <1>6 DEF SameShape
  <2>3. QED
    BY <2>1, <2>2 DEF TmInv, HoldsCoders
<1>12. QED
  BY <1>5, <1>7, <1>9, <1>10, <1>11 DEF TmInv


LEMMA CachedShape ==
  ASSUME hash \in [OidMaps -> [Oids -> Coded]],
         NEW x \in MapRecord, x.hash \in OidMaps, NEW o \in Oids
  PROVE  /\ Cached(x, o) \in MapRecord
         /\ Cached(x, o).kind = x.kind /\ Cached(x, o).default = x.default
         /\ Cached(x, o).convs = x.convs /\ Cached(x, o).hash = x.hash
<1> DEFINE v == pg_tmbo_lookup_oid(x, o)
           e == [oid |-> o, coder |-> v]
           n == [x.cache EXCEPT ![Slot(o)] = e]
<1>1. o \in Nat /\ Slot(o) \in 0..(CacheSize - 1)
  BY OidFacts, SlotInRange
<1>2. x.cache[Slot(o)] \in Entry
  BY <1>1 DEF MapRecord
<1>3. v \in Coded
  BY <1>2 DEF pg_tmbo_lookup_oid, Entry
<1>4. e \in Entry
  BY <1>1, <1>3 DEF Entry
<1> HIDE DEF e
<1>5. n \in [0..(CacheSize - 1) -> Entry]
  BY <1>1, <1>4 DEF MapRecord
<1>6. Cached(x, o) = [x EXCEPT !.cache = n]
  BY DEF Cached, e
<1> HIDE DEF n
<1>7. QED
  BY <1>5, <1>6 DEF MapRecord

(* A step that changes nothing but caches and limits, and no cache that    *)
(* agrees with its hash into one that does not.                            *)
LEMMA CacheOnly ==
  ASSUME TmInv, maps' \in [Maps -> MapRecord], SameShape,
         UNCHANGED <<hash, typemap, freed, refit, shared>>,
         \A x \in Maps : maps[x].kind = "oid" /\ AgreesWith(maps[x], hash[maps[x].hash])
                           => AgreesWith(maps'[x], hash[maps[x].hash])
  PROVE  TmInv'
<1>1. TmTypeOK' /\ Wired /\ OidMaps \subseteq Maps
  BY DEF TmInv, TmTypeOK, Maps, User
<1>2. Wired' /\ FitsStill' /\ \A r \in Res : /\ Linked(typemap[r])' \subseteq Linked(typemap[r])
                                            /\ Linked(typemap[r]) \subseteq Maps
  BY ShapeKept
<1>3. CachesAgree'
  <2>1. ASSUME NEW m \in OidMaps PROVE AgreesWith(maps'[m], hash'[m])
    <3>1. m \in Maps /\ maps[m].kind = "oid" /\ maps[m].hash = m
      BY <1>1 DEF Wired
    <3>2. AgreesWith(maps[m], hash[maps[m].hash])
      BY <3>1 DEF TmInv, CachesAgree
    <3>3. QED
      BY <3>1, <3>2
  <2>2. QED
    BY <2>1 DEF CachesAgree, AgreesWith, Hit
<1>4. CopiesAgree'
  <2>1. ASSUME NEW r \in Res \ shared', NEW b \in Linked(typemap[r])',
               b \in Built, maps'[b].kind = "oid"
        PROVE  AgreesWith(maps'[b], hash'[maps'[b].hash])
    <3>1. b \in Linked(typemap[r]) /\ r \in Res \ shared /\ b \in Maps
      BY <1>2, <2>1
    <3>2. maps[b].kind = "oid" /\ maps'[b].hash = maps[b].hash
      BY <2>1, <3>1 DEF SameShape
    <3>3. AgreesWith(maps[b], hash[maps[b].hash])
      BY <2>1, <3>1, <3>2 DEF TmInv, CopiesAgree
    <3>4. AgreesWith(maps'[b], hash[maps[b].hash])
      BY <3>1, <3>2, <3>3
    <3>5. QED
      BY <3>2, <3>4
  <2>2. QED
    BY <2>1 DEF CopiesAgree, AgreesWith, Hit
<1>5. HoldsCoders'
  BY DEF TmInv, HoldsCoders, SameShape
<1>6. QED
  BY <1>1, <1>2, <1>3, <1>4, <1>5 DEF TmInv

LEMMA MaxStep ==
  ASSUME TmInv, NEW m \in OidMaps, NEW n \in MaxRows, max_rows_for_online_lookup_set(m, n)
  PROVE  TmInv'
<1>1. /\ maps \in [Maps -> MapRecord] /\ m \in Maps /\ n \in Nat
      /\ maps' = [maps EXCEPT ![m].max = n]
      /\ UNCHANGED <<hash, typemap, freed, refit, shared>>
  BY TypeMapAssumption DEF TmInv, TmTypeOK, Maps, User, max_rows_for_online_lookup_set
<1>2. ASSUME NEW x \in Maps
      PROVE  /\ maps'[x] \in MapRecord
             /\ maps'[x].kind = maps[x].kind /\ maps'[x].default = maps[x].default
             /\ maps'[x].convs = maps[x].convs /\ maps'[x].hash = maps[x].hash
             /\ maps'[x].cache = maps[x].cache
  <2>1. maps[x] \in MapRecord /\ maps'[x] = IF x = m THEN [maps[x] EXCEPT !.max = n] ELSE maps[x]
    BY <1>1
  <2>2. QED
    BY <1>1, <2>1 DEF MapRecord
<1>3. maps' \in [Maps -> MapRecord] /\ SameShape
  BY <1>1, <1>2 DEF SameShape
<1>4. \A x \in Maps : AgreesWith(maps[x], hash[maps[x].hash]) => AgreesWith(maps'[x], hash[maps[x].hash])
  BY <1>2 DEF AgreesWith, Hit
<1>5. QED
  BY <1>1, <1>3, <1>4, CacheOnly

LEMMA AskedLinked == \A r \in Res : \A f : Asked(r, f) \subseteq Linked(typemap[r])
BY DEF Asked, Linked

LEMMA ReadStep ==
  ASSUME TmInv, NEW r \in Res, NEW f \in DOMAIN Results[r].oids, typecast_result_value(r, f)
  PROVE  TmInv'
<1> DEFINE o == Results[r].oids[f]
           ReadOf == {x \in Maps : x \in Asked(r, f) /\ maps[x].kind = "oid"}
<1>1. /\ TmTypeOK /\ Wired /\ o \in Oids
      /\ maps' = [x \in Maps |-> IF x \in ReadOf THEN Cached(maps[x], o) ELSE maps[x]]
      /\ UNCHANGED <<hash, typemap, freed, refit, shared>>
  BY OidFacts DEF TmInv, typecast_result_value
<1> HIDE DEF o
<1>2. ASSUME NEW x \in ReadOf PROVE maps[x] \in MapRecord /\ maps[x].hash \in OidMaps
  <2>1. x \in OidMaps \/ x \in Built
    BY <1>1, <1>2 DEF Wired, Maps, User
  <2>2. QED
    BY <1>1, <2>1 DEF TmTypeOK, Wired
<1>3. ASSUME NEW x \in Maps
      PROVE  /\ maps'[x] \in MapRecord
             /\ maps'[x].kind = maps[x].kind /\ maps'[x].default = maps[x].default
             /\ maps'[x].convs = maps[x].convs /\ maps'[x].hash = maps[x].hash
  <2>1. CASE x \in ReadOf
    <3>1. maps'[x] = Cached(maps[x], o)
      BY <1>1, <2>1
    <3>2. QED
      BY <1>1, <1>2, <2>1, <3>1, CachedShape DEF TmTypeOK
  <2>2. CASE x \notin ReadOf
    BY <1>1, <2>2 DEF TmTypeOK
  <2>3. QED
    BY <2>1, <2>2
<1>4. ASSUME NEW x \in Maps, AgreesWith(maps[x], hash[maps[x].hash])
      PROVE  AgreesWith(maps'[x], hash[maps[x].hash])
  <2>1. CASE x \in ReadOf
    <3>1. maps[x] \in Versions(maps[x]) /\ maps'[x] = Cached(maps[x], o) /\ maps[x].hash \in OidMaps
      BY <1>1, <1>2, <1>4, <2>1 DEF Versions
    <3>2. maps'[x] \in Versions(maps[x])
      BY <1>1, <3>1, CachedAgrees DEF TmTypeOK
    <3>3. QED
      BY <3>2 DEF Versions
  <2>2. CASE x \notin ReadOf
    BY <1>1, <1>4, <2>2
  <2>3. QED
    BY <2>1, <2>2
<1>5. maps' \in [Maps -> MapRecord] /\ SameShape
  BY <1>1, <1>3 DEF SameShape
<1>6. QED
  BY <1>1, <1>4, <1>5, CacheOnly


LEMMA CollectStep ==
  ASSUME TmInv, NEW c \in Coders, CollectCoder(c)
  PROVE  TmInv'
<1>1. /\ freed' = freed \cup {c} /\ c \notin Referenced
      /\ UNCHANGED <<maps, hash, typemap, refit, shared>>
  BY DEF CollectCoder
<1>2. TmTypeOK' /\ SameShape
  BY <1>1 DEF TmInv, TmTypeOK, SameShape
<1>3. Wired' /\ FitsStill' /\ \A r \in Res : Linked(typemap[r])' \subseteq Linked(typemap[r])
  BY <1>1, <1>2, ShapeKept
<1>4. CachesAgree' /\ CopiesAgree'
  BY <1>1, <1>3 DEF TmInv, CachesAgree, CopiesAgree, AgreesWith, Hit
<1>5. HoldsCoders'
  <2>1. \A m \in OidMaps : \A o \in Oids : hash[m][o] # c
    BY <1>1 DEF Referenced
  <2>2. \A m \in Maps : \A k \in DOMAIN maps[m].convs : maps[m].convs[k] # c
    BY <1>1 DEF Referenced
  <2>3. QED
    BY <1>1, <2>1, <2>2 DEF TmInv, HoldsCoders
<1>6. QED
  BY <1>2, <1>3, <1>4, <1>5 DEF TmInv

(* The maps of the program. *)
Low == {AllStrings} \cup User

LEMMA LowFacts ==
  /\ Low \subseteq Maps /\ Low \cap Built = {} /\ Built \subseteq Maps
  /\ \A x \in Maps : x \in Low \/ x \in Built
  /\ \A r \in Res : /\ Low \subseteq Place(r) /\ Place(r) \subseteq Maps
                    /\ \A x \in Place(r) : x \in Low \/ (x \in Built /\ x[1] = r)
BY MapsAssumption DEF Low, Maps, Built, Place

LEMMA DefaultStep ==
  ASSUME TmInv, NEW m \in User, NEW d \in User \cup {AllStrings}, default_type_map_set(m, d)
  PROVE  TmInv'
<1>1. /\ TmTypeOK /\ Wired /\ m \in Low /\ d \in Low /\ m # AllStrings
      /\ maps' = [maps EXCEPT ![m].default = d]
      /\ refit' = refit \cup {r \in Res : m \in Linked(typemap[r])}
      /\ UNCHANGED <<hash, typemap, freed, shared>>
  BY TypeMapAssumption DEF TmInv, Low, User, default_type_map_set
<1>2. ASSUME NEW x \in Maps
      PROVE  /\ maps'[x] \in MapRecord
             /\ maps'[x].kind = maps[x].kind /\ maps'[x].cache = maps[x].cache
             /\ maps'[x].convs = maps[x].convs /\ maps'[x].hash = maps[x].hash
             /\ maps'[x].default = IF x = m THEN d ELSE maps[x].default
  <2>1. maps[x] \in MapRecord /\ maps'[x] = IF x = m THEN [maps[x] EXCEPT !.default = d] ELSE maps[x]
    BY <1>1 DEF TmTypeOK
  <2>2. d \in Maps
    BY <1>1, LowFacts
  <2>3. QED
    BY <2>1, <2>2 DEF MapRecord
<1>3. TmTypeOK'
  BY <1>1, <1>2 DEF TmTypeOK
<1>4. \A S \in SUBSET Maps : Low \subseteq S /\ Closed(maps, S) => Closed(maps', S)
  BY <1>1, <1>2 DEF Closed
<1>5. Wired'
  <2>1. Closed(maps', Low) /\ \A r \in Res : Closed(maps', Place(r))
    BY <1>1, <1>4, LowFacts DEF Wired, Low
  <2>2. OidMaps \subseteq Maps /\ DOMAIN ColumnMaps \subseteq Maps /\ AllStrings \in Maps /\ Built \subseteq Maps
    BY DEF Maps, User
  <2>3. maps'[AllStrings].kind = "strings" /\ maps'[AllStrings].default = AllStrings
    BY <1>1, <1>2, <2>2 DEF Wired
  <2>4. /\ \A x \in OidMaps : maps'[x].kind = "oid" /\ maps'[x].hash = x
        /\ \A x \in DOMAIN ColumnMaps : maps'[x].kind = "column"
        /\ \A b \in Built : maps'[b].kind = "oid" => maps'[b].hash \in OidMaps
    BY <1>1, <1>2, <2>2 DEF Wired
  <2>5. \A r \in Res : typemap'[r] \in Place(r)
    BY <1>1 DEF Wired
  <2>6. QED
    BY <2>1, <2>3, <2>4, <2>5 DEF Wired, Low
<1>6. CachesAgree'
  BY <1>1, <1>2 DEF TmInv, CachesAgree, AgreesWith, Hit, Maps, User
<1>7. CopiesAgree'
  <2>1. ASSUME NEW r \in Res \ shared', NEW b \in Linked(typemap[r])',
               b \in Built, maps'[b].kind = "oid"
        PROVE  AgreesWith(maps'[b], hash'[maps'[b].hash])
    <3> DEFINE S == Linked(typemap[r]) \cup Low
    <3>1. /\ typemap[r] \in Linked(typemap[r]) /\ Linked(typemap[r]) \subseteq Maps
          /\ Closed(maps, Linked(typemap[r]))
      BY <1>1, LinkedOfResult DEF Wired
    <3>2. Closed(maps, Low)
      BY <1>1 DEF Wired, Low
    <3>3. Closed(maps', S) /\ typemap[r] \in S
      <4>1. Closed(maps, S) /\ S \subseteq Maps
        BY <3>1, <3>2, LowFacts DEF Closed
      <4>2. QED
        BY <1>4, <3>1, <4>1
    <3>4. b \in S
      <4> HIDE DEF S
      <4>1. LinkedIn(maps', typemap[r]) \subseteq S
        BY <3>3, LinkedWithin
      <4>2. QED
        BY <1>1, <2>1, <4>1, LinkedIs
    <3>5. b \in Linked(typemap[r]) /\ b \in Maps
      BY <2>1, <3>4, LowFacts
    <3>6. AgreesWith(maps[b], hash[maps[b].hash])
      BY <1>1, <1>2, <2>1, <3>5 DEF TmInv, CopiesAgree
    <3>7. QED
      BY <1>1, <1>2, <3>5, <3>6 DEF AgreesWith, Hit
  <2>2. QED
    BY <2>1 DEF CopiesAgree, AgreesWith, Hit
<1>8. HoldsCoders'
  BY <1>1, <1>2 DEF TmInv, HoldsCoders
<1>9. FitsStill'
  <2>1. ASSUME NEW r \in Res \ refit', NEW x \in Linked(typemap[r])', maps'[x].kind = "column"
        PROVE  Len(maps'[x].convs) = Len(Results[r].oids)
    <3>1. r \in Res \ refit /\ m \notin Linked(typemap[r]) /\ Linked(typemap[r]) \subseteq Maps
      BY <1>1, LinkedOfResult DEF Wired
    <3>2. Linked(typemap[r])' \subseteq Linked(typemap[r])
      BY <1>1, <1>2, <3>1, LinkedKept
    <3>3. QED
      BY <1>2, <2>1, <3>1, <3>2 DEF TmInv, FitsStill
  <2>2. QED
    BY <2>1 DEF FitsStill
<1>10. QED
  BY <1>3, <1>5, <1>6, <1>7, <1>8, <1>9 DEF TmInv

LEMMA BlankTyped ==
  Blank \in MapRecord /\ Blank.kind = "none" /\ Blank.default = AllStrings /\ Blank.convs = << >>
BY DEF Blank, NoCache, Empty, MapRecord, Entry, Coded, Maps

(* What is built in the place of a map of the program: a map by column     *)
(* with the coders of the hash, or a copy.                                 *)
WellBuilt(b, u, sub, r) ==
  /\ b \in MapRecord /\ b.default = sub
  /\ b.kind = "oid" => b.hash \in OidMaps /\ AgreesWith(b, hash[b.hash])
  /\ \A k \in DOMAIN b.convs : b.convs[k] \notin freed
  /\ b.kind = "column" => \/ Len(b.convs) = Len(Results[r].oids)
                          \/ maps[u].kind = "column" /\ b.convs = maps[u].convs

LEMMA BuildFacts ==
  ASSUME TmInv, NEW r \in Res, NEW u \in User, NEW sub \in Maps
  PROVE  WellBuilt(BuildMap(maps[u], sub, r), u, sub, r)
<1> DEFINE oids == Results[r].oids
           b == BuildMap(maps[u], sub, r)
<1>1. /\ TmTypeOK /\ Wired /\ u \in Maps /\ maps[u] \in MapRecord
      /\ oids \in Seq(Nat) /\ \A f \in DOMAIN oids : oids[f] \in Oids
  BY TypeMapAssumption, OidFacts DEF TmInv, TmTypeOK, Maps, Res
<1>2. maps[u].kind = "oid" => u \in OidMaps /\ maps[u].hash = u /\ AgreesWith(maps[u], hash[u])
  BY <1>1 DEF Wired, User, TmInv, CachesAgree
<1>3. CASE maps[u].kind = "oid" /\ ~Online(maps[u], r)
  <2> DEFINE cols == Columns(maps[u], oids)
  <2>1. \A f \in DOMAIN oids : pg_tmbo_lookup_oid(maps[u], oids[f]) = hash[u][oids[f]]
    BY <1>1, <1>2, <1>3, LookupAgrees
  <2>2. cols = [f \in DOMAIN oids |-> hash[u][oids[f]]]
    BY <2>1 DEF Columns
  <2>3. /\ cols \in Seq(Coded) /\ Len(cols) = Len(oids)
        /\ \A k \in DOMAIN cols : cols[k] \notin freed
    <3>1. \A f \in DOMAIN oids : hash[u][oids[f]] \in Coded /\ hash[u][oids[f]] \notin freed
      BY <1>1, <1>2, <1>3 DEF TmTypeOK, TmInv, HoldsCoders
    <3> HIDE DEF oids, cols
    <3>2. Len(oids) \in Nat /\ DOMAIN oids = 1..Len(oids)
      BY <1>1
    <3>3. cols = [f \in 1..Len(oids) |-> hash[u][oids[f]]]
      BY <2>2, <3>2
    <3>4. QED
      BY <3>1, <3>2, <3>3
  <2>4. b = [[Blank EXCEPT !.kind = "column", !.convs = cols] EXCEPT !.default = sub]
    BY <1>3 DEF BuildMap, pg_tmbc_init
  <2> HIDE DEF cols, b
  <2>5. b \in MapRecord /\ b.default = sub /\ b.kind = "column" /\ b.convs = cols
    BY <2>3, <2>4, BlankTyped DEF MapRecord
  <2>6. WellBuilt(b, u, sub, r)
    BY <2>3, <2>5 DEF WellBuilt
  <2>7. QED
    BY <2>6 DEF b
<1>4. CASE ~(maps[u].kind = "oid" /\ ~Online(maps[u], r))
  <2>1. b = [maps[u] EXCEPT !.default = sub]
    BY <1>4 DEF BuildMap
  <2> HIDE DEF b
  <2>2. /\ b \in MapRecord /\ b.default = sub /\ b.kind = maps[u].kind /\ b.convs = maps[u].convs
        /\ b.hash = maps[u].hash /\ b.cache = maps[u].cache
    BY <1>1, <2>1 DEF MapRecord
  <2>3. b.kind = "oid" => b.hash \in OidMaps /\ AgreesWith(b, hash[b.hash])
    BY <1>2, <2>2 DEF AgreesWith, Hit
  <2>4. \A k \in DOMAIN b.convs : b.convs[k] \notin freed
    BY <1>1, <2>2 DEF TmInv, HoldsCoders
  <2>5. WellBuilt(b, u, sub, r)
    BY <2>2, <2>3, <2>4 DEF WellBuilt
  <2>6. QED
    BY <2>5 DEF b
<1>5. QED
  BY <1>3, <1>4


(* A map of the program that is fitted to a result stays itself, with all  *)
(* that is behind it, or gets a map built in its place.                    *)
LEMMA FittedFacts ==
  ASSUME TmInv, NEW r \in Res, NEW x \in Low
  PROVE  /\ x \in Linked(x) /\ Linked(x) \subseteq Low /\ Closed(maps, Linked(x))
         /\ maps[x].default \in Low
         /\ \/ Fitted(x, r) = x /\ Fitted(maps[x].default, r) = maps[x].default
            \/ x \in User /\ Fitted(x, r) = <<r, x>>
<1>1. Wired /\ Closed(maps, Low) /\ x \in Place(r) /\ Low \subseteq Place(r)
  BY LowFacts DEF TmInv, Wired, Low
<1>2. x \in Linked(x) /\ Closed(maps, Linked(x))
  BY <1>1, LinkedOfResult
<1>3. Linked(x) \subseteq Low
  <2>1. LinkedIn(maps, x) \subseteq Low
    BY <1>1, LinkedWithin
  <2>2. QED
    BY <2>1, LinkedIs
<1>4. maps[x].default \in Low /\ maps[x].default \in Linked(x)
  BY <1>1, <1>2 DEF Closed
<1>5. Linked(maps[x].default) \subseteq Linked(x)
  <2> DEFINE S == Linked(x)
             d == maps[x].default
  <2>1. d \in S /\ Closed(maps, S)
    BY <1>2, <1>4
  <2>2. LinkedIn(maps, d) \subseteq S
    <3> HIDE DEF S, d
    <3>1. QED
      BY <2>1, LinkedWithin
  <2>3. Linked(d) = LinkedIn(maps, d)
    BY LinkedIs
  <2>4. QED
    BY <2>2, <2>3
<1>6. CASE \A y \in Linked(x) : maps[y].kind = "oid" => Online(maps[y], r)
  BY <1>2, <1>3, <1>4, <1>5, <1>6 DEF Fitted
<1>7. CASE ~\A y \in Linked(x) : maps[y].kind = "oid" => Online(maps[y], r)
  <2>1. Fitted(x, r) = <<r, x>>
    BY <1>7 DEF Fitted
  <2>2. x # AllStrings
    <3>1. SUFFICES ASSUME x = AllStrings PROVE FALSE
      OBVIOUS
    <3>2. Closed(maps, {AllStrings}) /\ maps[AllStrings].kind = "strings"
      BY <1>1 DEF Wired, Closed
    <3>3. LinkedIn(maps, AllStrings) \subseteq {AllStrings}
      BY <3>2, LinkedWithin
    <3>4. QED
      BY <1>7, <3>1, <3>2, <3>3, LinkedIs
  <2>3. QED
    BY <1>2, <1>3, <1>4, <2>1, <2>2 DEF Low
<1>8. QED
  BY <1>6, <1>7

LEMMA FitStep ==
  ASSUME TmInv, NEW r \in Res, NEW m \in User \cup {AllStrings}, pgresult_type_map_set(r, m)
  PROVE  TmInv'
<1> DEFINE FreshMaps(b) == b[2] \in Linked(m) /\ Fitted(b[2], r) = b
           Put(b) == BuildMap(maps[b[2]], Fitted(maps[b[2]].default, r), r)
           Looked(b) == b \in Linked(m) /\ maps[b].kind = "oid" /\ ~Online(maps[b], r)
<1>1. /\ TmTypeOK /\ Wired /\ m \in Low /\ FitsColumns(m, r)
      /\ typemap' = [typemap EXCEPT ![r] = Fitted(m, r)]
      /\ maps' = [b \in Maps |->
           IF b \in Built /\ b[1] = r THEN IF FreshMaps(b) THEN Put(b) ELSE Blank
           ELSE IF Looked(b) THEN AllCached(maps[b], Results[r].oids) ELSE maps[b]]
      /\ refit' = refit \ {r} /\ shared' = shared \ {r} /\ UNCHANGED <<hash, freed>>
  BY DEF TmInv, Low, pgresult_type_map_set
<1>2. Linked(m) \subseteq Low
  BY <1>1, FittedFacts
(* the maps of the program *)
<1>3. ASSUME NEW x \in Low
      PROVE  /\ maps'[x] \in MapRecord
             /\ maps'[x].kind = maps[x].kind /\ maps'[x].default = maps[x].default
             /\ maps'[x].convs = maps[x].convs /\ maps'[x].hash = maps[x].hash
             /\ x \in OidMaps => AgreesWith(maps'[x], hash[x])
  <2>1. x \in Maps /\ x \notin Built /\ maps[x] \in MapRecord
    BY <1>1, LowFacts DEF TmTypeOK
  <2>2. x \in OidMaps => maps[x].hash = x /\ AgreesWith(maps[x], hash[x])
    BY <1>1 DEF Wired, TmInv, CachesAgree
  <2>3. CASE Looked(x)
    <3>1. x \in OidMaps
      BY <1>1, <2>3 DEF Low, User, Wired
    <3>2. maps'[x] = AllCached(maps[x], Results[r].oids)
      BY <1>1, <2>1, <2>3
    <3>3. maps'[x] \in Versions(maps[x])
      BY <1>1, <2>1, <2>2, <3>1, <3>2, AllCachedAgrees DEF TmTypeOK
    <3>4. QED
      BY <2>2, <3>1, <3>3 DEF Versions
  <2>4. CASE ~Looked(x)
    <3>1. maps'[x] = maps[x]
      BY <1>1, <2>1, <2>4
    <3>2. QED
      BY <2>1, <2>2, <3>1
  <2>5. QED
    BY <2>3, <2>4
(* the maps built for other results *)
<1>4. ASSUME NEW b \in Built, b[1] # r PROVE maps'[b] = maps[b]
  <2>1. b \in Maps /\ b \notin Linked(m)
    BY <1>2, LowFacts
  <2>2. QED
    BY <1>1, <1>4, <2>1
(* the maps built for this result *)
<1>5. ASSUME NEW b \in Built, b[1] = r, FreshMaps(b)
      PROVE  /\ b[2] \in User /\ b[2] \in Linked(m)
             /\ maps'[b] \in MapRecord /\ maps'[b].default = Fitted(maps[b[2]].default, r)
             /\ Fitted(maps[b[2]].default, r) \in Place(r)
             /\ maps'[b].kind = "oid" =>
                  maps'[b].hash \in OidMaps /\ AgreesWith(maps'[b], hash[maps'[b].hash])
             /\ \A k \in DOMAIN maps'[b].convs : maps'[b].convs[k] \notin freed
             /\ maps'[b].kind = "column" =>
                  \/ Len(maps'[b].convs) = Len(Results[r].oids)
                  \/ maps[b[2]].kind = "column" /\ maps'[b].convs = maps[b[2]].convs
  <2> DEFINE u == b[2]
             sub == Fitted(maps[u].default, r)
  <2>1. u \in User /\ u \in Low /\ u \in Linked(m) /\ b \in Maps
    BY <1>5, LowFacts DEF Built, Low
  <2>2. maps[u].default \in Low
    BY <2>1, FittedFacts
  <2>3. sub \in Place(r)
    <3>1. sub = maps[u].default \/ (maps[u].default \in User /\ sub = <<r, maps[u].default>>)
      BY <2>2, FittedFacts
    <3>2. QED
      BY <2>2, <3>1, LowFacts DEF Place
  <2>4. sub \in Maps
    BY <2>3, LowFacts
  <2>5. maps'[b] = BuildMap(maps[u], sub, r)
    BY <1>1, <1>5, <2>1
  <2> HIDE DEF u, sub
  <2>6. WellBuilt(maps'[b], u, sub, r)
    BY <2>1, <2>4, <2>5, BuildFacts
  <2>7. QED
    BY <2>1, <2>3, <2>6 DEF u, sub, WellBuilt
<1>6. ASSUME NEW b \in Built, b[1] = r, ~FreshMaps(b) PROVE maps'[b] = Blank
  BY <1>1, <1>6, LowFacts
<1>7. DOMAIN maps' = Maps /\ \A b \in Built : b[1] \in Res
  BY <1>1 DEF Built
<1> HIDE DEF Put, Looked
<1>8. Fitted(m, r) \in Place(r)
  BY <1>1, FittedFacts, LowFacts DEF Place
<1>9. TmTypeOK'
  <2>1. \A x \in Maps : maps'[x] \in MapRecord
    <3>1. ASSUME NEW b \in Built PROVE maps'[b] \in MapRecord
      <4>1. CASE b[1] # r
        BY <1>1, <1>4, <4>1, LowFacts DEF TmTypeOK
      <4>2. CASE b[1] = r /\ FreshMaps(b)
        BY <1>5, <4>2
      <4>3. CASE b[1] = r /\ ~FreshMaps(b)
        BY <1>6, <4>3, BlankTyped
      <4>4. QED
        BY <4>1, <4>2, <4>3
    <3>2. QED
      BY <1>3, <3>1, LowFacts
  <2>2. maps' \in [Maps -> MapRecord]
    <3>1. maps' = [x \in Maps |-> maps'[x]]
      BY <1>1
    <3>2. QED
      BY <2>1, <3>1
  <2>3. Fitted(m, r) \in Maps
    BY <1>8, LowFacts
  <2>4. QED
    BY <1>1, <2>2, <2>3 DEF TmTypeOK
<1>10. Wired'
  <2>1. /\ AllStrings \in Low /\ OidMaps \subseteq Low /\ DOMAIN ColumnMaps \subseteq Low
    BY DEF Low, User
  <2>2. /\ maps'[AllStrings].kind = "strings" /\ maps'[AllStrings].default = AllStrings
        /\ \A x \in OidMaps : maps'[x].kind = "oid" /\ maps'[x].hash = x
        /\ \A x \in DOMAIN ColumnMaps : maps'[x].kind = "column"
    BY <1>1, <1>3, <2>1, ZenonT(60) DEF Wired
  <2>3. ASSUME NEW b \in Built, maps'[b].kind = "oid" PROVE maps'[b].hash \in OidMaps
    <3>1. CASE b[1] # r
      BY <1>1, <1>4, <2>3, <3>1 DEF Wired
    <3>2. CASE b[1] = r /\ FreshMaps(b)
      BY <1>5, <2>3, <3>2
    <3>3. CASE b[1] = r /\ ~FreshMaps(b)
      BY <1>6, <2>3, <3>3, BlankTyped
    <3>4. QED
      BY <3>1, <3>2, <3>3
  <2>4. Closed(maps', Low)
    BY <1>1, <1>3 DEF Closed, Wired, Low
  <2>5. ASSUME NEW q \in Res PROVE Closed(maps', Place(q)) /\ typemap'[q] \in Place(q)
    <3>1. typemap'[q] \in Place(q)
      BY <1>1, <1>8 DEF Wired, TmTypeOK
    <3>2. ASSUME NEW x \in Place(q), x \in Built, x[1] = q PROVE maps'[x].default \in Place(q)
      <4>1. CASE q # r
        BY <1>1, <1>4, <3>2, <4>1 DEF Wired, Closed
      <4>2. CASE q = r /\ FreshMaps(x)
        BY <1>5, <3>2, <4>2
      <4>3. CASE q = r /\ ~FreshMaps(x)
        BY <1>6, <2>1, <3>2, <4>3, BlankTyped, LowFacts
      <4>4. QED
        BY <4>1, <4>2, <4>3
    <3>3. ASSUME NEW x \in Low PROVE maps'[x].default \in Place(q)
      BY <2>4, LowFacts DEF Closed
    <3>4. QED
      BY <3>1, <3>2, <3>3, LowFacts DEF Closed
  <2>6. QED
    BY <2>2, <2>3, <2>4, <2>5 DEF Wired, Low
<1>11. CachesAgree'
  <2>1. \A x \in OidMaps : AgreesWith(maps'[x], hash'[x])
    BY <1>1, <1>3 DEF Low, User
  <2>2. QED
    BY <2>1 DEF CachesAgree, AgreesWith, Hit
<1>12. HoldsCoders'
  <2>1. ASSUME NEW x \in Maps, NEW k \in DOMAIN maps'[x].convs PROVE maps'[x].convs[k] \notin freed
    <3>1. CASE x \in Low
      BY <1>3, <2>1, <3>1 DEF TmInv, HoldsCoders
    <3>2. CASE x \in Built /\ x[1] # r
      BY <1>4, <2>1, <3>2 DEF TmInv, HoldsCoders
    <3>3. CASE x \in Built /\ x[1] = r /\ FreshMaps(x)
      BY <1>5, <2>1, <3>3
    <3>4. CASE x \in Built /\ x[1] = r /\ ~FreshMaps(x)
      BY <1>6, <2>1, <3>4, BlankTyped
    <3>5. QED
      BY <3>1, <3>2, <3>3, <3>4, LowFacts
  <2>2. QED
    BY <1>1, <2>1 DEF TmInv, HoldsCoders
(* other results read on through the same maps *)
<1>13. ASSUME NEW q \in Res, q # r
       PROVE  /\ Linked(typemap[q])' \subseteq Linked(typemap[q])
              /\ \A x \in Linked(typemap[q]) : \/ x \in Low
                                               \/ x \in Built /\ maps'[x] = maps[x]
  <2>1. Linked(typemap[q]) \subseteq Place(q)
    BY <1>1, LinkedOfResult DEF Wired
  <2>2. ASSUME NEW x \in Linked(typemap[q]) PROVE x \in Low \/ (x \in Built /\ maps'[x] = maps[x])
    BY <1>4, <1>13, <2>1, LowFacts
  <2>3. \A x \in Linked(typemap[q]) : maps'[x].default = maps[x].default
    BY <1>3, <2>2
  <2>4. typemap'[q] = typemap[q]
    BY <1>1, <1>13 DEF TmTypeOK
  <2>5. QED
    BY <1>1, <2>2, <2>3, <2>4, LinkedKept
(* this one reads through what took the place of the maps behind m *)
<1>14. ASSUME NEW y \in Linked(typemap[r])'
       PROVE  (y \in Low /\ y \in Linked(m)) \/ (y \in Built /\ y[1] = r /\ FreshMaps(y))
  <2> DEFINE F == {Fitted(x, r) : x \in Linked(m)}
  <2>1. ASSUME NEW x \in Linked(m)
        PROVE  \/ /\ Fitted(x, r) = x /\ x \in Low
                  /\ Fitted(maps[x].default, r) = maps[x].default
               \/ LET b == Fitted(x, r) IN b \in Built /\ b[1] = r /\ b[2] = x /\ FreshMaps(b)
    <3>1. x \in Low
      BY <1>2
    <3>2. CASE x \in User /\ Fitted(x, r) = <<r, x>>
      BY <3>2 DEF Built
    <3>3. QED
      BY <3>1, <3>2, FittedFacts
  <2>2. m \in Linked(m) /\ Closed(maps, Linked(m))
    BY <1>1, FittedFacts
  <2>3. ASSUME NEW x \in Linked(m) PROVE maps'[Fitted(x, r)].default = Fitted(maps[x].default, r)
    <3>1. CASE Fitted(x, r) = x /\ x \in Low /\ Fitted(maps[x].default, r) = maps[x].default
      BY <1>3, <3>1
    <3>2. CASE LET b == Fitted(x, r) IN b \in Built /\ b[1] = r /\ b[2] = x /\ FreshMaps(b)
      BY <1>5, <3>2
    <3>3. QED
      BY <2>1, <3>1, <3>2
  <2>4. Closed(maps', F) /\ Fitted(m, r) \in F
    BY <2>2, <2>3 DEF Closed
  <2>5. typemap'[r] = Fitted(m, r)
    BY <1>1 DEF TmTypeOK
  <2>6. y \in F
    <3> HIDE DEF F
    <3>1. LinkedIn(maps', typemap'[r]) \subseteq F
      BY <2>4, <2>5, LinkedWithin
    <3>2. QED
      BY <1>14, <3>1, LinkedIs
  <2>7. QED
    BY <2>1, <2>6
<1>15. CopiesAgree'
  <2>1. ASSUME NEW q \in Res \ shared', NEW b \in Linked(typemap[q])',
               b \in Built, maps'[b].kind = "oid"
        PROVE  AgreesWith(maps'[b], hash'[maps'[b].hash])
    <3>1. CASE q = r
      BY <1>1, <1>5, <1>14, <2>1, <3>1, LowFacts
    <3>2. CASE q # r
      <4>1. b \in Linked(typemap[q]) /\ maps'[b] = maps[b] /\ q \in Res \ shared
        BY <1>1, <1>13, <2>1, <3>2, LowFacts
      <4>2. QED
        BY <1>1, <2>1, <4>1 DEF TmInv, CopiesAgree
    <3>3. QED
      BY <3>1, <3>2
  <2>2. QED
    BY <2>1 DEF CopiesAgree, AgreesWith, Hit
<1>16. FitsStill'
  <2>1. ASSUME NEW q \in Res \ refit', NEW x \in Linked(typemap[q])', maps'[x].kind = "column"
        PROVE  Len(maps'[x].convs) = Len(Results[q].oids)
    <3>1. CASE q = r
      <4>1. \A y \in Linked(m) : maps[y].kind = "column" => Len(maps[y].convs) = Len(Results[r].oids)
        BY <1>1 DEF FitsColumns
      <4>2. CASE x \in Low /\ x \in Linked(m)
        BY <1>3, <2>1, <3>1, <4>1, <4>2
      <4>3. CASE x \in Built /\ x[1] = r /\ FreshMaps(x)
        BY <1>5, <2>1, <3>1, <4>1, <4>3
      <4>4. QED
        BY <1>14, <2>1, <3>1, <4>2, <4>3
    <3>2. CASE q # r
      <4>1. /\ x \in Linked(typemap[q]) /\ q \in Res \ refit
            /\ maps[x].kind = maps'[x].kind /\ maps[x].convs = maps'[x].convs
        BY <1>1, <1>3, <1>13, <2>1, <3>2
      <4>2. QED
        BY <2>1, <4>1 DEF TmInv, FitsStill
    <3>3. QED
      BY <3>1, <3>2
  <2>2. QED
    BY <2>1 DEF FitsStill
<1>17. QED
  BY <1>9, <1>10, <1>11, <1>12, <1>15, <1>16 DEF TmInv


LEMMA TmInvInit == ASSUME TmInit PROVE TmInv
<1> DEFINE x0(m) == CASE m = AllStrings -> [Blank EXCEPT !.kind = "strings"]
                      [] m \in OidMaps -> pg_tmbo_s_allocate(m)
                      [] m \in DOMAIN ColumnMaps -> pg_tmbc_init(ColumnMaps[m])
                      [] OTHER -> Blank
<1>1. /\ maps = [m \in Maps |-> x0(m)]
      /\ hash = [m \in OidMaps |-> [o \in Oids |-> NoCoder]]
      /\ typemap = [r \in Res |-> AllStrings] /\ freed = {}
  BY DEF TmInit
<1>2. \A m \in Maps : maps[m] = x0(m)
  BY <1>1
<1> HIDE DEF x0
<1>3. AllStrings \in Low /\ AllStrings \in Maps /\ OidMaps \subseteq Maps /\ DOMAIN ColumnMaps \subseteq Maps
  BY DEF Low, Maps, User
<1> DEFINE top == CHOOSE n \in MaxRows : \A k \in MaxRows : k <= n
<1>4. top \in Nat
  BY TypeMapAssumption
<1> HIDE DEF top
<1>5. /\ maps[AllStrings] \in MapRecord /\ maps[AllStrings].kind = "strings"
      /\ maps[AllStrings].default = AllStrings /\ maps[AllStrings].convs = << >>
  <2>1. maps[AllStrings] = [Blank EXCEPT !.kind = "strings"]
    BY <1>2, <1>3, TypeMapAssumption DEF x0
  <2>2. QED
    BY <2>1, BlankTyped DEF MapRecord
<1>6. ASSUME NEW m \in OidMaps
      PROVE  /\ maps[m] \in MapRecord /\ maps[m].kind = "oid" /\ maps[m].hash = m
             /\ maps[m].default = AllStrings /\ maps[m].convs = << >> /\ maps[m].cache = NoCache
  <2>1. maps[m] = [Blank EXCEPT !.kind = "oid", !.hash = m, !.max = top]
    BY <1>2, <1>3, TypeMapAssumption DEF x0, pg_tmbo_s_allocate, top
  <2>2. Blank.cache = NoCache
    BY DEF Blank
  <2>3. QED
    BY <1>4, <2>1, <2>2, BlankTyped DEF MapRecord
<1>7. ASSUME NEW m \in DOMAIN ColumnMaps
      PROVE  maps[m] \in MapRecord /\ maps[m].kind = "column" /\ maps[m].default = AllStrings
  <2>1. maps[m] = [Blank EXCEPT !.kind = "column", !.convs = ColumnMaps[m]]
    BY <1>2, <1>3, TypeMapAssumption DEF x0, pg_tmbc_init
  <2>2. ColumnMaps[m] \in Seq(Coded)
    BY TypeMapAssumption DEF Coded
  <2>3. QED
    BY <2>1, <2>2, BlankTyped DEF MapRecord
<1>8. ASSUME NEW m \in Built PROVE maps[m] = Blank
  <2>1. m \in Maps /\ m # AllStrings /\ m \notin OidMaps /\ m \notin DOMAIN ColumnMaps
    BY LowFacts DEF Low, User
  <2>2. QED
    BY <1>2, <2>1 DEF x0
<1>9. \A m \in Maps : m = AllStrings \/ m \in OidMaps \/ m \in DOMAIN ColumnMaps \/ m \in Built
  BY DEF Maps, User
<1>10. TmTypeOK
  <2>1. \A m \in Maps : maps[m] \in MapRecord
    BY <1>5, <1>6, <1>7, <1>8, <1>9, BlankTyped
  <2>2. maps \in [Maps -> MapRecord]
    BY <1>1, <2>1
  <2>3. QED
    BY <1>1, <1>3, <2>2 DEF TmTypeOK, Coded
<1>11. \A m \in Maps : maps[m].default = AllStrings
  BY <1>5, <1>6, <1>7, <1>8, <1>9, BlankTyped
<1>12. Wired
  <2>1. Closed(maps, {AllStrings} \cup User) /\ \A r \in Res : Closed(maps, Place(r))
    BY <1>3, <1>11, LowFacts DEF Closed, Low
  <2>2. \A r \in Res : typemap[r] \in Place(r)
    BY <1>1, <1>3, LowFacts
  <2>3. \A b \in Built : maps[b].kind # "oid"
    BY <1>8, BlankTyped
  <2>4. QED
    BY <1>5, <1>6, <1>7, <2>1, <2>2, <2>3 DEF Wired
<1>13. CachesAgree
  <2>1. ASSUME NEW m \in OidMaps, NEW o \in Oids, Hit(maps[m], o) PROVE FALSE
    <3>1. Slot(o) \in 0..(CacheSize - 1)
      BY OidFacts, SlotInRange
    <3>2. maps[m].cache[Slot(o)] = Empty
      BY <1>6, <3>1 DEF NoCache
    <3>3. QED
      BY <2>1, <3>2 DEF Hit, Empty
  <2>2. QED
    BY <2>1 DEF CachesAgree, AgreesWith
<1>14. \A r \in Res : Linked(typemap[r]) \subseteq {AllStrings}
  <2>1. Closed(maps, {AllStrings})
    BY <1>5 DEF Closed
  <2>2. LinkedIn(maps, AllStrings) \subseteq {AllStrings}
    BY <2>1, LinkedWithin
  <2>3. QED
    BY <1>1, <2>2, LinkedIs
<1>15. CopiesAgree /\ FitsStill
  BY <1>5, <1>14 DEF CopiesAgree, FitsStill
<1>16. HoldsCoders
  BY <1>1 DEF HoldsCoders
<1>17. QED
  BY <1>10, <1>12, <1>13, <1>15, <1>16 DEF TmInv

LEMMA TmInvStep == ASSUME TmInv, [TmNext]_tmVars PROVE TmInv'
<1>1. ASSUME NEW m \in OidMaps, NEW c \in Coders, pg_tmbo_add_coder(m, c) PROVE TmInv'
  <2>1. /\ OidOf[c] \in Oids /\ c \in Coded /\ c \notin freed
        /\ [oid |-> OidOf[c], coder |-> c] \in Entry
    BY <1>1, OidFacts DEF pg_tmbo_add_coder, Coded, Entry
  <2>2. QED
    BY <1>1, <2>1, EntryStep DEF pg_tmbo_add_coder
<1>2. ASSUME NEW m \in OidMaps, NEW o \in Oids, pg_tmbo_rm_coder(m, o) PROVE TmInv'
  <2>1. NoCoder \in Coded /\ NoCoder \notin freed /\ Empty \in Entry
    BY TypeMapAssumption DEF TmInv, TmTypeOK, Coded, Entry, Empty
  <2>2. QED
    BY <1>2, <2>1, EntryStep DEF pg_tmbo_rm_coder
<1>3. CASE UNCHANGED tmVars
  <2>1. SameShape /\ maps' \in [Maps -> MapRecord] /\ UNCHANGED <<hash, typemap, freed, refit, shared>>
    BY <1>3 DEF tmVars, SameShape, TmInv, TmTypeOK
  <2>2. \A x \in Maps : AgreesWith(maps[x], hash[maps[x].hash]) => AgreesWith(maps'[x], hash[maps[x].hash])
    BY <1>3 DEF tmVars
  <2>3. QED
    BY <2>1, <2>2, CacheOnly
<1>4. QED
  BY <1>1, <1>2, <1>3, MaxStep, DefaultStep, CollectStep, FitStep, ReadStep DEF TmNext

LEMMA TmInvariant == TmSpec => []TmInv
BY TmInvInit, TmInvStep, PTL DEF TmSpec

-----------------------------------------------------------------------------
(* PG::TypeMapByOid: the theorems *)

(* The cache of a map of the program answers what its hash has, for any    *)
(* coders and OIDs, 0 too, and any number of cache entries they share.     *)
THEOREM OidCacheCorrect == TmSpec => []OidCacheAgrees
<1>1. TmInv => OidCacheAgrees
  BY LookupAgrees DEF TmInv, Wired, CachesAgree, OidCacheAgrees
<1>2. QED
  BY <1>1, TmInvariant, PTL

(* A value is never decoded with a coder that the garbage collector has    *)
(* taken, however the maps are linked and whatever was cached, except      *)
(* through a copy whose hash was changed since it was made.                *)
THEOREM CodersReadAlive == TmSpec => []ReadsLiveCoder
<1>1. ASSUME TmInv PROVE ReadsLiveCoder
  <2>1. ASSUME NEW r \in Res \ shared, NEW f \in DOMAIN Results[r].oids, NEW m \in Asked(r, f)
        PROVE  CoderIn(maps[m], r, f) \notin freed
    <3>1. TmTypeOK /\ Wired /\ NoCoder \notin freed
      BY <1>1, TypeMapAssumption DEF TmInv, TmTypeOK
    <3>2. m \in Linked(typemap[r]) /\ m \in Maps
      BY <3>1, AskedLinked, LinkedOfResult DEF Wired
    <3>3. CASE maps[m].kind = "oid"
      <4>1. Results[r].oids[f] \in Oids
        BY OidFacts
      <4>2. maps[m].hash \in OidMaps /\ AgreesWith(maps[m], hash[maps[m].hash])
        <5>1. CASE m \in Low
          BY <1>1, <3>1, <3>3, <5>1 DEF Low, User, Wired, TmInv, CachesAgree
        <5>2. CASE m \in Built
          BY <1>1, <3>1, <3>2, <3>3, <5>2 DEF Wired, TmInv, CopiesAgree
        <5>3. QED
          BY <3>2, <5>1, <5>2, LowFacts
      <4>3. CoderIn(maps[m], r, f) = hash[maps[m].hash][Results[r].oids[f]]
        BY <3>3, <4>1, <4>2, LookupAgrees DEF CoderIn
      <4>4. QED
        BY <1>1, <4>1, <4>2, <4>3 DEF TmInv, HoldsCoders
    <3>4. CASE maps[m].kind # "oid"
      BY <1>1, <3>1, <3>2, <3>4 DEF CoderIn, InColumns, TmInv, HoldsCoders
    <3>5. QED
      BY <3>3, <3>4
  <2>2. QED
    BY <2>1 DEF ReadsLiveCoder
<1>2. QED
  BY <1>1, TmInvariant, PTL

(* Every map by column that a value is read through has a column for it,   *)
(* in the maps of the program and in those that were built for the result, *)
(* unless a map behind the result got another default since the check.     *)
THEOREM ColumnsAlwaysFit == TmSpec => []ReadsFitColumns
<1>1. ASSUME TmInv PROVE ReadsFitColumns
  <2>1. ASSUME NEW r \in Res \ refit, NEW f \in DOMAIN Results[r].oids, NEW m \in Asked(r, f),
               maps[m].kind = "column"
        PROVE  InColumns(maps[m], f)
    <3>1. TmTypeOK /\ Wired
      BY <1>1 DEF TmInv
    <3>2. m \in Linked(typemap[r]) /\ m \in Maps
      BY <3>1, AskedLinked, LinkedOfResult DEF Wired
    <3>3. Len(maps[m].convs) = Len(Results[r].oids)
      BY <1>1, <2>1, <3>2 DEF TmInv, FitsStill
    <3>4. maps[m].convs \in Seq(Coded) /\ Results[r].oids \in Seq(Nat)
      BY <3>1, <3>2, TypeMapAssumption DEF TmTypeOK, MapRecord, Res
    <3>5. DOMAIN maps[m].convs = DOMAIN Results[r].oids
      BY <3>3, <3>4
    <3>6. QED
      BY <2>1, <3>5 DEF InColumns
  <2>2. QED
    BY <2>1 DEF ReadsFitColumns
<1>2. QED
  BY <1>1, TmInvariant, PTL

-----------------------------------------------------------------------------
(* alloc_query_params for every size of the pool, every list of parameters *)
(* and every chain of type maps: nothing is written beyond the memory that *)
(* was provided, and libpq finds the parameters intact, as long as the     *)
(* encoders keep to their contract.                                        *)

ParamPtrs ==
  {NullPtr} \cup [ptr : {"string"}, same : BOOLEAN]
    \cup [ptr : {"buf"}, chunk : Nat, at : Nat, kept : Nat, touched : Nat]

QpTypeOK ==
  /\ qstep \in {"fit", "ask", "encode", "send", "sent", "raised"}
  /\ with_types \in BOOLEAN /\ heap_pool \in BOOLEAN
  /\ params \in ParamLists /\ qmap \in QueryMaps
  /\ asked \in Nat \ {0} /\ field \in Nat
  /\ required_pool_size \in Nat
  /\ typecast_buf \in [chunk : Nat, at : Nat]
  /\ heap_chain \in Seq(Nat)
  /\ formats \in Seq(Int) /\ lengths \in Seq(Int) /\ vals \in Seq(ParamPtrs)

(* The parameters before field are done. *)
QpProgress ==
  /\ Len(formats) = Len(vals) /\ Len(lengths) = Len(vals)
  /\ qstep = "fit" => vals = <<>> /\ field = 1 /\ heap_chain = <<>>
  /\ qstep \in {"ask", "encode"} => field = Len(vals) + 1 /\ field <= Len(params)

(* The maps that were asked, then all of them, fit to the parameters. *)
MapsFit ==
  /\ qstep = "fit" =>
       \A k \in 1..Len(qmap) : k < asked /\ qmap[k].kind = "column" => Fits(qmap[k])
  /\ qstep \in {"ask", "encode"} =>
       \A k \in 1..Len(qmap) : qmap[k].kind = "column" => Fits(qmap[k])

(* The key to the reuse of chunks: the chunk in use has at least the room  *)
(* that the bookkeeping of the pool says there is.                         *)
RoomLeft ==
  qstep # "raised" =>
    /\ typecast_buf.chunk = Len(heap_chain)
    /\ typecast_buf.chunk = 0 => typecast_buf.at = required_pool_size /\ required_pool_size <= PoolSize
    /\ typecast_buf.chunk > 0 =>
         /\ typecast_buf.at <= heap_chain[typecast_buf.chunk]
         /\ PoolSize - required_pool_size <= heap_chain[typecast_buf.chunk] - typecast_buf.at
    /\ qstep \in {"ask", "encode", "send"} /\ typecast_buf.chunk = 0 =>
         typecast_buf.at >= ArraysInPool

ValueInside(i) ==
  /\ vals[i].chunk <= Len(heap_chain)
  /\ vals[i].at + vals[i].touched <= SizeOf(vals[i].chunk)
ValueBehind(i) ==
  /\ vals[i].chunk <= typecast_buf.chunk
  /\ vals[i].chunk = typecast_buf.chunk => vals[i].at + vals[i].kept <= typecast_buf.at
  /\ qstep \in {"ask", "encode", "send"} /\ vals[i].chunk = 0 => vals[i].at >= ArraysInPool

(* Values lie within their chunk, before typecast_buf and in order. *)
ValuesPlaced ==
  /\ \A i \in 1..Len(vals) : vals[i].ptr = "buf" => ValueInside(i) /\ ValueBehind(i)
  /\ \A i, j \in 1..Len(vals) :
       i < j /\ vals[i].ptr = "buf" /\ vals[j].ptr = "buf" /\ vals[i].chunk = vals[j].chunk
         => vals[i].at + vals[i].kept <= vals[j].at

ValuesHeld ==
  \A i \in 1..Len(vals) :
    /\ vals[i].ptr = "string" => vals[i].same \/ i \in gc_array
    /\ formats[i] # 0 => lengths[i] # Unset

QpInv == QpTypeOK /\ QpProgress /\ MapsFit /\ RoomLeft /\ ValuesPlaced /\ ValuesHeld

-----------------------------------------------------------------------------
(* Appending to a sequence adds one element and leaves the others. *)
LEMMA AppendFacts ==
  ASSUME NEW S, NEW s \in Seq(S), NEW e \in S
  PROVE  /\ Append(s, e) \in Seq(S)
         /\ Len(s) \in Nat
         /\ DOMAIN s = 1..Len(s)
         /\ Len(Append(s, e)) = Len(s) + 1
         /\ \A i \in 1..Len(s) : Append(s, e)[i] = s[i]
         /\ Append(s, e)[Len(s) + 1] = e
OBVIOUS

(* The arrays take a whole number of bytes. *)
LEMMA ArraysSizeNat ==
  ASSUME NEW n \in Nat, NEW types \in BOOLEAN
  PROVE  ArraysSize(n, types) \in Nat
<1>1. CASE types
  BY <1>1 DEF ArraysSize
<1>2. CASE ~types
  BY <1>2 DEF ArraysSize
<1> QED BY <1>1, <1>2

(* The invariant holds before the type map is asked. *)
LEMMA QpInitInv == QpInit => QpInv
<1> SUFFICES ASSUME QpInit PROVE QpInv
  OBVIOUS
<1> USE DEF QpInit
<1>1. QpTypeOK
  <2>1. heap_pool \in BOOLEAN /\ with_types \in BOOLEAN
    BY Zenon
  <2>2. <<>> \in Seq(Nat) /\ <<>> \in Seq(Int) /\ <<>> \in Seq(ParamPtrs)
    OBVIOUS
  <2> QED BY <2>1, <2>2 DEF QpTypeOK
<1>2. QpProgress /\ ValuesPlaced /\ ValuesHeld
  BY DEF QpProgress, ValuesPlaced, ValuesHeld
<1>3. MapsFit
  BY DEF MapsFit
<1>4. RoomLeft
  BY PoolAssumption DEF RoomLeft
<1> QED BY <1>1, <1>2, <1>3, <1>4 DEF QpInv

(* An exception changes nothing that the invariant is about. *)
LEMMA RaiseInv == QpInv /\ Raise => QpInv'
<1> SUFFICES ASSUME QpInv, Raise PROVE QpInv'
  OBVIOUS
<1> USE DEF QpInv, Raise, paramVars, poolVars, outVars
<1>1. QpTypeOK'
  BY DEF QpTypeOK
<1>2. QpProgress' /\ MapsFit' /\ RoomLeft' /\ ValuesHeld'
  BY DEF QpProgress, MapsFit, RoomLeft, ValuesHeld
<1>3. ValuesPlaced'
  BY DEF ValuesPlaced, ValueInside, ValueBehind, SizeOf, ArraysInPool, nParams
<1> QED BY <1>1, <1>2, <1>3 DEF QpInv

(* Asking the default of a map, once the map itself fits. *)
LEMMA AskDefaultInv ==
  ASSUME QpInv, AskDefault, qstep \in {"fit", "ask"}, asked \in 1..Len(qmap),
         qstep = "fit" /\ qmap[asked].kind = "column" => Fits(qmap[asked])
  PROVE  QpInv'
<1> USE DEF QpInv, AskDefault, paramVars, poolVars, outVars
<1>1. QpTypeOK'
  BY DEF QpTypeOK
<1>2. QpProgress' /\ RoomLeft' /\ ValuesHeld'
  BY DEF QpProgress, RoomLeft, ValuesHeld, ArraysInPool, nParams
<1>3. MapsFit'
  <2>1. /\ Len(qmap) \in Nat /\ asked \in Nat /\ asked' = asked + 1
        /\ qmap' = qmap /\ params' = params /\ qstep' = qstep
    BY ListsAssumption DEF QpTypeOK
  <2>2. \A k \in 1..Len(qmap) : Fits(qmap[k])' = Fits(qmap[k])
    BY <2>1 DEF Fits, nParams
  <2>3. ASSUME qstep = "fit", NEW k \in 1..Len(qmap), k < asked + 1, qmap[k].kind = "column"
        PROVE  Fits(qmap[k])
    <3>1. CASE k < asked
      BY <2>3, <3>1 DEF MapsFit
    <3>2. CASE k = asked
      BY <2>3, <3>2
    <3> QED BY <2>1, <2>3, <3>1, <3>2
  <2>4. qstep \in {"ask", "encode"} =>
          \A k \in 1..Len(qmap) : qmap[k].kind = "column" => Fits(qmap[k])
    BY DEF MapsFit
  <2> QED BY <2>1, <2>2, <2>3, <2>4 DEF MapsFit, Fits, nParams
<1>4. ValuesPlaced'
  BY DEF ValuesPlaced, ValueInside, ValueBehind, SizeOf, ArraysInPool, nParams
<1> QED BY <1>1, <1>2, <1>3, <1>4 DEF QpInv

(* An answer of a type map: the question ends. *)
LEMMA AnswerInv ==
  ASSUME NEW c, QpInv, Answer(c), qstep = "ask"
  PROVE  QpInv'
<1> USE DEF QpInv, Answer, paramVars, poolVars, outVars
<1>1. QpTypeOK'
  BY DEF QpTypeOK
<1>2. QpProgress' /\ MapsFit' /\ RoomLeft' /\ ValuesHeld'
  BY DEF QpProgress, MapsFit, RoomLeft, ValuesHeld, ArraysInPool, nParams, Fits
<1>3. ValuesPlaced'
  BY DEF ValuesPlaced, ValueInside, ValueBehind, SizeOf, ArraysInPool, nParams
<1> QED BY <1>1, <1>2, <1>3 DEF QpInv

(* The arrays are either in the pool, in front of the values, or not. *)
LEMMA AllocArraysInv == QpInv /\ AllocArrays => QpInv'
<1> SUFFICES ASSUME QpInv, AllocArrays PROVE QpInv'
  OBVIOUS
<1> USE DEF QpInv, AllocArrays, paramVars, outVars
<1>1. Len(params) \in Nat /\ ArraysSize(nParams, with_types) \in Nat
  BY ListsAssumption, ArraysSizeNat DEF QpTypeOK, nParams
<1>2. QpTypeOK'
  BY <1>1, PoolAssumption DEF QpTypeOK
<1>3. vals = <<>> /\ Len(vals) = 0
  BY DEF QpProgress
<1>4. QpProgress' /\ ValuesHeld' /\ ValuesPlaced'
  BY <1>1, <1>3 DEF QpProgress, ValuesHeld, ValuesPlaced, nParams
<1>5. MapsFit'
  BY ListsAssumption DEF MapsFit, QpTypeOK, Fits, nParams
<1>6. RoomLeft'
  <2>1. Len(heap_chain') = 0 /\ typecast_buf'.chunk = 0
    BY DEF QpProgress
  <2>2. typecast_buf'.at = required_pool_size' /\ required_pool_size' <= PoolSize
    BY <1>1, PoolAssumption
  <2>3. required_pool_size' >= ArraysInPool'
    <3>1. CASE PoolSize < ArraysSize(nParams, with_types)
      <4>1. heap_pool'
        BY <3>1
      <4> QED BY <3>1, <4>1 DEF ArraysInPool
    <3>2. CASE ~(PoolSize < ArraysSize(nParams, with_types))
      <4>1. ~heap_pool'
        BY <3>2
      <4> QED BY <1>1, <3>2, <4>1 DEF ArraysInPool, nParams
    <3> QED BY <3>1, <3>2
  <2> QED BY <2>1, <2>2, <2>3 DEF RoomLeft
<1> QED BY <1>2, <1>4, <1>5, <1>6 DEF QpInv

-----------------------------------------------------------------------------
(* A parameter that is done without writing to the pool: NULL or a String. *)
LEMMA DirectInv ==
  ASSUME NEW v \in ParamPtrs, NEW n \in Int, QpInv, NextParam(v, n), qstep = "encode",
         Format \in Int, n # Unset, v.ptr # "buf",
         v.ptr = "string" => v.same \/ field \in gc_array',
         gc_array \subseteq gc_array',
         UNCHANGED <<required_pool_size, typecast_buf, heap_chain>>
  PROVE  QpInv'
<1> USE DEF QpInv, NextParam, paramVars
<1>1. /\ vals \in Seq(ParamPtrs) /\ formats \in Seq(Int) /\ lengths \in Seq(Int)
      /\ Len(vals) \in Nat /\ field = Len(vals) + 1 /\ field <= Len(params)
      /\ Len(formats) = Len(vals) /\ Len(lengths) = Len(vals) /\ Len(params) \in Nat
  BY ListsAssumption DEF QpTypeOK, QpProgress
<1>2. /\ vals' \in Seq(ParamPtrs) /\ formats' \in Seq(Int) /\ lengths' \in Seq(Int)
      /\ Len(vals') = field /\ Len(formats') = field /\ Len(lengths') = field
      /\ \A i \in 1..Len(vals) :
           vals'[i] = vals[i] /\ formats'[i] = formats[i] /\ lengths'[i] = lengths[i]
      /\ vals'[field] = v /\ lengths'[field] = n
  BY <1>1, AppendFacts
<1>3. QpTypeOK'
  BY <1>1, <1>2 DEF QpTypeOK, nParams
<1>4. QpProgress' /\ MapsFit'
  BY <1>1, <1>2 DEF QpProgress, MapsFit, nParams, Fits
<1>5. RoomLeft'
  BY DEF RoomLeft, ArraysInPool, nParams
<1>6. ValuesPlaced'
  <2>1. ASSUME NEW i \in 1..Len(vals'), vals'[i].ptr = "buf"
        PROVE  i \in 1..Len(vals) /\ vals'[i] = vals[i]
    BY <1>1, <1>2, <2>1
  <2> QED
    BY <2>1 DEF ValuesPlaced, ValueInside, ValueBehind, SizeOf, ArraysInPool, nParams
<1>7. ValuesHeld'
  BY <1>1, <1>2 DEF ValuesHeld
<1> QED BY <1>3, <1>4, <1>5, <1>6, <1>7 DEF QpInv

(* Where a value goes, there is room for what the encoder asked for and a  *)
(* NUL: at the end of the pool, at the end of a chunk that is reused, or   *)
(* in a new chunk.                                                         *)
LEMMA TargetRoom ==
  ASSUME QpInv, qstep = "encode", NEW size \in Nat, alloc_typecast_buf(size)
  PROVE  /\ Target(size) \in [chunk : Nat, at : Nat]
         /\ heap_chain' \in Seq(Nat) /\ Len(heap_chain) \in Nat
         /\ Target(size).chunk = Len(heap_chain')
         /\ Len(heap_chain) <= Len(heap_chain')
         /\ \A k \in 1..Len(heap_chain) : heap_chain'[k] = heap_chain[k]
         /\ Target(size).chunk = 0 => /\ Target(size).at = required_pool_size
                                      /\ required_pool_size + size + 1 <= PoolSize
         /\ Target(size).chunk > 0 =>
              /\ Target(size).at + size + 1 <= heap_chain'[Target(size).chunk]
              /\ PoolSize - required_pool_size
                   <= heap_chain'[Target(size).chunk] - Target(size).at
         /\ \/ Target(size) = typecast_buf
            \/ Target(size).chunk > Len(heap_chain)
<1> USE DEF QpInv, alloc_typecast_buf, Target
<1>1. /\ heap_chain \in Seq(Nat) /\ Len(heap_chain) \in Nat
      /\ required_pool_size \in Nat /\ typecast_buf \in [chunk : Nat, at : Nat]
  BY DEF QpTypeOK
<1>2. CASE NeedsChunk(size)
  <2>1. /\ heap_chain' \in Seq(Nat) /\ Len(heap_chain') = Len(heap_chain) + 1
        /\ \A k \in 1..Len(heap_chain) : heap_chain'[k] = heap_chain[k]
        /\ heap_chain'[Len(heap_chain) + 1] = size + 1
    BY <1>1, <1>2, AppendFacts
  <2>2. Target(size) = [chunk |-> Len(heap_chain) + 1, at |-> 0]
    BY <1>2
  <2>3. PoolSize < required_pool_size + size + 1
    BY <1>2 DEF NeedsChunk
  <2> HIDE DEF alloc_typecast_buf, Target
  <2> QED BY <1>1, <2>1, <2>2, <2>3, PoolAssumption
<1>3. CASE ~NeedsChunk(size)
  <2>1. heap_chain' = heap_chain /\ Target(size) = typecast_buf
    BY <1>3
  <2>2. required_pool_size + size + 1 <= PoolSize
    BY <1>1, <1>3, PoolAssumption DEF NeedsChunk
  <2>3. RoomLeft
    OBVIOUS
  <2> HIDE DEF alloc_typecast_buf, Target
  <2> QED BY <1>1, <2>1, <2>2, <2>3, PoolAssumption DEF RoomLeft
<1> QED BY <1>2, <1>3

(* A parameter that is written to memory: what is kept of it and what was  *)
(* touched is at most what was asked for and a NUL.                        *)
LEMMA PlacedInv ==
  ASSUME QpInv, qstep = "encode", Format \in Int,
         NEW size \in Nat, NEW kept \in Nat, NEW touched \in Nat, NEW n \in Int,
         kept <= size + 1, touched <= size + 1, Format # 0 => n # Unset,
         alloc_typecast_buf(size),
         typecast_buf' = [Target(size) EXCEPT !.at = @ + kept],
         required_pool_size' = required_pool_size + kept,
         NextParam(BufPtr(Target(size), kept, touched), n),
         gc_array' = gc_array
  PROVE  QpInv'
<1>1. PICK to : to = Target(size)
  OBVIOUS
<1>2. PICK v : v = BufPtr(to, kept, touched)
  OBVIOUS
<1>3. PICK f : f = Format
  OBVIOUS
<1>4. /\ to \in [chunk : Nat, at : Nat]
      /\ heap_chain' \in Seq(Nat) /\ Len(heap_chain) \in Nat
      /\ to.chunk = Len(heap_chain') /\ Len(heap_chain) <= Len(heap_chain')
      /\ \A k \in 1..Len(heap_chain) : heap_chain'[k] = heap_chain[k]
      /\ to.chunk = 0 => to.at = required_pool_size /\ required_pool_size + size + 1 <= PoolSize
      /\ to.chunk > 0 => /\ to.at + size + 1 <= heap_chain'[to.chunk]
                         /\ PoolSize - required_pool_size <= heap_chain'[to.chunk] - to.at
      /\ to = typecast_buf \/ to.chunk > Len(heap_chain)
  BY <1>1, TargetRoom
<1>to. /\ to.at \in Nat /\ to.chunk \in Nat /\ to.chunk = Len(heap_chain')
       /\ Len(heap_chain) \in Nat /\ Len(heap_chain) <= to.chunk
       /\ to = typecast_buf \/ to.chunk > Len(heap_chain)
  BY <1>4
<1>old. \A k \in 1..Len(heap_chain) : heap_chain'[k] = heap_chain[k]
  BY <1>4
<1>room. to.chunk > 0 => /\ heap_chain'[to.chunk] \in Nat
                        /\ to.at + size + 1 <= heap_chain'[to.chunk]
                        /\ PoolSize - required_pool_size <= heap_chain'[to.chunk] - to.at
  BY <1>4
<1>5. /\ v \in ParamPtrs /\ v.ptr = "buf" /\ v.chunk = to.chunk /\ v.at = to.at
      /\ v.kept = kept /\ v.touched = touched
  BY <1>2, <1>4 DEF BufPtr, ParamPtrs
<1>6. /\ typecast_buf' \in [chunk : Nat, at : Nat]
      /\ typecast_buf'.chunk = to.chunk /\ typecast_buf'.at = to.at + kept
  BY <1>1, <1>4, SMTT(20)
<1>7. required_pool_size' \in Nat /\ required_pool_size \in Nat
  BY SMTT(20) DEF QpInv, QpTypeOK
<1>8. /\ vals' = Append(vals, v) /\ formats' = Append(formats, f)
      /\ lengths' = Append(lengths, n) /\ f \in Int
      /\ qstep' = IF field = Len(params) THEN "send" ELSE "ask"
      /\ field' = field + 1 /\ asked' = 1
      /\ UNCHANGED <<with_types, params, qmap, heap_pool>>
  BY <1>1, <1>2, <1>3 DEF NextParam, paramVars, nParams
<1>9. /\ vals \in Seq(ParamPtrs) /\ formats \in Seq(Int) /\ lengths \in Seq(Int)
      /\ Len(params) \in Nat
  BY ListsAssumption DEF QpInv, QpTypeOK
<1>10. /\ Len(vals) \in Nat /\ field = Len(vals) + 1 /\ field <= Len(params)
       /\ Len(formats) = Len(vals) /\ Len(lengths) = Len(vals)
  BY <1>9 DEF QpInv, QpProgress
<1>11. vals' \in Seq(ParamPtrs) /\ formats' \in Seq(Int) /\ lengths' \in Seq(Int)
  BY <1>5, <1>8, <1>9
<1>12. Len(vals') = Len(vals) + 1 /\ Len(formats') = Len(vals) + 1 /\ Len(lengths') = Len(vals) + 1
  BY <1>5, <1>8, <1>9, <1>10
<1>13. vals'[field] = v /\ formats'[field] = f /\ lengths'[field] = n
  BY <1>5, <1>8, <1>9, <1>10
<1>14. \A i \in 1..Len(vals) : vals'[i] = vals[i]
  BY <1>5, <1>8, <1>9, SMTT(30)
<1>15. \A i \in 1..Len(vals) : formats'[i] = formats[i] /\ lengths'[i] = lengths[i]
  <2>1. n \in Int
    BY <1>1
  <2>2. \A i \in 1..Len(formats) : formats'[i] = formats[i]
    BY <1>8, <1>9, SMTT(30)
  <2>3. \A i \in 1..Len(lengths) : lengths'[i] = lengths[i]
    BY <1>8, <1>9, <2>1, SMTT(30)
  <2> QED BY <1>10, <2>2, <2>3
<1>16. \A i \in 1..Len(vals') : i \in 1..Len(vals) \/ i = field
  BY <1>10, <1>12
<1>17. QpTypeOK'
  BY <1>4, <1>6, <1>7, <1>8, <1>10, <1>11 DEF QpInv, QpTypeOK
<1>18. QpProgress' /\ MapsFit'
  <2>1. QpProgress'
    BY <1>8, <1>9, <1>10, <1>12 DEF QpProgress
  <2>2. MapsFit'
    BY <1>8 DEF QpInv, MapsFit, Fits, nParams
  <2> QED BY <2>1, <2>2
<1>19. ArraysInPool' = ArraysInPool
  BY <1>8 DEF ArraysInPool, nParams
<1>20. to.chunk = 0 => to = typecast_buf /\ to.at >= ArraysInPool
  BY <1>4 DEF QpInv, RoomLeft
<1>21. ArraysInPool \in Nat
  BY ListsAssumption, ArraysSizeNat DEF QpInv, QpTypeOK, ArraysInPool, nParams
<1>22. RoomLeft'
  <2>1. to.chunk = 0 => to.at + kept = required_pool_size' /\ required_pool_size' <= PoolSize
    BY <1>4, <1>7, PoolAssumption
  <2>2. to.chunk > 0 =>
          /\ to.at + kept <= heap_chain'[to.chunk]
          /\ PoolSize - required_pool_size' <= heap_chain'[to.chunk] - (to.at + kept)
    <3> SUFFICES ASSUME to.chunk > 0
                 PROVE  /\ to.at + kept <= heap_chain'[to.chunk]
                        /\ PoolSize - required_pool_size' <= heap_chain'[to.chunk] - (to.at + kept)
      OBVIOUS
    <3>1. PICK h, r, a : h = heap_chain'[to.chunk] /\ r = required_pool_size /\ a = to.at
      OBVIOUS
    <3>2. /\ h \in Nat /\ a \in Nat /\ r \in Nat /\ a + size + 1 <= h /\ PoolSize - r <= h - a
          /\ required_pool_size' = r + kept
      BY <1>to, <1>room, <1>7, <3>1
    <3>3. a + kept <= h /\ PoolSize - (r + kept) <= h - (a + kept)
      BY <3>2, PoolAssumption
    <3> QED BY <3>1, <3>2, <3>3
  <2>3. to.chunk = 0 => to.at + kept >= ArraysInPool'
    BY <1>4, <1>19, <1>20, <1>21
  <2> QED BY <1>4, <1>6, <2>1, <2>2, <2>3 DEF RoomLeft
<1>23. ValuesPlaced'
  <2>1. v.at + v.touched <= SizeOf(v.chunk)' /\ v.chunk <= Len(heap_chain')
    <3>1. CASE to.chunk = 0
      BY <1>4, <1>5, <3>1, PoolAssumption DEF SizeOf
    <3>2. CASE to.chunk > 0
      <4>1. heap_chain'[to.chunk] \in Nat
        BY <1>4, <3>2
      <4> QED BY <1>4, <1>5, <3>2, <4>1, SMTT(20) DEF SizeOf
    <3> QED BY <1>4, <3>1, <3>2
  <2>2. ASSUME NEW i \in 1..Len(vals), vals[i].ptr = "buf"
        PROVE  /\ vals[i].chunk \in Nat /\ vals[i].at \in Nat /\ vals[i].kept \in Nat
               /\ vals[i].touched \in Nat
               /\ ValueInside(i) /\ ValueBehind(i)
    <3>1. vals[i] \in ParamPtrs
      BY <1>9
    <3>2. vals[i] \in [ptr : {"buf"}, chunk : Nat, at : Nat, kept : Nat, touched : Nat]
      BY <2>2, <3>1 DEF ParamPtrs, NullPtr
    <3> QED BY <2>2, <3>2 DEF QpInv, ValuesPlaced
  <2>3. typecast_buf \in [chunk : Nat, at : Nat] /\ typecast_buf.chunk = Len(heap_chain)
    BY DEF QpInv, QpTypeOK, RoomLeft
  <2>4. ASSUME NEW i \in 1..Len(vals), vals[i].ptr = "buf"
        PROVE  /\ ValueInside(i)'
               /\ vals[i].chunk <= to.chunk
               /\ vals[i].chunk = to.chunk => vals[i].at + vals[i].kept <= to.at
               /\ vals[i].chunk = 0 => vals[i].at >= ArraysInPool
    <3>1. /\ ValueInside(i) /\ ValueBehind(i) /\ vals'[i] = vals[i]
          /\ vals[i].chunk \in Nat /\ vals[i].at \in Nat /\ vals[i].kept \in Nat
      BY <2>2, <2>4, <1>14
    <3>2. SizeOf(vals[i].chunk)' = SizeOf(vals[i].chunk)
      BY <1>to, <1>old, <3>1, SMTT(30) DEF SizeOf, ValueInside
    <3>3. ValueInside(i)'
      BY <1>4, <3>1, <3>2 DEF ValueInside
    <3>4. /\ vals[i].chunk <= to.chunk
          /\ vals[i].chunk = to.chunk => vals[i].at + vals[i].kept <= to.at
      BY <1>to, <2>3, <3>1, SMTT(20) DEF ValueBehind
    <3>5. vals[i].chunk = 0 => vals[i].at >= ArraysInPool
      BY <3>1 DEF ValueBehind
    <3> QED BY <3>3, <3>4, <3>5
  <2>5. ASSUME NEW i \in 1..Len(vals'), vals'[i].ptr = "buf"
        PROVE  ValueInside(i)' /\ ValueBehind(i)'
    <3>1. CASE i = field
      <4>1. vals'[i] = v
        BY <1>13, <3>1
      <4>2. ValueInside(i)'
        BY <2>1, <4>1 DEF ValueInside
      <4>3. ValueBehind(i)'
        <5>1. vals'[i].chunk <= typecast_buf'.chunk
          BY <1>to, <1>5, <1>6, <4>1, SMTT(20)
        <5>2. vals'[i].at + vals'[i].kept <= typecast_buf'.at
          BY <1>to, <1>5, <1>6, <4>1
        <5>3. vals'[i].chunk = 0 => vals'[i].at >= ArraysInPool'
          BY <1>5, <1>19, <1>20, <4>1
        <5> QED BY <5>1, <5>2, <5>3 DEF ValueBehind
      <4> QED BY <4>2, <4>3
    <3>2. CASE i \in 1..Len(vals)
      <4>1. vals'[i] = vals[i] /\ vals[i].ptr = "buf"
        BY <1>14, <2>5, <3>2
      <4>2. /\ ValueInside(i)'
            /\ vals[i].chunk <= to.chunk
            /\ vals[i].chunk = to.chunk => vals[i].at + vals[i].kept <= to.at
            /\ vals[i].chunk = 0 => vals[i].at >= ArraysInPool
            /\ vals[i].at \in Nat /\ vals[i].kept \in Nat
        BY <2>2, <2>4, <3>2, <4>1
      <4>3. ValueBehind(i)'
        <5>1. vals'[i].chunk <= typecast_buf'.chunk
          BY <1>6, <4>1, <4>2
        <5>2. vals'[i].chunk = typecast_buf'.chunk =>
                vals'[i].at + vals'[i].kept <= typecast_buf'.at
          <6> SUFFICES ASSUME vals[i].chunk = to.chunk
                       PROVE  vals[i].at + vals[i].kept <= to.at + kept
            BY <1>6, <4>1
          <6>1. PICK a, b, c : a = vals[i].at /\ b = vals[i].kept /\ c = to.at
            OBVIOUS
          <6>2. a \in Nat /\ b \in Nat /\ c \in Nat /\ a + b <= c
            BY <1>to, <4>2, <6>1
          <6>3. a + b <= c + kept
            BY <6>2
          <6> QED BY <6>1, <6>3
        <5>3. vals'[i].chunk = 0 => vals'[i].at >= ArraysInPool'
          BY <1>19, <4>1, <4>2
        <5> QED BY <5>1, <5>2, <5>3 DEF ValueBehind
      <4> QED BY <4>2, <4>3
    <3> QED BY <1>16, <3>1, <3>2
  <2>6. ASSUME NEW i \in 1..Len(vals'), NEW j \in 1..Len(vals'), i < j,
               vals'[i].ptr = "buf", vals'[j].ptr = "buf",
               vals'[i].chunk = vals'[j].chunk
        PROVE  vals'[i].at + vals'[i].kept <= vals'[j].at
    <3>1. i \in 1..Len(vals)
      BY <1>10, <1>12, <2>6
    <3>2. vals'[i] = vals[i]
      BY <1>14, <3>1
    <3>3. CASE j = field
      <4>1. vals'[j] = v
        BY <1>13, <3>3
      <4> QED BY <1>5, <2>4, <2>6, <3>1, <3>2, <4>1
    <3>4. CASE j \in 1..Len(vals)
      <4>1. vals'[j] = vals[j]
        BY <1>14, <3>4
      <4> QED BY <2>6, <3>1, <3>2, <3>4, <4>1 DEF QpInv, ValuesPlaced
    <3> QED BY <1>16, <3>3, <3>4
  <2> QED BY <2>5, <2>6 DEF ValuesPlaced
<1>24. ValuesHeld'
  <2>1. ASSUME NEW i \in 1..Len(vals')
        PROVE  /\ vals'[i].ptr = "string" => vals'[i].same \/ i \in gc_array'
               /\ formats'[i] # 0 => lengths'[i] # Unset
    <3>1. CASE i = field
      BY <1>3, <1>5, <1>13, <3>1
    <3>2. CASE i \in 1..Len(vals)
      BY <1>14, <1>15, <3>2 DEF QpInv, ValuesHeld
    <3> QED BY <1>16, <3>1, <3>2
  <2> QED BY <2>1 DEF ValuesHeld
<1> QED BY <1>17, <1>18, <1>22, <1>23, <1>24 DEF QpInv

(* A parameter that its encoder writes to memory, within its contract. *)
LEMMA BufferInv == QpInv /\ EncodersObey /\ EncodeToBuffer => QpInv'
<1> SUFFICES ASSUME QpInv, EncodersObey, EncodeToBuffer PROVE QpInv'
  OBVIOUS
<1>1. PICK e : e = Encoding
  OBVIOUS
<1>2. PICK kept : kept = IF Format = 0 THEN e.len + 1 ELSE e.len
  OBVIOUS
<1>3. PICK n : n = IF Format = 0 THEN Unset ELSE e.len
  OBVIOUS
<1>4. /\ qstep = "encode" /\ Format \in Int
      /\ e.size \in Nat /\ e.len \in Nat /\ e.extent \in Int
      /\ e.len <= e.size /\ e.extent <= e.size
  BY <1>1 DEF EncodeToBuffer, EncodersObey, TwoPass
<1>5. /\ alloc_typecast_buf(e.size)
      /\ typecast_buf' = [Target(e.size) EXCEPT !.at = @ + kept]
      /\ required_pool_size' = required_pool_size + kept
      /\ NextParam(BufPtr(Target(e.size), kept, Larger(kept, e.extent)), n)
      /\ gc_array' = gc_array
  BY <1>1, <1>2, <1>3 DEF EncodeToBuffer
<1>6. /\ kept \in Nat /\ kept <= e.size + 1
      /\ Larger(kept, e.extent) \in Nat /\ Larger(kept, e.extent) <= e.size + 1
      /\ n \in Int /\ (Format # 0 => n # Unset)
  BY <1>2, <1>3, <1>4 DEF Larger, Unset
<1> QED BY <1>4, <1>5, <1>6, PlacedInv

(* An exception of the second pass: the chunk may be there, nothing else. *)
LEMMA LateRaiseInv == QpInv /\ EncodersObey /\ EncodeRaisesLate => QpInv'
<1> SUFFICES ASSUME QpInv, EncodersObey, EncodeRaisesLate PROVE QpInv'
  OBVIOUS
<1>1. PICK size : size = Encoding.size
  OBVIOUS
<1>2. size \in Nat /\ qstep = "encode" /\ alloc_typecast_buf(size)
  BY <1>1 DEF EncodeRaisesLate, EncodersObey, TwoPass
<1>3. /\ heap_chain' \in Seq(Nat) /\ Len(heap_chain) \in Nat /\ Len(heap_chain') \in Nat
      /\ Len(heap_chain) <= Len(heap_chain')
      /\ \A k \in 1..Len(heap_chain) : heap_chain'[k] = heap_chain[k]
  BY <1>2, TargetRoom
<1>4. /\ qstep' = "raised"
      /\ UNCHANGED <<with_types, params, qmap, asked, field, conv, heap_pool, required_pool_size,
                     typecast_buf, formats, lengths, vals, gc_array>>
  BY DEF EncodeRaisesLate, paramVars, outVars
<1>5. QpTypeOK'
  BY <1>3, <1>4 DEF QpInv, QpTypeOK
<1>6. QpProgress' /\ MapsFit' /\ RoomLeft' /\ ValuesHeld'
  BY <1>4 DEF QpInv, QpProgress, MapsFit, RoomLeft, ValuesHeld
<1>7. ASSUME NEW i \in 1..Len(vals), vals[i].ptr = "buf"
      PROVE  ValueInside(i)' /\ ValueBehind(i)'
  <2>1. ValueInside(i) /\ ValueBehind(i) /\ vals[i] \in ParamPtrs
    BY <1>7 DEF QpInv, QpTypeOK, ValuesPlaced
  <2>2. vals[i].chunk \in Nat
    BY <1>7, <2>1 DEF ParamPtrs, NullPtr
  <2>3. SizeOf(vals[i].chunk)' = SizeOf(vals[i].chunk)
    BY <1>3, <1>4, <2>1, <2>2 DEF SizeOf, ValueInside
  <2>4. ValueInside(i)'
    BY <1>3, <1>4, <2>1, <2>2, <2>3 DEF ValueInside
  <2> QED BY <1>4, <2>1, <2>4 DEF ValueBehind
<1>8. ValuesPlaced'
  BY <1>4, <1>7 DEF QpInv, ValuesPlaced
<1> QED BY <1>5, <1>6, <1>8 DEF QpInv

(* A String of the encoder's or NULL. *)
LEMMA NullInv == QpInv /\ EncodersObey /\ EncodeNull => QpInv'
<1> SUFFICES ASSUME QpInv, EncodersObey, EncodeNull PROVE QpInv'
  OBVIOUS
<1>1. NullPtr \in ParamPtrs /\ NullPtr.ptr = "null"
  BY DEF ParamPtrs, NullPtr
<1>2. /\ NextParam(NullPtr, 0) /\ qstep = "encode" /\ Format \in Int /\ gc_array' = gc_array
      /\ UNCHANGED <<required_pool_size, typecast_buf, heap_chain>>
  BY DEF EncodeNull, EncodersObey
<1> QED BY <1>1, <1>2, DirectInv DEF Unset

LEMMA StringInv == QpInv /\ EncodersObey /\ EncodeToString => QpInv'
<1> SUFFICES ASSUME QpInv, EncodersObey, EncodeToString PROVE QpInv'
  OBVIOUS
<1>1. PICK same, n : same = SameString /\ n = Encoding.len
  OBVIOUS
<1>2. SameString \in BOOLEAN
  BY Zenon DEF SameString
<1>3. same \in BOOLEAN
  BY <1>1, <1>2
<1>4. StringPtr(same) \in ParamPtrs /\ StringPtr(same).ptr = "string" /\ StringPtr(same).same = same
  BY <1>3 DEF StringPtr, ParamPtrs
<1>5. /\ NextParam(StringPtr(same), n) /\ qstep = "encode" /\ Format \in Int
      /\ UNCHANGED <<required_pool_size, typecast_buf, heap_chain>>
  BY <1>1 DEF EncodeToString, EncodersObey
<1>6. n \in Int /\ n # Unset
  BY <1>1 DEF EncodeToString, EncodersObey, TwoPass, Unset
<1>7. gc_array \subseteq gc_array' /\ (same \/ field \in gc_array')
  BY <1>1 DEF EncodeToString, Hold
<1> QED BY <1>4, <1>5, <1>6, <1>7, DirectInv

-----------------------------------------------------------------------------
(* Every step keeps the invariant, if the encoder at work obeys. *)
LEMMA QpNextInv == QpInv /\ EncodersObey /\ [QpNext]_qpVars => QpInv'
<1> SUFFICES ASSUME QpInv, EncodersObey, [QpNext]_qpVars PROVE QpInv'
  OBVIOUS
<1>1. asked \in Nat \ {0} /\ Len(qmap) \in Nat
  BY ListsAssumption DEF QpInv, QpTypeOK
<1>2. CASE UNCHANGED qpVars
  BY <1>2 DEF qpVars, QpInv, QpTypeOK, QpProgress, MapsFit, RoomLeft, ValuesPlaced, ValuesHeld,
              ValueInside, ValueBehind, SizeOf, ArraysInPool, nParams, Fits
<1>3. CASE pg_tmbc_fit_to_query
  BY <1>1, <1>3, RaiseInv, AskDefaultInv DEF pg_tmbc_fit_to_query, AtMap
<1>4. CASE pg_tmbk_fit_to_query
  BY <1>1, <1>4, AskDefaultInv DEF pg_tmbk_fit_to_query, AtMap
<1>5. CASE pg_typemap_fit_to_query
  BY <1>5, RaiseInv DEF pg_typemap_fit_to_query
<1>6. CASE AllocArrays
  BY <1>6, AllocArraysInv
<1>7. CASE pg_tmbc_typecast_query_param
  BY <1>1, <1>7, AskDefaultInv, AnswerInv DEF pg_tmbc_typecast_query_param, AtMap
<1>8. CASE pg_tmbk_typecast_query_param
  BY <1>1, <1>8, AskDefaultInv, AnswerInv DEF pg_tmbk_typecast_query_param, AtMap
<1>9. CASE pg_tmbmt_typecast_query_param
  BY <1>1, <1>9, AskDefaultInv, AnswerInv, RaiseInv DEF pg_tmbmt_typecast_query_param, AtMap
<1>10. CASE pg_tmir_query_param
  BY <1>1, <1>10, AskDefaultInv, AnswerInv, RaiseInv DEF pg_tmir_query_param, AtMap
<1>11. CASE pg_tmas_typecast_query_param
  BY <1>11, AnswerInv DEF pg_tmas_typecast_query_param
<1>12. CASE EncodeNull
  BY <1>12, NullInv
<1>13. CASE EncodeRaises
  BY <1>13, RaiseInv DEF EncodeRaises
<1>14. CASE EncodeToString
  BY <1>14, StringInv
<1>15. CASE EncodeToBuffer
  BY <1>15, BufferInv
<1>16. CASE EncodeRaisesLate
  BY <1>16, LateRaiseInv
<1>17. CASE SendParams
  <2> USE <1>17 DEF QpInv, SendParams, paramVars, poolVars, outVars
  <2>1. QpTypeOK'
    BY DEF QpTypeOK
  <2>2. QpProgress' /\ MapsFit' /\ RoomLeft' /\ ValuesHeld'
    BY DEF QpProgress, MapsFit, RoomLeft, ValuesHeld
  <2>3. ValuesPlaced'
    BY DEF ValuesPlaced, ValueInside, ValueBehind, SizeOf, ArraysInPool, nParams
  <2> QED BY <2>1, <2>2, <2>3 DEF QpInv
<1> QED
  BY <1>2, <1>3, <1>4, <1>5, <1>6, <1>7, <1>8, <1>9, <1>10, <1>11, <1>12, <1>13, <1>14, <1>15,
     <1>16, <1>17 DEF QpNext

(* The invariant of alloc_query_params, as long as the encoders obey. *)
THEOREM QpInvariant == QpSpec /\ []EncodersObey => []QpInv
BY QpInitInv, QpNextInv, PTL DEF QpSpec

(* For every pool size, list of parameters and chain of type maps, nothing *)
(* is written behind the end of the pool or of a chunk, if the encoders    *)
(* keep to the sizes they told: alloc_query_params adds no overrun of its  *)
(* own, although it reuses chunks by the bookkeeping of the pool.          *)
THEOREM WritesStayInside == QpSpec /\ []EncodersObey => []WritesFit
<1>1. QpInv => WritesFit
  <2> SUFFICES ASSUME QpInv PROVE WritesFit
    OBVIOUS
  <2>1. DOMAIN vals = 1..Len(vals)
    BY DEF QpInv, QpTypeOK
  <2>2. \A i \in 1..Len(vals) : vals[i].ptr = "buf" => ValueInside(i)
    BY DEF QpInv, ValuesPlaced
  <2> QED BY <2>1, <2>2 DEF ValueInside, WritesFit
<1> QED BY <1>1, QpInvariant, PTL

(* Under the same condition libpq reads every parameter as it was encoded: *)
(* values do not overlap each other or the arrays, new Strings are held,   *)
(* binary values have their length.                                        *)
THEOREM ParamsReadIntact == QpSpec /\ []EncodersObey => []ParamsIntact
<1>1. QpInv => ParamsIntact
  <2> SUFFICES ASSUME QpInv, qstep = "send" PROVE ParamsIntact
    BY DEF ParamsIntact
  <2>1. DOMAIN vals = 1..Len(vals) /\ vals \in Seq(ParamPtrs)
    BY DEF QpInv, QpTypeOK
  <2>2. ASSUME NEW i \in DOMAIN vals, vals[i].ptr = "buf"
        PROVE  vals[i].at \in Nat /\ vals[i].kept \in Nat
    <3>1. vals[i] \in ParamPtrs
      BY <2>1
    <3> QED BY <2>2, <3>1 DEF ParamPtrs, NullPtr
  <2>3. ASSUME NEW i \in DOMAIN vals, NEW j \in DOMAIN vals, i < j
        PROVE  ~Overwrites(vals[j], vals[i])
    <3> SUFFICES ASSUME Overwrites(vals[j], vals[i]) PROVE FALSE
      OBVIOUS
    <3>1. /\ vals[i].ptr = "buf" /\ vals[j].ptr = "buf" /\ vals[i].chunk = vals[j].chunk
          /\ vals[j].at < vals[i].at + vals[i].kept
      BY DEF Overwrites
    <3>2. vals[i].at + vals[i].kept <= vals[j].at
      BY <2>1, <2>3, <3>1 DEF QpInv, ValuesPlaced
    <3> QED BY <2>2, <3>1, <3>2
  <2>4. ASSUME NEW i \in DOMAIN vals, vals[i].ptr = "buf", vals[i].chunk = 0
        PROVE  vals[i].at >= ArraysInPool
    BY <2>1, <2>4 DEF QpInv, ValuesPlaced, ValueBehind
  <2>5. /\ \A i \in DOMAIN vals : vals[i].ptr = "string" => vals[i].same \/ i \in gc_array
        /\ \A i \in DOMAIN vals : formats[i] # 0 => lengths[i] # Unset
    BY <2>1, Zenon DEF QpInv, ValuesHeld
  <2>6. \A i, j \in DOMAIN vals : i < j => ~Overwrites(vals[j], vals[i])
    BY <2>3
  <2>7. \A i \in DOMAIN vals :
          vals[i].ptr = "buf" /\ vals[i].chunk = 0 => vals[i].at >= ArraysInPool
    BY <2>4
  <2> QED BY <2>5, <2>6, <2>7, Zenon DEF ParamsIntact
<1> QED BY <1>1, QpInvariant, PTL

(* A map by column is never asked for a column that it does not have,      *)
(* wherever it stands in the chain of defaults.                            *)
THEOREM ColumnsExist == QpSpec /\ []EncodersObey => []AskedColumnExists
<1>1. QpInv => AskedColumnExists
  BY ListsAssumption DEF QpInv, QpTypeOK, QpProgress, MapsFit, Fits, nParams, AskedColumnExists, AtMap
<1> QED BY <1>1, QpInvariant, PTL

-----------------------------------------------------------------------------
(* The digits and the bits of a number *)

(* g counts, up to n, the steps by which d leads below base. *)
Counts(g, n, d, base, v) ==
  \A k \in 0..n : g[k] = IF k < base THEN v ELSE 1 + g[d[k]]
SameAt(g, h, k) == g[k] = h[k]
IsCount(f, d, base, v) ==
  \A k \in Nat : f[k] = IF k < base THEN v ELSE 1 + f[d[k]]

(* There is such a count for all numbers, if each step leads to a smaller  *)
(* one.                                                                    *)
LEMMA CountExists ==
  ASSUME NEW d \in [Nat -> Nat], NEW base \in Nat, NEW v \in Nat,
         \A k \in Nat : k >= base => d[k] < k
  PROVE  \E f \in [Nat -> Nat] : IsCount(f, d, base, v)
<1> DEFINE W(n) == \E g \in [Nat -> Nat] : Counts(g, n, d, base, v)
<1>1. W(0)
  <2> DEFINE g == [k \in Nat |-> v]
  <2>1. g \in [Nat -> Nat] /\ Counts(g, 0, d, base, v)
    BY DEF Counts
  <2> QED BY <2>1
<1>2. ASSUME NEW n \in Nat, W(n) PROVE W(n + 1)
  <2>1. PICK g \in [Nat -> Nat] : Counts(g, n, d, base, v)
    BY <1>2
  <2> DEFINE e == IF n + 1 < base THEN v ELSE 1 + g[d[n + 1]]
             h == [g EXCEPT ![n + 1] = e]
  <2>2. e \in Nat
    OBVIOUS
  <2>3. h \in [Nat -> Nat]
    BY <2>2
  <2>4. ASSUME NEW k \in 0..(n + 1) PROVE h[k] = IF k < base THEN v ELSE 1 + h[d[k]]
    <3>1. k >= base => d[k] \in Nat /\ d[k] # n + 1
      OBVIOUS
    <3>2. CASE k = n + 1
      BY <3>1, <3>2
    <3>3. CASE k \in 0..n
      BY <2>1, <3>1, <3>3 DEF Counts
    <3> QED BY <3>2, <3>3
  <2> HIDE DEF h
  <2>5. Counts(h, n + 1, d, base, v)
    BY <2>4 DEF Counts
  <2> QED BY <2>3, <2>5
<1> HIDE DEF W
<1>3. \A n \in Nat : W(n)
  <2> DEFINE T == {n \in Nat : ~W(n)}
  <2> SUFFICES ASSUME T # {} PROVE FALSE
    OBVIOUS
  <2>1. PICK n \in T : \A k \in T : n <= k
    <3>1. T \in SUBSET Nat
      OBVIOUS
    <3> HIDE DEF T
    <3> QED BY <3>1, Least
  <2>2. n \in Nat /\ n # 0 /\ ~W(n)
    BY <1>1, <2>1
  <2>3. n - 1 \in Nat /\ n - 1 \notin T
    BY <2>1, <2>2
  <2>4. W(n - 1)
    BY <2>3
  <2>5. W((n - 1) + 1)
    BY <1>2, <2>3, <2>4
  <2>6. (n - 1) + 1 = n
    BY <2>2
  <2> QED BY <2>2, <2>5, <2>6
<1>4. ASSUME NEW n \in Nat, NEW m \in Nat, NEW g \in [Nat -> Nat], NEW h \in [Nat -> Nat],
             Counts(g, n, d, base, v), Counts(h, m, d, base, v), NEW j \in 0..n, j \in 0..m
      PROVE  SameAt(g, h, j)
  <2> DEFINE T == {k \in 0..n : k \in 0..m /\ g[k] # h[k]}
  <2>1. SUFFICES ASSUME T # {} PROVE FALSE
    BY <1>4 DEF SameAt
  <2>2. PICK k \in T : \A i \in T : k <= i
    <3>1. T \in SUBSET Nat
      OBVIOUS
    <3> HIDE DEF T
    <3> QED BY <2>1, <3>1, Least
  <2>3. k >= base => d[k] \in 0..n /\ d[k] \in 0..m /\ d[k] \notin T
    BY <2>2
  <2>4. k >= base => g[d[k]] = h[d[k]]
    BY <2>3
  <2>5. g[k] = h[k]
    BY <1>4, <2>2, <2>4 DEF Counts
  <2> QED BY <2>2, <2>5
<1> DEFINE G(n) == CHOOSE g \in [Nat -> Nat] : Counts(g, n, d, base, v)
           f == [n \in Nat |-> G(n)[n]]
<1>5. \A n \in Nat : G(n) \in [Nat -> Nat] /\ Counts(G(n), n, d, base, v)
  BY <1>3 DEF W
<1> HIDE DEF G
<1>6. f \in [Nat -> Nat]
  BY <1>5
<1>7. ASSUME NEW n \in Nat PROVE f[n] = IF n < base THEN v ELSE 1 + f[d[n]]
  <2>1. G(n)[n] = IF n < base THEN v ELSE 1 + G(n)[d[n]]
    BY <1>5 DEF Counts
  <2>2. CASE n >= base
    <3>1. d[n] \in 0..n /\ d[n] \in 0..d[n] /\ d[n] \in Nat
      BY <2>2
    <3>2. G(n)[d[n]] = G(d[n])[d[n]]
      <4>1. PICK m, g, h : m = d[n] /\ g = G(n) /\ h = G(m)
        OBVIOUS
      <4>2. /\ m \in 0..n /\ m \in 0..m /\ m \in Nat
            /\ g \in [Nat -> Nat] /\ Counts(g, n, d, base, v)
            /\ h \in [Nat -> Nat] /\ Counts(h, m, d, base, v)
        BY <1>5, <3>1, <4>1
      <4>3. SameAt(g, h, m)
        BY <1>4, <4>2, Zenon
      <4> QED BY <4>1, <4>3 DEF SameAt
    <3> QED BY <2>1, <3>1, <3>2
  <2>3. CASE n < base
    BY <2>1, <2>3
  <2> QED BY <2>2, <2>3
<1> HIDE DEF f
<1> QED BY <1>6, <1>7 DEF IsCount

(* A function with that equation has numbers as its values. *)
LEMMA CountIsNat ==
  ASSUME NEW d \in [Nat -> Nat], NEW base \in Nat, NEW v \in Nat,
         \A k \in Nat : k >= base => d[k] < k,
         NEW f, IsCount(f, d, base, v)
  PROVE  \A k \in Nat : f[k] \in Nat
<1> DEFINE T == {k \in Nat : f[k] \notin Nat}
<1>1. SUFFICES ASSUME T # {} PROVE FALSE
  OBVIOUS
<1>2. PICK n \in T : \A k \in T : n <= k
  <2>1. T \in SUBSET Nat
    OBVIOUS
  <2> HIDE DEF T
  <2> QED BY <1>1, <2>1, Least
<1>3. n >= base => d[n] \in Nat /\ d[n] \notin T
  BY <1>2
<1>4. n \in Nat /\ f[n] = IF n < base THEN v ELSE 1 + f[d[n]]
  BY <1>2 DEF IsCount
<1>5. f[n] \in Nat
  BY <1>3, <1>4
<1> QED BY <1>2, <1>5

LEMMA BitsDef ==
  /\ \A n \in Nat : Bits[n] \in Nat
  /\ \A n \in Nat : Bits[n] = IF n = 0 THEN 0 ELSE 1 + Bits[n \div 2]
<1> DEFINE P(g) == g = [n \in Nat |-> IF n = 0 THEN 0 ELSE 1 + g[n \div 2]]
           d == [n \in Nat |-> n \div 2]
<1>1. d \in [Nat -> Nat] /\ \A k \in Nat : k >= 1 => d[k] < k
  OBVIOUS
<1>2. \E g : P(g)
  <2>1. PICK f \in [Nat -> Nat] : IsCount(f, d, 1, 0)
    <3> HIDE DEF d
    <3> QED BY <1>1, CountExists
  <2>2. \A k \in Nat : f[k] = IF k = 0 THEN 0 ELSE 1 + f[k \div 2]
    BY <2>1 DEF IsCount
  <2> QED BY <2>2
<1>3. Bits = CHOOSE g : P(g)
  BY DEF Bits
<1>4. P(Bits)
  BY <1>2, <1>3
<1>5. \A n \in Nat : Bits[n] = IF n = 0 THEN 0 ELSE 1 + Bits[n \div 2]
  BY <1>4
<1>6. IsCount(Bits, d, 1, 0)
  BY <1>5 DEF IsCount
<1>7. \A n \in Nat : Bits[n] \in Nat
  <2> HIDE DEF d
  <2> QED BY <1>1, <1>6, CountIsNat
<1> QED BY <1>5, <1>7

LEMMA DigitsDef ==
  /\ \A n \in Nat : Digits[n] \in Nat
  /\ \A n \in Nat : Digits[n] = IF n < 10 THEN 1 ELSE 1 + Digits[n \div 10]
<1> DEFINE P(g) == g = [n \in Nat |-> IF n < 10 THEN 1 ELSE 1 + g[n \div 10]]
           d == [n \in Nat |-> n \div 10]
<1>1. d \in [Nat -> Nat] /\ \A k \in Nat : k >= 10 => d[k] < k
  OBVIOUS
<1>2. \E g : P(g)
  <2>1. PICK f \in [Nat -> Nat] : IsCount(f, d, 10, 1)
    <3> HIDE DEF d
    <3> QED BY <1>1, CountExists
  <2>2. \A k \in Nat : f[k] = IF k < 10 THEN 1 ELSE 1 + f[k \div 10]
    BY <2>1 DEF IsCount
  <2> QED BY <2>2
<1>3. Digits = CHOOSE g : P(g)
  BY DEF Digits
<1>4. P(Digits)
  BY <1>2, <1>3
<1>5. \A n \in Nat : Digits[n] = IF n < 10 THEN 1 ELSE 1 + Digits[n \div 10]
  BY <1>4
<1>6. IsCount(Digits, d, 10, 1)
  BY <1>5 DEF IsCount
<1>7. \A n \in Nat : Digits[n] \in Nat
  <2> HIDE DEF d
  <2> QED BY <1>1, <1>6, CountIsNat
<1> QED BY <1>5, <1>7


(* A larger number has no fewer bits. *)
LEMMA BitsGrow == \A m \in Nat : \A n \in 0..m : Bits[n] <= Bits[m]
<1> DEFINE T == {m \in Nat : \E n \in 0..m : ~(Bits[n] <= Bits[m])}
<1>1. SUFFICES ASSUME T # {} PROVE FALSE
  OBVIOUS
<1>2. PICK m \in T : \A k \in T : m <= k
  <2>1. T \in SUBSET Nat
    OBVIOUS
  <2> HIDE DEF T
  <2> QED BY <1>1, <2>1, Least
<1>3. m \in Nat /\ \E n \in 0..m : ~(Bits[n] <= Bits[m])
  BY <1>2
<1>4. PICK n \in 0..m : ~(Bits[n] <= Bits[m])
  BY <1>3
<1>5. n \in Nat /\ n # 0 /\ m # 0
  BY <1>3, <1>4, BitsDef
<1>6. m \div 2 \in Nat /\ m \div 2 < m /\ n \div 2 \in 0..(m \div 2) /\ n \div 2 \in Nat
  BY <1>3, <1>4, <1>5
<1>7. m \div 2 \notin T
  BY <1>2, <1>6
<1>8. Bits[n \div 2] <= Bits[m \div 2]
  BY <1>6, <1>7
<1>9. Bits[n] = 1 + Bits[n \div 2] /\ Bits[m] = 1 + Bits[m \div 2]
  BY <1>3, <1>5, BitsDef
<1>10. Bits[n \div 2] \in Nat /\ Bits[m \div 2] \in Nat
  BY <1>6, BitsDef
<1> QED BY <1>4, <1>8, <1>9, <1>10

(* Three bits for every digit but the first: what pg_text_enc_integer      *)
(* relies on when it asks for memory.                                      *)
LEMMA DigitsFit == \A n \in Nat : Digits[n] <= Bits[n] \div 3 + 1
<1> DEFINE T == {n \in Nat : ~(Digits[n] <= Bits[n] \div 3 + 1)}
<1>1. SUFFICES ASSUME T # {} PROVE FALSE
  OBVIOUS
<1>2. PICK n \in T : \A k \in T : n <= k
  <2>1. T \in SUBSET Nat
    OBVIOUS
  <2> HIDE DEF T
  <2> QED BY <1>1, <2>1, Least
<1>3. n \in Nat /\ ~(Digits[n] <= Bits[n] \div 3 + 1) /\ Bits[n] \in Nat
  BY <1>2, BitsDef
<1>4. n >= 10
  <2>1. n < 10 => Digits[n] = 1
    BY <1>3, DigitsDef
  <2> QED BY <1>3, <2>1
<1> DEFINE a == n \div 2
           b == a \div 2
           c == b \div 2
           q == n \div 10
<1>5. a \in Nat /\ b \in Nat /\ c \in Nat /\ q \in Nat /\ q < n /\ q <= c /\ a # 0 /\ b # 0
  BY <1>3, <1>4
<1>6. q \notin T
  BY <1>2, <1>5
<1>7. Digits[q] <= Bits[q] \div 3 + 1
  BY <1>5, <1>6
<1>8. Digits[n] = 1 + Digits[q]
  BY <1>3, <1>4, DigitsDef
<1>9. Bits[n] = 1 + Bits[a] /\ Bits[a] = 1 + Bits[b] /\ Bits[b] = 1 + Bits[c]
  BY <1>3, <1>4, <1>5, BitsDef
<1>10. Bits[q] <= Bits[c]
  BY <1>5, BitsGrow
<1>11. Bits[q] \in Nat /\ Bits[c] \in Nat /\ Digits[q] \in Nat
  BY <1>5, BitsDef, DigitsDef
<1> HIDE DEF a, b, c, q
<1>12. Bits[n] = 3 + Bits[c]
  BY <1>9, <1>11
<1>13. PICK x, y, z : x = Bits[q] /\ y = Bits[c] /\ z = Digits[q]
  OBVIOUS
<1>14. x \in Nat /\ y \in Nat /\ z \in Nat /\ x <= y /\ z <= x \div 3 + 1
  BY <1>7, <1>10, <1>11, <1>13
<1>15. 1 + z <= (3 + y) \div 3 + 1
  BY <1>14
<1> QED BY <1>3, <1>8, <1>12, <1>13, <1>15

(* The first call of the integer encoder asks for enough, 0 included,      *)
(* whatever __builtin_clzll(0) is.                                         *)
LEMMA IntegerFits ==
  ASSUME NEW n \in Int
  PROVE  /\ IntegerLen(n) \in Nat /\ IntegerSize(n) \in Nat
         /\ IntegerLen(n) <= IntegerSize(n)
<1>1. Abs(n) \in Nat /\ (n < 0 => Abs(n) # 0)
  BY DEF Abs
<1> DEFINE a == Abs(n)
           d == Digits[a]
           b == Bits[a]
           w == 64 - count_leading_zero_bits(a)
<1>2. d \in Nat /\ b \in Nat /\ d <= b \div 3 + 1
  BY <1>1, DigitsDef, BitsDef, DigitsFit
<1>3. w \in Nat /\ (a # 0 => w = b) /\ (a = 0 => d = 1)
  <2>1. CASE a = 0
    BY <2>1, DigitsDef, ClzAssumption DEF count_leading_zero_bits
  <2>2. CASE a # 0
    BY <1>2, <2>2 DEF count_leading_zero_bits
  <2> QED BY <2>1, <2>2
<1> HIDE DEF d, b, w
<1>4. IntegerLen(n) = d + (IF n < 0 THEN 1 ELSE 0)
  BY DEF IntegerLen, d
<1>5. IntegerSize(n) = w \div 3 + (IF n < 0 THEN 2 ELSE 1)
  BY DEF IntegerSize, w
<1>6. d <= w \div 3 + 1
  BY <1>1, <1>2, <1>3
<1> QED BY <1>2, <1>3, <1>4, <1>5, <1>6

(* Exponents of a double have at most three digits. *)
LEMMA ExponentLen ==
  ASSUME NEW e \in -324..308
  PROVE  IntegerLen(e) \in Nat /\ IntegerLen(e) <= 4 /\ (e >= 0 => IntegerLen(e) <= 3)
<1>1. Abs(e) \in Nat /\ Abs(e) < 1000
  BY DEF Abs
<1> DEFINE a == Abs(e)
           b == a \div 10
           c == b \div 10
<1>2. b \in Nat /\ c \in Nat /\ c < 10
  BY <1>1
<1>3. /\ Digits[a] = IF a < 10 THEN 1 ELSE 1 + Digits[b]
      /\ Digits[b] = IF b < 10 THEN 1 ELSE 1 + Digits[c]
      /\ Digits[c] = 1
  BY <1>1, <1>2, DigitsDef
<1>4. Digits[a] \in Nat /\ Digits[a] <= 3
  BY <1>3
<1> QED BY <1>4 DEF IntegerLen

-----------------------------------------------------------------------------
(* The contract of the encoders *)

(* The values that can be parameters: Fixnums have no more than 64 bits,   *)
(* doubles have 16 digits in pg_text_enc_float and exponents of three, and *)
(* a Bignum that is no finite double has no digits as one.                 *)
Fixnums == {n \in Int : Bits[Abs(n)] <= 64}
Doubles == [t : {"float"}, neg : BOOLEAN, exp10 : -324..308, digits : 0..16]
Scalars ==
  [t : {"int"}, n : Fixnums]
    \cup [t : {"big"}, len : 1..309, digits : 0..16] \cup [t : {"big"}, len : Nat, digits : {0}]
    \cup Doubles
    \cup [t : {"str"}, len : Nat, n : Int, foreign : BOOLEAN, nul : BOOLEAN]
    \cup [t : {"time"}, len : Nat, n : Int]
    \cup [t : {"date", "bool"}, len : Nat]
Hashes == [t : {"hash"}, len : Nat, value : Scalars \cup {None}, format : Int]

TypeNames == {"nil", "int", "big", "float", "str", "time", "date", "bool", "hash"}

Obeys(e) == e \in [size : Int, len : Int, extent : Int] /\ e.size >= -2 /\ TwoPass(e)

LEMMA ValueFacts ==
  ASSUME NEW v \in Scalars \cup Hashes
  PROVE  /\ v.t \in TypeNames \ {"nil"}
         /\ v.t = "int" => v.n \in Fixnums
         /\ v.t = "big" => v.digits \in 0..16 /\ v.len \in Nat /\ (v.digits # 0 => v.len \in 1..309)
         /\ v.t = "float" => v \in Doubles
         /\ v.t \in {"str", "time"} => v.n \in Int
         /\ v.t \in {"str", "time", "date", "bool", "hash"} => v.len \in Nat
         /\ v.t = "hash" => v.value \in Scalars \cup {None} /\ v.format \in Int
BY DEF Scalars, Hashes, Doubles, TypeNames

LEMMA FloatFits ==
  ASSUME NEW v \in Doubles
  PROVE  FloatLen(v) \in Nat /\ FloatLen(v) <= FloatSize
<1>1. PICK x, g : x = v.exp10 /\ g = v.digits
  OBVIOUS
<1>2. x \in -324..308 /\ g \in 0..16
  BY <1>1 DEF Doubles
<1>3. PICK sign : sign = IF v.neg THEN 1 ELSE 0
  OBVIOUS
<1>4. sign \in 0..1
  BY <1>3
<1>5. PICK lz : lz = Larger(x, 0)
  OBVIOUS
<1>6. PICK last : last = CASE x < 0 -> g - x
                           [] x >= 0 /\ g - 1 <= lz -> g - 1
                           [] OTHER -> g
  OBVIOUS
<1>7. FloatLen(v) = CASE g = 0 -> sign + 8
                      [] g > 0 /\ x \in -4..14 -> sign + Larger(last, lz + 2) + 1
                      [] OTHER -> sign + g + (IF g > 1 THEN 1 ELSE 0) + 1 + IntegerLen(x)
  BY <1>1, <1>3, <1>5, <1>6 DEF FloatLen
<1>8. FloatSize = 23
  BY DEF FloatSize, MAX_DOUBLE_DIGITS
<1>9. CASE g = 0
  BY <1>2, <1>4, <1>7, <1>8, <1>9
<1>10. CASE g > 0 /\ x \in -4..14
  <2>1. lz \in 0..14 /\ last \in Int /\ last <= 20
    BY <1>2, <1>5, <1>6, <1>10 DEF Larger
  <2>2. Larger(last, lz + 2) \in Nat /\ Larger(last, lz + 2) <= 20
    BY <2>1 DEF Larger
  <2>3. FloatLen(v) = sign + Larger(last, lz + 2) + 1
    BY <1>2, <1>7, <1>10
  <2> QED BY <1>4, <1>8, <2>2, <2>3
<1>11. CASE g > 0 /\ x \notin -4..14
  <2>1. FloatLen(v) = sign + g + (IF g > 1 THEN 1 ELSE 0) + 1 + IntegerLen(x)
    BY <1>2, <1>7, <1>11
  <2>2. IntegerLen(x) \in Nat /\ IntegerLen(x) <= 4
    BY <1>2, ExponentLen
  <2> QED BY <1>2, <1>4, <1>8, <1>11, <2>1, <2>2
<1> QED BY <1>2, <1>9, <1>10, <1>11

LEMMA TextLenNat == ASSUME NEW v \in Scalars \cup Hashes PROVE TextLen(v) \in Nat
<1>1. CASE v.t = "int"
  BY <1>1, ValueFacts, IntegerFits DEF TextLen, Fixnums
<1>2. CASE v.t = "float"
  BY <1>2, ValueFacts, FloatFits DEF TextLen
<1>3. CASE v.t \notin {"int", "float"}
  BY <1>3, ValueFacts DEF TextLen, TypeNames
<1> QED BY <1>1, <1>2, <1>3

LEMMA ConstantsObey ==
  /\ Obeys(Failing)
  /\ \A n \in Nat : Obeys(Fixed(n)) /\ Obeys(RaisesLate(n))
BY DEF Obeys, TwoPass, Failing, Fixed, RaisesLate, Direct, Raises

LEMMA ToSObeys ==
  ASSUME NEW v \in Scalars \cup Hashes
  PROVE  Obeys(pg_coder_enc_to_s(v)) /\ pg_coder_enc_to_s(v).size = Direct
BY TextLenNat DEF Obeys, TwoPass, pg_coder_enc_to_s, Direct

LEMMA IntegerObeys == ASSUME NEW v \in Scalars \cup Hashes PROVE Obeys(pg_text_enc_integer(v))
<1>1. CASE v.t \in {"int", "str", "time"}
  <2>1. v.n \in Int
    BY <1>1, ValueFacts DEF Fixnums
  <2>2. pg_text_enc_integer(v) =
          [size |-> IntegerSize(v.n), len |-> IntegerLen(v.n), extent |-> IntegerLen(v.n)]
    BY <1>1 DEF pg_text_enc_integer
  <2>3. /\ IntegerLen(v.n) \in Nat /\ IntegerSize(v.n) \in Nat
        /\ IntegerLen(v.n) <= IntegerSize(v.n)
    BY <2>1, IntegerFits
  <2> QED BY <2>2, <2>3 DEF Obeys, TwoPass, Direct
<1>2. CASE v.t \in {"float", "big"}
  BY <1>2, ToSObeys DEF pg_text_enc_integer
<1>3. CASE v.t \notin {"int", "str", "time", "float", "big"}
  BY <1>3, ConstantsObey DEF pg_text_enc_integer
<1> QED BY <1>1, <1>2, <1>3

(* A Fixnum or a Bignum becomes a double that is finite, or has no digits. *)
LEMMA AsFloatTyped ==
  ASSUME NEW v \in Scalars \cup Hashes, v.t \in {"float", "int", "big"}
  PROVE  FloatLen(AsFloat(v)) \in Nat /\ FloatLen(AsFloat(v)) <= FloatSize
<1>1. CASE v.t = "float"
  BY <1>1, ValueFacts, FloatFits DEF AsFloat
<1>2. CASE v.t = "int"
  <2>1. v.n \in Fixnums /\ Abs(v.n) \in Nat
    BY <1>2, ValueFacts DEF Fixnums, Abs
  <2>2. PICK d, b : d = Digits[Abs(v.n)] /\ b = Bits[Abs(v.n)]
    OBVIOUS
  <2>3. d \in Nat /\ b \in Nat /\ d <= b \div 3 + 1 /\ b <= 64
    BY <2>1, <2>2, DigitsDef, BitsDef, DigitsFit DEF Fixnums
  <2>4. d # 0
    BY <2>1, <2>2, DigitsDef
  <2>5. d - 1 \in -324..308
    BY <2>3, <2>4
  <2>6. AsFloat(v) = [t |-> "float", neg |-> (v.n < 0), exp10 |-> d - 1, digits |-> 1]
    BY <1>2, <2>2 DEF AsFloat, Float_
  <2>7. (v.n < 0) \in BOOLEAN
    OBVIOUS
  <2>8. AsFloat(v) \in Doubles
    BY <2>5, <2>6, <2>7 DEF Doubles
  <2> QED BY <2>8, FloatFits
<1>3. CASE v.t = "big"
  <2>1. v.digits \in 0..16 /\ v.len \in Nat /\ (v.digits # 0 => v.len \in 1..309)
    BY <1>3, ValueFacts
  <2>2. AsFloat(v) = [t |-> "float", neg |-> FALSE, exp10 |-> v.len - 1, digits |-> v.digits]
    BY <1>3 DEF AsFloat, Float_
  <2>3. CASE v.digits # 0
    <3>1. AsFloat(v) \in Doubles
      BY <2>1, <2>2, <2>3 DEF Doubles
    <3> QED BY <3>1, FloatFits
  <2>4. CASE v.digits = 0
    <3>1. FloatLen(AsFloat(v)) = 8
      BY <2>2, <2>4 DEF FloatLen
    <3> QED BY <3>1 DEF FloatSize, MAX_DOUBLE_DIGITS
  <2> QED BY <2>3, <2>4
<1> QED BY <1>1, <1>2, <1>3

LEMMA FloatObeys == ASSUME NEW v \in Scalars \cup Hashes PROVE Obeys(pg_text_enc_float(v))
<1>1. FloatSize = 23
  BY DEF FloatSize, MAX_DOUBLE_DIGITS
<1>2. CASE v.t \in {"float", "int", "big"}
  <2>1. PICK n : n = FloatLen(AsFloat(v))
    OBVIOUS
  <2>2. n \in Nat /\ n <= FloatSize
    BY <1>2, <2>1, AsFloatTyped
  <2>3. pg_text_enc_float(v) = [size |-> FloatSize, len |-> n, extent |-> n]
    BY <1>2, <2>1 DEF pg_text_enc_float
  <2> QED BY <1>1, <2>2, <2>3 DEF Obeys, TwoPass, Direct
<1>3. CASE v.t \notin {"float", "int", "big"}
  BY <1>1, <1>3, ConstantsObey DEF pg_text_enc_float
<1> QED BY <1>2, <1>3


LEMMA SimpleObeys ==
  ASSUME NEW f, NEW v \in Scalars \cup Hashes
  PROVE  Obeys(SimpleEncode(f, v))
<1>1. /\ Obeys(pg_coder_enc_to_s(v)) /\ Obeys(pg_text_enc_integer(v)) /\ Obeys(pg_text_enc_float(v))
      /\ Obeys(Failing) /\ TextLen(v) \in Nat
      /\ \A n \in Nat : Obeys(Fixed(n)) /\ Obeys(RaisesLate(n))
  BY ToSObeys, IntegerObeys, FloatObeys, ConstantsObey, TextLenNat
<1>2. Obeys(pg_text_enc_boolean(v)) /\ Obeys(pg_text_enc_numeric(v))
  BY <1>1 DEF pg_text_enc_boolean, pg_text_enc_numeric
<1>3. Obeys(pg_text_enc_bytea(v))
  BY <1>1 DEF pg_text_enc_bytea
<1>4. Obeys(pg_bin_enc_boolean(v))
  BY <1>1 DEF pg_bin_enc_boolean
<1>5. Obeys(pg_bin_enc_int2(v)) /\ Obeys(pg_bin_enc_int4(v)) /\ Obeys(pg_bin_enc_int8(v))
  BY <1>1 DEF pg_bin_enc_int2, pg_bin_enc_int4, pg_bin_enc_int8, BinaryInt
<1>6. Obeys(pg_bin_enc_float4(v)) /\ Obeys(pg_bin_enc_float8(v))
  BY <1>1 DEF pg_bin_enc_float4, pg_bin_enc_float8, BinaryFloat
<1>7. Obeys(pg_bin_enc_timestamp(v)) /\ Obeys(pg_bin_enc_date(v))
  BY <1>1 DEF pg_bin_enc_timestamp, pg_bin_enc_date
<1> QED BY <1>1, <1>2, <1>3, <1>4, <1>5, <1>6, <1>7 DEF SimpleEncode

(* The encoders that write to the buffer themselves; all others make a     *)
(* String.                                                                 *)
Writing ==
  {"boolean", "integer", "float", "numeric", "bytea", "bin_boolean", "int2", "int4", "int8",
   "float4", "float8", "timestamp", "date"}

LEMMA Base64Grows ==
  ASSUME NEW m \in Nat, NEW n \in 0..m
  PROVE  /\ BASE64_ENCODED_SIZE(n) \in Nat /\ BASE64_ENCODED_SIZE(m) \in Nat
         /\ BASE64_ENCODED_SIZE(n) <= BASE64_ENCODED_SIZE(m) /\ m <= BASE64_ENCODED_SIZE(m)
BY DEF BASE64_ENCODED_SIZE

(* The text in Base64 is longer than what it is made of, so that the size  *)
(* is enough for both.                                                     *)
LEMMA ToBase64Obeys ==
  ASSUME NEW e, Obeys(e)
  PROVE  Obeys(pg_text_enc_to_base64(e))
<1>1. PICK s, l, x : e = [size |-> s, len |-> l, extent |-> x]
  <2>1. e = [size |-> e.size, len |-> e.len, extent |-> e.extent]
    BY DEF Obeys
  <2> QED BY <2>1
<1>2. /\ s \in Int /\ l \in Int /\ x \in Int /\ s >= -2 /\ (s = -1 => l >= 0)
      /\ s >= 0 /\ l >= 0 => l <= s /\ x <= s
  BY <1>1 DEF Obeys, TwoPass, Direct
<1>3. CASE s = -2
  <2>1. pg_text_enc_to_base64(e) = e
    BY <1>1, <1>3 DEF pg_text_enc_to_base64, Raises, Direct
  <2> QED BY <2>1
<1>4. CASE s = -1
  <2>1. BASE64_ENCODED_SIZE(l) \in Nat
    BY <1>2, <1>4, Base64Grows
  <2>2. pg_text_enc_to_base64(e) = [size |-> s, len |-> BASE64_ENCODED_SIZE(l), extent |-> x]
    BY <1>1, <1>4 DEF pg_text_enc_to_base64, Raises, Direct
  <2> QED BY <1>2, <1>4, <2>1, <2>2 DEF Obeys, TwoPass, Direct
<1>5. CASE s >= 0 /\ l < 0
  <2>1. BASE64_ENCODED_SIZE(s) \in Nat
    BY <1>2, <1>5, Base64Grows
  <2>2. pg_text_enc_to_base64(e) = [size |-> BASE64_ENCODED_SIZE(s), len |-> l, extent |-> x]
    BY <1>1, <1>2, <1>5 DEF pg_text_enc_to_base64, Raises, Direct
  <2> QED BY <1>2, <1>5, <2>1, <2>2 DEF Obeys, TwoPass, Direct
<1>6. CASE s >= 0 /\ l >= 0
  <2>1. PICK bs, bl : bs = BASE64_ENCODED_SIZE(s) /\ bl = BASE64_ENCODED_SIZE(l)
    OBVIOUS
  <2>2. bs \in Nat /\ bl \in Nat /\ bl <= bs /\ s <= bs
    BY <1>2, <1>6, <2>1, Base64Grows
  <2>3. pg_text_enc_to_base64(e) = [size |-> bs, len |-> bl, extent |-> Larger(bl, x)]
    BY <1>1, <1>2, <1>6, <2>1 DEF pg_text_enc_to_base64, Raises, Direct
  <2>4. Larger(bl, x) \in Int /\ Larger(bl, x) <= bs
    BY <1>2, <1>6, <2>2 DEF Larger
  <2> QED BY <2>2, <2>3, <2>4 DEF Obeys, TwoPass, Direct
<1> QED BY <1>2, <1>3, <1>4, <1>5, <1>6


(* FromBase64 keeps the contract around an encoder that makes a String. *)
LEMMA FromBase64Obeys ==
  ASSUME NEW e, Obeys(e), e.size = Direct
  PROVE  Obeys(pg_bin_enc_from_base64(e))
<1>1. e \in [size : Int, len : Int, extent : Int] /\ e.size = -1 /\ e.len >= 0
  BY DEF Obeys, TwoPass, Direct
<1>2. pg_bin_enc_from_base64(e) = [e EXCEPT !.len = (e.len * 3) \div 4]
  BY <1>1 DEF pg_bin_enc_from_base64, Raises, Direct
<1>3. PICK l : l = (e.len * 3) \div 4
  OBVIOUS
<1>4. l \in Nat
  BY <1>1, <1>3
<1>5. pg_bin_enc_from_base64(e) = [size |-> -1, len |-> l, extent |-> e.extent]
  BY <1>1, <1>2, <1>3
<1> QED BY <1>1, <1>4, <1>5 DEF Obeys, TwoPass, Direct

(* The coders of parameters, without FromBase64 around one that writes to  *)
(* the buffer: that one is known to write too much.                        *)
ParamCoders ==
  {c \in [enc : STRING, elem : STRING, format : Int] :
     c.enc = "from_base64" => c.elem \notin Writing}

LEMMA EncodeObeys ==
  ASSUME NEW c \in ParamCoders, NEW v \in Scalars \cup Hashes
  PROVE  Obeys(Encode(c, v))
<1>1. CASE c.enc = "to_base64"
  BY <1>1, SimpleObeys, ToBase64Obeys DEF Encode
<1>2. CASE c.enc = "from_base64"
  <2>1. c.elem \notin Writing
    BY <1>2 DEF ParamCoders
  <2>2. SimpleEncode(c.elem, v) = pg_coder_enc_to_s(v)
    BY <2>1 DEF SimpleEncode, Writing
  <2>3. Obeys(pg_bin_enc_from_base64(pg_coder_enc_to_s(v)))
    BY ToSObeys, FromBase64Obeys
  <2> QED BY <1>2, <2>2, <2>3 DEF Encode
<1>3. CASE c.enc \notin {"to_base64", "from_base64"}
  BY <1>3, SimpleObeys DEF Encode
<1> QED BY <1>1, <1>2, <1>3

(* What a program can pass to alloc_query_params. *)
ParamMaps ==
  [kind : {"column"}, convs : Seq(ParamCoders \cup {None})]
    \cup [kind : {"class", "mri"}, convs : [TypeNames -> ParamCoders \cup {None, ProcNil}]]
    \cup [kind : {"ruby"}, answer : ParamCoders \cup {None, Inherit, NotACoder}]
    \cup [kind : {"oid"}]
InputsOK ==
  /\ ParamLists \subseteq Seq(Scalars \cup Hashes \cup {None})
  /\ QueryMaps \subseteq Seq(ParamMaps)

ConvOK == conv \in ParamCoders \cup {None}

LEMMA ParamTyped ==
  ASSUME InputsOK, QpInv, qstep \in {"ask", "encode"}
  PROVE  Param \in Scalars \cup Hashes \cup {None} /\ TypeOf(Param) \in TypeNames
<1>1. params \in Seq(Scalars \cup Hashes \cup {None}) /\ field \in 1..Len(params)
  BY DEF InputsOK, QpInv, QpTypeOK, QpProgress
<1>2. Param \in Scalars \cup Hashes \cup {None}
  BY <1>1 DEF Param
<1>3. CASE Param = None
  BY <1>2, <1>3 DEF TypeOf, TypeNames
<1>4. CASE Param # None
  BY <1>2, <1>4, ValueFacts DEF TypeOf
<1> QED BY <1>2, <1>3, <1>4

(* A coder that alloc_query_params was given obeys, for every value. *)
LEMMA ConvObeys == ASSUME InputsOK, QpInv, ConvOK PROVE EncodersObey
<1>1. SUFFICES ASSUME qstep = "encode" PROVE Format \in Int /\ (Value # None => TwoPass(Encoding))
  BY DEF EncodersObey
<1>2. Param \in Scalars \cup Hashes \cup {None}
  BY <1>1, ParamTyped
<1>3. HashForm => Param \in Hashes
  <2>1. HashForm => Param # None /\ Param.t = "hash"
    BY DEF HashForm, TypeOf
  <2> QED BY <1>2, <2>1 DEF Scalars, Doubles
<1>4. Param \in Hashes => Param.value \in Scalars \cup {None} /\ Param.format \in Int
  BY DEF Hashes
<1>5. Value \in Scalars \cup Hashes \cup {None}
  BY <1>2, <1>3, <1>4 DEF Value
<1>6. Format \in Int
  <2>1. conv # None => conv.format \in Int
    BY DEF ConvOK, ParamCoders
  <2> QED BY <1>3, <1>4, <2>1 DEF Format
<1>7. ASSUME Value # None PROVE TwoPass(Encoding)
  <2>1. Obeys(Encoding)
    <3>1. CASE conv = None
      BY <1>5, <1>7, <3>1, ToSObeys DEF Encoding
    <3>2. CASE conv # None
      BY <1>5, <1>7, <3>2, EncodeObeys DEF Encoding, ConvOK
    <3> QED BY <3>1, <3>2
  <2> QED BY <2>1 DEF Obeys
<1> QED BY <1>6, <1>7

LEMMA ConvStep ==
  ASSUME InputsOK, QpInv, ConvOK, [QpNext]_qpVars
  PROVE  ConvOK'
<1>1. ASSUME UNCHANGED conv PROVE ConvOK'
  BY <1>1 DEF ConvOK
<1>2. Raise \/ AskDefault => UNCHANGED conv
  BY DEF Raise, AskDefault
<1>3. qmap \in Seq(ParamMaps) /\ asked \in Nat \ {0} /\ Len(qmap) \in Nat
  BY DEF InputsOK, QpInv, QpTypeOK
<1>4. ASSUME asked <= Len(qmap) PROVE qmap[asked] \in ParamMaps
  BY <1>3, <1>4
<1>5. CASE pg_tmbc_typecast_query_param
  <2>1. /\ qmap[asked] \in ParamMaps /\ qmap[asked].kind = "column" /\ qstep = "ask"
        /\ asked \in 1..Len(qmap)
    BY <1>3, <1>4, <1>5 DEF pg_tmbc_typecast_query_param, AtMap
  <2>2. qmap[asked].convs \in Seq(ParamCoders \cup {None})
    BY <2>1 DEF ParamMaps
  <2>3. field \in 1..Len(qmap[asked].convs)
    BY <2>1 DEF QpInv, QpTypeOK, MapsFit, Fits, QpProgress, nParams
  <2>4. qmap[asked].convs[field] \in ParamCoders \cup {None}
    BY <2>2, <2>3
  <2> QED BY <1>1, <1>2, <1>5, <2>4 DEF pg_tmbc_typecast_query_param, Answer, ConvOK
<1>6. CASE pg_tmbk_typecast_query_param
  <2>1. qmap[asked] \in ParamMaps /\ qmap[asked].kind = "class" /\ qstep = "ask"
    BY <1>3, <1>4, <1>6 DEF pg_tmbk_typecast_query_param, AtMap
  <2>2. qmap[asked].convs[TypeOf(Param)] \in ParamCoders \cup {None, ProcNil}
    BY <2>1, ParamTyped DEF ParamMaps
  <2> QED BY <1>1, <1>2, <1>6, <2>2 DEF pg_tmbk_typecast_query_param, Answer, ConvOK
<1>7. CASE pg_tmbmt_typecast_query_param
  <2>1. qmap[asked] \in ParamMaps /\ qmap[asked].kind = "mri" /\ qstep = "ask"
    BY <1>3, <1>4, <1>7 DEF pg_tmbmt_typecast_query_param, AtMap
  <2>2. qmap[asked].convs[TypeOf(Param)] \in ParamCoders \cup {None, ProcNil}
    BY <2>1, ParamTyped DEF ParamMaps
  <2> QED BY <1>1, <1>2, <1>7, <2>2 DEF pg_tmbmt_typecast_query_param, Answer, ConvOK
<1>8. CASE pg_tmir_query_param
  <2>1. qmap[asked] \in ParamMaps /\ qmap[asked].kind = "ruby"
    BY <1>3, <1>4, <1>8 DEF pg_tmir_query_param, AtMap
  <2>2. qmap[asked].answer \in ParamCoders \cup {None, Inherit, NotACoder}
    BY <2>1 DEF ParamMaps
  <2> QED BY <1>1, <1>2, <1>8, <2>2 DEF pg_tmir_query_param, Answer, ConvOK
<1>9. CASE pg_tmas_typecast_query_param
  BY <1>9 DEF pg_tmas_typecast_query_param, Answer, ConvOK
<1>10. CASE EncodeNull \/ EncodeToString \/ EncodeToBuffer
  <2>1. conv' = None
    BY <1>10 DEF EncodeNull, EncodeToString, EncodeToBuffer, NextParam
  <2> QED BY <2>1 DEF ConvOK
<1>11. CASE UNCHANGED qpVars
  BY <1>1, <1>11 DEF qpVars
<1>12. CASE \/ pg_tmbc_fit_to_query \/ pg_tmbk_fit_to_query \/ pg_typemap_fit_to_query
            \/ AllocArrays \/ EncodeRaises \/ EncodeRaisesLate \/ SendParams
  BY <1>1, <1>2, <1>12 DEF pg_tmbc_fit_to_query, pg_tmbk_fit_to_query, pg_typemap_fit_to_query,
                           AllocArrays, EncodeRaises, EncodeRaisesLate, SendParams
<1> QED BY <1>5, <1>6, <1>7, <1>8, <1>9, <1>10, <1>11, <1>12 DEF QpNext

(* The contract of every encoder, for every parameter that a program can   *)
(* pass: the sizes that the first calls tell, by the bits of an Integer,   *)
(* fixed for a Float, twice the length for bytea or four thirds for        *)
(* Base64, are enough for what the second calls write.  The coder is one   *)
(* that the type maps gave for this parameter.                             *)
THEOREM EncodersKeepContract == ASSUME InputsOK PROVE QpSpec => []EncodersObey
<1>1. QpInit => QpInv /\ ConvOK
  BY QpInitInv DEF QpInit, ConvOK
<1>2. QpInv /\ ConvOK /\ [QpNext]_qpVars => (QpInv /\ ConvOK)'
  BY QpNextInv, ConvObeys, ConvStep
<1>3. QpInv /\ ConvOK => EncodersObey
  BY ConvObeys
<1> QED BY <1>1, <1>2, <1>3, PTL DEF QpSpec

(* With it, the parameters are safe without a condition on the encoders. *)
THEOREM ParamsAreSafe ==
  ASSUME InputsOK PROVE QpSpec => [](WritesFit /\ ParamsIntact /\ AskedColumnExists)
BY EncodersKeepContract, WritesStayInside, ParamsReadIntact, ColumnsExist, PTL
=============================================================================
