---------------------------- MODULE TupleFields ----------------------------
(***************************************************************************)
(* A PG::Tuple (ext/pg_tuple.c): its fields are cast when they are read    *)
(* first, and once all of them are, the tuple releases the result.  Casts  *)
(* and blocks run Ruby code, which may read the same tuple again, clear    *)
(* the result, raise, or be switched to another thread.                    *)
(*                                                                         *)
(* A value is the pair of its column and the type map that cast it.        *)
(***************************************************************************)
EXTENDS Naturals, Sequences, FiniteSets, SequencesExt

CONSTANTS
  NameLists,    \* lists of column names, maybe with duplicates
  Threads,
  TypeMaps,     \* type maps that the result can have
  Undef,        \* Qundef
  MaxCalls      \* bound on the methods of the tuple that run at a time

ASSUME TupleAssumption ==
  /\ MaxCalls \in Nat \ {0}
  /\ \A n \in NameLists : n \in Seq(STRING) /\ Len(n) > 0 /\ Undef \notin (DOMAIN n) \X TypeMaps

VARIABLES
  fnames,       \* the names of the columns of the result
  cleared,      \* the result was cleared
  type_map,     \* the type map of the result
  there,        \* pg_tuple_new was called
  attached,     \* this->result and this->typemap are not nil
  tuple_map,      \* this->typemap while it is attached
  values,       \* this->values
  frames,       \* of each thread: its methods of the tuple, the outermost first
  loaded,       \* tuples that were loaded from a dump of this one
  stray         \* history: a field was cast after the result was released

tfVars == <<fnames, cleared, type_map, there, attached, tuple_map, values, frames, loaded, stray>>

Cols == DOMAIN fnames

(* ensure_init_for_tuple, pg_tuple_load: the last column of a name counts. *)
field_map(names) ==
  [n \in ToSet(names) |-> CHOOSE i \in DOMAIN names :
     names[i] = n /\ \A j \in DOMAIN names : names[j] = n => j <= i]

dup_names == Cardinality(DOMAIN field_map(fnames)) # Len(fnames)

TfInit ==
  /\ fnames \in NameLists
  /\ cleared = FALSE
  /\ type_map \in TypeMaps
  /\ there = FALSE /\ attached = FALSE /\ tuple_map = type_map
  /\ values = [c \in Cols |-> Undef]
  /\ frames = [t \in Threads |-> <<>>]
  /\ loaded = {} /\ stray = FALSE

-----------------------------------------------------------------------------
(* The result *)

pgresult_type_map_assign(tm) ==
  /\ ~cleared
  /\ type_map' = tm
  /\ UNCHANGED <<fnames, cleared, there, attached, tuple_map, values, frames, loaded, stray>>

pgresult_clear_all ==
  /\ cleared' = TRUE
  /\ UNCHANGED <<fnames, type_map, there, attached, tuple_map, values, frames, loaded, stray>>

pg_tuple_new ==
  /\ ~there /\ ~cleared
  /\ there' = TRUE /\ attached' = TRUE
  /\ tuple_map' = type_map
  /\ UNCHANGED <<fnames, cleared, type_map, values, frames, loaded, stray>>

-----------------------------------------------------------------------------
(* The methods *)

Top(t) == Last(frames[t])
Runs(t) == frames[t] # <<>>
Pop(t) == frames' = [frames EXCEPT ![t] = Front(@)]
Goto(t, at) == frames' = [frames EXCEPT ![t][Len(frames[t])].at = at]

Running == MapThenSumSet(LAMBDA t : Len(frames[t]), Threads)

(* Ruby code calls a method of the tuple: from outside of all of them, or  *)
(* from a block or a cast within one.  fetch and [] start at their column  *)
(* and the others at the first of the columns they go through.             *)
Call(t, op, c) ==
  /\ there
  /\ Running < MaxCalls
  /\ Runs(t) => Top(t).at \in {"cast", "yield"}
  /\ frames' = [frames EXCEPT ![t] =
                  Append(@, [op |-> op, todo |-> c, at |-> "field", tm |-> tuple_map])]
  /\ UNCHANGED <<fnames, cleared, type_map, there, attached, tuple_map, values, loaded, stray>>

(* The columns a method goes through.  each follows field_map unless names *)
(* are duplicate; a Hash is in the order of insertion.                     *)
EachColumns_map ==
  SetToSortSeq({field_map(fnames)[n] : n \in DOMAIN field_map(fnames)}, <)
EachColumns == IF dup_names THEN [c \in Cols |-> c] ELSE [c \in Cols |-> field_map(fnames)[fnames[c]]]

Through(op) == IF op = "each" THEN EachColumns ELSE [k \in Cols |-> k]

DumpNames == IF dup_names THEN fnames ELSE [k \in DOMAIN EachColumns |-> fnames[EachColumns[k]]]

(* The tuple made of a dump, none if the numbers of elements differ or a   *)
(* field is missing.                                                       *)
pg_tuple_load(names, vals) ==
  IF Len(names) = Len(vals) /\ \A i \in DOMAIN vals : vals[i] # Undef
  THEN {[map |-> field_map(names), values |-> vals]} ELSE {}

(* pg_tuple_detach at the end of the method *)
Finish(t) ==
  /\ attached' = FALSE
  /\ loaded' = IF Top(t).op = "dump" THEN loaded \cup pg_tuple_load(DumpNames, values') ELSE loaded
  /\ Pop(t)

(* After a field: the method returns it, passes it to the block, or goes   *)
(* on to the next one.                                                     *)
NextField(t) ==
  LET f == Top(t) IN
  IF Len(f.todo) > 1
  THEN /\ frames' = [frames EXCEPT ![t][Len(frames[t])] = [f EXCEPT !.todo = Tail(@), !.at = "field"]]
       /\ UNCHANGED <<attached, loaded>>
  ELSE Finish(t)

Fielded(t) ==
  CASE Top(t).op = "fetch" -> Pop(t) /\ UNCHANGED <<attached, loaded>>
    [] Top(t).op \in {"each", "each_value"} -> Goto(t, "yield") /\ UNCHANGED <<attached, loaded>>
    [] OTHER -> NextField(t)

(* pg_tuple_materialize_field: the value is there already ... *)
FieldThere(t) ==
  /\ Runs(t) /\ Top(t).at = "field"
  /\ values[Head(Top(t).todo)] # Undef
  /\ UNCHANGED <<fnames, cleared, type_map, there, tuple_map, values, stray>>
  /\ Fielded(t)

(* ... or pgresult_get raises for a cleared result ... *)
FieldRaises(t) ==
  /\ Runs(t) /\ Top(t).at = "field"
  /\ values[Head(Top(t).todo)] = Undef /\ attached /\ cleared
  /\ Pop(t)
  /\ UNCHANGED <<fnames, cleared, type_map, there, attached, tuple_map, values, loaded, stray>>

(* ... or it is cast by the type map of the tuple. *)
CastMap_result == type_map
CastMap == tuple_map

FieldCast(t) ==
  /\ Runs(t) /\ Top(t).at = "field"
  /\ values[Head(Top(t).todo)] = Undef /\ (attached => ~cleared)
  /\ stray' = (stray \/ ~attached)
  /\ frames' = [frames EXCEPT ![t][Len(frames[t])] = [@ EXCEPT !.at = "cast", !.tm = CastMap]]
  /\ UNCHANGED <<fnames, cleared, type_map, there, attached, tuple_map, values, loaded>>

CastEnds(t) ==
  /\ Runs(t) /\ Top(t).at = "cast"
  /\ LET c == Head(Top(t).todo) IN values' = [values EXCEPT ![c] = <<c, Top(t).tm>>]
  /\ Fielded(t)
  /\ UNCHANGED <<fnames, cleared, type_map, there, tuple_map, stray>>

BlockReturns(t) ==
  /\ Runs(t) /\ Top(t).at = "yield"
  /\ UNCHANGED <<fnames, cleared, type_map, there, tuple_map, values, stray>>
  /\ NextField(t)

(* The block or the cast raises, or the block breaks out of the method. *)
Unwind(t) ==
  /\ Runs(t) /\ Top(t).at \in {"cast", "yield"}
  /\ Pop(t)
  /\ UNCHANGED <<fnames, cleared, type_map, there, attached, tuple_map, values, loaded, stray>>

TfNext ==
  \/ \E tm \in TypeMaps : pgresult_type_map_assign(tm)
  \/ pgresult_clear_all \/ pg_tuple_new
  \/ \E t \in Threads :
       \/ \E c \in Cols : Call(t, "fetch", <<c>>)
       \/ \E op \in {"each", "each_value", "values", "dump"} : Call(t, op, Through(op))
       \/ FieldThere(t) \/ FieldRaises(t) \/ FieldCast(t) \/ CastEnds(t)
       \/ BlockReturns(t) \/ Unwind(t)

TfSpec == TfInit /\ [][TfNext]_tfVars

-----------------------------------------------------------------------------
(* Properties *)

(* A tuple that released its result has all its fields: no method reads a  *)
(* field from the result that another one, or a nested call of the same    *)
(* one, has released in between.                                           *)
DetachedComplete ==
  /\ ~stray
  /\ there /\ ~attached => \A c \in Cols : values[c] # Undef

(* A field has one value, whoever reads it and whenever: cast by the type  *)
(* map that the result had when the tuple was made, although the result    *)
(* may have got another one since then, and kept by the tuple that is      *)
(* loaded from a dump, under the same names.                               *)
TupleValuesFixed ==
  /\ \A c \in Cols : values[c] \in {Undef, <<c, tuple_map>>}
  /\ \A l \in loaded : /\ l.map = field_map(fnames)
                       /\ l.values = [c \in Cols |-> <<c, tuple_map>>]
=============================================================================
