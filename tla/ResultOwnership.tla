-------------------------- MODULE ResultOwnership --------------------------
(***************************************************************************)
(* Who frees a PGresult: the PG::Result objects of ext/pg_result.c with    *)
(* #clear, #freeze, the garbage collector, the copies that stream_each_    *)
(* tuple makes for its PG::Tuple objects (ext/pg_tuple.c), and the         *)
(* autoclear results of the notice receiver (ext/pg_connection.c), whose   *)
(* PGresult belongs to libpq.                                              *)
(*                                                                         *)
(* Ptrs are the PGresult structs libpq hands out, each of them once; Objs  *)
(* are the PG::Result objects of the Ruby heap.                            *)
(***************************************************************************)
EXTENDS Naturals, FiniteSets

CONSTANTS
  Objs, Ptrs,
  Null,         \* the NULL pointer
  NoObj,        \* no PG::Result object
  ClearInEach   \* the block of #each may call #clear on the result

ASSUME NullAssumption == Null \notin Ptrs /\ NoObj \notin Objs
ASSUME FlagAssumption == ClearInEach \in BOOLEAN

VARIABLES
  heap,       \* of each PGresult: unused, live, freed, or freed twice
  lent,       \* the PGresults of running notice receivers: libpq frees them
  state,      \* of each object: none, live or collected
  pgresult,   \* this->pgresult
  autoclear,  \* this->autoclear
  reach,      \* the objects the program holds a reference to
  tupled,     \* the objects that PG::Tuples in use refer to
  frozen,     \* the objects that are frozen
  notice,     \* the object of the running notice receiver, or NoObj
  stream,     \* the object of the running stream_*, or NoObj
  phase,      \* where the stream is: none, row, yield or next
  each,       \* the object of the running #each, or NoObj
  result,     \* the local variable "result" of pgresult_each
  unfinished, \* history: PGresults whose object was not completed
  abandoned,  \* history: PGresults of notice receivers that raised
  misused     \* history: a PGresult was read after it was freed

roVars == <<heap, lent, state, pgresult, autoclear, reach, tupled, frozen, notice,
          stream, phase, each, result, unfinished, abandoned, misused>>
loopVars == <<notice, stream, phase, each, result, unfinished, abandoned>>

RoInit ==
  /\ heap = [p \in Ptrs |-> "unused"]
  /\ lent = {}
  /\ state = [o \in Objs |-> "none"]
  /\ pgresult = [o \in Objs |-> Null]
  /\ autoclear = [o \in Objs |-> FALSE]
  /\ reach = {} /\ tupled = {} /\ frozen = {}
  /\ notice = NoObj /\ stream = NoObj /\ phase = "none"
  /\ each = NoObj /\ result = Null
  /\ unfinished = {} /\ abandoned = {} /\ misused = FALSE

-----------------------------------------------------------------------------
(* libpq (external) *)

PQclear(h, p) == [h EXCEPT ![p] = IF h[p] = "live" THEN "freed" ELSE "twice"]

(* A PGresult that libpq allocates. *)
Fresh(p) == heap[p] = "unused"
Allocate(p) == [heap EXCEPT ![p] = "live"]

Read(p) == misused \/ heap[p] # "live"

-----------------------------------------------------------------------------
(* ext/pg_result.c *)

(* The heap after pgresult_clear, which forgets the pointer either way. *)
pgresult_clear(o) ==
  IF pgresult[o] # Null /\ ~autoclear[o] THEN PQclear(heap, pgresult[o]) ELSE heap

Forget(o) == pgresult' = [pgresult EXCEPT ![o] = Null]

(* A new object for pointer p. *)
Create(o, p, auto) ==
  /\ state[o] = "none"
  /\ state' = [state EXCEPT ![o] = "live"]
  /\ pgresult' = [pgresult EXCEPT ![o] = p]
  /\ autoclear' = [autoclear EXCEPT ![o] = auto]

(* exec, get_result and all others that return a result *)
pg_new_result(o, p) ==
  /\ Fresh(p)
  /\ heap' = Allocate(p)
  /\ Create(o, p, FALSE)
  /\ reach' = reach \cup {o}
  /\ UNCHANGED <<lent, tupled, frozen, loopVars, misused>>

(* fit_to_result raises within pg_new_result2: the object is garbage, and  *)
(* its bit field autoclear has not been assigned since xmalloc.            *)
pg_new_result2_raises(o, p) ==
  /\ Fresh(p)
  /\ heap' = Allocate(p)
  /\ \E uninitialized \in BOOLEAN : Create(o, p, uninitialized)
  /\ unfinished' = unfinished \cup {p}
  /\ UNCHANGED <<lent, reach, tupled, frozen, notice, stream, phase, each, result, abandoned,
                 misused>>

(* PG::Result#clear, also at the end of the block of exec and get_result *)
pg_result_clear(o) ==
  /\ o \in reach \ frozen
  /\ o = each => ClearInEach
  /\ heap' = pgresult_clear(o)
  /\ Forget(o)
  /\ UNCHANGED <<lent, state, autoclear, reach, tupled, frozen, loopVars, misused>>

(* PG::Result#freeze; ensure_init_for_tuple raises for a cleared result. *)
pg_result_freeze(o) ==
  /\ o \in reach \ frozen
  /\ pgresult[o] # Null
  /\ frozen' = frozen \cup {o}
  /\ misused' = Read(pgresult[o])
  /\ UNCHANGED <<heap, lent, state, pgresult, autoclear, reach, tupled, loopVars>>

(* Any accessor, and PG::Result#tuple: pgresult_get_this_safe raises for a *)
(* cleared result.                                                         *)
pgresult_access(o) ==
  /\ o \in reach \cup tupled
  /\ pgresult[o] # Null
  /\ misused' = Read(pgresult[o])
  /\ \/ UNCHANGED tupled
     \/ o \in reach /\ tupled' = tupled \cup {o}
  /\ UNCHANGED <<heap, lent, state, pgresult, autoclear, reach, frozen, loopVars>>

(* The program forgets an object, or the tuples of an object (they are     *)
(* dropped, or materialized and detached).                                 *)
Drop(o) ==
  /\ o \in reach
  /\ reach' = reach \ {o}
  /\ UNCHANGED <<heap, lent, state, pgresult, autoclear, tupled, frozen, loopVars, misused>>

pg_tuple_detach(o) ==
  /\ o \in tupled
  /\ tupled' = tupled \ {o}
  /\ UNCHANGED <<heap, lent, state, pgresult, autoclear, reach, frozen, loopVars, misused>>

(* The collector frees what nothing refers to; methods on the stack do. *)
pgresult_gc_free(o) ==
  /\ state[o] = "live"
  /\ o \notin reach \cup tupled \cup {notice, stream, each}
  /\ state' = [state EXCEPT ![o] = "collected"]
  /\ heap' = pgresult_clear(o)
  /\ Forget(o)
  /\ UNCHANGED <<lent, autoclear, reach, tupled, frozen, loopVars, misused>>

(* pgresult_each: the pointer is fetched once, the block may do anything,  *)
(* then the loop condition reads the number of tuples through it again.    *)
pgresult_each(o) ==
  /\ each = NoObj
  /\ o \in reach
  /\ pgresult[o] # Null
  /\ each' = o
  /\ result' = pgresult[o]
  /\ misused' = Read(pgresult[o])
  /\ UNCHANGED <<heap, lent, state, pgresult, autoclear, reach, tupled, frozen, notice,
                 stream, phase, unfinished, abandoned>>

EachNext ==
  /\ each # NoObj
  /\ misused' = Read(result)
  /\ \/ UNCHANGED <<each, result>>
     \/ each' = NoObj /\ result' = Null
  /\ UNCHANGED <<heap, lent, state, pgresult, autoclear, reach, tupled, frozen, notice,
                 stream, phase, unfinished, abandoned>>

(* Calls nest: an #each of o within a block of another method on o is over *)
(* when that method goes on.                                               *)
EachIsOver(o) == each = o => ClearInEach

-----------------------------------------------------------------------------
(* pgresult_stream_any; for the result of a notice, which is not one of a  *)
(* query, pg_result_check raises.                                          *)

StreamStart(o) ==
  /\ stream = NoObj /\ notice = NoObj
  /\ ~autoclear[o]
  /\ o = each => ClearInEach
  /\ o \in reach \ frozen
  /\ pgresult[o] # Null
  /\ stream' = o
  /\ phase' = "row"
  /\ UNCHANGED <<heap, lent, state, pgresult, autoclear, reach, tupled, frozen, notice,
                 each, result, misused, unfinished, abandoned>>

(* yield_hash, yield_array: the rows are read from the object itself, and  *)
(* it is cleared afterwards.                                               *)
yield_rows ==
  /\ phase = "row"
  /\ phase' = "yield"
  /\ misused' = IF pgresult[stream] = Null THEN misused ELSE Read(pgresult[stream])
  /\ UNCHANGED <<heap, lent, state, pgresult, autoclear, reach, tupled, frozen, notice,
                 stream, each, result, unfinished, abandoned>>

StreamClear ==
  /\ phase = "yield"
  /\ EachIsOver(stream)
  /\ phase' = "next"
  /\ heap' = pgresult_clear(stream)
  /\ Forget(stream)
  /\ UNCHANGED <<lent, state, autoclear, reach, tupled, frozen, notice, stream, each,
                 result, misused, unfinished, abandoned>>

(* yield_tuple: a copy takes the PGresult over and lives on in the tuples. *)
MovedTo_both(c) == [pgresult EXCEPT ![c] = pgresult[stream]]
MovedTo(c) == [pgresult EXCEPT ![c] = pgresult[stream], ![stream] = Null]

yield_tuple(c) ==
  /\ phase = "row"
  /\ EachIsOver(stream)
  /\ pgresult[stream] # Null
  /\ state[c] = "none"
  /\ state' = [state EXCEPT ![c] = "live"]
  /\ autoclear' = [autoclear EXCEPT ![c] = autoclear[stream]]
  /\ pgresult' = MovedTo(c)
  /\ tupled' = tupled \cup {c}
  /\ phase' = "next"
  /\ UNCHANGED <<heap, lent, reach, frozen, notice, stream, each, result, misused, unfinished,
                 abandoned>>

(* The block raises or breaks, or no further result comes in. *)
StreamLeave ==
  /\ phase \in {"yield", "next"}
  /\ stream' = NoObj
  /\ phase' = "none"
  /\ UNCHANGED <<heap, lent, state, pgresult, autoclear, reach, tupled, frozen, notice,
                 each, result, misused, unfinished, abandoned>>

(* PQgetResult: the next row, or the last, empty result.  A result with    *)
(* another number of fields is cleared before the method raises.           *)
StreamNext(p) ==
  /\ phase = "next"
  /\ Fresh(p)
  /\ heap' = Allocate(p)
  /\ pgresult' = [pgresult EXCEPT ![stream] = p]
  /\ \/ phase' = "row" /\ UNCHANGED stream
     \/ phase' = "none" /\ stream' = NoObj
  /\ UNCHANGED <<lent, state, autoclear, reach, tupled, frozen, notice, each, result,
                 misused, unfinished, abandoned>>

StreamFieldsChanged(p) ==
  /\ phase = "next"
  /\ Fresh(p)
  /\ heap' = PQclear(Allocate(p), p)
  /\ Forget(stream)
  /\ phase' = "none" /\ stream' = NoObj
  /\ UNCHANGED <<lent, state, autoclear, reach, tupled, frozen, notice, each, result,
                 misused, unfinished, abandoned>>

-----------------------------------------------------------------------------
(* ext/pg_connection.c *)

(* notice_receiver_proxy: libpq lends a PGresult for the time of the call. *)
NoticeBegin(o, p) ==
  /\ notice = NoObj
  /\ Fresh(p)
  /\ heap' = Allocate(p)
  /\ lent' = {p}
  /\ Create(o, p, TRUE)
  /\ notice' = o
  /\ reach' = reach \cup {o}
  /\ UNCHANGED <<tupled, frozen, stream, phase, each, result, misused, unfinished,
                 abandoned>>

(* The receiver returns: pg_result_clear, which raises for a frozen        *)
(* result, then libpq frees the PGresult.                                  *)
NoticeForget_not(o) == UNCHANGED pgresult
NoticeForget(o) == Forget(o)

NoticeEnd ==
  /\ notice # NoObj
  /\ EachIsOver(notice)
  /\ notice \notin frozen
  /\ heap' = [p \in Ptrs |-> IF p \in lent THEN PQclear(heap, p)[p] ELSE heap[p]]
  /\ lent' = {}
  /\ NoticeForget(notice)
  /\ notice' = NoObj
  /\ UNCHANGED <<state, autoclear, reach, tupled, frozen, stream, phase, each, result,
                 misused, unfinished, abandoned>>

(* The receiver raises or is thrown out of, or pg_result_clear raises: the *)
(* jump skips the rest of notice_receiver_proxy and the frame of libpq     *)
(* that would free the PGresult, and the object keeps its pointer.  (An    *)
(* object that cannot be made for the receiver: pg_new_result2_raises.)    *)
NoticeRaises ==
  /\ notice # NoObj
  /\ EachIsOver(notice)
  /\ lent' = {}
  /\ abandoned' = abandoned \cup lent
  /\ notice' = NoObj
  /\ UNCHANGED <<heap, state, pgresult, autoclear, reach, tupled, frozen, stream, phase,
                 each, result, misused, unfinished>>

RoNext ==
  \/ \E o \in Objs :
       \/ \E p \in Ptrs : pg_new_result(o, p) \/ pg_new_result2_raises(o, p) \/ NoticeBegin(o, p)
       \/ pg_result_clear(o) \/ pg_result_freeze(o) \/ pgresult_access(o) \/ Drop(o)
       \/ pg_tuple_detach(o) \/ pgresult_gc_free(o) \/ pgresult_each(o)
       \/ StreamStart(o) \/ yield_tuple(o)
  \/ EachNext \/ yield_rows \/ StreamClear \/ StreamLeave \/ NoticeEnd \/ NoticeRaises
  \/ \E p \in Ptrs : StreamNext(p) \/ StreamFieldsChanged(p)

RoSpec == RoInit /\ [][RoNext]_roVars

-----------------------------------------------------------------------------
(* Properties *)

(* No PGresult is freed twice, whoever comes first of #clear, the garbage  *)
(* collector, a stream, the tuples of a copied result, and libpq.          *)
FreedOnce == \A p \in Ptrs : heap[p] # "twice"

(* No object keeps a pointer to a freed PGresult: what the program can     *)
(* still call methods on either is cleared or is alive.                    *)
NoDangling == \A o \in Objs : pgresult[o] # Null => heap[pgresult[o]] = "live"

(* Every PGresult alive has exactly one owner that will free it: one       *)
(* object without autoclear, or libpq during a notice receiver; and none   *)
(* is freed behind its owner's back.  Two kinds are excepted from having   *)
(* an owner: that of a notice receiver that raised, which nobody is left   *)
(* to free (a leak of the code, see NoticeRaises), and that of an object   *)
(* whose construction raised, which has no defined autoclear, so that the  *)
(* collector frees it or nobody does.                                      *)
Owner(o, p) == state[o] = "live" /\ pgresult[o] = p /\ ~autoclear[o]
OneOwner ==
  \A p \in Ptrs \ unfinished : heap[p] = "live" =>
    IF p \in lent \cup abandoned THEN \A o \in Objs : ~Owner(o, p)
    ELSE \E o \in Objs : Owner(o, p) /\ \A q \in Objs : Owner(q, p) => q = o

(* The three together: no PGresult is freed twice, nobody keeps a pointer  *)
(* to a freed one, and but for those of raising callbacks and constructors *)
(* each has its one owner until it is freed.                               *)
ResultsOwned == FreedOnce /\ NoDangling /\ OneOwner

(* The access to a result after #clear raises instead of reading the       *)
(* freed memory.                                                           *)
NoUseAfterClear == ~misused
=============================================================================
