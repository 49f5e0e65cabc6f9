---------------------------- MODULE QueryParams ----------------------------
(***************************************************************************)
(* Preparing the parameters of a query (alloc_query_params of              *)
(* ext/pg_connection.c), which exec_params, exec_prepared and their send_  *)
(* variants call before they hand the parameters to libpq.                 *)
(*                                                                         *)
(* The type map is asked whether it fits and then, for each parameter, for *)
(* a coder; every map of the chain may pass the question on to its         *)
(* default.  What the coder writes goes to a memory pool on the stack,     *)
(* behind the arrays for libpq, or, when the pool is full, to a chunk on   *)
(* the heap.  Strings that a coder makes are kept alive by an Array.       *)
(*                                                                         *)
(* The program does not change the Array of parameters, or the Strings in  *)
(* it, while the call runs.                                                *)
(***************************************************************************)
EXTENDS ScalarEncoders, Sequences

CONSTANTS
  PoolSize,      \* QUERYDATA_BUFFER_SIZE, the bytes of memory_pool
  ParamLists,    \* the Arrays of parameters: sequences of values
  QueryMaps,     \* the type maps with their defaults: sequences of maps
  None,          \* nil as a value, NULL as a coder
  ProcNil,       \* in place of a coder: a proc that returns nil
  Inherit,       \* in place of an answer: typecast_query_param is inherited
  NotACoder      \* an object that is no PG::Coder

ASSUME PoolAssumption == PoolSize \in Nat
ASSUME ListsAssumption ==
  /\ \A p \in ParamLists : Len(p) \in Nat
  /\ \A m \in QueryMaps : Len(m) \in Nat

(* A map is a record with its kind.  Maps by column and by class have      *)
(* convs, by position or by type of the value; a map in Ruby has the       *)
(* answer of its typecast_query_param.  The last default is always a       *)
(* TypeMapAllStrings, which is left out of the sequence.                   *)

VARIABLES
  qstep,          \* "fit", "ask", "encode", "send", "sent" or "raised"
  with_types,     \* the call takes OIDs of types: exec_params
  params,         \* the parameters
  qmap,           \* the type map and its defaults
  asked,          \* how far in qmap the question went
  field,          \* the parameter at work
  conv,           \* its coder, or None
  heap_pool,      \* the arrays for libpq are on the heap
  required_pool_size,
  typecast_buf,   \* where the next value goes: chunk (0 the pool) and offset
  heap_chain,     \* typecast_heap_chain: the sizes of the chunks
  formats, lengths, vals,     \* for libpq, of the parameters so far
  gc_array        \* the parameters with a String held by gc_array

qpVars == <<qstep, with_types, params, qmap, asked, field, conv, heap_pool, required_pool_size,
            typecast_buf, heap_chain, formats, lengths, vals, gc_array>>

Unset == -1   \* a length that is left uninitialized

(* The pointers for libpq: NULL, to a String which is the parameter        *)
(* itself or a new one, or to memory that kept and touched count the bytes *)
(* of: what the value and its NUL occupy, and all that was written to.     *)
NullPtr == [ptr |-> "null"]
StringPtr(same) == [ptr |-> "string", same |-> same]
BufPtr(buf, kept, touched) ==
  [ptr |-> "buf", chunk |-> buf.chunk, at |-> buf.at, kept |-> kept, touched |-> touched]

nParams == Len(params)

(* A pointer, two ints and an Oid. *)
ArraysSize(n, types) == n * (8 + 4 + 4 + (IF types THEN 4 ELSE 0))

-----------------------------------------------------------------------------
QpInit ==
  /\ qstep = "fit"
  /\ with_types \in BOOLEAN
  /\ params \in ParamLists
  /\ qmap \in QueryMaps
  /\ asked = 1
  /\ field = 1
  /\ conv = None
  /\ heap_pool = FALSE
  /\ required_pool_size = 0
  /\ typecast_buf = [chunk |-> 0, at |-> 0]
  /\ heap_chain = <<>>
  /\ formats = <<>> /\ lengths = <<>> /\ vals = <<>>
  /\ gc_array = {}

paramVars == <<with_types, params, qmap>>
poolVars == <<heap_pool, required_pool_size, typecast_buf, heap_chain>>
outVars == <<formats, lengths, vals, gc_array>>

Raise ==
  /\ qstep' = "raised"
  /\ UNCHANGED <<paramVars, asked, field, conv, poolVars, outVars>>

AskDefault ==
  /\ asked' = asked + 1
  /\ UNCHANGED <<qstep, paramVars, field, conv, poolVars, outVars>>

AtMap(kinds) == asked <= Len(qmap) /\ qmap[asked].kind \in kinds

(* fit_to_query of the maps in turn. *)
Fits(m) == Len(m.convs) = nParams

pg_tmbc_fit_to_query ==
  /\ qstep = "fit" /\ AtMap({"column"})
  /\ IF Fits(qmap[asked]) THEN AskDefault ELSE Raise

(* Of maps by class, MRI type or in Ruby: nothing to check here. *)
pg_tmbk_fit_to_query_alone ==
  /\ qstep = "fit" /\ AtMap({"class", "mri", "ruby"})
  /\ asked' = Len(qmap) + 1
  /\ UNCHANGED <<qstep, paramVars, field, conv, poolVars, outVars>>
pg_tmbk_fit_to_query ==
  /\ qstep = "fit" /\ AtMap({"class", "mri", "ruby"})
  /\ AskDefault

(* Maps that are only for results do not implement it. *)
pg_typemap_fit_to_query ==
  /\ qstep = "fit" /\ AtMap({"oid"})
  /\ Raise

(* The arrays for libpq go to the pool, or to the heap if they do not fit; *)
(* then all of the pool is left for values.                                *)
AllocArrays_keeps ==
  /\ qstep = "fit" /\ asked > Len(qmap)
  /\ LET size == ArraysSize(nParams, with_types)
     IN  /\ heap_pool' = (PoolSize < size)
         /\ required_pool_size' = 0
  /\ typecast_buf' = [chunk |-> 0, at |-> required_pool_size']
  /\ qstep' = IF nParams = 0 THEN "send" ELSE "ask"
  /\ asked' = 1
  /\ UNCHANGED <<paramVars, field, conv, heap_chain, outVars>>

AllocArrays ==
  /\ qstep = "fit" /\ asked > Len(qmap)
  /\ LET size == ArraysSize(nParams, with_types)
     IN  /\ heap_pool' = (PoolSize < size)
         /\ required_pool_size' = IF PoolSize < size THEN 0 ELSE size
  /\ typecast_buf' = [chunk |-> 0, at |-> required_pool_size']
  /\ qstep' = IF nParams = 0 THEN "send" ELSE "ask"
  /\ asked' = 1
  /\ UNCHANGED <<paramVars, field, conv, heap_chain, outVars>>

-----------------------------------------------------------------------------
(* typecast_query_param of the maps in turn. *)

Param == params[field]
TypeOf(v) == IF v = None THEN "nil" ELSE v.t

Answer(c) ==
  /\ qstep' = "encode"
  /\ conv' = c
  /\ UNCHANGED <<paramVars, asked, field, poolVars, outVars>>

pg_tmbc_typecast_query_param ==
  /\ qstep = "ask" /\ AtMap({"column"})
  /\ LET c == qmap[asked].convs[field]
     IN  IF c = None THEN AskDefault ELSE Answer(c)

(* By class: a proc's nil passes the question on. *)
pg_tmbk_typecast_query_param ==
  /\ qstep = "ask" /\ AtMap({"class"})
  /\ LET c == qmap[asked].convs[TypeOf(Param)]
     IN  IF c \in {None, ProcNil} THEN AskDefault ELSE Answer(c)

(* By MRI type: a proc has to return a coder. *)
pg_tmbmt_typecast_query_param ==
  /\ qstep = "ask" /\ AtMap({"mri"})
  /\ LET c == qmap[asked].convs[TypeOf(Param)]
     IN  CASE c = None -> AskDefault
           [] c = ProcNil -> Raise
           [] OTHER -> Answer(c)

(* In Ruby: nil is the answer, except from the inherited method, which     *)
(* asks the default.                                                       *)
pg_tmir_query_param ==
  /\ qstep = "ask" /\ AtMap({"ruby"})
  /\ LET c == qmap[asked].answer
     IN  CASE c = Inherit -> AskDefault
           [] c = NotACoder -> Raise
           [] OTHER -> Answer(c)

pg_tmas_typecast_query_param ==
  /\ qstep = "ask" /\ asked > Len(qmap)
  /\ Answer(None)

-----------------------------------------------------------------------------
(* Without coder, a Hash gives value and format. *)
HashForm == conv = None /\ TypeOf(Param) = "hash"
Value == IF HashForm THEN Param.value ELSE Param
Format ==
  CASE conv # None -> conv.format
    [] HashForm -> Param.format
    [] OTHER -> 0

(* pg_coder_enc_func: without a coder it is to_s. *)
Encoding == IF conv = None THEN pg_coder_enc_to_s(Value) ELSE Encode(conv, Value)

(* to_s of a String is the String, unless it has to be transcoded; other   *)
(* functions make a new one.                                               *)
SameString ==
  /\ TypeOf(Value) = "str"
  /\ ~Value.foreign
  /\ conv # None => conv.enc \notin {"to_base64", "from_base64", "ruby"}
HasNul ==
  /\ TypeOf(Value) = "str" /\ Value.nul
  /\ conv # None => conv.enc # "to_base64"

NextParam(value, length) ==
  /\ vals' = Append(vals, value)
  /\ lengths' = Append(lengths, length)
  /\ formats' = Append(formats, Format)
  /\ field' = field + 1
  /\ asked' = 1
  /\ conv' = None
  /\ qstep' = IF field = nParams THEN "send" ELSE "ask"
  /\ UNCHANGED <<paramVars, heap_pool>>

EncodeNull ==
  /\ qstep = "encode" /\ Value = None
  /\ NextParam(NullPtr, 0)
  /\ UNCHANGED <<required_pool_size, typecast_buf, heap_chain, gc_array>>

(* The first pass raises, or StringValueCStr does for a NUL byte in text. *)
EncodeRaises ==
  /\ qstep = "encode" /\ Value # None
  /\ \/ Encoding.size = Raises
     \/ Encoding.size = Direct /\ Format = 0 /\ HasNul
  /\ Raise

(* A new String is kept from the garbage collector. *)
Hold == IF SameString THEN gc_array ELSE gc_array \cup {field}

EncodeToString ==
  /\ qstep = "encode" /\ Value # None
  /\ Encoding.size = Direct
  /\ ~(Format = 0 /\ HasNul)
  /\ gc_array' = Hold
  /\ NextParam(StringPtr(SameString), Encoding.len)
  /\ UNCHANGED <<required_pool_size, typecast_buf, heap_chain>>

(* The pool has no room for size bytes and a NUL. *)
NeedsChunk_exact(size) == PoolSize < required_pool_size + size
NeedsChunk(size) == PoolSize < required_pool_size + size + 1

Target(size) ==
  IF NeedsChunk(size) THEN [chunk |-> Len(heap_chain) + 1, at |-> 0] ELSE typecast_buf

alloc_typecast_buf(size) ==
  heap_chain' = IF NeedsChunk(size) THEN Append(heap_chain, size + 1) ELSE heap_chain

(* Text gets a NUL, binary data a length. *)
EncodeToBuffer ==
  /\ qstep = "encode" /\ Value # None
  /\ Encoding.size >= 0 /\ Encoding.len >= 0
  /\ LET e    == Encoding
         kept == IF Format = 0 THEN e.len + 1 ELSE e.len
         to   == Target(e.size)
     IN  /\ alloc_typecast_buf(e.size)
         /\ typecast_buf' = [to EXCEPT !.at = @ + kept]
         /\ required_pool_size' = required_pool_size + kept
         /\ NextParam(BufPtr(to, kept, Larger(kept, e.extent)), IF Format = 0 THEN Unset ELSE e.len)
  /\ UNCHANGED gc_array

(* The second pass raises. *)
EncodeRaisesLate ==
  /\ qstep = "encode" /\ Value # None
  /\ Encoding.size >= 0 /\ Encoding.len < 0
  /\ qstep' = "raised"
  /\ alloc_typecast_buf(Encoding.size)
  /\ UNCHANGED <<paramVars, asked, field, conv, heap_pool, required_pool_size, typecast_buf,
                 outVars>>

-----------------------------------------------------------------------------
(* gvl_PQexecParams and the like read the parameters. *)
SendParams ==
  /\ qstep = "send"
  /\ qstep' = "sent"
  /\ UNCHANGED <<paramVars, asked, field, conv, poolVars, outVars>>

QpNext ==
  \/ pg_tmbc_fit_to_query \/ pg_tmbk_fit_to_query \/ pg_typemap_fit_to_query
  \/ AllocArrays
  \/ pg_tmbc_typecast_query_param \/ pg_tmbk_typecast_query_param
  \/ pg_tmbmt_typecast_query_param \/ pg_tmir_query_param \/ pg_tmas_typecast_query_param
  \/ EncodeNull \/ EncodeRaises \/ EncodeToString \/ EncodeToBuffer \/ EncodeRaisesLate
  \/ SendParams

QpSpec == QpInit /\ [][QpNext]_qpVars

-----------------------------------------------------------------------------
(* Properties *)

(* The first call of an encoder tells a size that the second one does not  *)
(* exceed, neither with its result ("may not be smaller",                  *)
(* ext/pg_text_encoder.c:35) nor with what it writes.                      *)
TwoPass(e) ==
  /\ e.size \in Int /\ e.len \in Int /\ e.extent \in Int
  /\ e.size = Direct => e.len >= 0
  /\ e.size >= 0 /\ e.len >= 0 => e.len <= e.size /\ e.extent <= e.size

(* Every encoder keeps the two-pass contract for every value it is given:  *)
(* the size is guessed from the bits of an Integer, fixed for a Float,     *)
(* and that of another encoder for ToBase64.                               *)
EncodersObey ==
  qstep = "encode" => Format \in Int /\ (Value # None => TwoPass(Encoding))

SizeOf(chunk) == IF chunk = 0 THEN PoolSize ELSE heap_chain[chunk]

(* What the coders write, with the NUL that alloc_query_params adds, stays *)
(* within the pool or chunk it goes to: the buffer has "the requested      *)
(* size" (ext/pg_text_encoder.c:27), although a chunk is reused for later  *)
(* values as long as the bookkeeping of the pool says that there is room.  *)
WritesFit ==
  \A i \in DOMAIN vals :
    vals[i].ptr = "buf" => vals[i].at + vals[i].touched <= SizeOf(vals[i].chunk)

(* The arrays for libpq are in the pool's first bytes, if they are there. *)
ArraysInPool == IF heap_pool THEN 0 ELSE ArraysSize(nParams, with_types)

Overwrites(w, v) ==
  /\ w.ptr = "buf" /\ v.ptr = "buf" /\ w.chunk = v.chunk
  /\ w.at < v.at + v.kept /\ v.at < w.at + w.touched

(* When libpq reads the parameters, they are what the coders made of them: *)
(* no value was overwritten by a later one, none lies on the arrays of     *)
(* pointers, Strings that are not among the parameters are held by         *)
(* gc_array, and binary values have a length.                              *)
ParamsIntact ==
  qstep = "send" =>
    /\ \A i, j \in DOMAIN vals : i < j => ~Overwrites(vals[j], vals[i])
    /\ \A i \in DOMAIN vals :
         vals[i].ptr = "buf" /\ vals[i].chunk = 0 => vals[i].at >= ArraysInPool
    /\ \A i \in DOMAIN vals : vals[i].ptr = "string" => vals[i].same \/ i \in gc_array
    /\ \A i \in DOMAIN vals : formats[i] # 0 => lengths[i] # Unset

(* A map by column is only asked for columns that it has: all maps of the  *)
(* chain were checked against the number of parameters before, so that     *)
(* pg_tmbc_typecast_query_param does not check ("already checked in        *)
(* pg_tmbc_fit_to_query()", ext/pg_type_map_by_column.c:120).              *)
AskedColumnExists ==
  qstep = "ask" /\ AtMap({"column"}) => field <= Len(qmap[asked].convs)
=============================================================================
