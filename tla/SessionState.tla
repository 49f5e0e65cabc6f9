---------------------------- MODULE SessionState ----------------------------
(***************************************************************************)
(* The session attributes of a connection: what PG::Connection keeps in    *)
(* its own struct, what it installs in libpq's PGconn, and the calls that  *)
(* change one, the other or both: notice handlers, trace, client encoding, *)
(* nonblocking mode, large objects (which switch to blocking mode and      *)
(* back), reset and finish (ext/pg_connection.c, lib/pg/connection.rb).    *)
(* reset_start2 gives the object a new PGconn: what was installed in the   *)
(* old one is gone, what the struct remembers of it is not.                *)
(*                                                                         *)
(* One thread uses the connection.  Descriptors are those that trace gets  *)
(* from dup; the C library gives a closed one to the next file opened.     *)
(***************************************************************************)
EXTENDS Naturals, Sequences

CONSTANTS
  Handlers,        \* blocks for set_notice_receiver and set_notice_processor
  NoHandler,       \* nil
  Descriptors,     \* results of dup
  NoFd,            \* no trace
  EncTable,        \* pg_enc_pg2ruby_mapping: pairs <<PostgreSQL, Ruby>>
  ServerDefault,   \* the client_encoding of a new session
  DefaultInternal, \* Encoding.default_internal
  NoEncoding,      \* its being nil
  ResetNonblocking \* reset may be called in nonblocking mode

ASSUME HandlerAssumption == NoHandler \notin Handlers /\ "stderr" \notin Handlers
ASSUME FdAssumption == NoFd \notin Descriptors
ASSUME ResetAssumption == ResetNonblocking \in BOOLEAN

VARIABLES
  lq,      \* libpq: status, receiver, processor, nonblocking, trace, enc
  cn,      \* t_pg_connection: receiver, processor, defReceiver, defProcessor,
           \* flushData, sendApi (methods that wait are in place), encIdx and
           \* traceStream
  open,    \* descriptors that are open
  ios,     \* those of them that an IO object owns and will close
  asked,   \* history: the handlers that the program has set in this PGconn
  encBy,   \* history: "gem" if the last to change the encoding was a call of
           \* ruby-pg that knows about it and ended regularly, else "other"
  managed  \* history: PGconn is in the mode that ruby-pg has put it in

ssVars == <<lq, cn, open, ios, asked, encBy, managed>>

-----------------------------------------------------------------------------
(* Encodings (ext/pg.c) *)

Binary == "ASCII-8BIT"
PgNames == {EncTable[i][1] : i \in DOMAIN EncTable} \cup {"SQL_ASCII"}

(* The first entry with the name decides in one direction ... *)
pg_get_pg_encname_as_rb_encoding(pg) ==
  LET found == {i \in DOMAIN EncTable : EncTable[i][1] = pg} IN
    IF found = {} THEN Binary
    ELSE EncTable[CHOOSE i \in found : \A j \in found : i <= j][2]

(* ... and the last one in the other. *)
pg_get_rb_encoding_as_pg_encoding(rb) ==
  LET found == {i \in DOMAIN EncTable : EncTable[i][2] = rb} IN
    IF found = {} THEN "SQL_ASCII"
    ELSE EncTable[CHOOSE i \in found : \A j \in found : j <= i][1]

(* The index that pgconn_set_internal_encoding_index stores *)
IndexOf(pg) == pg_get_pg_encname_as_rb_encoding(pg)

-----------------------------------------------------------------------------
(* libpq (external) *)

(* A new PGconn. *)
NewPGconn(status) ==
  [status |-> status, receiver |-> "default", processor |-> "default",
   nonblocking |-> FALSE, trace |-> NoFd, enc |-> ServerDefault]

(* PQreset and PQresetStart keep the PGconn, not its mode and its session. *)
PQreset(status) ==
  [lq EXCEPT !.status = status, !.nonblocking = FALSE, !.enc = ServerDefault]

Closed == [NewPGconn("closed") EXCEPT !.enc = "none"]

(* Calls but a few begin with pg_get_connection_safe. *)
Open == lq.status # "closed"
Ready == lq.status = "ok"

(* A connection that PG::Connection.new has returned. *)
SsInit ==
  LET enc == IF DefaultInternal = NoEncoding THEN ServerDefault
             ELSE pg_get_rb_encoding_as_pg_encoding(DefaultInternal) IN
  /\ lq = [NewPGconn("ok") EXCEPT !.nonblocking = TRUE, !.enc = enc]
  /\ cn = [receiver |-> NoHandler, processor |-> NoHandler,
           defReceiver |-> "NULL", defProcessor |-> "NULL", flushData |-> TRUE,
           sendApi |-> TRUE, encIdx |-> IndexOf(enc), traceStream |-> NoFd]
  /\ open = {} /\ ios = {}
  /\ asked = [receiver |-> NoHandler, processor |-> NoHandler]
  /\ encBy = "gem" /\ managed = TRUE

-----------------------------------------------------------------------------
(* Notices *)

(* What is saved as the default handler: the one found by the first call.  *)
SavedDefault_always(saved, installed) == installed
SavedDefault(saved, installed) == IF saved = "NULL" THEN installed ELSE saved

set_notice_receiver(h) ==
  LET default == SavedDefault(cn.defReceiver, lq.receiver) IN
  /\ Open
  /\ lq' = [lq EXCEPT !.receiver = IF h # NoHandler THEN "proxy" ELSE default]
  /\ cn' = [cn EXCEPT !.receiver = h, !.defReceiver = default]
  /\ asked' = [asked EXCEPT !.receiver = h]
  /\ UNCHANGED <<open, ios, encBy, managed>>

set_notice_processor(h) ==
  LET default == SavedDefault(cn.defProcessor, lq.processor) IN
  /\ Open
  /\ lq' = [lq EXCEPT !.processor = IF h # NoHandler THEN "proxy" ELSE default]
  /\ cn' = [cn EXCEPT !.processor = h, !.defProcessor = default]
  /\ asked' = [asked EXCEPT !.processor = h]
  /\ UNCHANGED <<open, ios, encBy, managed>>

(* Who gets a notice: the proxies call the handler of the struct, if any;  *)
(* libpq's receiver formats the message for the processor.                 *)
notice_processor_proxy ==
  IF lq.processor = "proxy" THEN cn.processor ELSE "stderr"
NoticeGoesTo ==
  IF lq.receiver = "proxy" THEN cn.receiver ELSE notice_processor_proxy

-----------------------------------------------------------------------------
(* Trace *)

(* The descriptor of the stream is duplicated; the FILE is libpq's, the    *)
(* descriptor is closed with the IO object.                                *)
trace ==
  /\ Open
  /\ \E fd \in Descriptors \ open :
       /\ open' = open \cup {fd}
       /\ ios' = ios \cup {fd}
       /\ cn' = [cn EXCEPT !.traceStream = fd]
       /\ lq' = [lq EXCEPT !.trace = fd]
  /\ UNCHANGED <<asked, encBy, managed>>

(* fdopen refuses a stream that is not writable: the duplicate stays open. *)
trace_refused ==
  /\ Open
  /\ \E fd \in Descriptors \ open : open' = open \cup {fd}
  /\ UNCHANGED <<lq, cn, ios, asked, encBy, managed>>

(* Without a trace, "close" is sent to nil, which raises. *)
untrace_close ==
  /\ Open
  /\ open' = open \ {cn.traceStream}
  /\ ios' = ios \ {cn.traceStream}
  /\ cn' = [cn EXCEPT !.traceStream = NoFd]
  /\ UNCHANGED <<lq, asked, encBy, managed>>
untrace ==
  /\ Open
  /\ lq' = [lq EXCEPT !.trace = NoFd]
  /\ open' = open \ {cn.traceStream}
  /\ ios' = ios \ {cn.traceStream}
  /\ cn' = [cn EXCEPT !.traceStream = NoFd]
  /\ UNCHANGED <<asked, encBy, managed>>

(* The garbage collector closes the IO objects nobody refers to. *)
CollectIO ==
  /\ \E fd \in ios \ {cn.traceStream} : open' = open \ {fd} /\ ios' = ios \ {fd}
  /\ UNCHANGED <<lq, cn, asked, encBy, managed>>

-----------------------------------------------------------------------------
(* Encodings of the connection *)

(* The server takes the encoding, and the index is stored after it. *)
SetEncoding(pg) ==
  /\ lq' = [lq EXCEPT !.enc = pg]
  /\ cn' = [cn EXCEPT !.encIdx = IndexOf(pg)]
  /\ encBy' = "gem"

(* set_client_encoding, and sync_set_client_encoding: refused by the       *)
(* server it raises, and everything stays as it was.                       *)
set_client_encoding(pg) ==
  /\ Ready
  /\ SetEncoding(pg)
  /\ UNCHANGED <<open, ios, asked, managed>>

(* The wait within the SET is interrupted, which has its effect anyway. *)
set_client_encoding_interrupted(pg) ==
  /\ Ready
  /\ lq' = [lq EXCEPT !.enc = pg]
  /\ encBy' = "other"
  /\ UNCHANGED <<cn, open, ios, asked, managed>>

(* internal_encoding= takes a Ruby encoding, nil or JOHAB. *)
internal_encoding_set(rb) ==
  /\ Ready
  /\ SetEncoding(CASE rb = "JOHAB" -> "JOHAB"
                   [] rb = NoEncoding -> "SQL_ASCII"
                   [] OTHER -> pg_get_rb_encoding_as_pg_encoding(rb))
  /\ UNCHANGED <<open, ios, asked, managed>>

(* SET client_encoding by exec: nobody looks at it. *)
exec_set(pg) ==
  /\ Ready
  /\ lq' = [lq EXCEPT !.enc = pg]
  /\ encBy' = "other"
  /\ UNCHANGED <<cn, open, ios, asked, managed>>

(* What set_default_encoding may leave as the client_encoding: a refused   *)
(* SET is only warned of.                                                  *)
AfterDefaultEncoding(pg) ==
  IF DefaultInternal = NoEncoding \/ IndexOf(pg) = DefaultInternal THEN {pg}
  ELSE {pg, pg_get_rb_encoding_as_pg_encoding(DefaultInternal)}

set_default_encoding ==
  /\ Ready
  /\ \E pg \in AfterDefaultEncoding(lq.enc) : SetEncoding(pg)
  /\ UNCHANGED <<open, ios, asked, managed>>

-----------------------------------------------------------------------------
(* Blocking and nonblocking *)

(* setnonblocking: libpq stays nonblocking, but who waits changes.         *)
(* PQsetnonblocking comes last; it fails on a closed connection, and if    *)
(* it has to switch and the flush before that fails.                       *)
setnonblocking(enabled) ==
  /\ cn' = [cn EXCEPT !.sendApi = ~enabled, !.flushData = ~enabled]
  /\ \/ Open /\ lq' = [lq EXCEPT !.nonblocking = TRUE] /\ managed' = TRUE
     \/ ~lq.nonblocking /\ UNCHANGED <<lq, managed>>
  /\ UNCHANGED <<open, ios, asked, encBy>>

(* What isnonblocking says: the method is another one per mode. *)
isnonblocking == IF cn.sendApi THEN FALSE ELSE lq.nonblocking

(* The calls for large objects, between BLOCKING_BEGIN and BLOCKING_END;   *)
(* the mode is restored before an error of the server is raised.           *)
Restored_not(old) == FALSE
Restored(old) == old
LargeObjectCall ==
  /\ Ready
  /\ lq' = [lq EXCEPT !.nonblocking = Restored(lq.nonblocking)]
  /\ UNCHANGED <<cn, open, ios, asked, encBy, managed>>

(* lo_lseek, lo_import and lo_export convert arguments in between. *)
lo_argument_error ==
  /\ Ready
  /\ lq' = [lq EXCEPT !.nonblocking = FALSE]
  /\ managed' = FALSE
  /\ UNCHANGED <<cn, open, ios, asked, encBy>>

-----------------------------------------------------------------------------
(* Reset and finish *)

Forgotten == asked' = [receiver |-> NoHandler, processor |-> NoHandler]

(* reset: reset_start2, polling_loop, and the rest of                      *)
(* async_connect_or_reset; it works on a closed connection, too.           *)
reset_done_plain ==
  /\ ResetNonblocking \/ cn.sendApi
  /\ \E pg \in AfterDefaultEncoding(ServerDefault) :
       /\ lq' = [NewPGconn("ok") EXCEPT !.nonblocking = TRUE, !.enc = pg]
       /\ cn' = [cn EXCEPT !.flushData = TRUE]
  /\ encBy' = "gem" /\ managed' = TRUE
  /\ Forgotten
  /\ UNCHANGED <<open, ios>>
reset_done ==
  /\ ResetNonblocking \/ cn.sendApi
  /\ \E pg \in AfterDefaultEncoding(ServerDefault) :
       /\ lq' = [NewPGconn("ok") EXCEPT !.nonblocking = TRUE, !.enc = pg]
       /\ cn' = [cn EXCEPT !.flushData = TRUE, !.encIdx = IndexOf(pg)]
  /\ encBy' = "gem" /\ managed' = TRUE
  /\ Forgotten
  /\ UNCHANGED <<open, ios>>

(* PQconnectStart refuses, or an exception comes while connecting, ... *)
reset_interrupted ==
  /\ lq' = NewPGconn("connecting")
  /\ encBy' = "other" /\ managed' = FALSE
  /\ Forgotten
  /\ UNCHANGED <<cn, open, ios>>

(* ... or while setting the encoding, ...                                  *)
reset_encoding_interrupted ==
  /\ ResetNonblocking \/ cn.sendApi
  /\ \E pg \in AfterDefaultEncoding(ServerDefault) :
       lq' = [NewPGconn("ok") EXCEPT !.nonblocking = TRUE, !.enc = pg]
  /\ cn' = [cn EXCEPT !.flushData = TRUE]
  /\ encBy' = "other" /\ managed' = TRUE
  /\ Forgotten
  /\ UNCHANGED <<open, ios>>

(* ... or fails, and closes the connection.                                *)
reset_failed ==
  /\ lq' = Closed
  /\ Forgotten
  /\ UNCHANGED <<cn, open, ios, encBy, managed>>

(* sync_reset, or reset_start with reset_poll: nothing is done afterwards. *)
sync_reset ==
  /\ Open
  /\ \E status \in {"ok", "connecting"} : lq' = PQreset(status)
  /\ encBy' = "other" /\ managed' = FALSE
  /\ UNCHANGED <<cn, open, ios, asked>>

finish ==
  /\ Open
  /\ lq' = Closed
  /\ Forgotten
  /\ UNCHANGED <<cn, open, ios, encBy, managed>>

-----------------------------------------------------------------------------
SsNext ==
  \/ \E h \in Handlers \cup {NoHandler} : set_notice_receiver(h) \/ set_notice_processor(h)
  \/ trace \/ trace_refused \/ untrace \/ CollectIO
  \/ \E pg \in PgNames : \/ set_client_encoding(pg)
                         \/ set_client_encoding_interrupted(pg)
                         \/ exec_set(pg)
  \/ \E rb \in {EncTable[i][2] : i \in DOMAIN EncTable} \cup {NoEncoding, "JOHAB"} :
       internal_encoding_set(rb)
  \/ set_default_encoding
  \/ \E enabled \in BOOLEAN : setnonblocking(enabled)
  \/ LargeObjectCall \/ lo_argument_error
  \/ reset_done \/ reset_interrupted \/ reset_encoding_interrupted \/ reset_failed
  \/ sync_reset \/ finish

SsSpec == SsInit /\ [][SsNext]_ssVars

-----------------------------------------------------------------------------
(* Properties *)

(* A notice goes to the handler that the program has set since the last    *)
(* reset, and to the default if there is none: no order of setting and     *)
(* unsetting receiver and processor leaves a proxy without a handler.      *)
NoticesReachHandler ==
  Open => NoticeGoesTo =
    CASE asked.receiver # NoHandler -> asked.receiver
      [] asked.receiver = NoHandler /\ asked.processor # NoHandler -> asked.processor
      [] OTHER -> "stderr"

(* Strings get the encoding they are sent in, as long as the encoding is   *)
(* changed by ruby-pg's own calls, and again after each reset.             *)
EncodingAgrees ==
  Ready /\ encBy = "gem" => cn.encIdx = pg_get_pg_encname_as_rb_encoding(lq.enc)

(* libpq never waits by itself, and isnonblocking says what send_query and *)
(* its siblings do.                                                        *)
ModeAgrees ==
  Ready /\ managed => lq.nonblocking /\ isnonblocking = ~cn.flushData

(* libpq writes its trace to a descriptor that is open and its own: never  *)
(* to one that was closed, and perhaps given to another file.              *)
TraceToOwnFile ==
  Open /\ lq.trace # NoFd => lq.trace \in ios /\ cn.traceStream = lq.trace
=============================================================================
