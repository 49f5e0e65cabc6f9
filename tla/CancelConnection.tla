-------------------------- MODULE CancelConnection --------------------------
(***************************************************************************)
(* PG::CancelConnection (ext/pg_cancel_connection.c, lib/pg/               *)
(* cancel_connection.rb) and Connection#cancel, which makes one, sends the *)
(* request with the polling_loop of lib/pg/connection.rb and drops it.  A  *)
(* program may also use the object itself: start and poll, reset, finish.  *)
(*                                                                         *)
(* The loop has one destination, so that a timeout is its end.  The way it *)
(* ends depends on the destination: over TCP remove_current_host finds and *)
(* removes it, over a Unix socket, which has no hostaddr, it does not.     *)
(* Time passes while the loop waits.                                       *)
(***************************************************************************)
EXTENDS Integers

CONSTANTS
  ConnectTimeout,  \* connect_timeout in ticks, 0 without
  MaxSockets       \* bound: sockets that libpq opens

ASSUME CancelAssumption == ConnectTimeout \in Nat /\ MaxSockets \in Nat

VARIABLES
  obj,        \* the object: "none", "held" by the program, "local" to
              \* Connection#cancel, or "garbage"
  ptr,        \* this->pg_cancon is not NULL
  owed,       \* PGcancelConns created and not freed
  cstatus,    \* PQcancelStatus: "allocated", "connecting", "sent" (still
              \* connecting for PQcancelStatus), "ok" or "bad"
  sock,       \* the socket of libpq, 0 without one
  io,         \* the socket of this->socket_io, 0 without one
  ready,      \* the socket has an event
  step,       \* where cancel is: "idle", "start", "wait" or "poll"
  clock,      \* ticks since the loop began
  answered,   \* what the last cancel returned: "none", "nil", "message", "raised"
  dispatched, \* the server has got the request of this PGcancelConn
  nSock       \* sockets so far

ccVars == <<obj, ptr, owed, cstatus, sock, io, ready, step, clock, answered, dispatched, nSock>>

CcInit ==
  /\ obj = "none" /\ ptr = FALSE /\ owed = 0 /\ cstatus = "allocated"
  /\ sock = 0 /\ io = 0 /\ ready = FALSE
  /\ step = "idle" /\ clock = 0 /\ answered = "none"
  /\ dispatched = FALSE /\ nSock = 0

-----------------------------------------------------------------------------
(* libpq (external) *)

OpenSocket == nSock < MaxSockets /\ nSock' = nSock + 1 /\ sock' = nSock' /\ ready' = FALSE
DropSocket == sock' = 0 /\ ready' = FALSE /\ UNCHANGED nSock

(* PQcancelStart refuses a request that is under way already. *)
PQcancelStart ==
  \/ cstatus = "allocated" /\ OpenSocket /\ cstatus' = "connecting"
  \/ DropSocket /\ cstatus' = "bad"

(* PQcancelPoll: on to the next address, the request is sent, the server   *)
(* has closed the connection as an answer, or something fails.             *)
PQcancelPoll ==
  \/ cstatus = "connecting" /\ OpenSocket /\ UNCHANGED <<cstatus, dispatched>>
  \/ /\ cstatus = "connecting"
     /\ cstatus' = "sent" /\ dispatched' = TRUE /\ ready' = FALSE
     /\ UNCHANGED <<sock, nSock>>
  \/ cstatus = "sent" /\ cstatus' = "ok" /\ DropSocket /\ UNCHANGED dispatched
  \/ cstatus = "ok" /\ UNCHANGED <<cstatus, sock, ready, nSock, dispatched>>
  \/ cstatus # "ok" /\ cstatus' = "bad" /\ DropSocket /\ UNCHANGED dispatched

(* Nothing is done on a socket after the poll that gave it up. *)
SocketEvent ==
  /\ sock # 0 /\ ~ready
  /\ ready' = TRUE
  /\ UNCHANGED <<obj, ptr, owed, cstatus, sock, io, step, clock, answered, dispatched, nSock>>

-----------------------------------------------------------------------------
(* PG::CancelConnection *)

(* PG::CancelConnection.new, PQcancelCreate *)
initialize ==
  /\ obj = "none"
  /\ ptr' = TRUE /\ owed' = owed + 1 /\ cstatus' = "allocated"
  /\ sock' = 0 /\ io' = 0 /\ ready' = FALSE
  /\ dispatched' = FALSE /\ answered' = "none"

(* Each method that may replace the socket closes the IO object first. *)
close_socket_io_kept == UNCHANGED io
close_socket_io == io' = 0

(* pg_cancon_get_conn raises without a pg_cancon. *)
Usable == obj = "held" /\ ptr /\ step = "idle"

cancon_start ==
  /\ Usable
  /\ close_socket_io
  /\ PQcancelStart
  /\ UNCHANGED <<obj, ptr, owed, step, clock, answered, dispatched>>

cancon_poll ==
  /\ Usable
  /\ close_socket_io
  /\ PQcancelPoll
  /\ UNCHANGED <<obj, ptr, owed, step, clock, answered>>

(* socket_io wraps the socket once; it raises without one. *)
Wrapped == IF io # 0 THEN io ELSE sock
cancon_socket_io ==
  /\ Usable /\ Wrapped # 0
  /\ io' = Wrapped
  /\ UNCHANGED <<obj, ptr, owed, cstatus, sock, ready, step, clock, answered, dispatched, nSock>>

cancon_reset ==
  /\ Usable
  /\ close_socket_io
  /\ cstatus' = "allocated" /\ dispatched' = FALSE /\ answered' = "none"
  /\ DropSocket
  /\ UNCHANGED <<obj, ptr, owed, step, clock>>

(* finish may be called more than once, and the garbage collector frees   *)
(* what is left.                                                           *)
Finish ==
  /\ owed' = IF ptr THEN owed - 1 ELSE owed
  /\ ptr' = FALSE

cancon_finish ==
  /\ obj = "held" /\ step = "idle"
  /\ close_socket_io
  /\ Finish
  /\ DropSocket
  /\ UNCHANGED <<obj, cstatus, step, clock, answered, dispatched>>

(* sync_cancel: PQcancelBlocking does everything at once. *)
cancon_sync_cancel ==
  /\ Usable
  /\ close_socket_io
  /\ \/ cstatus = "allocated" /\ cstatus' = "ok" /\ dispatched' = TRUE /\ answered' = "nil"
     \/ cstatus' = "bad" /\ answered' = "message" /\ UNCHANGED dispatched
  /\ DropSocket
  /\ UNCHANGED <<obj, ptr, owed, step, clock>>

pg_cancon_gc_free ==
  /\ obj = "garbage"
  /\ Finish
  /\ obj' = "none"
  /\ DropSocket
  /\ UNCHANGED <<cstatus, io, step, clock, answered, dispatched>>

(* The program makes an object of its own, and forgets it. *)
New ==
  /\ initialize
  /\ obj' = "held"
  /\ UNCHANGED <<step, clock, nSock>>
Forget ==
  /\ obj = "held" /\ step = "idle"
  /\ obj' = "garbage"
  /\ UNCHANGED <<ptr, owed, cstatus, sock, io, ready, step, clock, answered, dispatched, nSock>>

-----------------------------------------------------------------------------
(* cancel: start, polling_loop(:poll).  Connection#cancel is the same with *)
(* a new object; the exceptions of PG become its return value.             *)

Dropped == IF obj = "local" THEN "garbage" ELSE obj

Connection_cancel ==
  /\ step = "idle"
  /\ initialize
  /\ obj' = "local"
  /\ step' = "start"
  /\ UNCHANGED <<clock, nSock>>

(* The connection is closed, or PQcancelCreate fails: there is no object.  *)
Connection_cancel_refused ==
  /\ obj = "none"
  /\ answered' = "message"
  /\ UNCHANGED <<obj, ptr, owed, cstatus, sock, io, ready, step, clock, dispatched, nSock>>

cancon_cancel ==
  /\ Usable
  /\ step' = "start" /\ answered' = "none"
  /\ UNCHANGED <<obj, ptr, owed, cstatus, sock, io, ready, clock, dispatched, nSock>>

(* The call returns a. *)
EndCancel(a) == step' = "idle" /\ answered' = a /\ obj' = Dropped /\ clock' = 0

CancelStart ==
  /\ step = "start"
  /\ close_socket_io
  /\ PQcancelStart
  /\ IF cstatus' = "bad"
     THEN EndCancel("message")
     ELSE step' = "wait" /\ clock' = 0 /\ UNCHANGED <<obj, answered>>
  /\ UNCHANGED <<ptr, owed, dispatched>>

(* socket_io.wait with what is left of connect_timeout: an event, ...      *)
LoopWait ==
  /\ step = "wait" /\ Wrapped # 0
  /\ Wrapped = sock /\ ready
  /\ io' = Wrapped
  /\ step' = "poll"
  /\ UNCHANGED <<obj, ptr, owed, cstatus, sock, ready, clock, answered, dispatched, nSock>>

(* ... or none in time: the loop finishes the connection and raises;       *)
TimeIsOver ==
  /\ step = "wait" /\ ~(Wrapped = sock /\ ready)
  /\ ConnectTimeout > 0 /\ clock >= ConnectTimeout

LoopTimeout ==
  /\ TimeIsOver
  /\ close_socket_io
  /\ Finish
  /\ DropSocket
  /\ EndCancel("message")
  /\ UNCHANGED <<cstatus, dispatched>>

(* over a Unix socket a host seems to be left, and the restart of the loop *)
(* raises NoMethodError: PG::CancelConnection has no parse_connect_args.   *)
LoopTimeoutUnixSocket ==
  /\ TimeIsOver
  /\ io' = Wrapped
  /\ EndCancel("raised")
  /\ UNCHANGED <<ptr, owed, cstatus, sock, ready, dispatched, nSock>>

(* An exception may end the wait, too. *)
LoopInterrupted ==
  /\ step = "wait"
  /\ io' = Wrapped
  /\ EndCancel("raised")
  /\ UNCHANGED <<ptr, owed, cstatus, sock, ready, dispatched, nSock>>

(* poll, and the end of the loop *)
LoopPoll ==
  /\ step = "poll"
  /\ close_socket_io
  /\ PQcancelPoll
  /\ CASE cstatus' = "ok" -> EndCancel("nil") /\ UNCHANGED <<ptr, owed>>
       [] cstatus' = "bad" -> EndCancel("message") /\ Finish
       [] OTHER -> step' = "wait" /\ UNCHANGED <<obj, ptr, owed, clock, answered>>

CancelTick ==
  /\ step = "wait" /\ ~(Wrapped = sock /\ ready)
  /\ clock < ConnectTimeout
  /\ clock' = clock + 1
  /\ io' = Wrapped
  /\ UNCHANGED <<obj, ptr, owed, cstatus, sock, ready, step, answered, dispatched, nSock>>

CcNext ==
  \/ New \/ Forget \/ cancon_start \/ cancon_poll \/ cancon_socket_io \/ cancon_reset
  \/ cancon_finish \/ cancon_sync_cancel \/ cancon_cancel
  \/ Connection_cancel \/ Connection_cancel_refused \/ CancelStart \/ LoopWait \/ LoopTimeout
  \/ LoopTimeoutUnixSocket \/ LoopInterrupted \/ LoopPoll \/ CancelTick
  \/ SocketEvent \/ pg_cancon_gc_free

CcSpec == CcInit /\ [][CcNext]_ccVars

-----------------------------------------------------------------------------
(* Properties *)

(* cancel returns nil only when the request has reached the server. *)
CancelTruthful == answered = "nil" => dispatched

(* The PGcancelConn is freed once, by finish or with the object, not when  *)
(* it is in use, and not twice.                                            *)
CancelFreedOnce == owed = (IF ptr THEN 1 ELSE 0) /\ (obj = "none" => ~ptr)

(* The loop waits on the socket that libpq uses, although each poll may    *)
(* have replaced it: otherwise it waits for nothing.                       *)
CancelWaitsLive == step = "wait" => Wrapped = sock /\ sock # 0

(* Connection#cancel and PG::CancelConnection in any order of calls. *)
CancelSafe == CancelTruthful /\ CancelFreedOnce /\ CancelWaitsLive
=============================================================================
