---------------------------- MODULE SocketFlush ----------------------------
(***************************************************************************)
(* Sending a large request over sockets with bounded kernel buffers while  *)
(* the server is already answering: pgconn_async_flush,                    *)
(* wait_socket_readable, pgconn_wait_for_flush and the inner loop of       *)
(* pgconn_discard_results of ext/pg_connection.c.                          *)
(*                                                                         *)
(* Data are counted in chunks.  The server stops reading while it has      *)
(* something to write, so that client and server may block each other.     *)
(***************************************************************************)
EXTENDS Naturals

CONSTANTS
  Request,   \* chunks of a request
  Answer,    \* chunks that the server answers to each of them
  Capacity   \* chunks a kernel buffer holds, per direction

ASSUME SizesAssumption ==
  Request \in Nat \ {0} /\ Answer \in Nat \ {0} /\ Capacity \in Nat \ {0}

VARIABLES
  pc,        \* what the client does
  flushData, \* this->flush_data: send_* waits until everything is sent
  out,       \* libpq's output buffer
  c2s, s2c,  \* kernel buffers, client to server and back
  inb,       \* what libpq has read of the answer
  srvOut     \* what the server has to write

sfVars == <<pc, flushData, out, c2s, s2c, inb, srvOut>>

Least(a, b) == IF a <= b THEN a ELSE b
Total == Request * Answer

(* No request is under way. *)
Quiet == out = 0 /\ c2s = 0 /\ s2c = 0 /\ srvOut = 0

SfInit ==
  /\ pc = "idle"
  /\ flushData \in BOOLEAN
  /\ out = 0 /\ c2s = 0 /\ s2c = 0 /\ srvOut = 0
  /\ inb = Total

-----------------------------------------------------------------------------
(* The server (external) *)

SrvRead ==
  /\ c2s > 0 /\ srvOut = 0
  /\ c2s' = c2s - 1
  /\ srvOut' = Answer
  /\ UNCHANGED <<pc, flushData, out, s2c, inb>>

SrvWrite ==
  /\ srvOut > 0 /\ s2c < Capacity
  /\ srvOut' = srvOut - 1
  /\ s2c' = s2c + 1
  /\ UNCHANGED <<pc, flushData, out, c2s, inb>>

-----------------------------------------------------------------------------
(* libpq (external) *)

Sendable == Least(out, Capacity - c2s)

(* PQflush sends what the kernel takes; if that is not all, it reads what  *)
(* has come in.                                                            *)
PQflush ==
  /\ out' = out - Sendable
  /\ c2s' = c2s + Sendable
  /\ IF out' = 0 THEN UNCHANGED <<inb, s2c>> ELSE inb' = inb + s2c /\ s2c' = 0

(* PQconsumeInput reads, and it flushes as well. *)
PQconsumeInput ==
  /\ inb' = inb + s2c
  /\ s2c' = 0
  /\ out' = out - Sendable
  /\ c2s' = c2s + Sendable

(* The whole answer has been read: PQisBusy says no. *)
Answered == inb = Total

Readable == s2c > 0
Writable == c2s < Capacity

-----------------------------------------------------------------------------
(* ruby-pg *)

(* PQsendQuery and its siblings, then pgconn_wait_for_flush *)
send_query ==
  /\ pc = "idle"
  /\ Quiet /\ Answered
  /\ out' = Request
  /\ inb' = 0
  /\ pc' = IF flushData THEN "flush" ELSE "sent"
  /\ UNCHANGED <<flushData, c2s, s2c, srvOut>>

(* setnonblocking(enabled) sets flush_data. *)
flush_data_set ==
  /\ pc \in {"idle", "sent"}
  /\ flushData' = ~flushData
  /\ UNCHANGED <<pc, out, c2s, s2c, inb, srvOut>>

(* The loop of pgconn_async_flush; "flush" is its call in send_query,      *)
(* "flush_wait" the one in wait_socket_readable.                           *)
async_flush ==
  /\ pc \in {"flush", "flush_wait"}
  /\ PQflush
  /\ pc' = CASE out' = 0 /\ pc = "flush" -> "sent"
             [] out' = 0 /\ pc = "flush_wait" -> "recheck"
             [] out' > 0 /\ pc = "flush" -> "flush_io"
             [] OTHER -> "flush_wait_io"
  /\ UNCHANGED <<flushData, srvOut>>

(* What it waits for before it tries again *)
FlushEvents_writable == Writable
FlushEvents == Readable \/ Writable

async_flush_io ==
  /\ pc \in {"flush_io", "flush_wait_io"}
  /\ FlushEvents
  /\ IF Readable THEN PQconsumeInput ELSE UNCHANGED <<inb, s2c, out, c2s>>
  /\ pc' = IF pc = "flush_io" THEN "flush" ELSE "flush_wait"
  /\ UNCHANGED <<flushData, srvOut>>

(* get_result and get_last_result start to wait for the answer. *)
get_result ==
  /\ pc = "sent"
  /\ pc' = "check"
  /\ UNCHANGED <<flushData, out, c2s, s2c, inb, srvOut>>

(* The loop condition of wait_socket_readable *)
FlushFirst_not == "recheck"
FlushFirst == "flush_wait"

wait_socket_readable ==
  /\ pc = "check"
  /\ pc' = IF Answered THEN "idle" ELSE FlushFirst
  /\ UNCHANGED <<flushData, out, c2s, s2c, inb, srvOut>>

(* The flush may have read the rest of the answer, so look again before    *)
(* waiting for more.                                                       *)
Recheck == IF Answered THEN "idle" ELSE "read_io"

wait_socket_recheck ==
  /\ pc = "recheck"
  /\ pc' = Recheck
  /\ UNCHANGED <<flushData, out, c2s, s2c, inb, srvOut>>

wait_socket_io ==
  /\ pc = "read_io"
  /\ Readable
  /\ PQconsumeInput
  /\ pc' = "check"
  /\ UNCHANGED <<flushData, srvOut>>

(* The inner loop of pgconn_discard_results: PQisBusy, PQflush, wait *)
discard_results ==
  /\ pc = "discard"
  /\ IF Answered
     THEN pc' = "idle" /\ UNCHANGED <<out, c2s, s2c, inb>>
     ELSE /\ PQflush
          /\ pc' = IF out' = 0 THEN "discard_read_io" ELSE "discard_io"
  /\ UNCHANGED <<flushData, srvOut>>

discard_results_io ==
  /\ \/ pc = "discard_read_io" /\ Readable
     \/ pc = "discard_io" /\ FlushEvents
  /\ IF Readable THEN PQconsumeInput ELSE UNCHANGED <<inb, s2c, out, c2s>>
  /\ pc' = "discard"
  /\ UNCHANGED <<flushData, srvOut>>

(* An asynchronous exception ends a wait, or the program does not fetch    *)
(* the answer; the next exec then discards what is under way.              *)
Abandon ==
  /\ pc \in {"sent", "flush_io", "flush_wait_io", "read_io"}
  /\ pc' = "discard"
  /\ UNCHANGED <<flushData, out, c2s, s2c, inb, srvOut>>

Client ==
  \/ async_flush \/ async_flush_io \/ get_result \/ wait_socket_readable
  \/ wait_socket_recheck \/ wait_socket_io \/ discard_results \/ discard_results_io

Server == SrvRead \/ SrvWrite

SfNext == send_query \/ flush_data_set \/ Client \/ Server \/ Abandon

SfSpec == SfInit /\ [][SfNext]_sfVars

(* The client's loops and the server go on whenever they can.              *)
SfFairness == WF_sfVars(Client) /\ WF_sfVars(SrvRead) /\ WF_sfVars(SrvWrite)

-----------------------------------------------------------------------------
(* Properties *)

(* A wait for input alone is only entered with everything sent and the     *)
(* answer incomplete: otherwise nothing may ever come in to end it.        *)
WaitsForSomething ==
  pc \in {"read_io", "discard_read_io"} =>
    /\ out = 0
    /\ c2s > 0 \/ srvOut > 0 \/ s2c > 0

(* Every request is sent and its answer fetched or discarded. *)
RequestEnds == pc # "idle" ~> pc = "idle"
=============================================================================
