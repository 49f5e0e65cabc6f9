--------------------------- MODULE QueryProtocol ---------------------------
(***************************************************************************)
(* One connection running statements: exec and its siblings (discard what  *)
(* is left of earlier statements, send, fetch the last result), send_query *)
(* with get_result, the COPY calls and discard_results of                  *)
(* ext/pg_connection.c and lib/pg/connection.rb, with asynchronous         *)
(* exceptions (Timeout.timeout, Thread#raise) at every wait and with the   *)
(* loss of the connection.  libpq and the server are external.  COPY BOTH  *)
(* (streaming replication) is left out.                                    *)
(*                                                                         *)
(* A connection is used by one thread at a time, so there is one call in   *)
(* progress at most.  Statements are numbered; a message of the server     *)
(* carries the number of the statement that it answers.                    *)
(***************************************************************************)
EXTENDS Integers, Sequences

CONSTANTS
  Kinds,          \* the statements that may be sent
  MaxStatements,  \* bound: statements sent over the connection
  MaxInterrupts,  \* bound: exceptions of the program, in waits or arguments
  MaxData         \* bound: CopyData messages the server sends for a statement

AllKinds == {"select", "copy_in", "copy_out", "begin", "commit", "rollback"}
EndKinds == {"commit", "rollback"}

ASSUME KindsAssumption == Kinds \subseteq AllKinds
ASSUME BoundsAssumption ==
  /\ MaxStatements \in Nat
  /\ MaxInterrupts \in Nat
  /\ MaxData \in Nat

VARIABLES
  \* libpq
  async,      \* asyncStatus: idle, busy or one of the COPY states
  xact,       \* the transaction status of the last ReadyForQuery
  inbuf,      \* messages that have come in and are not yet used up
  status,     \* "ok", "lost" (not noticed yet) or "bad" (PQstatus)
  \* server
  toSrv,      \* what the client has sent and the server has not read
  srv,        \* what the server does, with the number of the statement
  srvXact,    \* the transaction state of the session
  nData,      \* CopyData messages sent for the statement
  \* ruby-pg
  pc,         \* the phase of the call in progress, "ready" without a call
  call,       \* the call in progress or the last one: its name and statement
  prev,       \* the result pgconn_async_get_last_result holds, or NoResult
  ret,        \* how the last call ended
  nStmt,      \* statements sent so far
  nInt        \* asynchronous exceptions so far

libpqVars == <<async, xact, inbuf, status>>
srvVars   == <<toSrv, srv, srvXact, nData>>
rubyVars  == <<pc, call, prev, ret, nStmt, nInt>>
qpVars    == <<libpqVars, srvVars, rubyVars>>

CopyStates == {"copy_in", "copy_out"}
NoResult == [t |-> "none", id |-> 0, last |-> FALSE]
Msg(t, i, l) == [t |-> t, id |-> i, last |-> l]
NoCall == [name |-> "none", kind |-> "none", id |-> 0]

QPInit ==
  /\ async = "idle" /\ xact = "idle" /\ inbuf = <<>> /\ status = "ok"
  /\ toSrv = <<>> /\ srv = [st |-> "idle", id |-> 0, kind |-> "none"]
  /\ srvXact = "idle" /\ nData = 0
  /\ pc = "ready" /\ call = NoCall /\ prev = NoResult /\ ret = "none"
  /\ nStmt = 0 /\ nInt = 0

-----------------------------------------------------------------------------
(* The server (external).  A statement answers with one or two results or  *)
(* an error, then says that it is ready for the next one.                  *)

Up == status = "ok"

SrvStart ==
  /\ Up /\ srv.st = "idle" /\ toSrv # <<>>
  /\ toSrv' = Tail(toSrv)
  /\ nData' = 0
  /\ srv' = IF Head(toSrv).t = "query"
            THEN [st |-> "running", id |-> Head(toSrv).id, kind |-> Head(toSrv).kind]
            ELSE srv    \* the end of a COPY that the server has given up
  /\ UNCHANGED <<libpqVars, srvXact, rubyVars>>

Emit(m) == inbuf' = Append(inbuf, m)

(* A result that is not the last one of a multi-statement query string. *)
SrvMore ==
  /\ Up /\ srv.st = "running" /\ srv.kind = "select" /\ nData = 0
  /\ Emit(Msg("result", srv.id, FALSE))
  /\ nData' = 1
  /\ UNCHANGED <<async, xact, status, toSrv, srv, srvXact, rubyVars>>

SrvFinish ==
  /\ Up
  /\ \/ srv.st = "running" /\ srv.kind \notin CopyStates
     \/ srv.st = "copy_out"
  /\ inbuf' = IF srv.st = "copy_out"
              THEN inbuf \o <<Msg("copydone", srv.id, FALSE), Msg("result", srv.id, TRUE)>>
              ELSE Append(inbuf, Msg("result", srv.id, TRUE))
  /\ srv' = [srv EXCEPT !.st = "finished"]
  /\ srvXact' = CASE srv.kind = "begin" /\ srvXact = "idle" -> "intrans"
                  [] srv.kind \in EndKinds -> "idle"
                  [] OTHER -> srvXact
  /\ UNCHANGED <<async, xact, status, toSrv, nData, rubyVars>>

SrvCopyStart ==
  /\ Up /\ srv.st = "running" /\ srv.kind \in CopyStates
  /\ Emit(Msg(srv.kind, srv.id, FALSE))
  /\ srv' = [srv EXCEPT !.st = srv.kind]
  /\ UNCHANGED <<async, xact, status, toSrv, srvXact, nData, rubyVars>>

SrvData ==
  /\ Up /\ srv.st = "copy_out" /\ nData < MaxData
  /\ nData' = nData + 1
  /\ Emit(Msg("data", srv.id, FALSE))
  /\ UNCHANGED <<async, xact, status, toSrv, srv, srvXact, rubyVars>>

SrvCopyEnd ==
  /\ Up /\ srv.st = "copy_in" /\ toSrv # <<>>
  /\ toSrv' = Tail(toSrv)
  /\ Emit(Msg(IF Head(toSrv).kind = "fail" THEN "error" ELSE "result", srv.id, TRUE))
  /\ srv' = [srv EXCEPT !.st = "finished"]
  /\ srvXact' = IF Head(toSrv).kind = "fail" /\ srvXact # "idle" THEN "inerror" ELSE srvXact
  /\ UNCHANGED <<async, xact, status, nData, rubyVars>>

(* The statement fails, of its own or because of a cancel request. *)
Fails ==
  /\ Emit(Msg("error", srv.id, TRUE))
  /\ srv' = [srv EXCEPT !.st = "finished"]
  /\ srvXact' = IF srvXact = "idle" \/ srv.kind \in EndKinds THEN "idle" ELSE "inerror"

SrvError ==
  /\ Up /\ srv.st \in {"running", "copy_in", "copy_out"}
  /\ Fails
  /\ UNCHANGED <<async, xact, status, toSrv, nData, rubyVars>>

(* A cancel request reaches the server; it only has an effect on a         *)
(* statement that is being executed.                                       *)
Cancelled ==
  IF Up /\ srv.st \in {"running", "copy_in", "copy_out"}
  THEN Fails
  ELSE UNCHANGED <<inbuf, srv, srvXact>>

SrvReady ==
  /\ Up /\ srv.st = "finished"
  /\ Emit([t |-> "ready", id |-> srv.id, last |-> TRUE, x |-> srvXact])
  /\ srv' = [srv EXCEPT !.st = "idle"]
  /\ UNCHANGED <<async, xact, status, toSrv, srvXact, nData, rubyVars>>

(* The server process ends or the network breaks. *)
Lose ==
  /\ Up
  /\ status' = "lost"
  /\ UNCHANGED <<async, xact, inbuf, srvVars, rubyVars>>

Server == \/ SrvStart \/ SrvMore \/ SrvFinish \/ SrvCopyStart \/ SrvData
          \/ SrvCopyEnd \/ SrvError \/ SrvReady

-----------------------------------------------------------------------------
(* libpq (external) *)

PQisBusy == async = "busy" /\ inbuf = <<>>

(* PQtransactionStatus *)
PQtransactionStatus ==
  IF status = "bad" THEN "unknown" ELSE IF async = "idle" THEN xact ELSE "active"

(* PQgetResult when it does not block: what it returns is Got. *)
Got ==
  CASE async = "idle" -> NoResult
    [] async \in CopyStates -> Msg(async, call.id, FALSE)
    [] async = "busy" /\ Head(inbuf).t = "ready" -> NoResult
    [] OTHER -> Head(inbuf)

PQgetResult ==
  IF async = "busy"
  THEN /\ inbuf' = Tail(inbuf)
       /\ async' = CASE Head(inbuf).t = "ready" -> "idle"
                     [] Head(inbuf).t \in CopyStates -> Head(inbuf).t
                     [] OTHER -> "busy"
       /\ xact' = IF Head(inbuf).t = "ready" THEN Head(inbuf).x ELSE xact
  ELSE UNCHANGED <<async, inbuf, xact>>

(* PQsendQuery is refused while a command is in progress. *)
CanSend == async = "idle" /\ status # "bad"

PQsendQuery(k) ==
  /\ toSrv' = Append(toSrv, [t |-> "query", id |-> nStmt + 1, kind |-> k])
  /\ async' = "busy"
  /\ nStmt' = nStmt + 1

PQputCopyEnd(how) ==
  /\ toSrv' = Append(toSrv, [t |-> "copyend", id |-> 0, kind |-> how])
  /\ async' = "busy"

(* PQgetCopyData in asynchronous mode with something to read: a row, or    *)
(* the end of the data, which is a CopyDone or an error.                   *)
PQgetCopyData ==
  IF Head(inbuf).t = "data"
  THEN inbuf' = Tail(inbuf) /\ UNCHANGED async
  ELSE /\ inbuf' = IF Head(inbuf).t = "copydone" THEN Tail(inbuf) ELSE inbuf
       /\ async' = "busy"

(* PQconsumeInput fails when nothing is left to read from a connection     *)
(* that is lost; libpq then gives its socket up.                           *)
ConsumeFails == status # "ok" /\ inbuf = <<>>

-----------------------------------------------------------------------------
(* ruby-pg *)

(* A call begins; its first phase is ph. *)
Begin(name, k, ph) ==
  /\ pc = "ready"
  /\ pc' = ph
  /\ call' = [name |-> name, kind |-> k, id |-> 0]
  /\ prev' = NoResult
  /\ ret' = "none"

(* The call returns or raises. *)
EndCall(how) == pc' = "ready" /\ ret' = how

(* exec discards, sends and fetches; exec_params, prepare, exec_prepared,  *)
(* describe_* and close_* differ in the message only.                      *)
async_exec(k) ==
  /\ nStmt < MaxStatements
  /\ Begin("exec", k, "discard")
  /\ UNCHANGED <<libpqVars, srvVars, nStmt, nInt>>

Plain(name, ph) ==
  /\ Begin(name, "none", ph)
  /\ UNCHANGED <<libpqVars, srvVars, nStmt, nInt>>

(* What follows discard_results: exec goes on to send whatever the return  *)
(* value is.                                                               *)
Discarded(how) ==
  IF call.name = "exec" THEN pc' = "send" /\ UNCHANGED ret ELSE EndCall(how)

(* The head of pgconn_discard_results.  pgconn_socket_io raises when libpq *)
(* has no socket any more.                                                 *)
discard_results_none ==
  /\ pc = "discard"
  /\ Discarded("nil")
  /\ UNCHANGED <<libpqVars, srvVars, call, prev, nStmt, nInt>>
discard_results ==
  /\ pc = "discard"
  /\ CASE PQtransactionStatus \in {"idle", "intrans", "inerror"} -> Discarded("nil")
       [] PQtransactionStatus = "unknown" -> EndCall("conn_bad")
       [] OTHER -> pc' = "discard_loop" /\ UNCHANGED ret
  /\ UNCHANGED <<libpqVars, srvVars, call, prev, nStmt, nInt>>

(* A result of discard_results' loop that is an open COPY FROM STDIN is    *)
(* ended with an error.                                                    *)
discard_copy_in_kept == PQgetResult /\ UNCHANGED toSrv
discard_copy_in ==
  /\ PQputCopyEnd("fail")
  /\ inbuf' = IF async = "busy" THEN Tail(inbuf) ELSE inbuf
  /\ UNCHANGED xact

discard_results_get ==
  /\ pc = "discard_loop"
  /\ ~PQisBusy
  /\ IF Got.t = "copy_in" THEN discard_copy_in ELSE PQgetResult /\ UNCHANGED toSrv
  /\ CASE Got.t = "none" -> Discarded("true")
       [] Got.t = "copy_out" -> pc' = "discard_rows" /\ UNCHANGED ret
       [] OTHER -> UNCHANGED <<pc, ret>>
  /\ UNCHANGED <<status, srv, srvXact, nData, call, prev, nStmt, nInt>>

(* The rows of an open COPY TO STDOUT are read and dropped. *)
discard_results_row ==
  /\ pc = "discard_rows"
  /\ inbuf # <<>>
  /\ PQgetCopyData
  /\ pc' = IF Head(inbuf).t = "data" THEN pc ELSE "discard_loop"
  /\ UNCHANGED <<xact, status, srvVars, call, prev, ret, nStmt, nInt>>

(* Its waits: either loop ends with false when the connection is broken. *)
discard_results_error ==
  /\ \/ pc = "discard_loop" /\ PQisBusy
     \/ pc = "discard_rows"
  /\ ConsumeFails
  /\ status' = "bad"
  /\ Discarded("false")
  /\ UNCHANGED <<async, xact, inbuf, srvVars, call, prev, nStmt, nInt>>

(* pgconn_send_query within exec *)
exec_send ==
  /\ pc = "send"
  /\ IF CanSend
     THEN /\ PQsendQuery(call.kind)
          /\ call' = [call EXCEPT !.id = nStmt + 1]
          /\ pc' = "result"
          /\ UNCHANGED ret
     ELSE EndCall("unable") /\ UNCHANGED <<toSrv, async, nStmt, call>>
  /\ UNCHANGED <<xact, inbuf, status, srv, srvXact, nData, prev, nInt>>

(* send_query called by the program *)
send_query(k) ==
  /\ nStmt < MaxStatements
  /\ pc = "ready"
  /\ IF CanSend
     THEN /\ PQsendQuery(k)
          /\ call' = [name |-> "send_query", kind |-> k, id |-> nStmt + 1]
          /\ ret' = "ok"
     ELSE /\ call' = [name |-> "send_query", kind |-> k, id |-> 0]
          /\ ret' = "unable"
          /\ UNCHANGED <<toSrv, async, nStmt>>
  /\ prev' = NoResult
  /\ UNCHANGED <<pc, xact, inbuf, status, srv, srvXact, nData, nInt>>

(* pgconn_async_get_last_result: it fetches until there is no more result  *)
(* or a COPY begins, and checks the last one.                              *)
LastResult_first(g) == g.t \in {"none", "result", "error"} \cup CopyStates
LastResult(g) == g.t \in {"none"} \cup CopyStates

Checked(r) ==
  CASE r.t = "none" -> "nil" [] r.t = "error" -> "error" [] OTHER -> "ok"

async_get_last_result ==
  /\ pc = "result"
  /\ ~PQisBusy
  /\ PQgetResult
  /\ prev' = IF Got.t = "none" THEN prev ELSE Got
  /\ IF LastResult(Got) THEN EndCall(Checked(prev')) ELSE UNCHANGED <<pc, ret>>
  /\ UNCHANGED <<status, srvVars, call, nStmt, nInt>>

(* get_result: block, then sync_get_result, which does not check *)
get_result ==
  /\ pc = "get"
  /\ ~PQisBusy
  /\ PQgetResult
  /\ prev' = Got
  /\ EndCall(IF Got.t = "none" THEN "nil" ELSE "ok")
  /\ UNCHANGED <<status, srvVars, call, nStmt, nInt>>

(* block *)
block ==
  /\ pc = "block"
  /\ ~PQisBusy
  /\ EndCall("true")
  /\ UNCHANGED <<libpqVars, srvVars, call, prev, nStmt, nInt>>

(* wait_socket_readable raises when the connection is broken. *)
wait_socket_readable_error ==
  /\ pc \in {"result", "get", "block"}
  /\ PQisBusy
  /\ ConsumeFails
  /\ status' = "bad"
  /\ EndCall("conn_bad")
  /\ UNCHANGED <<async, xact, inbuf, srvVars, call, prev, nStmt, nInt>>

(* put_copy_end(how) called by the program, or by copy_data *)
put_copy_end(how) ==
  /\ pc = "ready"
  /\ call' = [name |-> "put_copy_end", kind |-> "none", id |-> 0]
  /\ IF async = "copy_in" /\ status # "bad"
     THEN PQputCopyEnd(how) /\ ret' = "ok"
     ELSE ret' = "error" /\ UNCHANGED <<toSrv, async>>
  /\ UNCHANGED <<pc, xact, inbuf, status, srv, srvXact, nData, prev, nStmt, nInt>>

(* get_copy_data: sync_get_copy_data until it has a row or the end *)
get_copy_data ==
  /\ pc = "row"
  /\ CASE async # "copy_out" -> EndCall("error") /\ UNCHANGED <<async, inbuf, status>>
       [] async = "copy_out" /\ inbuf # <<>> ->
            /\ PQgetCopyData
            /\ EndCall(IF Head(inbuf).t = "data" THEN "row" ELSE "nil")
            /\ UNCHANGED status
       [] OTHER -> /\ ConsumeFails
                   /\ EndCall("conn_bad")
                   /\ status' = "bad"
                   /\ UNCHANGED <<async, inbuf>>
  /\ UNCHANGED <<xact, srvVars, call, prev, nStmt, nInt>>

(* An asynchronous exception ends a wait; nothing of the call is undone. *)
Interrupt ==
  /\ \/ pc \in {"discard_loop", "result", "get", "block"} /\ PQisBusy
     \/ pc \in {"discard_rows", "row"} /\ inbuf = <<>>
  /\ nInt < MaxInterrupts
  /\ nInt' = nInt + 1
  /\ EndCall("interrupt")
  /\ UNCHANGED <<libpqVars, srvVars, call, prev, nStmt>>

(* The arguments of a statement are converted after the old results were   *)
(* discarded: one that cannot be, or whose coder raises, ends the call     *)
(* before anything is sent.                                                *)
exec_argument_error ==
  /\ pc = "send"
  /\ nInt < MaxInterrupts
  /\ nInt' = nInt + 1
  /\ EndCall("interrupt")
  /\ UNCHANGED <<libpqVars, srvVars, call, prev, nStmt>>

(* The steps of the call in progress. *)
Client ==
  \/ discard_results \/ discard_results_get \/ discard_results_row
  \/ discard_results_error \/ exec_send \/ async_get_last_result
  \/ get_result \/ block \/ wait_socket_readable_error \/ get_copy_data

(* The program makes a call. *)
Program ==
  \/ \E k \in Kinds : async_exec(k) \/ send_query(k)
  \/ Plain("discard_results", "discard")
  \/ Plain("get_last_result", "result")
  \/ Plain("get_result", "get")
  \/ Plain("block", "block")
  \/ Plain("get_copy_data", "row")
  \/ \E how \in {"done", "fail"} : put_copy_end(how)

QPNext == Program \/ Client \/ Interrupt \/ exec_argument_error \/ Server \/ Lose

QPSpec == QPInit /\ [][QPNext]_qpVars

(* The Ruby code runs on.  The server begins with what it is sent and gets *)
(* along after the end of the data or an error; it may take forever with a *)
(* statement, and with the rows of COPY TO STDOUT, ...                     *)
QPFairness == WF_qpVars(Client) /\ WF_qpVars(SrvStart \/ SrvCopyEnd \/ SrvReady)

(* ... unless it works off everything that it is sent.                     *)
ServerAnswers == WF_qpVars(SrvStart \/ SrvFinish \/ SrvCopyStart \/ SrvCopyEnd \/ SrvReady)

-----------------------------------------------------------------------------
(* Properties *)

(* exec as a program sees it. *)
ExecRuns == call.name = "exec" /\ pc # "ready"
ExecAnswered == call.name = "exec" /\ pc = "ready" /\ ret \in {"ok", "error", "nil"}

Serial == INSTANCE SerialExec WITH
  mode <- CASE ~ExecRuns -> "idle" [] ExecRuns /\ pc = "result" -> "sent" [] OTHER -> "called",
  submitted <- nStmt,
  executed <- srv.id,
  answer <- IF ExecAnswered /\ (prev.last \/ prev.t \in CopyStates) THEN prev.id ELSE 0,
  broken <- status = "bad",
  stops <- nInt

(* Whatever was left behind on the connection by interrupted, abandoned or *)
(* half-finished statements and COPYs, pgconn_async_exec is serial         *)
(* execution: it answers with the last result of its own statement, after  *)
(* the server has executed all others once and in order, and it is never   *)
(* refused because a command is still in progress.                         *)
ExecIsSerial == Serial!SeSpec

(* exec and discard_results come to an end as long as the server answers.  *)
CallEnds == ServerAnswers => (pc \in {"discard", "result"} ~> pc = "ready")
=============================================================================
