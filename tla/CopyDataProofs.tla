--------------------------- MODULE CopyDataProofs ---------------------------
(***************************************************************************)
(* Connection#copy_data leaves no open COPY behind and restores the coder, *)
(* however the block and the server behave, for any number of statements,  *)
(* exceptions and rows.                                                    *)
(*                                                                         *)
(* On top of the invariant of the connection (QPInv) there is what each    *)
(* clause of the method relies on: which COPY is open, and that the other  *)
(* statements of the block open none.                                      *)
(***************************************************************************)
EXTENDS QueryProtocolProofs, CopyData

InClauses == {"in_header", "in_block", "in_rescue", "in_else", "in_last"}
OutClauses == {"out_setup", "out_block", "out_rescue", "out_else", "out_trailer", "out_last"}

(* Only one kind of COPY can be open in the clauses for it. *)
OnlyKind(k) == LastKind \in {k, "select"} /\ (call.name = "exec" => call.kind \in {k, "select"})

(* The COPY has ended, and its results do not begin another one. *)
Past == async \notin CopyStates /\ ~Pending /\ srv.st # "running" /\ NoCopy(inbuf)

(* exec( sql ) begins on an idle connection. *)
Executing ==
  /\ call.name = "exec" /\ call.kind \in CopyStates
  /\ pc \in {"discard", "send", "result", "ready"}
  /\ pc \in {"discard", "send"} => async = "idle"
  /\ pc = "ready" /\ ret = "interrupt" => async \notin CopyStates

Discarding ==
  /\ call.name = "discard_results"
  /\ pc \in {"discard", "discard_loop", "discard_rows", "ready"}
  /\ pc = "ready" => async = "idle" \/ status = "bad" \/ ret = "interrupt"

Trailer ==
  /\ call.name = "get_copy_data"
  /\ pc \in {"row", "ready"}
  /\ pc = "ready" => \/ ret \in {"row", "nil", "interrupt"}
                     \/ ret = "error" /\ async \notin CopyStates
                     \/ ret = "conn_bad" /\ status = "bad"

LastFetched ==
  /\ call.name = "get_last_result"
  /\ pc \in {"result", "ready"}
  /\ pc = "ready" => \/ ret = Checked(prev) /\ (async \in CopyStates => prev.t \in CopyStates)
                     \/ ret = "interrupt"
                     \/ ret = "conn_bad" /\ status = "bad"

CpInv ==
  /\ QPInv
  /\ cp \in {"out", "exec", "discard", "discarding", "left"} \cup InClauses \cup OutClauses
  /\ cp \in InClauses => OnlyKind("copy_in")
  /\ cp \in OutClauses => OnlyKind("copy_out")
  /\ cp = "out" => pc = "ready" /\ async = "idle"
  /\ cp = "exec" => Executing
  /\ cp = "in_last" => Past /\ call.name \in {"put_copy_end", "get_last_result"}
  /\ cp = "out_trailer" => Trailer
  /\ cp = "out_last" => LastFetched
  /\ cp = "discarding" => Discarding
  /\ cp = "left" => pc = "ready" /\ CopyTerminated

(* An open COPY is that of the last statement. *)
LEMMA CopyKind == ASSUME QPInv, async \in CopyStates PROVE async = LastKind
BY DEF QPInv, StreamInv, InStep, LastKind

-----------------------------------------------------------------------------
(* Steps of the connection *)

(* What does not belong to the call in progress *)
LEMMA QuietSteps ==
  ASSUME QPInv, Client \/ Interrupt \/ Server \/ Lose, pc = "ready" \/ Server \/ Lose
  PROVE  /\ UNCHANGED <<pc, call, prev, ret, async>>
         /\ status = "bad" => status' = "bad"
         /\ status' = "ok" => status = "ok"
<1>1. Server \/ Lose
  BY DEF Client, discard_results, discard_results_get, discard_results_row,
         discard_results_error, exec_send, async_get_last_result, get_result, block,
         wait_socket_readable_error, get_copy_data, Interrupt
<1> QED
  BY <1>1 DEF Server, SrvStart, SrvMore, SrvFinish, SrvCopyStart, SrvData, SrvCopyEnd, SrvError,
              SrvReady, Lose, Up, libpqVars, rubyVars

LEMMA OnlyKindKeeps ==
  ASSUME QPInv, NEW k, OnlyKind(k), Client \/ Interrupt \/ Server \/ Lose
  PROVE  OnlyKind(k)'
BY CallMoves DEF OnlyKind

LEMMA PastKeeps ==
  ASSUME QPInv, Past, Client \/ Interrupt \/ Server \/ Lose, call.name # "exec"
  PROVE  Past'
<1>1. QPInv'
  BY ClientKeeps, InterruptKeeps, ServerKeeps, LoseKeeps
<1>2. CASE Server \/ Lose
  <2>1. UNCHANGED async
    BY <1>2, QuietSteps
  <2>2. ~Pending'
    <3>1. CASE SrvStart
      BY <3>1, Read DEF SrvStart, Past, QPInv
    <3>2. CASE SrvCopyEnd
      BY <3>2, Read DEF SrvCopyEnd, Past, QPInv
    <3>3. CASE ~SrvStart /\ ~SrvCopyEnd
      <4>1. UNCHANGED toSrv
        BY <1>2, <3>3 DEF Server, SrvMore, SrvFinish, SrvCopyStart, SrvData, SrvError,
                          SrvReady, Lose, srvVars
      <4> QED
        BY <4>1 DEF Past, Pending, Newest
    <3> QED
      BY <3>1, <3>2, <3>3
  <2>3. srv'.st # "running"
    <3>1. CASE SrvStart
      BY <3>1, Read DEF SrvStart, Past, QPInv
    <3>2. CASE ~SrvStart
      BY <1>2, <3>2 DEF Server, SrvMore, SrvFinish, SrvCopyStart, SrvData, SrvCopyEnd, SrvError,
                        Fails, SrvReady, Lose, srvVars, Past, QPInv, StreamInv, StreamTypeOK, CopyStates
    <3> QED
      BY <3>1, <3>2
  <2>4. NoCopy(inbuf')
    <3>1. inbuf \in Seq(Message) /\ NoCopy(inbuf)
      BY DEF QPInv, StreamInv, StreamTypeOK, Past
    <3>2. ASSUME NEW m, inbuf' = Append(inbuf, m), m.t \notin CopyStates PROVE NoCopy(inbuf')
      <4>1. /\ Len(inbuf) \in Nat /\ Len(inbuf') = Len(inbuf) + 1 /\ inbuf'[Len(inbuf) + 1] = m
            /\ \A i \in 1..Len(inbuf) : inbuf'[i] = inbuf[i]
        BY <3>1, <3>2
      <4> QED
        BY <3>1, <3>2, <4>1 DEF NoCopy
    <3>3. CASE SrvFinish /\ srv.st = "copy_out"
      <4> DEFINE d == Msg("copydone", srv.id, FALSE)
                 m == Msg("result", srv.id, TRUE)
      <4>1. inbuf' = inbuf \o <<d, m>>
        BY <3>3 DEF SrvFinish
      <4>2. d.t \notin CopyStates /\ m.t \notin CopyStates
        BY DEF Msg, CopyStates
      <4> HIDE DEF d, m
      <4>3. /\ Len(inbuf) \in Nat /\ Len(inbuf') = Len(inbuf) + 2
            /\ inbuf'[Len(inbuf) + 1] = d /\ inbuf'[Len(inbuf) + 2] = m
            /\ \A i \in 1..Len(inbuf) : inbuf'[i] = inbuf[i]
        BY <3>1, <4>1
      <4> QED
        BY <3>1, <4>2, <4>3 DEF NoCopy
    <3>4. CASE SrvFinish /\ srv.st # "copy_out"
      BY <3>2, <3>4 DEF SrvFinish, Msg, CopyStates
    <3>5. CASE SrvMore \/ SrvData \/ SrvCopyEnd \/ SrvError \/ SrvReady
      BY <3>2, <3>5
      DEF SrvMore, SrvData, SrvCopyEnd, SrvError, SrvReady, Fails, Emit, Msg, CopyStates
    <3>6. CASE SrvStart \/ Lose
      BY <3>1, <3>6 DEF SrvStart, Lose, libpqVars
    <3>7. ~SrvCopyStart
      BY DEF SrvCopyStart, Past
    <3> QED
      BY <1>2, <3>3, <3>4, <3>5, <3>6, <3>7 DEF Server
  <2> QED
    BY <2>1, <2>2, <2>3, <2>4 DEF Past
<1>3. CASE PQgetResult /\ ~PQisBusy /\ UNCHANGED <<toSrv, srv>>
  <2>1. ~Pending'
    BY <1>3 DEF Past, Pending, Newest
  <2>2. CASE async = "busy"
    <3>1. inbuf # <<>> /\ inbuf \in Seq(Message) /\ inbuf' = Tail(inbuf)
      BY <1>3, <2>2 DEF PQisBusy, PQgetResult, QPInv, StreamInv, StreamTypeOK
    <3>2. NoCopy(inbuf') /\ Head(inbuf).t \notin CopyStates
      <4>1. NoCopy(Tail(inbuf)) /\ 1 \in 1..Len(inbuf) /\ Head(inbuf) = inbuf[1]
        BY <3>1, Taken, EmptyLength DEF QPInv, StreamInv, Incoming
      <4> QED
        BY <3>1, <4>1 DEF Past, NoCopy
    <3>3. async' \notin CopyStates
      BY <1>3, <2>2, <3>2 DEF PQgetResult, CopyStates
    <3> QED
      BY <1>3, <2>1, <3>2, <3>3 DEF Past
  <2>3. CASE async # "busy"
    BY <1>3, <2>1, <2>3 DEF PQgetResult, Past
  <2> QED
    BY <2>2, <2>3
<1>4. CASE PQgetCopyData /\ inbuf # <<>> /\ UNCHANGED <<toSrv, srv>>
  <2>1. ~Pending'
    BY <1>4 DEF Past, Pending, Newest
  <2>2. NoCopy(Tail(inbuf))
    BY <1>4, Taken DEF QPInv, StreamInv, StreamTypeOK, Incoming
  <2> QED
    BY <1>4, <2>1, <2>2 DEF PQgetCopyData, Past, CopyStates
<1>5. CASE UNCHANGED <<async, inbuf, toSrv, srv>>
  BY <1>5 DEF Past, Pending, Newest
<1>6. CASE discard_results_get
  <2>1. Got.t # "copy_in"
    <3>1. CASE async = "busy"
      <4>1. inbuf # <<>> /\ inbuf \in Seq(Message)
        BY <1>6, <3>1 DEF discard_results_get, PQisBusy, QPInv, StreamInv, StreamTypeOK
      <4>2. 1 \in 1..Len(inbuf) /\ Head(inbuf) = inbuf[1]
        BY <4>1, EmptyLength
      <4> QED
        BY <3>1, <4>2 DEF Got, NoResult, Past, NoCopy, CopyStates
    <3>2. CASE async # "busy"
      BY <3>2 DEF Got, NoResult, Past, QPInv, StreamInv, StreamTypeOK, CopyStates
    <3> QED
      BY <3>1, <3>2
  <2> QED
    BY <1>3, <1>6, <2>1 DEF discard_results_get
<1>7. ~exec_send
  BY DEF exec_send, QPInv, ExecInv
<1> QED
  BY <1>2, <1>3, <1>4, <1>5, <1>6, <1>7
  DEF Client, discard_results, discard_results_row, discard_results_error, async_get_last_result,
      get_result, block, wait_socket_readable_error, get_copy_data, Interrupt, libpqVars, srvVars

LEMMA ExecutingKeeps ==
  ASSUME QPInv, Executing, Client \/ Interrupt \/ Server \/ Lose PROVE Executing'
<1>1. call'.name = "exec" /\ call'.kind \in CopyStates
  BY CallMoves DEF Executing
<1>2. CASE pc = "ready" \/ Server \/ Lose
  BY <1>1, <1>2, QuietSteps DEF Executing
<1>3. CASE pc = "discard" /\ (Client \/ Interrupt)
  <2>1. discard_results
    BY <1>3 DEF Client, discard_results_get, discard_results_row, discard_results_error, exec_send,
                async_get_last_result, get_result, block, wait_socket_readable_error, get_copy_data,
                Interrupt
  <2>2. async = "idle" /\ UNCHANGED async
    BY <1>3, <2>1 DEF Executing, discard_results, libpqVars
  <2>3. PQtransactionStatus \in {"idle", "intrans", "inerror", "unknown"}
    BY <2>2 DEF PQtransactionStatus, QPInv, StreamInv, StreamTypeOK, XStates
  <2>4. pc' = "send" \/ (pc' = "ready" /\ ret' = "conn_bad")
    BY <2>1, <2>3 DEF discard_results, Discarded, EndCall, Executing
  <2> QED
    BY <1>1, <2>2, <2>4 DEF Executing
<1>4. CASE pc = "send" /\ (Client \/ Interrupt)
  <2>1. exec_send
    BY <1>4 DEF Client, discard_results, discard_results_get, discard_results_row,
                discard_results_error, async_get_last_result, get_result, block,
                wait_socket_readable_error, get_copy_data, Interrupt
  <2>2. pc' = "result" \/ (pc' = "ready" /\ ret' = "unable")
    BY <2>1 DEF exec_send, EndCall
  <2> QED
    BY <1>1, <2>2 DEF Executing
<1>5. CASE pc = "result" /\ (Client \/ Interrupt)
  <2>1. \/ async_get_last_result
        \/ wait_socket_readable_error
        \/ Interrupt
    BY <1>5 DEF Client, discard_results, discard_results_get, discard_results_row,
                discard_results_error, exec_send, get_result, block, get_copy_data
  <2>2. \/ pc' = "result"
        \/ pc' = "ready" /\ ret' # "interrupt"
        \/ pc' = "ready" /\ UNCHANGED async
    BY <1>5, <2>1 DEF async_get_last_result, wait_socket_readable_error, Interrupt, EndCall, Checked,
                      libpqVars
  <2>3. async = "busy"
    BY <1>5 DEF QPInv, ExecInv, Executing
  <2> QED
    BY <1>1, <2>2, <2>3 DEF Executing, CopyStates
<1> QED
  BY <1>2, <1>3, <1>4, <1>5 DEF Executing

LEMMA DiscardingKeeps ==
  ASSUME QPInv, Discarding, Client \/ Interrupt \/ Server \/ Lose PROVE Discarding'
<1>1. call'.name = "discard_results"
  BY CallMoves DEF Discarding
<1>2. CASE pc = "ready" \/ Server \/ Lose
  BY <1>1, <1>2, QuietSteps DEF Discarding
<1>3. CASE discard_results
  <2>1. pc \in {"discard"} /\ UNCHANGED <<async, status>>
    BY <1>3 DEF discard_results, libpqVars
  <2>2. CASE PQtransactionStatus \in {"idle", "intrans", "inerror"}
    <3>1. async = "idle" /\ pc' = "ready"
      BY <1>3, <2>2 DEF PQtransactionStatus, discard_results, Discarded, EndCall, Discarding
    <3> QED
      BY <1>1, <2>1, <3>1 DEF Discarding
  <2>3. CASE PQtransactionStatus = "unknown"
    <3>1. status = "bad" /\ pc' = "ready"
      BY <1>3, <2>3 DEF PQtransactionStatus, discard_results, EndCall, QPInv, StreamInv,
                        StreamTypeOK, XStates
    <3> QED
      BY <1>1, <2>1, <3>1 DEF Discarding
  <2>4. CASE PQtransactionStatus \notin {"idle", "intrans", "inerror", "unknown"}
    BY <1>1, <1>3, <2>4 DEF discard_results, Discarding
  <2> QED
    BY <2>2, <2>3, <2>4
<1>4. CASE discard_results_get
  <2>1. pc = "discard_loop" /\ ~PQisBusy
    BY <1>4 DEF discard_results_get
  <2>2. CASE Got.t = "none"
    <3>1. async' = "idle"
      BY <1>4, <2>2, GetResultKeeps DEF discard_results_get, QPInv
    <3>2. pc' = "ready"
      BY <1>4, <2>2 DEF discard_results_get, Discarded, EndCall, Discarding
    <3> QED
      BY <1>1, <3>1, <3>2 DEF Discarding
  <2>3. CASE Got.t # "none"
    <3>1. pc' \in {"discard_loop", "discard_rows"}
      BY <1>4, <2>1, <2>3 DEF discard_results_get
    <3> QED
      BY <1>1, <3>1 DEF Discarding
  <2> QED
    BY <2>2, <2>3
<1>5. CASE discard_results_row
  <2>1. pc' \in {"discard_loop", "discard_rows"}
    BY <1>5 DEF discard_results_row
  <2> QED
    BY <1>1, <2>1 DEF Discarding
<1>6. CASE discard_results_error
  BY <1>1, <1>6 DEF discard_results_error, Discarded, EndCall, Discarding
<1>7. CASE Interrupt
  BY <1>1, <1>7 DEF Interrupt, EndCall, Discarding
<1> QED
  BY <1>2, <1>3, <1>4, <1>5, <1>6, <1>7
  DEF Discarding, Client, exec_send, async_get_last_result, get_result, block,
      wait_socket_readable_error, get_copy_data

LEMMA TrailerKeeps ==
  ASSUME QPInv, OnlyKind("copy_out"), Trailer, Client \/ Interrupt \/ Server \/ Lose PROVE Trailer'
<1>1. call'.name = "get_copy_data"
  BY CallMoves DEF Trailer
<1>2. CASE pc = "ready" \/ Server \/ Lose
  BY <1>1, <1>2, QuietSteps DEF Trailer
<1>3. CASE get_copy_data
  <2>1. pc' = "ready"
    BY <1>3 DEF get_copy_data, EndCall
  <2>2. CASE async # "copy_out"
    <3>1. async \notin CopyStates
      BY <2>2, CopyKind DEF OnlyKind, CopyStates
    <3>2. ret' = "error" /\ UNCHANGED async
      BY <1>3, <2>2 DEF get_copy_data, EndCall
    <3> QED
      BY <1>1, <2>1, <3>1, <3>2 DEF Trailer
  <2>3. CASE async = "copy_out"
    <3>1. ret' \in {"row", "nil"} \/ (ret' = "conn_bad" /\ status' = "bad")
      BY <1>3, <2>3 DEF get_copy_data, EndCall
    <3> QED
      BY <1>1, <2>1, <3>1 DEF Trailer
  <2> QED
    BY <2>2, <2>3
<1>4. CASE Interrupt
  BY <1>1, <1>4 DEF Interrupt, EndCall, Trailer
<1> QED
  BY <1>2, <1>3, <1>4
  DEF Trailer, Client, discard_results, discard_results_get, discard_results_row,
      discard_results_error, exec_send, async_get_last_result, get_result, block,
      wait_socket_readable_error

LEMMA LastFetchedKeeps ==
  ASSUME QPInv, LastFetched, Client \/ Interrupt \/ Server \/ Lose PROVE LastFetched'
<1>1. call'.name = "get_last_result"
  BY CallMoves DEF LastFetched
<1>2. CASE pc = "ready" \/ Server \/ Lose
  BY <1>1, <1>2, QuietSteps DEF LastFetched
<1>3. CASE async_get_last_result
  <2>1. /\ pc = "result" /\ ~PQisBusy /\ PQgetResult
        /\ UNCHANGED <<status, srvVars, call, nStmt, nInt>>
        /\ prev' = IF Got.t = "none" THEN prev ELSE Got
    BY <1>3 DEF async_get_last_result
  <2>2. CASE LastResult(Got)
    <3>1. pc' = "ready" /\ ret' = Checked(prev') /\ Got.t \in {"none"} \cup CopyStates
      BY <1>3, <2>2 DEF async_get_last_result, EndCall, LastResult
    <3>2. Got.t = "none" => async' = "idle"
      BY <2>1, GetResultKeeps DEF QPInv, srvVars
    <3>3. async' \in CopyStates => prev'.t \in CopyStates
      BY <2>1, <3>1, <3>2 DEF CopyStates
    <3>4. ret' = Checked(prev)'
      BY <3>1 DEF Checked
    <3> QED
      BY <1>1, <3>1, <3>3, <3>4 DEF LastFetched
  <2>3. CASE ~LastResult(Got)
    <3>1. UNCHANGED pc
      BY <1>3, <2>3 DEF async_get_last_result
    <3> QED
      BY <1>1, <2>1, <3>1 DEF LastFetched
  <2> QED
    BY <2>2, <2>3
<1>4. CASE wait_socket_readable_error
  BY <1>1, <1>4 DEF wait_socket_readable_error, EndCall, LastFetched
<1>5. CASE Interrupt
  BY <1>1, <1>5 DEF Interrupt, EndCall, LastFetched
<1> QED
  BY <1>2, <1>3, <1>4, <1>5
  DEF LastFetched, Client, discard_results, discard_results_get, discard_results_row,
      discard_results_error, exec_send, get_result, block, get_copy_data

LEMMA EnvKeeps == ASSUME CpInv, Env PROVE CpInv'
<1>1. Client \/ Interrupt \/ Server \/ Lose
  BY DEF Env
<1>2. QPInv /\ QPInv'
  BY <1>1, ClientKeeps, InterruptKeeps, ServerKeeps, LoseKeeps DEF CpInv
<1>3. UNCHANGED <<cp, brk, raised>> /\ call'.name = call.name
  BY <1>1, <1>2, CallMoves DEF Env, cpVars
<1>4. /\ cp \in InClauses => OnlyKind("copy_in")'
      /\ cp \in OutClauses => OnlyKind("copy_out")'
  BY <1>1, <1>2, OnlyKindKeeps DEF CpInv
<1>5. cp \in {"out", "left"} => pc' = "ready" /\ UNCHANGED async /\ (status' = "ok" => status = "ok")
  BY <1>1, <1>2, QuietSteps DEF CpInv
<1>6. cp = "left" => CopyTerminated'
  BY <1>3, <1>5 DEF CpInv, CopyTerminated
<1>7. cp = "exec" => Executing'
  BY <1>1, <1>2, ExecutingKeeps DEF CpInv
<1>8. cp = "in_last" => Past'
  BY <1>1, <1>2, PastKeeps DEF CpInv
<1>9. cp = "out_trailer" => Trailer'
  BY <1>1, <1>2, TrailerKeeps DEF CpInv, OutClauses
<1>10. cp = "out_last" => LastFetched'
  BY <1>1, <1>2, LastFetchedKeeps DEF CpInv
<1>11. cp = "discarding" => Discarding'
  BY <1>1, <1>2, DiscardingKeeps DEF CpInv
<1> QED
  BY <1>2, <1>3, <1>4, <1>5, <1>6, <1>7, <1>8, <1>9, <1>10, <1>11 DEF CpInv

-----------------------------------------------------------------------------
(* Steps of the method and of its block *)

(* A call other than exec and send_query does not begin with a statement. *)
LEMMA PlainMoves ==
  ASSUME QPInv, NEW name \in CallNames, NEW ph \in Phases, Plain(name, ph)
  PROVE  /\ QPInv' /\ LastKind' = LastKind
         /\ pc' = ph /\ call'.name = name
         /\ UNCHANGED <<async, inbuf, status, toSrv, srv>>
<1>1. UNCHANGED <<async, inbuf, status, toSrv, srv>> /\ pc' = ph /\ call'.name = name
  BY DEF Plain, Begin, libpqVars, srvVars
<1>2. LastKind' = LastKind
  BY <1>1 DEF LastKind, Pending, Newest
<1> QED
  BY <1>1, <1>2, PlainKeeps

LEMMA NothingMoves ==
  ASSUME QPInv, UNCHANGED qpVars
  PROVE  /\ QPInv' /\ LastKind' = LastKind
         /\ UNCHANGED <<pc, call, prev, ret, async, inbuf, status, toSrv, srv>>
<1>1. UNCHANGED <<pc, call, prev, ret, async, inbuf, status, toSrv, srv>>
  BY DEF qpVars, libpqVars, srvVars, rubyVars
<1> QED
  BY <1>1, SameKeeps DEF LastKind, Pending, Newest

(* put_copy_end ends an open COPY FROM STDIN, or says that there is none. *)
LEMMA PutCopyEndMoves ==
  ASSUME QPInv, NEW how \in {"done", "fail"}, put_copy_end(how)
  PROVE  /\ QPInv' /\ LastKind' = LastKind
         /\ pc' = "ready" /\ call'.name = "put_copy_end" /\ UNCHANGED status
         /\ IF ret' = "ok" THEN Past'
            ELSE UNCHANGED async /\ (async = "copy_in" => status = "bad")
<1>1. /\ pc' = "ready" /\ call'.name = "put_copy_end"
      /\ UNCHANGED <<status, xact, inbuf, srv, srvXact, nStmt>>
  BY DEF put_copy_end
<1>2. QPInv'
  BY PutCopyEndCallKeeps
<1>3. CASE async = "copy_in" /\ status # "bad"
  <2> DEFINE r == [t |-> "copyend", id |-> 0, kind |-> how]
  <2>1. ret' = "ok" /\ PQputCopyEnd(how) /\ async' = "busy" /\ toSrv' = Append(toSrv, r)
    BY <1>3 DEF put_copy_end, PQputCopyEnd
  <2>2. StreamInv /\ ~Pending /\ srv.st # "running" /\ NoCopy(inbuf)
    BY <1>3 DEF QPInv, StreamInv, InStep, CopyStates
  <2>3. r \in Request /\ r.t = "copyend"
    BY DEF Request
  <2> HIDE DEF r
  <2>4. ~Pending'
    BY <2>1, <2>2, <2>3, Asked DEF Pending, Newest
  <2>5. LastKind' = LastKind
    BY <1>1, <2>2, <2>4 DEF LastKind
  <2> QED
    BY <1>1, <1>2, <2>1, <2>2, <2>4, <2>5 DEF Past, CopyStates
<1>4. CASE ~(async = "copy_in" /\ status # "bad")
  <2>1. ret' = "error" /\ UNCHANGED <<toSrv, async>>
    BY <1>4 DEF put_copy_end
  <2> QED
    BY <1>1, <1>2, <1>4, <2>1 DEF LastKind, Pending, Newest
<1> QED
  BY <1>3, <1>4

(* exec( sql ) *)
LEMMA ExecSqlKeeps == ASSUME CpInv, Enter \/ Executed PROVE CpInv'
<1>1. QPInv
  BY DEF CpInv
<1>2. CASE Enter
  <2>1. PICK k \in Kinds \cap CopyStates : async_exec(k)
    BY <1>2 DEF Enter, CopyStates
  <2>2. QPInv'
    BY <1>1, <2>1, ExecKeeps DEF AllKinds, CopyStates
  <2>3. /\ cp' = "exec" /\ pc' = "discard" /\ call'.name = "exec" /\ call'.kind = k
        /\ UNCHANGED async
    BY <1>2, <2>1 DEF Enter, async_exec, Begin, libpqVars
  <2>4. async = "idle"
    BY <1>2 DEF Enter, CpInv
  <2> QED
    BY <2>1, <2>2, <2>3, <2>4 DEF CpInv, Executing, InClauses, OutClauses
<1>3. CASE Executed
  <2>1. cp = "exec" /\ pc = "ready" /\ UNCHANGED <<qpVars, brk>>
    BY <1>3 DEF Executed
  <2>2. /\ QPInv' /\ LastKind' = LastKind
        /\ UNCHANGED <<pc, call, prev, ret, async, inbuf, status, toSrv, srv>>
    BY <1>1, <2>1, NothingMoves
  <2>3. Executing
    BY <2>1 DEF CpInv
  <2>4. ASSUME NEW k \in CopyStates, ret = "ok", prev.t = k PROVE OnlyKind(k)'
    <3>1. LastKind = call.kind /\ call.kind = k
      BY <1>1, <2>1, <2>3, <2>4 DEF QPInv, ExecInv, Executing
    <3> QED
      BY <2>2, <3>1 DEF OnlyKind
  <2>5. CASE ret = "ok" /\ prev.t = "copy_in"
    BY <1>3, <2>2, <2>4, <2>5 DEF Executed, CpInv, InClauses, OutClauses, CopyStates
  <2>6. CASE ret = "ok" /\ prev.t = "copy_out"
    BY <1>3, <2>2, <2>4, <2>6 DEF Executed, CpInv, InClauses, OutClauses, CopyStates
  <2>7. CASE ~(ret = "ok" /\ prev.t \in CopyStates)
    <3>1. cp' = "left"
      BY <1>3, <2>7 DEF Executed, CopyStates
    <3>2. status = "ok" => async \notin CopyStates
      <4>1. ret \in {"ok", "error", "nil"} => ret = Checked(prev) /\ (async = "idle" \/ prev.t \in CopyStates)
        BY <1>1, <2>1, <2>3 DEF QPInv, ExecInv, Executing
      <4>2. prev.t \in CopyStates => Checked(prev) = "ok"
        BY DEF Checked, CopyStates
      <4>3. \/ ret \in {"ok", "error", "nil"}
            \/ ret = "interrupt"
            \/ status = "bad"
        BY <1>1, <2>1, <2>3 DEF QPInv, ExecInv, Executing
      <4> QED
        BY <2>1, <2>3, <2>7, <4>1, <4>2, <4>3 DEF Executing, CopyStates
    <3> QED
      BY <2>1, <2>2, <3>1, <3>2 DEF CpInv, CopyTerminated, InClauses, OutClauses
  <2> QED
    BY <2>5, <2>6, <2>7 DEF CopyStates
<1> QED
  BY <1>2, <1>3

(* COPY FROM STDIN *)
LEMMA CopyInKeeps == ASSUME CpInv, InHeader \/ InRescue \/ InElse \/ InLast PROVE CpInv'
<1>1. QPInv
  BY DEF CpInv
<1>2. CASE InHeader
  <2>1. OnlyKind("copy_in") /\ cp' \in {"in_rescue", "in_block"} /\ UNCHANGED qpVars
    BY <1>2 DEF InHeader, CpInv, InClauses
  <2>2. QPInv' /\ LastKind' = LastKind /\ UNCHANGED call
    BY <1>1, <2>1, NothingMoves
  <2> QED
    BY <2>1, <2>2 DEF CpInv, OnlyKind, InClauses, OutClauses
<1>3. CASE InRescue
  BY <1>1, <1>3, PutCopyEndMoves DEF InRescue, CpInv, InClauses, OutClauses
<1>4. CASE InElse
  <2>1. cp = "in_else" /\ put_copy_end("done") /\ UNCHANGED brk /\ OnlyKind("copy_in")
    BY <1>4 DEF InElse, CpInv, InClauses
  <2>2. /\ QPInv' /\ LastKind' = LastKind
        /\ pc' = "ready" /\ call'.name = "put_copy_end" /\ UNCHANGED status
        /\ IF ret' = "ok" THEN Past'
           ELSE UNCHANGED async /\ (async = "copy_in" => status = "bad")
    BY <1>1, <2>1, PutCopyEndMoves
  <2>3. CASE ret' = "ok"
    BY <1>4, <2>1, <2>2, <2>3 DEF InElse, CpInv, OnlyKind, InClauses, OutClauses
  <2>4. CASE ret' # "ok"
    <3>1. async \in CopyStates => async = "copy_in"
      BY <1>1, <2>1, CopyKind DEF OnlyKind, CopyStates
    <3> QED
      BY <1>4, <2>1, <2>2, <2>4, <3>1 DEF InElse, CpInv, CopyTerminated, InClauses, OutClauses
  <2> QED
    BY <2>3, <2>4
<1>5. CASE InLast
  <2>1. cp = "in_last" /\ Past /\ OnlyKind("copy_in") /\ UNCHANGED brk /\ pc = "ready"
    BY <1>5 DEF InLast, CpInv, InClauses
  <2>2. CASE Plain("get_last_result", "result") /\ UNCHANGED cp
    <3>1. /\ QPInv' /\ LastKind' = LastKind
          /\ call'.name = "get_last_result" /\ UNCHANGED <<async, inbuf, toSrv, srv>>
      BY <1>1, <2>2, PlainMoves DEF CallNames, Phases
    <3> QED
      BY <2>1, <2>2, <3>1 DEF CpInv, OnlyKind, Past, Pending, Newest, InClauses, OutClauses
  <2>3. CASE cp' = "left" /\ UNCHANGED qpVars
    <3>1. QPInv' /\ UNCHANGED <<pc, async, status>>
      BY <1>1, <2>3, NothingMoves
    <3> QED
      BY <2>1, <2>3, <3>1 DEF CpInv, Past, CopyTerminated, InClauses, OutClauses
  <2> QED
    BY <1>5, <2>2, <2>3 DEF InLast, Exit
<1> QED
  BY <1>2, <1>3, <1>4, <1>5

(* COPY TO STDOUT *)
LEMMA CopyOutKeeps ==
  ASSUME CpInv, OutSetup \/ OutRescue \/ OutElse \/ OutTrailer \/ OutLast PROVE CpInv'
<1>1. QPInv
  BY DEF CpInv
<1>2. CASE OutSetup
  <2>1. OnlyKind("copy_out") /\ cp' = "out_block" /\ UNCHANGED qpVars
    BY <1>2 DEF OutSetup, CpInv, OutClauses
  <2>2. QPInv' /\ LastKind' = LastKind /\ UNCHANGED call
    BY <1>1, <2>1, NothingMoves
  <2> QED
    BY <2>1, <2>2 DEF CpInv, OnlyKind, InClauses, OutClauses
<1>3. CASE OutRescue
  <2>1. Cancelled /\ cp' = "discard" /\ UNCHANGED <<async, xact, status, toSrv, rubyVars>>
    BY <1>3 DEF OutRescue, cancel
  <2>2. UNCHANGED <<pc, call, prev, ret, nStmt, nInt>>
    BY <2>1 DEF rubyVars
  <2>3. GoesOn
    BY <1>1, <2>1, <2>2, CancelledGoesOn DEF QPInv
  <2>4. QPInv'
    BY <1>1, <2>1, <2>2, <2>3, BackgroundKeeps
  <2> QED
    BY <2>1, <2>4 DEF CpInv, InClauses, OutClauses
<1>4. ASSUME OnlyKind("copy_out"), Plain("get_last_result", "result"), cp' = "out_last" PROVE CpInv'
  <2>1. QPInv' /\ LastKind' = LastKind /\ pc' = "result" /\ call'.name = "get_last_result"
    BY <1>1, <1>4, PlainMoves DEF CallNames, Phases
  <2> QED
    BY <1>4, <2>1 DEF CpInv, OnlyKind, LastFetched, InClauses, OutClauses
<1>5. CASE OutElse
  <2>1. OnlyKind("copy_out")
    BY <1>5 DEF OutElse, CpInv, OutClauses
  <2>2. CASE Plain("get_copy_data", "row") /\ cp' = "out_trailer"
    <3>1. QPInv' /\ LastKind' = LastKind /\ pc' = "row" /\ call'.name = "get_copy_data"
      BY <1>1, <2>2, PlainMoves DEF CallNames, Phases
    <3> QED
      BY <2>1, <2>2, <3>1 DEF CpInv, OnlyKind, Trailer, InClauses, OutClauses
  <2> QED
    BY <1>4, <1>5, <2>1, <2>2 DEF OutElse
<1>6. CASE OutTrailer
  <2>1. OnlyKind("copy_out") /\ Trailer /\ pc = "ready"
    BY <1>6 DEF OutTrailer, CpInv, OutClauses
  <2>2. CASE ret = "nil"
    BY <1>4, <1>6, <2>1, <2>2 DEF OutTrailer
  <2>3. CASE ret = "row"
    <3>1. cp' = "discard" /\ QPInv'
      BY <1>1, <1>6, <2>3, NothingMoves DEF OutTrailer
    <3> QED
      BY <3>1 DEF CpInv, InClauses, OutClauses
  <2>4. CASE ret \notin {"row", "nil"}
    <3>1. cp' = "left" /\ raised' = ret /\ UNCHANGED qpVars
      BY <1>6, <2>4 DEF OutTrailer, Exit
    <3>2. QPInv' /\ UNCHANGED <<pc, async, status>>
      BY <1>1, <3>1, NothingMoves
    <3> QED
      BY <2>1, <2>4, <3>1, <3>2 DEF CpInv, Trailer, CopyTerminated, InClauses, OutClauses
  <2> QED
    BY <2>2, <2>3, <2>4
<1>7. CASE OutLast
  <2>1. LastFetched /\ pc = "ready" /\ UNCHANGED qpVars
    BY <1>7 DEF OutLast, CpInv
  <2>2. QPInv' /\ UNCHANGED <<pc, async, status>>
    BY <1>1, <2>1, NothingMoves
  <2>3. CASE ret = "nil" \/ (ret = "ok" /\ prev.t # "result")
    <3>1. cp' = "discard"
      BY <1>7, <2>3 DEF OutLast
    <3> QED
      BY <2>2, <3>1 DEF CpInv, InClauses, OutClauses
  <2>4. CASE ret # "nil" /\ (ret = "ok" => prev.t = "result")
    <3>1. cp' = "left" /\ raised' = IF ret = "ok" THEN "none" ELSE ret
      BY <1>7, <2>4 DEF OutLast, Exit
    <3>2. ret = Checked(prev) => prev.t \notin CopyStates
      BY <2>4 DEF Checked, CopyStates
    <3> QED
      BY <2>1, <2>2, <3>1, <3>2 DEF CpInv, LastFetched, CopyTerminated, InClauses, OutClauses
  <2> QED
    BY <2>3, <2>4
<1> QED
  BY <1>2, <1>3, <1>5, <1>6, <1>7

(* discard_results and the exception that goes on *)
LEMMA DiscardClauseKeeps == ASSUME CpInv, Discard \/ DiscardEnds PROVE CpInv'
<1>1. QPInv
  BY DEF CpInv
<1>2. CASE Discard
  <2>1. Plain("discard_results", "discard") /\ cp' = "discarding"
    BY <1>2 DEF Discard
  <2>2. QPInv' /\ pc' = "discard" /\ call'.name = "discard_results"
    BY <1>1, <2>1, PlainMoves DEF CallNames, Phases
  <2> QED
    BY <2>1, <2>2 DEF CpInv, Discarding, InClauses, OutClauses
<1>3. CASE DiscardEnds
  <2>1. /\ Discarding /\ pc = "ready" /\ UNCHANGED qpVars /\ cp' = "left"
        /\ ret = "interrupt" => raised' = ret
    BY <1>3 DEF DiscardEnds, Exit, CpInv
  <2>2. QPInv' /\ UNCHANGED <<pc, async, status>>
    BY <1>1, <2>1, NothingMoves
  <2> QED
    BY <2>1, <2>2 DEF CpInv, Discarding, CopyTerminated, CopyStates, InClauses, OutClauses
<1> QED
  BY <1>2, <1>3

(* The block: its statements begin no COPY. *)
LEMMA BlockKeeps ==
  ASSUME CpInv, BlockCall \/ BlockEnds \/ BlockRaises \/ BlockBreaks PROVE CpInv'
<1>1. QPInv /\ cp \in {"in_block", "out_block"}
  BY DEF CpInv, BlockCall, BlockEnds, BlockRaises, BlockBreaks
<1>2. PICK k \in CopyStates : OnlyKind(k) /\ cp = IF k = "copy_in" THEN "in_block" ELSE "out_block"
  BY <1>1 DEF CpInv, CopyStates, InClauses, OutClauses
<1>3. CASE BlockCall
  <2>1. UNCHANGED cp
    BY <1>3 DEF BlockCall, cpVars
  <2>2. ASSUME QPInv', OnlyKind(k)' PROVE CpInv'
    BY <1>1, <1>2, <2>1, <2>2 DEF CpInv, CopyStates, InClauses, OutClauses
  <2>3. ASSUME async_exec("select") PROVE CpInv'
    <3>1. call'.kind = "select" /\ LastKind' = LastKind
      BY <2>3 DEF async_exec, Begin, srvVars, LastKind, Pending, Newest
    <3>2. QPInv'
      BY <1>1, <2>3, ExecKeeps DEF AllKinds
    <3> QED
      BY <1>2, <2>2, <3>1, <3>2 DEF OnlyKind
  <2>4. ASSUME send_query("select") PROVE CpInv'
    <3>1. LastKind' \in {LastKind, "select"} /\ call'.name = "send_query" /\ QPInv'
      BY <1>1, <2>4, SendMoves, SendQueryCallKeeps DEF AllKinds
    <3> QED
      BY <1>2, <2>2, <3>1 DEF OnlyKind
  <2>5. ASSUME NEW name \in CallNames, NEW ph \in Phases, Plain(name, ph) PROVE CpInv'
    <3>1. LastKind' = LastKind /\ call'.name # "exec" /\ QPInv'
      BY <1>1, <2>5, PlainMoves DEF CallNames
    <3> QED
      BY <1>2, <2>2, <3>1 DEF OnlyKind
  <2>6. ASSUME put_copy_end("done") PROVE CpInv'
    <3>1. LastKind' = LastKind /\ call'.name # "exec" /\ QPInv'
      BY <1>1, <2>6, PutCopyEndMoves
    <3> QED
      BY <1>2, <2>2, <3>1 DEF OnlyKind
  <2> QED
    BY <1>3, <2>3, <2>4, <2>5, <2>6 DEF BlockCall, CallNames, Phases
<1>4. CASE BlockEnds \/ BlockRaises \/ BlockBreaks
  <2>1. UNCHANGED qpVars /\ pc = "ready"
    BY <1>4 DEF BlockEnds, BlockRaises, BlockBreaks
  <2>2. QPInv' /\ LastKind' = LastKind /\ UNCHANGED <<pc, call>>
    BY <1>1, <2>1, NothingMoves
  <2>3. OnlyKind(k)'
    BY <1>2, <2>2 DEF OnlyKind
  <2>4. CASE BlockEnds \/ BlockRaises
    <3>1. cp' \in IF k = "copy_in" THEN {"in_else", "in_rescue"} ELSE {"out_else", "out_rescue"}
      BY <1>2, <2>4 DEF BlockEnds, BlockRaises
    <3> QED
      BY <2>2, <2>3, <3>1 DEF CpInv, CopyStates, InClauses, OutClauses
  <2>5. CASE BlockBreaks
    BY <2>1, <2>2, <2>5 DEF BlockBreaks, Exit, CpInv, CopyTerminated, InClauses, OutClauses
  <2> QED
    BY <1>4, <2>4, <2>5
<1> QED
  BY <1>3, <1>4

LEMMA CpStep == ASSUME CpInv, [Next]_vars PROVE CpInv'
<1>1. CASE UNCHANGED vars
  <2>1. UNCHANGED <<qpVars, cp, brk, raised>> /\ QPInv
    BY <1>1 DEF vars, cpVars, CpInv
  <2>2. /\ QPInv' /\ LastKind' = LastKind
        /\ UNCHANGED <<pc, call, prev, ret, async, inbuf, status, toSrv, srv>>
    BY <2>1, NothingMoves
  <2> QED
    BY <2>1, <2>2 DEF CpInv, OnlyKind, Executing, Past, Pending, Newest, Trailer, LastFetched,
                      Discarding, CopyTerminated, Checked
<1> QED
  BY <1>1, EnvKeeps, ExecSqlKeeps, CopyInKeeps, CopyOutKeeps, DiscardClauseKeeps, BlockKeeps
  DEF Next, Method

LEMMA CpStart == ASSUME Init PROVE CpInv
<1>1. QPInv
  BY QPStart DEF Init
<1> QED
  BY <1>1 DEF Init, QPInit, CpInv, InClauses, OutClauses

(* copy_data leaves no open COPY behind, whatever its block does and       *)
(* however the server answers: the rescue and else clauses end it, unless  *)
(* the block is left by break, a second exception interrupts them or the   *)
(* connection is gone.                                                     *)
THEOREM CopiesTerminated == Spec => []CopyTerminated
<1>1. CpInv => CopyTerminated
  BY DEF CpInv, CopyTerminated
<1>2. Init => CpInv
  BY CpStart
<1>3. CpInv /\ [Next]_vars => CpInv'
  BY CpStep
<1> QED
  BY <1>1, <1>2, <1>3, PTL DEF Spec

-----------------------------------------------------------------------------
(* The coder.  A header that the preset coder refuses is the one case in   *)
(* which the ensure clause does not know the default.                      *)
CoderInv ==
  /\ setup \in Setups
  /\ cp \in {"out", "exec", "in_header", "out_setup", "left"} => encoder = Default(setup)
  /\ cp \notin {"out", "exec", "in_header", "out_setup", "left"} =>
       IF setup.coder THEN oldCoder = Default(setup) ELSE encoder = Default(setup)

LEMMA CoderStep ==
  ASSUME \A s \in Setups : ~(s.coder /\ s.preset /\ s.binary), CoderInv, [Next]_vars
  PROVE  CoderInv'
<1>1. UNCHANGED setup
  BY DEF Next, Method, Enter, Executed, InHeader, OutSetup, InRescue, OutRescue, Discard,
         DiscardEnds, InElse, OutElse, OutTrailer, InLast, OutLast, BlockCall, BlockEnds,
         BlockRaises, BlockBreaks, Env, cpVars, vars
<1>2. ~StringRefused \/ cp # "in_header"
  BY DEF StringRefused, CoderInv, Default
<1>3. CASE Enter \/ Executed
  <2>1. /\ cp \in {"out", "exec"} /\ UNCHANGED encoder
        /\ cp' \in {"exec", "in_header", "out_setup", "left"}
    BY <1>3 DEF Enter, Executed
  <2> QED
    BY <1>1, <2>1 DEF CoderInv
<1>4. CASE InHeader \/ OutSetup
  <2>1. cp \in {"in_header", "out_setup"} /\ UseCoder /\ cp' \in {"in_block", "out_block"}
    BY <1>2, <1>4 DEF InHeader, OutSetup
  <2> QED
    BY <1>1, <2>1 DEF CoderInv, UseCoder
<1>5. CASE cp' = "left" /\ Ensure /\ cp \notin {"out", "exec", "in_header", "out_setup", "left"}
  BY <1>1, <1>5 DEF Ensure, CoderInv
<1>6. CASE InElse
  <2>1. /\ cp = "in_else" /\ cp' \in {"in_last", "left"} /\ UNCHANGED oldCoder
        /\ encoder' = IF setup.coder THEN oldCoder ELSE encoder
    BY <1>6 DEF InElse
  <2> QED
    BY <1>1, <2>1 DEF CoderInv
<1>7. CASE /\ UNCHANGED <<encoder, oldCoder>>
           /\ {cp, cp'} \cap {"out", "exec", "in_header", "out_setup", "left"} = {}
  BY <1>1, <1>7 DEF CoderInv
<1>8. CASE UNCHANGED <<cp, encoder, oldCoder>>
  BY <1>1, <1>8 DEF CoderInv
<1>9. CASE InRescue \/ OutRescue \/ Discard \/ OutElse \/ BlockEnds \/ BlockRaises
  BY <1>7, <1>9 DEF InRescue, OutRescue, Discard, OutElse, BlockEnds, BlockRaises
<1>10. CASE DiscardEnds \/ OutTrailer \/ OutLast \/ InLast \/ BlockBreaks
  BY <1>5, <1>7, <1>10 DEF DiscardEnds, OutTrailer, OutLast, InLast, BlockBreaks, Exit
<1>11. CASE BlockCall \/ Env \/ UNCHANGED vars
  BY <1>8, <1>11 DEF BlockCall, Env, vars, cpVars
<1> QED
  BY <1>3, <1>4, <1>6, <1>9, <1>10, <1>11 DEF Next, Method

(* The default coder is in force when copy_data is left, if it is not a    *)
(* binary COPY with a coder argument and a preset default: there           *)
(* put_copy_data refuses the header before old_coder is assigned.          *)
THEOREM CodersRestored ==
  ASSUME \A s \in Setups : ~(s.coder /\ s.preset /\ s.binary)
  PROVE  Spec => []CoderRestored
<1>1. Init => CoderInv
  BY DEF Init, CoderInv
<1>2. CoderInv /\ [Next]_vars => CoderInv'
  BY CoderStep
<1>3. CoderInv => CoderRestored
  BY DEF CoderInv, CoderRestored
<1> QED
  BY <1>1, <1>2, <1>3, PTL DEF Spec
=============================================================================
