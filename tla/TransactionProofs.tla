------------------------- MODULE TransactionProofs -------------------------
(***************************************************************************)
(* Connection#transaction ends its transaction, and never commits after an *)
(* exception: for any statements of the block in any number, any number of *)
(* asynchronous exceptions and of rows.                                    *)
(*                                                                         *)
(* This rests on the invariant of the connection (QPInv): COMMIT and       *)
(* ROLLBACK are executed by exec, which ends with an idle connection, and  *)
(* the server has executed that statement by then.                         *)
(***************************************************************************)
EXTENDS QueryProtocolProofs, Transaction

(* The state of the method fits to the call that it has made. *)
TxCalls ==
  /\ tx \in {"out", "begin", "body", "ensure", "commit", "block", "rollback"}
  /\ tx \in {"commit", "rollback"} => call.name = "exec" /\ call.kind \in EndKinds
  /\ tx = "block" =>
       /\ call.name = "block" /\ pc \in {"block", "ready"}
       /\ pc = "ready" => \/ ret \in {"true", "interrupt"}
                          \/ ret = "conn_bad" /\ status = "bad"
  /\ tx = "out" => pc = "ready"

(* The method was left with the transaction closed. *)
TxClosed ==
  tx = "out" /\ status = "ok" /\ leftBy \notin {"none", "interrupt"} =>
    async = "idle" /\ xact = "idle"

TxInv == QPInv /\ TxCalls /\ TxClosed

(* exec of COMMIT or ROLLBACK has returned. *)
LEMMA EndExecuted ==
  ASSUME QPInv, call.name = "exec", call.kind \in EndKinds, pc = "ready", status = "ok",
         ret # "interrupt"
  PROVE  async = "idle" /\ xact = "idle"
<1>1. async = "idle" /\ LastKind = call.kind
  BY DEF QPInv, ExecInv, EndKinds, CopyStates
<1>2. srv.st = "idle" /\ xact = srvXact /\ srv.kind = call.kind
  BY <1>1 DEF QPInv, StreamInv, InStep, Outgoing, LastKind
<1> QED
  BY <1>1, <1>2 DEF QPInv, StreamInv, Ended

(* After the method nothing happens on an idle connection. *)
LEMMA EnvKeeps == ASSUME TxInv, Env PROVE TxInv'
<1>1. QPInv'
  BY ClientKeeps, InterruptKeeps, ServerKeeps, LoseKeeps DEF Env, TxInv
<1>2. /\ call'.kind = call.kind /\ call'.name = call.name
      /\ status' = "ok" => status = "ok"
      /\ UNCHANGED <<tx, leftBy>>
  BY CallMoves DEF Env, TxInv
<1>3. CASE pc = "ready"
  <2>1. UNCHANGED <<pc, ret, async, xact>> /\ (status = "bad" => status' = "bad")
    BY <1>3 DEF Env, Client, discard_results, discard_results_get, discard_results_row,
                discard_results_error, exec_send, async_get_last_result, get_result, block,
                wait_socket_readable_error, get_copy_data, Interrupt,
                Server, SrvStart, SrvMore, SrvFinish, SrvCopyStart, SrvData, SrvCopyEnd, SrvError,
                SrvReady, Lose, Up, libpqVars, rubyVars
  <2> QED
    BY <1>1, <1>2, <2>1 DEF TxInv, TxCalls, TxClosed
<1>4. CASE pc # "ready"
  <2>1. ASSUME tx = "block"
        PROVE  /\ pc' \in {"block", "ready"}
               /\ pc' = "ready" => \/ ret' \in {"true", "interrupt"}
                                   \/ ret' = "conn_bad" /\ status' = "bad"
    <3>1. pc = "block"
      BY <1>4, <2>1 DEF TxInv, TxCalls
    <3> QED
      BY <3>1 DEF Env, Client, discard_results, discard_results_get, discard_results_row,
                  discard_results_error, exec_send, async_get_last_result, get_result, block,
                  wait_socket_readable_error, get_copy_data, Interrupt, EndCall,
                  Server, SrvStart, SrvMore, SrvFinish, SrvCopyStart, SrvData, SrvCopyEnd, SrvError,
                  SrvReady, Lose, rubyVars
  <2> QED
    BY <1>1, <1>2, <1>4, <2>1 DEF TxInv, TxCalls, TxClosed
<1> QED
  BY <1>3, <1>4

LEMMA MethodKeeps == ASSUME TxInv, Method PROVE TxInv'
<1>1. CASE Enter
  <2>1. async_exec("begin") /\ tx' = "begin"
    BY <1>1 DEF Enter
  <2>2. QPInv'
    BY <2>1, ExecKeeps DEF TxInv, AllKinds
  <2> QED
    BY <2>1, <2>2 DEF TxInv, TxCalls, TxClosed
<1>2. CASE Begun
  <2>1. UNCHANGED qpVars /\ tx' \in {"body", "ensure"}
    BY <1>2 DEF Begun
  <2>2. QPInv'
    BY <2>1, SameKeeps DEF TxInv
  <2> QED
    BY <2>1, <2>2 DEF TxInv, TxCalls, TxClosed
<1>3. CASE EnsureCommit
  <2>1. async_exec("commit") /\ tx' = "commit"
    BY <1>3 DEF EnsureCommit
  <2>2. QPInv'
    BY <2>1, ExecKeeps DEF TxInv, AllKinds
  <2>3. call'.name = "exec" /\ call'.kind = "commit"
    BY <2>1 DEF async_exec, Begin
  <2> QED
    BY <2>1, <2>2, <2>3 DEF TxInv, TxCalls, TxClosed, EndKinds
<1>4. CASE EnsureCancel
  <2>1. /\ CancelIfActive /\ Begin("block", "none", "block") /\ tx' = "block"
        /\ UNCHANGED <<async, xact, status, toSrv, nStmt, nInt>>
    BY <1>4 DEF EnsureCancel
  <2>2. GoesOn
    BY <2>1, CancelledGoesOn, StreamSame DEF CancelIfActive, TxInv, QPInv
  <2>3. QPInv'
    BY <2>1, <2>2, BeginKeeps DEF TxInv, CallNames, Phases
  <2>4. call'.name = "block" /\ pc' = "block"
    BY <2>1 DEF Begin
  <2> QED
    BY <2>1, <2>3, <2>4 DEF TxInv, TxCalls, TxClosed
<1>5. CASE EnsureRollback
  <2>1. tx = "block" /\ pc = "ready"
    BY <1>5 DEF EnsureRollback
  <2>2. CASE ret = "true"
    <3>1. async_exec("rollback") /\ tx' = "rollback"
      BY <1>5, <2>2 DEF EnsureRollback
    <3>2. QPInv'
      BY <3>1, ExecKeeps DEF TxInv, AllKinds
    <3>3. call'.name = "exec" /\ call'.kind = "rollback"
      BY <3>1 DEF async_exec, Begin
    <3> QED
      BY <3>1, <3>2, <3>3 DEF TxInv, TxCalls, TxClosed, EndKinds
  <2>3. CASE ret # "true"
    <3>1. UNCHANGED qpVars /\ tx' = "out" /\ leftBy' = ret
      BY <1>5, <2>3 DEF EnsureRollback
    <3>2. QPInv'
      BY <3>1, SameKeeps DEF TxInv
    <3>3. UNCHANGED <<pc, status>>
      BY <3>1 DEF qpVars, libpqVars, rubyVars
    <3> QED
      BY <2>1, <2>3, <3>1, <3>2, <3>3 DEF TxInv, TxCalls, TxClosed
  <2> QED
    BY <2>2, <2>3
<1>6. CASE Leave
  <2>1. /\ tx \in {"commit", "rollback"} /\ pc = "ready" /\ tx' = "out" /\ leftBy' = ret
        /\ UNCHANGED qpVars
    BY <1>6 DEF Leave
  <2>2. QPInv'
    BY <2>1, SameKeeps DEF TxInv
  <2>3. UNCHANGED <<async, xact, status, pc>>
    BY <2>1 DEF qpVars, libpqVars, rubyVars
  <2>4. status = "ok" /\ ret # "interrupt" => async = "idle" /\ xact = "idle"
    BY <2>1, EndExecuted DEF TxInv, TxCalls
  <2> QED
    BY <2>1, <2>2, <2>3, <2>4 DEF TxInv, TxCalls, TxClosed
<1> QED
  BY <1>1, <1>2, <1>3, <1>4, <1>5, <1>6 DEF Method

LEMMA BlockKeeps ==
  ASSUME TxInv, BlockCall \/ BlockEnds \/ BlockRaises \/ BlockKilled PROVE TxInv'
<1>1. CASE BlockCall
  <2>1. tx' = "body" /\ QPInv'
    BY <1>1, ProgramKeeps DEF BlockCall, txVars, TxInv
  <2> QED
    BY <2>1 DEF TxInv, TxCalls, TxClosed
<1>2. CASE BlockEnds \/ BlockRaises \/ BlockKilled
  <2>1. tx' = "ensure" /\ QPInv'
    BY <1>2, SameKeeps DEF BlockEnds, BlockRaises, BlockKilled, TxInv
  <2> QED
    BY <2>1 DEF TxInv, TxCalls, TxClosed
<1> QED
  BY <1>1, <1>2

LEMMA TxStep == ASSUME TxInv, [Next]_vars PROVE TxInv'
<1>1. CASE UNCHANGED vars
  <2>1. QPInv' /\ UNCHANGED <<qpVars, txVars>>
    BY <1>1, SameKeeps DEF vars, TxInv
  <2> QED
    BY <2>1 DEF TxInv, TxCalls, TxClosed, qpVars, libpqVars, rubyVars, txVars
<1> QED
  BY <1>1, EnvKeeps, MethodKeeps, BlockKeeps DEF Next

LEMMA TxStart == ASSUME Init PROVE TxInv
<1>1. QPInv
  BY QPStart DEF Init
<1> QED
  BY <1>1 DEF Init, QPInit, TxInv, TxCalls, TxClosed

(* However the block leaves the connection, the transaction is over when   *)
(* Connection#transaction is left, unless a second exception interrupts    *)
(* its ensure clause or the connection is gone.                            *)
THEOREM TransactionsEnd == Spec => []TransactionClosed
<1>1. TxInv => TransactionClosed
  BY DEF TxInv, TxClosed, TransactionClosed, QPInv, StreamInv, InStep
<1>2. Init => TxInv
  BY TxStart
<1>3. TxInv /\ [Next]_vars => TxInv'
  BY TxStep
<1> QED
  BY <1>1, <1>2, <1>3, PTL DEF Spec

-----------------------------------------------------------------------------
(* COMMIT is on its way, executed or done only where the ensure clause has *)
(* decided for it.                                                         *)
Commits == committed \/ "commit" \in {srv.kind, LastKind, call.kind}
CommitDecided ==
  Commits => ~error /\ ~aborting /\ (tx = "commit" \/ (tx = "out" /\ leftBy # "none"))

LEMMA CommitStep ==
  ASSUME "commit" \notin Kinds, TxInv, CommitDecided, [Next]_vars PROVE CommitDecided'
<1>1. CASE Env
  <2>1. /\ LastKind' = LastKind \/ LastKind' = call.kind
        /\ srv'.kind \in {srv.kind, LastKind} /\ call'.kind = call.kind
    BY <1>1, CallMoves DEF Env, TxInv
  <2>2. committed' => committed \/ srv.kind = "commit"
    BY <1>1 DEF Env
  <2>3. Commits' => Commits
    BY <2>1, <2>2 DEF Commits
  <2> QED
    BY <1>1, <2>3 DEF CommitDecided, Env
<1>2. ASSUME UNCHANGED qpVars PROVE /\ UNCHANGED <<srv, pc, call, ret, status>> /\ LastKind' = LastKind
  BY <1>2 DEF qpVars, libpqVars, srvVars, rubyVars, LastKind, Pending, Newest
<1>3. ASSUME NEW k, async_exec(k) PROVE UNCHANGED srv /\ LastKind' = LastKind /\ call'.kind = k
  BY <1>3 DEF async_exec, Begin, srvVars, LastKind, Pending, Newest
<1>4. CASE Enter
  <2>1. ~Commits
    BY <1>4 DEF Enter, CommitDecided
  <2>2. ~Commits'
    BY <1>3, <1>4, <2>1 DEF Enter, Commits
  <2> QED
    BY <2>2 DEF CommitDecided
<1>5. CASE Begun \/ BlockEnds \/ BlockRaises \/ BlockKilled
  <2>1. ~Commits
    BY <1>5 DEF Begun, BlockEnds, BlockRaises, BlockKilled, CommitDecided
  <2>2. UNCHANGED qpVars /\ committed' = committed
    BY <1>5 DEF Begun, BlockEnds, BlockRaises, BlockKilled
  <2>3. ~Commits'
    BY <1>2, <2>1, <2>2 DEF Commits
  <2> QED
    BY <2>3 DEF CommitDecided
<1>6. CASE BlockCall
  <2>1. ~Commits /\ UNCHANGED committed
    BY <1>6 DEF BlockCall, CommitDecided, txVars
  <2>2. /\ LastKind' \in {LastKind} \cup Kinds /\ call'.kind \in {"none"} \cup Kinds
        /\ UNCHANGED srv
    BY <1>6, ProgramMoves DEF BlockCall, TxInv
  <2>3. ~Commits'
    BY <2>1, <2>2 DEF Commits
  <2> QED
    BY <2>3 DEF CommitDecided
<1>7. CASE EnsureCommit
  BY <1>7 DEF EnsureCommit, MustRollBack, CommitDecided
<1>8. CASE EnsureCancel
  <2>1. ~Commits /\ UNCHANGED committed /\ CancelIfActive /\ Begin("block", "none", "block")
        /\ UNCHANGED <<async, xact, toSrv, nStmt>>
    BY <1>8 DEF EnsureCancel, CommitDecided
  <2>2. LastKind' = LastKind
    BY <2>1, CancelledGoesOn, StreamSame DEF CancelIfActive, TxInv, QPInv, GoesOn
  <2>3. srv'.kind = srv.kind
    BY <2>1 DEF CancelIfActive, Cancelled, Fails, TxInv, QPInv, StreamInv, StreamTypeOK
  <2>4. call'.kind = "none"
    BY <2>1 DEF Begin
  <2>5. ~Commits'
    BY <2>1, <2>2, <2>3, <2>4 DEF Commits
  <2> QED
    BY <2>5 DEF CommitDecided
<1>9. CASE EnsureRollback
  <2>1. ~Commits /\ UNCHANGED committed
    BY <1>9 DEF EnsureRollback, CommitDecided
  <2>2. UNCHANGED qpVars \/ async_exec("rollback")
    BY <1>9 DEF EnsureRollback
  <2>3. ~Commits'
    BY <1>2, <1>3, <2>1, <2>2 DEF Commits
  <2> QED
    BY <2>3 DEF CommitDecided
<1>10. CASE Leave
  <2>1. /\ tx \in {"commit", "rollback"} /\ pc = "ready" /\ tx' = "out" /\ leftBy' = ret
        /\ UNCHANGED <<qpVars, error, aborting, committed>>
    BY <1>10 DEF Leave
  <2>2. ret # "none"
    BY <2>1 DEF TxInv, TxCalls, QPInv, ExecInv
  <2>3. Commits' => Commits
    BY <1>2, <2>1 DEF Commits
  <2> QED
    BY <2>1, <2>2, <2>3 DEF CommitDecided
<1>11. CASE UNCHANGED vars
  <2>1. Commits' => Commits
    BY <1>2, <1>11 DEF Commits, vars, txVars
  <2> QED
    BY <1>11, <2>1 DEF CommitDecided, vars, txVars
<1> QED
  BY <1>1, <1>4, <1>5, <1>6, <1>7, <1>8, <1>9, <1>10, <1>11 DEF Next, Method

(* A block that raised, or whose thread was killed, is never committed, if *)
(* the block does not execute COMMIT itself.                               *)
THEOREM NeverCommittedAfterException ==
  ASSUME "commit" \notin Kinds
  PROVE  Spec => []NotCommittedAfterException
<1>1. Init => TxInv /\ CommitDecided
  <2>1. Init => ~Commits
    BY KindsAssumption DEF Init, QPInit, Commits, LastKind, Pending, NoCall
  <2> QED
    BY <2>1, TxStart DEF CommitDecided
<1>2. TxInv /\ CommitDecided /\ [Next]_vars => TxInv' /\ CommitDecided'
  BY TxStep, CommitStep
<1>3. CommitDecided => NotCommittedAfterException
  BY DEF CommitDecided, Commits, NotCommittedAfterException
<1> QED
  BY <1>1, <1>2, <1>3, PTL DEF Spec
=============================================================================
