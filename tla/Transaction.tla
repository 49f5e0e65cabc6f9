---------------------------- MODULE Transaction ----------------------------
(***************************************************************************)
(* Connection#transaction of lib/pg/connection.rb on top of QueryProtocol: *)
(* BEGIN, the block, and the ensure clause that ends the transaction with  *)
(* COMMIT or, after an exception or Thread#kill, with cancel, block and    *)
(* ROLLBACK.  The block makes any calls and may leave them half done.      *)
(***************************************************************************)
EXTENDS QueryProtocol

VARIABLES
  tx,         \* where the method is, "out" when it is not running
  error,      \* the local variable "error" is set
  aborting,   \* Thread.current.status is "aborting"
  leftBy,     \* how the method was left the last time
  committed   \* history: the server has committed the transaction

txVars == <<tx, error, aborting, leftBy, committed>>
vars == <<qpVars, txVars>>

ASSUME StatementsAssumption == MaxStatements >= 3

Init ==
  /\ QPInit
  /\ tx = "out" /\ error = FALSE /\ aborting = FALSE
  /\ leftBy = "none" /\ committed = FALSE

(* exec "BEGIN" *)
Enter ==
  /\ tx = "out"
  /\ leftBy = "none"
  /\ async_exec("begin")
  /\ tx' = "begin"
  /\ error' = FALSE /\ committed' = FALSE
  /\ UNCHANGED <<aborting, leftBy>>

(* BEGIN is answered: yield, or the rescue clauses. *)
Begun ==
  /\ tx = "begin"
  /\ pc = "ready"
  /\ tx' = IF ret = "ok" THEN "body" ELSE "ensure"
  /\ error' = (ret # "ok")
  /\ UNCHANGED <<qpVars, aborting, leftBy, committed>>

(* The block makes a call; statements enough for the ensure clause remain. *)
BlockCall ==
  /\ tx = "body"
  /\ pc = "ready"
  /\ nStmt + 1 < MaxStatements
  /\ Program
  /\ UNCHANGED txVars

(* The block ends regularly, by break, throw or return, ... *)
BlockEnds ==
  /\ tx = "body"
  /\ pc = "ready"
  /\ tx' = "ensure"
  /\ UNCHANGED <<qpVars, error, aborting, leftBy, committed>>

(* ... by an exception, its own or one of a call it made, ... *)
BlockRaises ==
  /\ tx = "body"
  /\ pc = "ready"
  /\ tx' = "ensure"
  /\ error' = TRUE
  /\ UNCHANGED <<qpVars, aborting, leftBy, committed>>

(* ... or because its thread is killed. *)
BlockKilled ==
  /\ tx = "body"
  /\ pc = "ready"
  /\ tx' = "ensure"
  /\ aborting' = TRUE
  /\ UNCHANGED <<qpVars, error, leftBy, committed>>

(* The condition of the ensure clause. *)
MustRollBack_error == error
MustRollBack == error \/ aborting

EnsureCommit ==
  /\ tx = "ensure"
  /\ ~MustRollBack
  /\ async_exec("commit")
  /\ tx' = "commit"
  /\ UNCHANGED <<error, aborting, leftBy, committed>>

(* cancel if the connection is active, then block *)
CancelIfActive_not == UNCHANGED <<inbuf, srv, srvXact>>
CancelIfActive ==
  IF PQtransactionStatus = "active" THEN Cancelled ELSE UNCHANGED <<inbuf, srv, srvXact>>

EnsureCancel ==
  /\ tx = "ensure"
  /\ MustRollBack
  /\ CancelIfActive
  /\ Begin("block", "none", "block")
  /\ tx' = "block"
  /\ UNCHANGED <<async, xact, status, toSrv, nData, nStmt, nInt,
                 error, aborting, leftBy, committed>>

EnsureRollback ==
  /\ tx = "block"
  /\ pc = "ready"
  /\ IF ret = "true"
     THEN async_exec("rollback") /\ tx' = "rollback" /\ UNCHANGED leftBy
     ELSE tx' = "out" /\ leftBy' = ret /\ UNCHANGED qpVars
  /\ UNCHANGED <<error, aborting, committed>>

(* The method returns or raises. *)
Leave ==
  /\ tx \in {"commit", "rollback"}
  /\ pc = "ready"
  /\ tx' = "out"
  /\ leftBy' = ret
  /\ UNCHANGED <<qpVars, error, aborting, committed>>

(* The steps of libpq and of the server, and of a call in progress. *)
Env ==
  /\ Client \/ Interrupt \/ Server \/ Lose
  /\ committed' = (committed \/ (srv.kind = "commit" /\ srvXact = "intrans"
                                 /\ srvXact' = "idle" /\ inbuf'[Len(inbuf')].t = "result"))
  /\ UNCHANGED <<tx, error, aborting, leftBy>>

Method ==
  \/ Enter \/ Begun \/ EnsureCommit \/ EnsureCancel \/ EnsureRollback \/ Leave

Next == Method \/ BlockCall \/ BlockEnds \/ BlockRaises \/ BlockKilled \/ Env

(* The server answers BEGIN, COMMIT and ROLLBACK and gets along after an   *)
(* error; a statement of the block may run forever.                        *)
Fairness ==
  /\ WF_vars(Method)
  /\ WF_vars(Env /\ Client)
  /\ WF_vars(Env /\ (SrvStart \/ SrvCopyEnd \/ SrvReady))
  /\ WF_vars(Env /\ SrvFinish /\ srv.kind \in EndKinds)

Spec == Init /\ [][Next]_vars
FairSpec == Spec /\ Fairness

-----------------------------------------------------------------------------
(* Properties *)

(* However the block leaves the connection (unread results, an open COPY,  *)
(* an interrupted statement), the transaction is over when the method is   *)
(* left, unless a second exception interrupts the ensure clause itself or  *)
(* the connection is gone.                                                 *)
TransactionClosed ==
  tx = "out" /\ status = "ok" /\ leftBy \notin {"none", "interrupt"} =>
    srvXact = "idle" /\ async = "idle" /\ xact = "idle"

(* A block that raised, or whose thread was killed, is never committed.    *)
NotCommittedAfterException == (error \/ aborting) => ~committed

(* The ensure clause gets the connection back from a statement that does   *)
(* not end by itself, since it cancels it before it waits.                 *)
CleanupEnds == (tx = "ensure" /\ (error \/ aborting) /\ srv.st # "idle") ~> tx = "out"
=============================================================================
