----------------------------- MODULE CopyData ------------------------------
(***************************************************************************)
(* Connection#copy_data of lib/pg/connection.rb on top of QueryProtocol:   *)
(* the COPY statement, the block that moves the data, and the rescue, else *)
(* and ensure clauses that have to get the connection out of the COPY      *)
(* state and to restore the coders, however the block is left.             *)
(***************************************************************************)
EXTENDS QueryProtocol

CONSTANTS
  Setups   \* combinations of coder argument, preset default and format:
           \* records [coder : BOOLEAN, preset : BOOLEAN, binary : BOOLEAN]

ASSUME SetupsAssumption ==
  Setups \subseteq [coder : BOOLEAN, preset : BOOLEAN, binary : BOOLEAN]

VARIABLES
  cp,        \* where the method is, "out" when it is not running
  setup,     \* the member of Setups of this call
  encoder,   \* encoder_for_put_copy_data or decoder_for_get_copy_data:
             \* "nil", "preset" or the "coder" argument
  oldCoder,  \* the local variable old_coder
  raised,    \* the exception that leaves the method: none, client (the one
             \* of the block), or one that the method raises itself
  brk        \* the block was left by break or throw

cpVars == <<cp, setup, encoder, oldCoder, raised, brk>>
vars == <<qpVars, cpVars>>

Default(s) == IF s.preset THEN "preset" ELSE "nil"

Init ==
  /\ QPInit
  /\ cp = "out"
  /\ setup \in Setups
  /\ encoder = Default(setup)
  /\ oldCoder = "nil"
  /\ raised = "none"
  /\ brk = FALSE

(* The ensure clause: an unassigned old_coder is nil. *)
Ensure_coder == UNCHANGED encoder
Ensure == encoder' = IF setup.coder THEN oldCoder ELSE encoder

(* The method is left with exception e. *)
Exit(e) == cp' = "left" /\ raised' = e /\ Ensure

(* res = exec( sql ) *)
Enter ==
  /\ cp = "out"
  /\ \E k \in Kinds \cap {"copy_in", "copy_out"} : async_exec(k)
  /\ cp' = "exec"
  /\ UNCHANGED <<setup, encoder, oldCoder, raised, brk>>

(* case res.result_status *)
Executed ==
  /\ cp = "exec"
  /\ pc = "ready"
  /\ CASE ret = "ok" /\ prev.t = "copy_in" -> cp' = "in_header" /\ UNCHANGED raised
       [] ret = "ok" /\ prev.t = "copy_out" -> cp' = "out_setup" /\ UNCHANGED raised
       [] OTHER -> cp' = "left" /\ raised' = "exec"
  /\ UNCHANGED <<qpVars, setup, encoder, oldCoder, brk>>

(* The coder argument replaces the default one. *)
UseCoder ==
  IF setup.coder
  THEN oldCoder' = encoder /\ encoder' = "coder"
  ELSE UNCHANGED <<oldCoder, encoder>>

(* put_copy_data of a String raises TypeError when a row encoder is set. *)
StringRefused == setup.coder /\ setup.binary /\ encoder = "preset"

(* COPY FROM STDIN: the binary header, then the coder *)
InHeader ==
  /\ cp = "in_header"
  /\ IF StringRefused
     THEN cp' = "in_rescue" /\ raised' = "client" /\ UNCHANGED <<encoder, oldCoder>>
     ELSE cp' = "in_block" /\ UseCoder /\ UNCHANGED raised
  /\ UNCHANGED <<qpVars, setup, brk>>

OutSetup ==
  /\ cp = "out_setup"
  /\ cp' = "out_block"
  /\ UseCoder
  /\ UNCHANGED <<qpVars, setup, raised, brk>>

(* The block makes a call; other statements than COPY are modelled. *)
BlockCall ==
  /\ cp \in {"in_block", "out_block"}
  /\ \/ async_exec("select") \/ send_query("select")
     \/ Plain("discard_results", "discard") \/ Plain("get_result", "get")
     \/ cp = "in_block" /\ put_copy_end("done")
     \/ cp = "out_block" /\ Plain("get_copy_data", "row")
  /\ UNCHANGED cpVars

BlockEnds ==
  /\ cp \in {"in_block", "out_block"}
  /\ pc = "ready"
  /\ cp' = IF cp = "in_block" THEN "in_else" ELSE "out_else"
  /\ UNCHANGED <<qpVars, setup, encoder, oldCoder, raised, brk>>

BlockRaises ==
  /\ cp \in {"in_block", "out_block"}
  /\ pc = "ready"
  /\ cp' = IF cp = "in_block" THEN "in_rescue" ELSE "out_rescue"
  /\ raised' = "client"
  /\ UNCHANGED <<qpVars, setup, encoder, oldCoder, brk>>

(* break and throw run the ensure clause only. *)
BlockBreaks ==
  /\ cp \in {"in_block", "out_block"}
  /\ pc = "ready"
  /\ brk' = TRUE
  /\ Exit("none")
  /\ UNCHANGED <<qpVars, setup, oldCoder>>

(* rescue of COPY FROM STDIN: put_copy_end, whose PG::Error is ignored *)
InRescue ==
  /\ cp = "in_rescue"
  /\ put_copy_end("fail")
  /\ cp' = "discard"
  /\ UNCHANGED <<setup, encoder, oldCoder, raised, brk>>

(* rescue of COPY TO STDOUT: cancel *)
cancel_not == UNCHANGED <<inbuf, srv, srvXact>>
cancel == Cancelled

OutRescue ==
  /\ cp = "out_rescue"
  /\ cancel
  /\ cp' = "discard"
  /\ UNCHANGED <<async, xact, status, toSrv, nData, rubyVars, setup, encoder, oldCoder,
                 raised, brk>>

(* discard_results, then raise; what discard_results raises itself takes   *)
(* the place of the exception.                                             *)
Discard_skipped ==
  /\ cp = "discard"
  /\ Exit(raised)
  /\ UNCHANGED <<qpVars, setup, oldCoder, brk>>
Discard ==
  /\ cp = "discard"
  /\ Plain("discard_results", "discard")
  /\ cp' = "discarding"
  /\ UNCHANGED <<setup, encoder, oldCoder, raised, brk>>

DiscardEnds ==
  /\ cp = "discarding"
  /\ pc = "ready"
  /\ Exit(IF ret \in {"conn_bad", "interrupt"} THEN ret ELSE raised)
  /\ UNCHANGED <<qpVars, setup, oldCoder, brk>>

(* else of COPY FROM STDIN: restore the coder, trailer and put_copy_end,   *)
(* whose failure is LostCopyState; then get_last_result                    *)
InElse ==
  /\ cp = "in_else"
  /\ encoder' = IF setup.coder THEN oldCoder ELSE encoder
  /\ put_copy_end("done")
  /\ IF ret' = "ok"
     THEN cp' = "in_last" /\ UNCHANGED raised
     ELSE cp' = "left" /\ raised' = "lost_copy"
  /\ UNCHANGED <<setup, oldCoder, brk>>

(* else of COPY TO STDOUT, binary: one more get_copy_data has to be nil *)
OutElse ==
  /\ cp = "out_else"
  /\ IF setup.coder /\ setup.binary
     THEN Plain("get_copy_data", "row") /\ cp' = "out_trailer"
     ELSE Plain("get_last_result", "result") /\ cp' = "out_last"
  /\ UNCHANGED <<setup, encoder, oldCoder, raised, brk>>

OutTrailer ==
  /\ cp = "out_trailer"
  /\ pc = "ready"
  /\ CASE ret = "row" -> /\ cp' = "discard" /\ raised' = "not_all"
                         /\ UNCHANGED <<encoder, qpVars>>
       [] ret = "nil" -> /\ Plain("get_last_result", "result") /\ cp' = "out_last"
                         /\ UNCHANGED <<encoder, raised>>
       [] OTHER -> Exit(ret) /\ UNCHANGED qpVars
  /\ UNCHANGED <<setup, oldCoder, brk>>

InLast ==
  /\ cp = "in_last"
  /\ \/ pc = "ready" /\ call.name = "put_copy_end"
        /\ Plain("get_last_result", "result")
        /\ UNCHANGED <<cp, raised, encoder>>
     \/ pc = "ready" /\ call.name = "get_last_result"
        /\ Exit(IF ret \in {"ok", "nil"} THEN "none" ELSE ret)
        /\ UNCHANGED qpVars
  /\ UNCHANGED <<setup, oldCoder, brk>>

(* The result that ends COPY TO STDOUT: missing, not COMMAND_OK, or fine;  *)
(* an error of the server is raised by get_last_result itself.             *)
OutLast ==
  /\ cp = "out_last"
  /\ pc = "ready"
  /\ CASE ret = "nil" -> cp' = "discard" /\ raised' = "lost_copy" /\ UNCHANGED encoder
       [] ret = "ok" /\ prev.t # "result" ->
            cp' = "discard" /\ raised' = "not_all" /\ UNCHANGED encoder
       [] ret = "ok" /\ prev.t = "result" -> Exit("none")
       [] OTHER -> Exit(ret)
  /\ UNCHANGED <<qpVars, setup, oldCoder, brk>>

Env == (Client \/ Interrupt \/ Server \/ Lose) /\ UNCHANGED cpVars

Method ==
  \/ Enter \/ Executed \/ InHeader \/ OutSetup \/ InRescue \/ OutRescue
  \/ Discard \/ DiscardEnds \/ InElse \/ OutElse \/ OutTrailer \/ InLast \/ OutLast

Next == Method \/ BlockCall \/ BlockEnds \/ BlockRaises \/ BlockBreaks \/ Env

Spec == Init /\ [][Next]_vars
FairSpec == Spec /\ WF_vars(Method) /\ QPFairness

-----------------------------------------------------------------------------
(* Properties *)

(* The COPY is properly terminated when copy_data is left, be it by a      *)
(* failure of the block, of the server or of the protocol, unless the      *)
(* block is left by break, an asynchronous exception hits the clean-up, or *)
(* the connection is gone.                                                 *)
CopyTerminated ==
  cp = "left" /\ status = "ok" /\ ~brk /\ raised # "interrupt" =>
    async \notin CopyStates

(* The default coder of the connection is in force again. *)
CoderRestored == cp = "left" => encoder = Default(setup)

(* copy_data gets out of a COPY whose rows never end once its block has    *)
(* raised, since it cancels it before it reads on.                         *)
RescueEnds == cp = "out_rescue" /\ srv.st # "idle" ~> cp = "left"
=============================================================================
