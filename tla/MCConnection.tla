---------------------------- MODULE MCConnection ----------------------------
(* One connection: its session attributes, the two ways to wait on its     *)
(* socket, and cancelling, on small instances.  They share no state, so    *)
(* that one of them moves in each behaviour.                               *)
EXTENDS SocketFlush, SocketWait, CancelConnection, SessionState

VARIABLE side   \* "flush", "wait", "cancel" or "session"

(* EUC-JP has two names in PostgreSQL. *)
MCEncTable == <<<<"UTF8", "UTF-8">>, <<"EUC_JP", "EUC-JP">>, <<"EUC_JIS_2004", "EUC-JP">>>>
MCTimeouts == {-1, 0, 2}

vars == <<sfVars, swVars, ccVars, ssVars, side>>

Init ==
  /\ side \in {"flush", "wait", "cancel", "session"}
  /\ SfInit /\ SwInit /\ CcInit /\ SsInit
  /\ side # "flush" => flushData

Next ==
  \/ side = "flush" /\ SfNext /\ UNCHANGED <<swVars, ccVars, ssVars, side>>
  \/ side = "wait" /\ SwNext /\ UNCHANGED <<sfVars, ccVars, ssVars, side>>
  \/ side = "cancel" /\ CcNext /\ UNCHANGED <<sfVars, swVars, ssVars, side>>
  \/ side = "session" /\ SsNext /\ UNCHANGED <<sfVars, swVars, ccVars, side>>

Spec == Init /\ [][Next]_vars
FairSpec == Spec /\ SfFairness /\ SwFairness
=============================================================================
