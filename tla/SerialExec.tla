----------------------------- MODULE SerialExec -----------------------------
(***************************************************************************)
(* What exec promises to a program: the statements of a session are        *)
(* executed one after the other, each once and in the order they were      *)
(* sent, and a call of exec that returns has the answer to its own         *)
(* statement, the last one executed.  It fails without an answer only by   *)
(* an exception of the program, be it asynchronous or in an argument, or   *)
(* on a broken connection.  QueryProtocol implements this with unread      *)
(* results, COPYs and libpq's states between.                              *)
(***************************************************************************)
EXTENDS Naturals

VARIABLES
  mode,       \* of exec: "idle", "called" or "sent"
  submitted,  \* number of statements sent; they are numbered
  executed,   \* number of statements the server has begun to execute
  answer,     \* the statement the returned exec has the answer to, or 0
  broken,     \* the connection is known to be broken
  stops       \* number of exceptions of the program

seVars == <<mode, submitted, executed, answer, broken, stops>>

SeInit ==
  /\ mode = "idle" /\ submitted = 0 /\ executed = 0
  /\ answer = 0 /\ broken = FALSE /\ stops = 0

Call ==
  /\ mode = "idle"
  /\ mode' = "called" /\ answer' = 0
  /\ UNCHANGED <<submitted, executed, broken, stops>>

(* exec sends its statement when all before it have been executed. *)
Send ==
  /\ mode = "called" /\ executed = submitted
  /\ mode' = "sent" /\ submitted' = submitted + 1
  /\ UNCHANGED <<executed, answer, broken, stops>>

(* Other calls: the program may send a statement without waiting for it, *)
(* or may find the connection broken.                                    *)
Other ==
  /\ mode = "idle"
  /\ submitted' \in {submitted, submitted + 1}
  /\ answer' = 0
  /\ broken' \in {broken, TRUE}
  /\ UNCHANGED <<mode, executed, stops>>

Execute ==
  /\ executed < submitted
  /\ executed' = executed + 1
  /\ UNCHANGED <<mode, submitted, answer, broken, stops>>

Answer ==
  /\ mode = "sent" /\ executed = submitted
  /\ mode' = "idle" /\ answer' = submitted
  /\ UNCHANGED <<submitted, executed, broken, stops>>

(* Discarding old results may find the connection broken as well. *)
Breaks ==
  /\ broken' = TRUE
  /\ mode' \in {mode, "idle"}
  /\ UNCHANGED <<submitted, executed, answer, stops>>

Fail ==
  /\ mode # "idle" /\ broken
  /\ mode' = "idle"
  /\ UNCHANGED <<submitted, executed, answer, broken, stops>>

Stop ==
  /\ stops' = stops + 1
  /\ mode' = "idle"
  /\ UNCHANGED <<submitted, executed, answer, broken>>

SeNext == Call \/ Send \/ Other \/ Execute \/ Answer \/ Breaks \/ Fail \/ Stop

SeSpec == SeInit /\ [][SeNext]_seVars
=============================================================================
