---------------------------- MODULE NotifyQueue ----------------------------
(***************************************************************************)
(* What wait_for_notify and notifies promise together: a queue.  Every     *)
(* notification that the server sends is handed to the program once, in    *)
(* the order they were sent, whichever calls ask for it and however often  *)
(* they time out before.  An asynchronous exception may cost one.          *)
(***************************************************************************)
EXTENDS Naturals, Sequences

VARIABLES
  posted,      \* number of notifications sent; they are numbered
  pending,     \* those that the program has not seen
  received,    \* those it got
  interrupts   \* number of asynchronous exceptions

nqVars == <<posted, pending, received, interrupts>>

NqInit == posted = 0 /\ pending = <<>> /\ received = <<>> /\ interrupts = 0

Post ==
  /\ posted' = posted + 1
  /\ pending' = Append(pending, posted')
  /\ UNCHANGED <<received, interrupts>>

Receive ==
  /\ pending # <<>>
  /\ received' = Append(received, Head(pending))
  /\ pending' = Tail(pending)
  /\ UNCHANGED <<posted, interrupts>>

Interrupted ==
  /\ interrupts' = interrupts + 1
  /\ \/ UNCHANGED pending
     \/ pending # <<>> /\ pending' = Tail(pending)
  /\ UNCHANGED <<posted, received>>

NqNext == Post \/ Receive \/ Interrupted

NqSpec == NqInit /\ [][NqNext]_nqVars
=============================================================================
