----------------------------- MODULE SocketWait -----------------------------
(***************************************************************************)
(* Waiting with a timeout: wait_socket_readable of ext/pg_connection.c as  *)
(* #wait_for_notify and #block call it, with #notifies and #consume_input. *)
(* The notifications, the answer to a query and messages of no interest to *)
(* the caller come over one socket, in libpq's buffers first.              *)
(*                                                                         *)
(* Time is counted in ticks.  It passes while the client waits or does     *)
(* something else, not between two steps of a call: what is checked is     *)
(* that the code asks for the right waits.                                 *)
(***************************************************************************)
EXTENDS Integers, Sequences

CONSTANTS
  Timeouts,     \* arguments of wait_for_notify and block
  Forever,      \* no timeout
  MaxNotes,     \* notifications
  MaxNoise,     \* other messages
  MaxQueries,   \* queries sent
  MaxFlush,     \* ticks that sending a query takes
  MaxStops,     \* asynchronous exceptions
  StartBy       \* the last tick at which a call begins

ASSUME TimeoutsAssumption == Timeouts \subseteq Int /\ Forever \notin Int
ASSUME BoundsAssumption ==
  /\ MaxNotes \in Nat /\ MaxNoise \in Nat /\ MaxQueries \in Nat
  /\ MaxFlush \in Nat /\ MaxStops \in Nat /\ StartBy \in Nat

VARIABLES
  now,       \* the clock
  at,        \* where the call is, "idle" when there is none
  purpose,   \* is_readable: "notify" or "result"
  began,     \* when the call began
  abort,     \* aborttime, or Forever
  wait,      \* wait_timeout: computed before the flush, used after it
  until,     \* when the wait for the socket ends
  flushTime, \* ticks that the flush has taken
  unsent,    \* a query is in the output buffer of libpq
  working,   \* the server is working on a query
  busy,      \* PQisBusy: libpq has not read the answer
  answer,    \* the answer is on its way
  noise,     \* other messages on their way
  wire,      \* notifications on their way
  notes,     \* the list of notifications of libpq
  got,       \* notifications that the program has got
  eof,       \* the server has closed the connection
  broken,    \* libpq has noticed
  outcome,   \* what the last call returned: "value", "timeout" or "raised"
  sent,      \* numbers of notifications, other messages, queries and
  nNoise, nQueries, nStops   \* exceptions so far

callVars == <<at, purpose, began, abort, wait, until, flushTime, outcome>>
serverVars == <<working, answer, noise, wire, eof, sent, nNoise>>
lqVars == <<unsent, busy, notes, broken>>
swVars == <<now, callVars, serverVars, lqVars, got, nQueries, nStops>>

SwInit ==
  /\ now = 0
  /\ at = "idle" /\ purpose = "notify" /\ outcome = "value"
  /\ began = 0 /\ abort = Forever /\ wait = Forever /\ until = Forever /\ flushTime = 0
  /\ working = FALSE /\ answer = FALSE /\ noise = 0 /\ wire = <<>> /\ eof = FALSE
  /\ sent = 0 /\ nNoise = 0 /\ nQueries = 0 /\ nStops = 0
  /\ unsent = FALSE /\ busy = FALSE /\ notes = <<>> /\ broken = FALSE
  /\ got = <<>>

-----------------------------------------------------------------------------
(* The server (external) *)

SrvNotify ==
  /\ ~eof /\ sent < MaxNotes
  /\ sent' = sent + 1
  /\ wire' = Append(wire, sent')
  /\ UNCHANGED <<now, callVars, working, answer, noise, eof, nNoise, lqVars, got, nQueries, nStops>>

(* A notice or the value of a parameter. *)
SrvNoise ==
  /\ ~eof /\ nNoise < MaxNoise
  /\ nNoise' = nNoise + 1
  /\ noise' = noise + 1
  /\ UNCHANGED <<now, callVars, working, answer, wire, eof, sent, lqVars, got, nQueries, nStops>>

SrvAnswer ==
  /\ ~eof /\ working
  /\ working' = FALSE
  /\ answer' = TRUE
  /\ UNCHANGED <<now, callVars, noise, wire, eof, sent, nNoise, lqVars, got, nQueries, nStops>>

SrvClose ==
  /\ ~eof
  /\ eof' = TRUE
  /\ UNCHANGED <<now, callVars, working, answer, noise, wire, sent, nNoise, lqVars, got, nQueries,
                 nStops>>

-----------------------------------------------------------------------------
(* libpq (external) *)

Incoming == answer \/ noise > 0 \/ wire # <<>>
SocketReadable == Incoming \/ eof

(* PQconsumeInput reads everything there is; if there is nothing, the      *)
(* connection is at its end.                                               *)
ConsumeInput ==
  /\ notes' = notes \o wire
  /\ busy' = (busy /\ ~answer)
  /\ wire' = <<>> /\ noise' = 0 /\ answer' = FALSE
  /\ broken' = (broken \/ (eof /\ ~Incoming))
  /\ UNCHANGED <<working, eof, sent, nNoise>>

-----------------------------------------------------------------------------
(* The program *)

(* send_query; the answer to the last query has been read. *)
SendQuery ==
  /\ at = "idle" /\ ~busy /\ ~broken /\ nQueries < MaxQueries
  /\ nQueries' = nQueries + 1
  /\ unsent' = TRUE /\ busy' = TRUE
  /\ UNCHANGED <<now, callVars, serverVars, notes, broken, got, nStops>>

(* consume_input, or check_socket. *)
consume_input ==
  /\ at = "idle" /\ ~broken /\ SocketReadable
  /\ ConsumeInput
  /\ UNCHANGED <<now, callVars, unsent, got, nQueries, nStops>>

(* PQnotifies takes the first notification off the list. *)
PQnotifies_peek == got' = Append(got, Head(notes)) /\ UNCHANGED notes
PQnotifies ==
  /\ got' = Append(got, Head(notes))
  /\ notes' = Tail(notes)

notifies ==
  /\ at = "idle" /\ notes # <<>>
  /\ PQnotifies
  /\ UNCHANGED <<now, callVars, serverVars, unsent, busy, broken, nQueries, nStops>>

(* wait_for_notify(t) and block(t) enter wait_socket_readable. *)
BeginWait(p, t) ==
  /\ at = "idle" /\ now <= StartBy
  /\ at' = "check"
  /\ purpose' = p
  /\ began' = now
  /\ abort' = IF t = Forever THEN Forever ELSE now + t
  /\ flushTime' = 0
  /\ UNCHANGED <<now, wait, until, outcome, serverVars, lqVars, got, nQueries, nStops>>

wait_for_notify == \E t \in Timeouts \cup {Forever} : BeginWait("notify", t)
block == \E t \in Timeouts \cup {Forever} : BeginWait("result", t)

-----------------------------------------------------------------------------
(* wait_socket_readable *)

is_readable == IF purpose = "notify" THEN notes # <<>> ELSE ~busy

(* The call ends, and with it its local variables. *)
Return(o) ==
  /\ at' = "idle" /\ outcome' = o
  /\ purpose' = "notify" /\ began' = 0 /\ abort' = Forever /\ wait' = Forever
  /\ until' = Forever /\ flushTime' = 0

(* is_readable says yes, in the loop condition or after the flush. *)
WaitSucceeds ==
  /\ at \in {"check", "recheck"} /\ is_readable
  /\ IF purpose = "notify" THEN PQnotifies ELSE UNCHANGED <<got, notes>>
  /\ Return("value")
  /\ UNCHANGED <<now, serverVars, unsent, busy, broken, nQueries, nStops>>

(* What is left of the timeout *)
Remaining_whole == abort - began
Remaining == abort - now

WaitBegins ==
  /\ at = "check" /\ ~is_readable
  /\ abort # Forever => Remaining >= 0
  /\ wait' = IF abort = Forever THEN Forever ELSE Remaining
  /\ flushTime' = 0
  /\ at' = "flush"
  /\ UNCHANGED <<now, purpose, began, abort, until, outcome, serverVars, lqVars, got, nQueries,
                 nStops>>

WaitExpired_first ==
  /\ at = "check"
  /\ abort # Forever /\ Remaining < 0
  /\ Return("timeout")
  /\ UNCHANGED <<now, serverVars, lqVars, got, nQueries, nStops>>
WaitExpired ==
  /\ at = "check" /\ ~is_readable
  /\ abort # Forever /\ Remaining < 0
  /\ Return("timeout")
  /\ UNCHANGED <<now, serverVars, lqVars, got, nQueries, nStops>>

(* async_flush: it waits until the socket takes the rest, ...              *)
FlushDone ==
  /\ at = "flush"
  /\ at' = "recheck"
  /\ working' = (working \/ (unsent /\ ~eof))
  /\ unsent' = FALSE
  /\ UNCHANGED <<now, purpose, began, abort, wait, until, flushTime, outcome, answer, noise, wire,
                 eof, sent, nNoise, busy, notes, broken, got, nQueries, nStops>>

(* ... and reads what comes in meanwhile.                                  *)
FlushConsumes ==
  /\ at = "flush" /\ unsent /\ SocketReadable
  /\ ConsumeInput
  /\ IF broken' THEN Return("raised") ELSE UNCHANGED callVars
  /\ UNCHANGED <<now, unsent, got, nQueries, nStops>>

(* pgconn_socket_io, and the wait *)
WaitForSocket ==
  /\ at = "recheck" /\ ~is_readable
  /\ IF broken
     THEN Return("raised")
     ELSE /\ at' = "select"
          /\ until' = IF wait = Forever THEN Forever ELSE now + wait
          /\ wait' = Forever
          /\ UNCHANGED <<purpose, began, abort, flushTime, outcome>>
  /\ UNCHANGED <<now, serverVars, lqVars, got, nQueries, nStops>>

SocketReady_unread ==
  /\ at = "select" /\ SocketReadable
  /\ at' = "check" /\ until' = Forever
  /\ UNCHANGED <<now, purpose, began, abort, wait, flushTime, outcome, serverVars, lqVars, got,
                 nQueries, nStops>>
SocketReady ==
  /\ at = "select" /\ SocketReadable
  /\ ConsumeInput
  /\ IF broken'
     THEN Return("raised")
     ELSE /\ at' = "check"
          /\ until' = Forever
          /\ UNCHANGED <<purpose, began, abort, wait, flushTime, outcome>>
  /\ UNCHANGED <<now, unsent, got, nQueries, nStops>>

SelectTimeout ==
  /\ at = "select" /\ ~SocketReadable
  /\ until # Forever /\ now >= until
  /\ Return("timeout")
  /\ UNCHANGED <<now, serverVars, lqVars, got, nQueries, nStops>>

-----------------------------------------------------------------------------
(* An asynchronous exception ends a wait, ...                              *)
StopWait ==
  /\ at = "select" \/ (at = "flush" /\ unsent)
  /\ nStops < MaxStops
  /\ nStops' = nStops + 1
  /\ Return("raised")
  /\ UNCHANGED <<now, serverVars, lqVars, got, nQueries>>

(* ... or comes when gvl_PQnotifies gets the GVL back: the notification is *)
(* off the list then.                                                      *)
StopNotifies ==
  /\ at \in {"idle", "check", "recheck"} /\ notes # <<>>
  /\ at # "idle" => purpose = "notify"
  /\ nStops < MaxStops
  /\ nStops' = nStops + 1
  /\ notes' = Tail(notes)
  /\ Return("raised")
  /\ UNCHANGED <<now, serverVars, unsent, busy, broken, got, nQueries>>

Tick ==
  /\ \/ at = "idle" /\ now < StartBy
     \/ at = "flush" /\ unsent /\ flushTime < MaxFlush
     \/ at = "select" /\ ~SocketReadable /\ IF until = Forever THEN now < StartBy ELSE now < until
  /\ now' = now + 1
  /\ flushTime' = IF at = "flush" THEN flushTime + 1 ELSE flushTime
  /\ UNCHANGED <<at, purpose, began, abort, wait, until, outcome, serverVars, lqVars, got, nQueries,
                 nStops>>

WaitStep ==
  \/ WaitSucceeds \/ WaitBegins \/ WaitExpired \/ FlushDone \/ FlushConsumes
  \/ WaitForSocket \/ SocketReady \/ SelectTimeout

SwNext ==
  \/ SrvNotify \/ SrvNoise \/ SrvAnswer \/ SrvClose
  \/ SendQuery \/ consume_input \/ notifies \/ wait_for_notify \/ block
  \/ WaitStep \/ StopWait \/ StopNotifies \/ Tick

SwSpec == SwInit /\ [][SwNext]_swVars

(* The code of a call runs on, a wait for the socket notices what happens, *)
(* and the server takes what it is sent at last.                           *)
SwFairness == WF_swVars(WaitStep) /\ WF_swVars(at # "idle" /\ Tick)

-----------------------------------------------------------------------------
(* Properties *)

(* The calls together are a queue of notifications: none is lost, except   *)
(* by an asynchronous exception, none is handed out twice or out of order. *)
Queue == INSTANCE NotifyQueue WITH
  posted <- sent, pending <- notes \o wire, received <- got, interrupts <- nStops
NotificationsQueued == Queue!NqSpec

(* A call does not take longer than its timeout and one flush, whatever    *)
(* else arrives in the meantime.                                           *)
WaitInTime ==
  at # "idle" /\ abort # Forever =>
    now <= (IF abort < began THEN began ELSE abort) + flushTime

(* A call says that it timed out only once the time is over, and only      *)
(* without what it waits for in the buffers of libpq.                      *)
TimeoutHonest ==
  [][at # "idle" /\ at' = "idle" /\ outcome' = "timeout" =>
       now >= abort /\ ~is_readable]_swVars

(* A call ends if it has a timeout, if what it waits for is sent, or if    *)
(* the connection is closed.                                               *)
WaitReturns ==
  (at # "idle" /\ (abort # Forever \/ eof
     \/ (purpose = "notify" /\ notes \o wire # <<>>))) ~> at = "idle"
=============================================================================
