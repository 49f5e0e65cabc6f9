-------------------------- MODULE ConnectionProofs --------------------------
(***************************************************************************)
(* One connection, for every instance: flushing a request while the answer *)
(* comes in (SocketFlush), waiting with a timeout and the queue of the     *)
(* notifications (SocketWait), cancelling (CancelConnection), and the      *)
(* session attributes that a reset forgets (SessionState).                 *)
(***************************************************************************)
EXTENDS SocketFlush, SocketWait, CancelConnection, SessionState, SequenceTheorems, TLAPS

-----------------------------------------------------------------------------
(* The client never waits for input that cannot come, for every size of    *)
(* request and answer and every capacity of the kernel buffers.            *)
(*                                                                         *)
(* The invariant says that no data get lost (Conserved): each chunk of the *)
(* request that the server has not read, and each chunk of the answer, is  *)
(* in one of the buffers.  With everything sent and the answer incomplete  *)
(* there is then something left on the way to the client.                  *)

SfTypeOK ==
  /\ out \in Nat /\ c2s \in Nat /\ s2c \in Nat /\ inb \in Nat /\ srvOut \in Nat
  /\ c2s <= Capacity
  /\ pc \in {"idle", "flush", "flush_io", "flush_wait", "flush_wait_io", "sent", "check",
             "recheck", "read_io", "discard", "discard_io", "discard_read_io"}

(* Chunks of the answer, those still to be asked for included *)
Conserved == (out + c2s) * Answer + srvOut + (s2c + inb) = Total

(* Past the flush everything is sent, and whoever waits for input alone    *)
(* has looked at the answer after the last data were read.                 *)
Flushed == pc \in {"recheck", "read_io", "discard_read_io"} => out = 0
Looked == pc \in {"read_io", "discard_read_io"} => ~Answered

SfInv == SfTypeOK /\ Conserved /\ Flushed /\ Looked

LEMMA SizesTyped == Request \in Nat /\ Answer \in Nat /\ Capacity \in Nat /\ Total \in Nat
BY SizesAssumption DEF Total

(* What PQflush can send is there, and fits into the kernel's buffer. *)
LEMMA SendableFits ==
  ASSUME SfTypeOK
  PROVE  Sendable \in Nat /\ Sendable <= out /\ c2s + Sendable <= Capacity
BY SizesTyped DEF SfTypeOK, Sendable, Least

(* The two calls of libpq move data, and neither loses nor adds any. *)
LEMMA FlushMoves ==
  ASSUME SfTypeOK, Conserved, PQflush, UNCHANGED srvOut
  PROVE  /\ out' \in Nat /\ c2s' \in Nat /\ s2c' \in Nat /\ inb' \in Nat
         /\ c2s' <= Capacity /\ Conserved' /\ (out' = 0 => inb' = inb)
<1>1. /\ out' = out - Sendable /\ c2s' = c2s + Sendable /\ s2c' + inb' = s2c + inb
      /\ s2c' \in Nat /\ inb' \in Nat /\ (out' = 0 => inb' = inb)
  BY DEF PQflush, SfTypeOK
<1>2. out' \in Nat /\ c2s' \in Nat /\ c2s' <= Capacity /\ out' + c2s' = out + c2s
  BY <1>1, SendableFits, SizesTyped DEF SfTypeOK
<1>3. (out' + c2s') * Answer = (out + c2s) * Answer
  BY <1>2
<1>4. Conserved'
  BY <1>1, <1>3 DEF Conserved, Total
<1>5. QED
  BY <1>1, <1>2, <1>4

LEMMA FlushConsumeMoves ==
  ASSUME SfTypeOK, Conserved, PQconsumeInput, UNCHANGED srvOut
  PROVE  /\ out' \in Nat /\ c2s' \in Nat /\ s2c' \in Nat /\ inb' \in Nat
         /\ c2s' <= Capacity /\ Conserved'
<1>1. /\ out' = out - Sendable /\ c2s' = c2s + Sendable /\ s2c' + inb' = s2c + inb
      /\ s2c' \in Nat /\ inb' \in Nat
  BY DEF PQconsumeInput, SfTypeOK
<1>2. out' \in Nat /\ c2s' \in Nat /\ c2s' <= Capacity /\ out' + c2s' = out + c2s
  BY <1>1, SendableFits, SizesTyped DEF SfTypeOK
<1>3. (out' + c2s') * Answer = (out + c2s) * Answer
  BY <1>2
<1>4. Conserved'
  BY <1>1, <1>3 DEF Conserved, Total
<1>5. QED
  BY <1>1, <1>2, <1>4

LEMMA SfStep == ASSUME SfInv, [SfNext]_sfVars PROVE SfInv'
<1> USE DEF SfInv
<1>1. CASE send_query
  <2>1. /\ out' = Request /\ inb' = 0 /\ c2s' = 0 /\ s2c' = 0 /\ srvOut' = 0
        /\ pc' \in {"flush", "sent"}
    BY <1>1 DEF send_query, Quiet
  <2>2. Conserved'
    BY <2>1, SizesTyped DEF Conserved, Total
  <2>3. QED
    BY <2>1, <2>2, SizesTyped DEF SfTypeOK, Flushed, Looked
<1>2. CASE SrvRead
  <2>1. c2s' = c2s - 1 /\ c2s > 0 /\ srvOut = 0 /\ srvOut' = Answer
        /\ UNCHANGED <<pc, flushData, out, s2c, inb>>
    BY <1>2 DEF SrvRead
  <2>2. (out + c2s) * Answer = (out' + c2s') * Answer + Answer
    BY <2>1, SizesTyped DEF SfTypeOK
  <2>3. (out' + c2s') * Answer \in Int
    BY <2>1, SizesTyped DEF SfTypeOK
  <2>4. Conserved'
    BY <2>1, <2>2, <2>3, SizesTyped DEF Conserved, SfTypeOK, Total
  <2>5. QED
    BY <2>1, <2>4, SizesTyped DEF SfTypeOK, Flushed, Looked, Answered, Total
<1>3. CASE SrvWrite
  <2>1. (out + c2s) * Answer \in Int /\ UNCHANGED <<pc, flushData, out, c2s, inb>>
    BY <1>3, SizesTyped DEF SrvWrite, SfTypeOK
  <2>2. Conserved'
    BY <1>3, <2>1, SizesTyped DEF SrvWrite, Conserved, SfTypeOK, Total
  <2>3. QED
    BY <1>3, <2>1, <2>2 DEF SrvWrite, SfTypeOK, Flushed, Looked, Answered, Total
<1>4. CASE async_flush
  BY <1>4, FlushMoves DEF async_flush, SfTypeOK, Flushed, Looked
<1>5. CASE async_flush_io
  <2>1. CASE Readable
    BY <1>5, <2>1, FlushConsumeMoves DEF async_flush_io, SfTypeOK, Flushed, Looked
  <2>2. CASE ~Readable
    BY <1>5, <2>2 DEF async_flush_io, SfTypeOK, Flushed, Looked, Conserved, Total
  <2>3. QED
    BY <2>1, <2>2
<1>6. CASE get_result \/ wait_socket_readable \/ wait_socket_recheck \/ flush_data_set \/ Abandon
  <2>1. UNCHANGED <<out, c2s, s2c, inb, srvOut>>
    BY <1>6 DEF get_result, wait_socket_readable, wait_socket_recheck, flush_data_set, Abandon
  <2>2. /\ pc' \in {pc, "check", "idle", "flush_wait", "read_io", "discard"}
        /\ pc' = "read_io" /\ pc # "read_io" => pc = "recheck" /\ ~Answered
    BY <1>6 DEF get_result, wait_socket_readable, wait_socket_recheck, flush_data_set, Abandon,
                FlushFirst, Recheck
  <2>3. QED
    BY <2>1, <2>2 DEF SfTypeOK, Conserved, Flushed, Looked, Answered, Total
<1>7. CASE wait_socket_io
  BY <1>7, FlushConsumeMoves DEF wait_socket_io, SfTypeOK, Flushed, Looked
<1>8. CASE discard_results
  <2>1. CASE Answered
    BY <1>8, <2>1 DEF discard_results, SfTypeOK, Flushed, Looked, Conserved, Total
  <2>2. CASE ~Answered
    BY <1>8, <2>2, FlushMoves DEF discard_results, SfTypeOK, Flushed, Looked, Answered, Total
  <2>3. QED
    BY <2>1, <2>2
<1>9. CASE discard_results_io
  <2>1. CASE Readable
    BY <1>9, <2>1, FlushConsumeMoves DEF discard_results_io, SfTypeOK, Flushed, Looked
  <2>2. CASE ~Readable
    BY <1>9, <2>2 DEF discard_results_io, SfTypeOK, Flushed, Looked, Conserved, Total
  <2>3. QED
    BY <2>1, <2>2
<1>10. CASE UNCHANGED sfVars
  BY <1>10 DEF sfVars, SfTypeOK, Flushed, Looked, Answered, Conserved, Total
<1>11. QED
  BY <1>1, <1>2, <1>3, <1>4, <1>5, <1>6, <1>7, <1>8, <1>9, <1>10 DEF SfNext, Client, Server

(* A wait for input alone ends: everything was sent before it, and what is *)
(* missing of the answer is at the server or on its way, however large     *)
(* request, answer and buffers are.                                        *)
THEOREM NeverWaitsForNothing == SfSpec => []WaitsForSomething
<1>1. SfInit => SfInv
  BY SizesTyped DEF SfInit, SfInv, SfTypeOK, Conserved, Flushed, Looked
<1>2. SfInv => WaitsForSomething
  <2> SUFFICES ASSUME SfInv, pc \in {"read_io", "discard_read_io"}
               PROVE  out = 0 /\ (c2s > 0 \/ srvOut > 0 \/ s2c > 0)
    BY DEF WaitsForSomething
  <2>1. out = 0 /\ inb # Total
    BY DEF SfInv, Flushed, Looked, Answered
  <2>2. ~(c2s = 0 /\ srvOut = 0 /\ s2c = 0)
    BY <2>1, SizesTyped DEF SfInv, SfTypeOK, Conserved
  <2>3. QED
    BY <2>1, <2>2 DEF SfInv, SfTypeOK
<1>3. QED
  BY <1>1, <1>2, SfStep, PTL DEF SfSpec

-----------------------------------------------------------------------------
(* Proofs that a wait takes its timeout and one flush at most, that it     *)
(* tells the truth about a timeout, and that the notifications are a       *)
(* queue, for every set of timeouts and every bound.                       *)

(* The clock and the variables of a call.  (That a variable is an integer  *)
(* or Forever is written as an implication: tlapm's translation to SMT     *)
(* takes every member of the union of Int and {Forever} for an integer.)   *)
SwTypeOK ==
  /\ now \in Int /\ began \in Int /\ flushTime \in Int /\ flushTime >= 0
  /\ abort # Forever => abort \in Int
  /\ at \in {"idle", "check", "flush", "recheck", "select"}

(* What wait_socket_readable computes before the flush and uses after it:  *)
(* the wait ends at the time of the timeout, later by what the flush took. *)
WaitPlanned ==
  /\ at \in {"flush", "recheck"} =>
       IF abort = Forever THEN wait = Forever
       ELSE wait # Forever /\ wait \in Int /\ wait >= 0 /\ now + wait = abort + flushTime
  /\ at = "select" =>
       IF abort = Forever THEN until = Forever
       ELSE until # Forever /\ until \in Int /\ until = abort + flushTime /\ now <= until

(* The socket is waited on only without what the call waits for. *)
WaitsUnready == at = "select" => ~is_readable

SwInv == SwTypeOK /\ WaitPlanned /\ WaitsUnready /\ WaitInTime

LEMMA ForeverOther == Forever \notin Int
BY TimeoutsAssumption

(* A timeout is given or not. *)
LEMMA TimeoutGiven ==
  ASSUME NEW t \in Timeouts \cup {Forever} PROVE t = Forever \/ (t # Forever /\ t \in Int)
BY TimeoutsAssumption, Zenon

LEMMA SwInvInit == SwInit => SwInv
BY ForeverOther
DEF SwInit, SwInv, SwTypeOK, WaitPlanned, WaitsUnready, WaitInTime

LEMMA SwInvNext == SwInv /\ [SwNext]_swVars => SwInv'
<1> SUFFICES ASSUME SwInv, [SwNext]_swVars PROVE SwInv'
  OBVIOUS
<1> USE ForeverOther
    DEF SwInv, SwTypeOK, WaitPlanned, WaitsUnready, WaitInTime, is_readable
<1>1. CASE SrvNotify \/ SrvNoise \/ SrvAnswer \/ SrvClose
  BY <1>1 DEF SrvNotify, SrvNoise, SrvAnswer, SrvClose, callVars, lqVars
<1>2. CASE SendQuery \/ consume_input \/ notifies
  BY <1>2 DEF SendQuery, consume_input, notifies, callVars
<1>3. CASE wait_for_notify \/ block
  <2>1. PICK t : /\ t = Forever \/ (t # Forever /\ t \in Int)
                 /\ \E p : BeginWait(p, t)
    BY <1>3, TimeoutGiven, Zenon DEF wait_for_notify, block
  <2> QED
    BY <2>1 DEF BeginWait, lqVars
<1>4. CASE WaitSucceeds
  BY <1>4 DEF WaitSucceeds, Return
<1>5. CASE WaitBegins
  BY <1>5 DEF WaitBegins, Remaining, lqVars
<1>6. CASE WaitExpired
  BY <1>6 DEF WaitExpired, Return
<1>7. CASE FlushDone
  BY <1>7 DEF FlushDone
<1>8. CASE FlushConsumes
  BY <1>8 DEF FlushConsumes, Return, callVars
<1>9. CASE WaitForSocket
  BY <1>9 DEF WaitForSocket, Return, lqVars
<1>10. CASE SocketReady
  BY <1>10 DEF SocketReady, Return
<1>11. CASE SelectTimeout \/ StopWait \/ StopNotifies
  BY <1>11 DEF SelectTimeout, StopWait, StopNotifies, Return
<1>12. CASE Tick
  <2>1. /\ now' = now + 1 /\ UNCHANGED <<at, purpose, began, abort, wait, until, notes, busy>>
        /\ flushTime' = IF at = "flush" THEN flushTime + 1 ELSE flushTime
    BY <1>12 DEF Tick, lqVars
  <2>2. CASE at = "idle"
    BY <2>1, <2>2
  <2>3. CASE at = "flush"
    <3>1. SwTypeOK' /\ WaitsUnready'
      BY <2>1, <2>3
    <3>2. WaitPlanned'
      BY <2>1, <2>3
    <3>3. WaitInTime'
      <4> DEFINE E == IF abort < began THEN began ELSE abort
      <4> SUFFICES ASSUME abort # Forever PROVE now + 1 <= E + (flushTime + 1)
        BY <2>1, <2>3
      <4>1. abort \in Int /\ E \in Int /\ now <= E + flushTime
        BY <2>3
      <4> HIDE DEF E
      <4> QED
        BY <4>1
    <3> QED
      BY <3>1, <3>2, <3>3
  <2>4. CASE at = "select"
    <3>1. until # Forever => now < until
      BY <1>12, <2>4 DEF Tick
    <3> QED
      BY <2>1, <2>4, <3>1
  <2> QED
    BY <1>12, <2>2, <2>3, <2>4 DEF Tick
<1>13. CASE UNCHANGED swVars
  BY <1>13 DEF swVars, callVars, lqVars
<1> QED
  BY <1>1, <1>2, <1>3, <1>4, <1>5, <1>6, <1>7, <1>8, <1>9, <1>10, <1>11, <1>12, <1>13
  DEF SwNext, WaitStep

(* A wait ends within its timeout and the time of one flush                *)
(* (wait_socket_readable).                                                 *)
THEOREM WaitsEndInTime == SwSpec => []WaitInTime
<1>1. SwInv => WaitInTime
  BY DEF SwInv
<1> QED
  BY <1>1, SwInvInit, SwInvNext, PTL DEF SwSpec

(* A wait reports a timeout only after it, and only without what it waits  *)
(* for (wait_socket_readable).                                             *)
THEOREM TimeoutsAreHonest == SwSpec => TimeoutHonest
<1> DEFINE Honest == at # "idle" /\ at' = "idle" /\ outcome' = "timeout" =>
                       now >= abort /\ ~is_readable
<1>1. SwInv /\ [SwNext]_swVars => [Honest]_swVars
  <2> SUFFICES ASSUME SwInv, SwNext, at # "idle", at' = "idle", outcome' = "timeout"
               PROVE now >= abort /\ ~is_readable
    OBVIOUS
  <2>1. WaitExpired \/ SelectTimeout
    BY DEF SwNext, WaitStep, SrvNotify, SrvNoise, SrvAnswer, SrvClose, SendQuery, consume_input,
           notifies, wait_for_notify, block, BeginWait, WaitSucceeds, WaitBegins, FlushDone,
           FlushConsumes, WaitForSocket, SocketReady, StopWait, StopNotifies, Tick, Return,
           callVars
  <2>2. CASE WaitExpired
    BY <2>2, ForeverOther DEF WaitExpired, Remaining, SwInv, SwTypeOK
  <2>3. CASE SelectTimeout
    BY <2>3, ForeverOther
    DEF SelectTimeout, SwInv, SwTypeOK, WaitPlanned, WaitsUnready
  <2> QED
    BY <2>1, <2>2, <2>3
<1> QED
  BY <1>1, SwInvInit, SwInvNext, PTL DEF SwSpec, TimeoutHonest

-----------------------------------------------------------------------------
(* The queue of notifications *)

(* What is sent is appended to the whole queue. *)
LEMMA AppendToSecond ==
  ASSUME NEW s \in Seq(Int), NEW t \in Seq(Int), NEW e \in Int
  PROVE  s \o Append(t, e) = Append(s \o t, e)
BY AppendIsConcat, ConcatAssociative, ConcatProperties

(* What is taken off the first part is taken off the whole queue. *)
LEMMA TakeFromFirst ==
  ASSUME NEW s \in Seq(Int), NEW t \in Seq(Int), s # <<>>
  PROVE  /\ s \o t # <<>>
         /\ Head(s \o t) = Head(s)
         /\ Tail(s \o t) = Tail(s) \o t
BY ConcatProperties, HeadTailProperties

SwLists == notes \in Seq(Int) /\ wire \in Seq(Int) /\ got \in Seq(Int) /\ sent \in Int

(* The calls that take a notification, and those that move or add some. *)
LEMMA PQnotifiesTakes ==
  ASSUME SwLists, notes # <<>>
  PROVE  /\ Head(notes) \in Int /\ Tail(notes) \in Seq(Int)
         /\ Append(got, Head(notes)) \in Seq(Int)
BY HeadTailProperties, AppendProperties DEF SwLists

LEMMA ConsumeMoves ==
  ASSUME SwLists, ConsumeInput
  PROVE  /\ notes' \in Seq(Int) /\ wire' \in Seq(Int) /\ sent' = sent
         /\ notes' \o wire' = notes \o wire
<1>1. notes' = notes \o wire /\ wire' = <<>> /\ sent' = sent
  BY DEF ConsumeInput
<1>2. notes \o wire \in Seq(Int) /\ <<>> \in Seq(Int)
  BY ConcatProperties, EmptySeq DEF SwLists
<1> QED
  BY <1>1, <1>2, ConcatEmptySeq

LEMMA ListsInit == SwInit => SwLists
BY EmptySeq DEF SwInit, SwLists

(* A step leaves the queue alone, or is one of the queue's own steps. *)
QueueStep ==
  \/ UNCHANGED <<sent, got, nStops>> /\ notes' \o wire' = notes \o wire
  \/ Queue!NqNext

LEMMA QueueNext == SwLists /\ [SwNext]_swVars => SwLists' /\ QueueStep
<1> SUFFICES ASSUME SwLists, [SwNext]_swVars PROVE SwLists' /\ QueueStep
  OBVIOUS
<1> DEFINE Still == UNCHANGED <<sent, got, nStops, notes, wire>>
<1>1. Still => SwLists' /\ QueueStep
  BY DEF SwLists, QueueStep
<1>2. ASSUME ConsumeInput, UNCHANGED <<got, nStops>> PROVE SwLists' /\ QueueStep
  BY <1>2, ConsumeMoves DEF SwLists, QueueStep
<1>3. ASSUME notes # <<>>, PQnotifies, UNCHANGED <<wire, sent, nStops>>
      PROVE  SwLists' /\ QueueStep
  BY <1>3, PQnotifiesTakes, TakeFromFirst
  DEF SwLists, QueueStep, PQnotifies, Queue!NqNext, Queue!Receive
<1>4. ASSUME nStops' = nStops + 1, UNCHANGED <<wire, sent, got>>,
             notes' = notes \/ (notes # <<>> /\ notes' = Tail(notes))
      PROVE  SwLists' /\ QueueStep
  <2>1. SwLists'
    BY <1>4, PQnotifiesTakes DEF SwLists
  <2>2. \/ notes' \o wire' = notes \o wire
        \/ notes \o wire # <<>> /\ notes' \o wire' = Tail(notes \o wire)
    <3>1. CASE notes' = notes
      BY <1>4, <3>1
    <3>2. CASE notes # <<>> /\ notes' = Tail(notes)
      <4>1. notes \o wire # <<>> /\ Tail(notes \o wire) = Tail(notes) \o wire
        BY <3>2, TakeFromFirst DEF SwLists
      <4>2. wire' = wire
        BY <1>4
      <4> QED
        BY <3>2, <4>1, <4>2, Zenon
    <3> QED
      BY <1>4, <3>1, <3>2
  <2>3. Queue!Interrupted
    BY <1>4, <2>2 DEF Queue!Interrupted
  <2> QED
    BY <2>1, <2>3 DEF QueueStep, Queue!NqNext
<1>5. CASE SrvNotify
  <2>1. /\ sent' = sent + 1 /\ wire' = Append(wire, sent')
        /\ UNCHANGED <<notes, got, nStops>>
    BY <1>5 DEF SrvNotify, lqVars
  <2>2. sent' \in Int
    BY <2>1 DEF SwLists
  <2>3. wire' \in Seq(Int) /\ notes \o wire' = Append(notes \o wire, sent')
    BY <2>1, <2>2, AppendToSecond, AppendProperties DEF SwLists
  <2> QED
    BY <2>1, <2>2, <2>3 DEF SwLists, QueueStep, Queue!NqNext, Queue!Post
<1>6. CASE \/ SrvNoise \/ SrvAnswer \/ SrvClose \/ SendQuery \/ wait_for_notify \/ block
           \/ WaitBegins \/ WaitExpired \/ FlushDone \/ WaitForSocket \/ SelectTimeout \/ Tick
           \/ UNCHANGED swVars
  BY <1>1, <1>6
  DEF SrvNoise, SrvAnswer, SrvClose, SendQuery, wait_for_notify, block, BeginWait, WaitBegins,
      WaitExpired, FlushDone, WaitForSocket, SelectTimeout, Tick, serverVars, lqVars, swVars
<1>7. CASE consume_input \/ FlushConsumes \/ SocketReady
  BY <1>2, <1>7 DEF consume_input, FlushConsumes, SocketReady
<1>8. CASE notifies
  BY <1>3, <1>8 DEF notifies, serverVars
<1>9. CASE WaitSucceeds
  <2>1. CASE purpose = "notify"
    BY <1>3, <1>9, <2>1 DEF WaitSucceeds, is_readable, serverVars
  <2>2. CASE purpose # "notify"
    BY <1>1, <1>9, <2>2 DEF WaitSucceeds, serverVars
  <2> QED
    BY <2>1, <2>2
<1>10. CASE StopWait \/ StopNotifies
  BY <1>4, <1>10 DEF StopWait, StopNotifies, serverVars, lqVars
<1> QED
  BY <1>5, <1>6, <1>7, <1>8, <1>9, <1>10 DEF SwNext, WaitStep

(* wait_for_notify, notifies and all that reads from the socket implement  *)
(* the queue of NotifyQueue.                                               *)
THEOREM NotificationsAreQueued == SwSpec => NotificationsQueued
<1>1. SwInit => Queue!NqInit
  BY ConcatEmptySeq, EmptySeq DEF SwInit, Queue!NqInit
<1>2. SwLists /\ [SwNext]_swVars => [Queue!NqNext]_(Queue!nqVars)
  BY QueueNext DEF QueueStep, Queue!nqVars
<1>3. SwLists /\ [SwNext]_swVars => SwLists'
  BY QueueNext
<1> QED
  BY <1>1, <1>2, <1>3, ListsInit, PTL DEF SwSpec, NotificationsQueued, Queue!NqSpec

-----------------------------------------------------------------------------
(* A cancel request, for any connect_timeout and any number of sockets: it *)
(* is never reported without having been sent, its PGcancelConn is freed   *)
(* once, and the loop never waits on a socket that libpq has given up.     *)
(*                                                                         *)
(* CancelSafe is not inductive.  Truthfulness rests on the state of libpq  *)
(* (Dispatched), the live socket on what the poll before the wait found    *)
(* (OnSocket), and both on the object being there throughout the call      *)
(* (InUse), so that nobody else can create, finish or collect it.          *)

(* The states of libpq that the request has passed. *)
Dispatched == cstatus \in {"sent", "ok"} => dispatched

(* Sockets are numbered from 1. *)
Numbered == nSock \in Nat

(* A running cancel keeps its object. *)
InUse == step # "idle" => obj \in {"held", "local"}

(* Whoever is about to wait or to poll has a socket. *)
OnSocket == step = "poll" => sock # 0

CancelInv ==
  /\ CancelTruthful /\ CancelFreedOnce /\ CancelWaitsLive
  /\ Dispatched /\ Numbered /\ InUse /\ OnSocket

(* The two calls of libpq that may send the request keep Dispatched. *)
LEMMA StartKeeps ==
  ASSUME Dispatched, PQcancelStart, UNCHANGED dispatched
  PROVE  Dispatched'
BY DEF Dispatched, PQcancelStart

LEMMA PollKeeps ==
  ASSUME Dispatched, PQcancelPoll
  PROVE  Dispatched' /\ (dispatched => dispatched')
BY DEF Dispatched, PQcancelPoll

(* A socket that libpq opens has a number of its own, which is not 0. *)
LEMMA OpenedSocket ==
  ASSUME Numbered, OpenSocket
  PROVE  Numbered' /\ sock' # 0
BY DEF Numbered, OpenSocket

LEMMA StartNumbers ==
  ASSUME Numbered, PQcancelStart
  PROVE  Numbered' /\ (cstatus' # "bad" => sock' # 0)
BY OpenedSocket DEF PQcancelStart, DropSocket, Numbered

LEMMA PollNumbers ==
  ASSUME Numbered, PQcancelPoll, sock # 0
  PROVE  Numbered' /\ (cstatus' \notin {"ok", "bad"} => sock' # 0)
BY OpenedSocket DEF PQcancelPoll, DropSocket, Numbered

(* The same without a socket at hand, as when the program polls. *)
LEMMA AnyPollNumbers ==
  ASSUME Numbered, PQcancelPoll
  PROVE  Numbered'
BY OpenedSocket DEF PQcancelPoll, DropSocket, Numbered

(* finish and the collector free what there is, and only that. *)
LEMMA FinishFrees ==
  ASSUME owed = (IF ptr THEN 1 ELSE 0), Finish
  PROVE  owed' = (IF ptr' THEN 1 ELSE 0) /\ ~ptr'
BY DEF Finish

LEMMA CancelStep ==
  ASSUME CancelInv, [CcNext]_ccVars
  PROVE  CancelInv'
<1> USE DEF CancelInv, CancelTruthful, CancelFreedOnce, CancelWaitsLive, InUse, OnSocket, Wrapped
<1>1. CASE New
  BY <1>1 DEF New, initialize, Dispatched, Numbered
<1>2. CASE Forget
  BY <1>2 DEF Forget, Dispatched, Numbered
<1>3. CASE cancon_start
  BY <1>3, StartKeeps, StartNumbers DEF cancon_start, Usable, close_socket_io
<1>4. CASE cancon_poll
  BY <1>4, PollKeeps, AnyPollNumbers DEF cancon_poll, Usable, close_socket_io
<1>5. CASE cancon_socket_io
  BY <1>5 DEF cancon_socket_io, Usable, Dispatched, Numbered
<1>6. CASE cancon_reset
  BY <1>6 DEF cancon_reset, Usable, close_socket_io, DropSocket, Dispatched, Numbered
<1>7. CASE cancon_finish
  BY <1>7, FinishFrees DEF cancon_finish, DropSocket, Dispatched, Numbered
<1>8. CASE cancon_sync_cancel
  BY <1>8 DEF cancon_sync_cancel, Usable, close_socket_io, DropSocket, Dispatched, Numbered
<1>9. CASE cancon_cancel
  BY <1>9 DEF cancon_cancel, Usable, Dispatched, Numbered
<1>10. CASE Connection_cancel
  BY <1>10 DEF Connection_cancel, initialize, Dispatched, Numbered
<1>11. CASE Connection_cancel_refused
  BY <1>11 DEF Connection_cancel_refused, Dispatched, Numbered
<1>12. CASE CancelStart
  BY <1>12, StartKeeps, StartNumbers DEF CancelStart, close_socket_io, EndCancel, Dropped
<1>13. CASE LoopWait
  BY <1>13 DEF LoopWait, Dispatched, Numbered
<1>14. CASE LoopTimeout
  BY <1>14, FinishFrees DEF LoopTimeout, TimeIsOver, EndCancel, Dropped, DropSocket, Dispatched, Numbered
<1>15. CASE LoopTimeoutUnixSocket \/ LoopInterrupted
  BY <1>15 DEF LoopTimeoutUnixSocket, LoopInterrupted, TimeIsOver, EndCancel, Dropped,
               Dispatched, Numbered
<1>16. CASE LoopPoll
  <2>1. Dispatched' /\ (dispatched => dispatched') /\ Numbered'
    BY <1>16, PollKeeps, PollNumbers DEF LoopPoll
  <2>2. CASE cstatus' = "ok"
    BY <1>16, <2>1, <2>2 DEF LoopPoll, EndCancel, Dropped, Dispatched
  <2>3. CASE cstatus' = "bad"
    BY <1>16, <2>1, <2>3, FinishFrees DEF LoopPoll, EndCancel, Dropped
  <2>4. CASE cstatus' \notin {"ok", "bad"}
    BY <1>16, <2>1, <2>4, PollNumbers DEF LoopPoll, close_socket_io
  <2>5. QED
    BY <2>2, <2>3, <2>4
<1>17. CASE CancelTick
  BY <1>17 DEF CancelTick, Dispatched, Numbered
<1>18. CASE SocketEvent
  BY <1>18 DEF SocketEvent, Dispatched, Numbered
<1>19. CASE pg_cancon_gc_free
  BY <1>19, FinishFrees DEF pg_cancon_gc_free, DropSocket, Dispatched, Numbered
<1>20. CASE UNCHANGED ccVars
  BY <1>20 DEF ccVars, Dispatched, Numbered
<1>21. QED
  BY <1>1, <1>2, <1>3, <1>4, <1>5, <1>6, <1>7, <1>8, <1>9, <1>10, <1>11, <1>12, <1>13,
     <1>14, <1>15, <1>16, <1>17, <1>18, <1>19, <1>20 DEF CcNext

(* Whatever calls come in whatever order, of Connection#cancel and of the  *)
(* methods of PG::CancelConnection: nil is only returned for a request     *)
(* that was sent, the PGcancelConn is freed once, and the loop waits on    *)
(* the socket libpq uses now.                                              *)
THEOREM CancelIsSafe == CcSpec => []CancelSafe
<1>1. CcInit => CancelInv
  BY DEF CcInit, CancelInv, CancelTruthful, CancelFreedOnce, CancelWaitsLive, Dispatched,
         Numbered, InUse, OnSocket
<1>2. CancelInv => CancelSafe
  BY DEF CancelInv, CancelSafe
<1>3. QED
  BY <1>1, <1>2, CancelStep, PTL DEF CcSpec

-----------------------------------------------------------------------------
(* Proofs that the properties of SessionState hold for every set of        *)
(* handlers and descriptors, every table of encodings, and every default.  *)

(* The fields of the two structs, whatever their values are. *)
Shape ==
  /\ lq = [status |-> lq.status, receiver |-> lq.receiver, processor |-> lq.processor,
           nonblocking |-> lq.nonblocking, trace |-> lq.trace, enc |-> lq.enc]
  /\ cn = [receiver |-> cn.receiver, processor |-> cn.processor,
           defReceiver |-> cn.defReceiver, defProcessor |-> cn.defProcessor,
           flushData |-> cn.flushData, sendApi |-> cn.sendApi, encIdx |-> cn.encIdx,
           traceStream |-> cn.traceStream]
  /\ asked = [receiver |-> asked.receiver, processor |-> asked.processor]

(* A proxy is installed exactly if the program has set a handler, which is *)
(* then the one of the struct; what is saved as the default is libpq's own *)
(* handler, and it is saved before a proxy is installed.                   *)
HandlersKept ==
  /\ lq.receiver \in {"default", "proxy"} /\ lq.processor \in {"default", "proxy"}
  /\ cn.defReceiver \in {"NULL", "default"} /\ cn.defProcessor \in {"NULL", "default"}
  /\ asked.receiver \in Handlers \cup {NoHandler}
  /\ asked.processor \in Handlers \cup {NoHandler}
  /\ (lq.receiver = "proxy") <=> (asked.receiver # NoHandler)
  /\ (lq.processor = "proxy") <=> (asked.processor # NoHandler)
  /\ lq.receiver = "proxy" => cn.defReceiver = "default" /\ cn.receiver = asked.receiver
  /\ lq.processor = "proxy" => cn.defProcessor = "default" /\ cn.processor = asked.processor

(* While no reset is called in nonblocking mode, the methods that wait are *)
(* in place exactly if flush_data is set.                                  *)
ModeKept ==
  /\ cn.sendApi \in BOOLEAN /\ cn.flushData = cn.sendApi
  /\ lq.nonblocking \in BOOLEAN
  /\ Ready /\ managed => lq.nonblocking

USE DEF Open, Ready, NewPGconn, Closed, PQreset, Forgotten

-----------------------------------------------------------------------------
(* The records keep their fields in every step. *)
LEMMA ShapeInit == SsInit => Shape
<1> SUFFICES ASSUME SsInit PROVE Shape
  OBVIOUS
<1> DEFINE enc == IF DefaultInternal = NoEncoding THEN ServerDefault
                  ELSE pg_get_rb_encoding_as_pg_encoding(DefaultInternal)
<1>1. /\ lq = [NewPGconn("ok") EXCEPT !.nonblocking = TRUE, !.enc = enc]
      /\ cn = [receiver |-> NoHandler, processor |-> NoHandler,
               defReceiver |-> "NULL", defProcessor |-> "NULL", flushData |-> TRUE,
               sendApi |-> TRUE, encIdx |-> IndexOf(enc), traceStream |-> NoFd]
      /\ asked = [receiver |-> NoHandler, processor |-> NoHandler]
  BY Zenon DEF SsInit
<1> HIDE DEF enc
<1>2. lq = [status |-> lq.status, receiver |-> lq.receiver, processor |-> lq.processor,
            nonblocking |-> lq.nonblocking, trace |-> lq.trace, enc |-> lq.enc]
  BY <1>1
<1>3. cn = [receiver |-> cn.receiver, processor |-> cn.processor,
            defReceiver |-> cn.defReceiver, defProcessor |-> cn.defProcessor,
            flushData |-> cn.flushData, sendApi |-> cn.sendApi, encIdx |-> cn.encIdx,
            traceStream |-> cn.traceStream]
  BY <1>1
<1>4. asked = [receiver |-> asked.receiver, processor |-> asked.processor]
  BY <1>1
<1> QED
  BY <1>2, <1>3, <1>4 DEF Shape

LEMMA ShapeNext == Shape /\ [SsNext]_ssVars => Shape'
<1> SUFFICES ASSUME Shape, [SsNext]_ssVars PROVE Shape'
  OBVIOUS
<1> USE DEF Shape
<1>1. ASSUME NEW h, set_notice_receiver(h) \/ set_notice_processor(h) PROVE Shape'
  BY <1>1 DEF set_notice_receiver, set_notice_processor
<1>2. CASE trace \/ trace_refused \/ untrace \/ CollectIO
  BY <1>2 DEF trace, trace_refused, untrace, CollectIO
<1>3. ASSUME NEW pg, \/ set_client_encoding(pg) \/ set_client_encoding_interrupted(pg)
                     \/ exec_set(pg) \/ internal_encoding_set(pg)
      PROVE Shape'
  BY <1>3 DEF set_client_encoding, set_client_encoding_interrupted, exec_set,
              internal_encoding_set, SetEncoding
<1>4. CASE set_default_encoding
  BY <1>4 DEF set_default_encoding, SetEncoding
<1>5. ASSUME NEW enabled \in BOOLEAN, setnonblocking(enabled) PROVE Shape'
  BY <1>5 DEF setnonblocking
<1>6. CASE LargeObjectCall \/ lo_argument_error
  BY <1>6 DEF LargeObjectCall, lo_argument_error
<1>7. CASE reset_done \/ reset_interrupted \/ reset_encoding_interrupted \/ reset_failed
  BY <1>7 DEF reset_done, reset_interrupted, reset_encoding_interrupted, reset_failed
<1>8. CASE sync_reset \/ finish
  BY <1>8 DEF sync_reset, finish
<1>9. CASE UNCHANGED ssVars
  BY <1>9 DEF ssVars
<1> QED
  BY <1>1, <1>2, <1>3, <1>4, <1>5, <1>6, <1>7, <1>8, <1>9 DEF SsNext

-----------------------------------------------------------------------------
(* Notices *)

LEMMA HandlersInit == SsInit => HandlersKept
BY HandlerAssumption DEF SsInit, HandlersKept

LEMMA HandlersNext == Shape /\ HandlersKept /\ [SsNext]_ssVars => HandlersKept'
<1> SUFFICES ASSUME Shape, HandlersKept, [SsNext]_ssVars PROVE HandlersKept'
  OBVIOUS
<1> USE DEF Shape, HandlersKept
<1>1. ASSUME NEW h \in Handlers \cup {NoHandler}, set_notice_receiver(h) PROVE HandlersKept'
  BY <1>1, HandlerAssumption DEF set_notice_receiver, SavedDefault
<1>2. ASSUME NEW h \in Handlers \cup {NoHandler}, set_notice_processor(h) PROVE HandlersKept'
  BY <1>2, HandlerAssumption DEF set_notice_processor, SavedDefault
<1>3. CASE trace \/ trace_refused \/ untrace \/ CollectIO
  BY <1>3 DEF trace, trace_refused, untrace, CollectIO
<1>4. ASSUME NEW pg, \/ set_client_encoding(pg) \/ set_client_encoding_interrupted(pg)
                     \/ exec_set(pg) \/ internal_encoding_set(pg)
      PROVE HandlersKept'
  BY <1>4 DEF set_client_encoding, set_client_encoding_interrupted, exec_set,
              internal_encoding_set, SetEncoding
<1>5. CASE set_default_encoding
  BY <1>5 DEF set_default_encoding, SetEncoding
<1>6. ASSUME NEW enabled \in BOOLEAN, setnonblocking(enabled) PROVE HandlersKept'
  BY <1>6 DEF setnonblocking
<1>7. CASE LargeObjectCall
  BY <1>7 DEF LargeObjectCall, Restored
<1>8. CASE lo_argument_error
  BY <1>8 DEF lo_argument_error
<1>9. CASE reset_done
  BY <1>9 DEF reset_done
<1>10. CASE reset_interrupted
  BY <1>10 DEF reset_interrupted
<1>11. CASE reset_encoding_interrupted
  BY <1>11 DEF reset_encoding_interrupted
<1>12. CASE reset_failed
  BY <1>12 DEF reset_failed
<1>13. CASE sync_reset
  BY <1>13 DEF sync_reset
<1>14. CASE finish
  BY <1>14 DEF finish
<1>15. CASE UNCHANGED ssVars
  BY <1>15 DEF ssVars
<1> QED
  BY <1>1, <1>2, <1>3, <1>4, <1>5, <1>6, <1>7, <1>8, <1>9, <1>10, <1>11, <1>12, <1>13, <1>14,
     <1>15 DEF SsNext

(* Every notice goes to the handler set since the last reset, or to the    *)
(* default (set_notice_receiver, set_notice_processor, reset_start2).      *)
THEOREM NoticesArrive == SsSpec => []NoticesReachHandler
<1>1. Shape /\ HandlersKept => NoticesReachHandler
  BY HandlerAssumption
  DEF Shape, HandlersKept, NoticesReachHandler, NoticeGoesTo, notice_processor_proxy
<1> QED
  BY <1>1, ShapeInit, ShapeNext, HandlersInit, HandlersNext, PTL DEF SsSpec

-----------------------------------------------------------------------------
(* Encodings *)

LEMMA EncodingInit == SsInit => EncodingAgrees
BY DEF SsInit, EncodingAgrees, IndexOf

LEMMA EncodingNext == Shape /\ EncodingAgrees /\ [SsNext]_ssVars => EncodingAgrees'
<1> SUFFICES ASSUME Shape, EncodingAgrees, [SsNext]_ssVars PROVE EncodingAgrees'
  OBVIOUS
<1> USE DEF Shape, EncodingAgrees, IndexOf
<1>1. ASSUME NEW h \in Handlers \cup {NoHandler}, set_notice_receiver(h) PROVE EncodingAgrees'
  BY <1>1, HandlerAssumption DEF set_notice_receiver, SavedDefault
<1>2. ASSUME NEW h \in Handlers \cup {NoHandler}, set_notice_processor(h) PROVE EncodingAgrees'
  BY <1>2, HandlerAssumption DEF set_notice_processor, SavedDefault
<1>3. CASE trace \/ trace_refused \/ untrace \/ CollectIO
  BY <1>3 DEF trace, trace_refused, untrace, CollectIO
<1>4. ASSUME NEW pg, \/ set_client_encoding(pg) \/ set_client_encoding_interrupted(pg)
                     \/ exec_set(pg) \/ internal_encoding_set(pg)
      PROVE EncodingAgrees'
  BY <1>4 DEF set_client_encoding, set_client_encoding_interrupted, exec_set,
              internal_encoding_set, SetEncoding
<1>5. CASE set_default_encoding
  BY <1>5 DEF set_default_encoding, SetEncoding
<1>6. ASSUME NEW enabled \in BOOLEAN, setnonblocking(enabled) PROVE EncodingAgrees'
  BY <1>6 DEF setnonblocking
<1>7. CASE LargeObjectCall
  BY <1>7 DEF LargeObjectCall, Restored
<1>8. CASE lo_argument_error
  BY <1>8 DEF lo_argument_error
<1>9. CASE reset_done
  BY <1>9 DEF reset_done
<1>10. CASE reset_interrupted
  BY <1>10 DEF reset_interrupted
<1>11. CASE reset_encoding_interrupted
  BY <1>11 DEF reset_encoding_interrupted
<1>12. CASE reset_failed
  BY <1>12 DEF reset_failed
<1>13. CASE sync_reset
  BY <1>13 DEF sync_reset
<1>14. CASE finish
  BY <1>14 DEF finish
<1>15. CASE UNCHANGED ssVars
  BY <1>15 DEF ssVars
<1> QED
  BY <1>1, <1>2, <1>3, <1>4, <1>5, <1>6, <1>7, <1>8, <1>9, <1>10, <1>11, <1>12, <1>13, <1>14,
     <1>15 DEF SsNext

(* Strings carry the encoding of the session, whatever order of encoding   *)
(* calls and resets led to it (pgconn_set_internal_encoding_index).        *)
THEOREM EncodingKept == SsSpec => []EncodingAgrees
BY ShapeInit, ShapeNext, EncodingInit, EncodingNext, PTL DEF SsSpec

-----------------------------------------------------------------------------
(* Trace *)

LEMMA TraceInit == SsInit => TraceToOwnFile
BY DEF SsInit, TraceToOwnFile

LEMMA TraceNext == Shape /\ TraceToOwnFile /\ [SsNext]_ssVars => TraceToOwnFile'
<1> SUFFICES ASSUME Shape, TraceToOwnFile, [SsNext]_ssVars PROVE TraceToOwnFile'
  OBVIOUS
<1> USE DEF Shape, TraceToOwnFile
<1>1. ASSUME NEW h \in Handlers \cup {NoHandler}, set_notice_receiver(h) PROVE TraceToOwnFile'
  BY <1>1, HandlerAssumption DEF set_notice_receiver, SavedDefault
<1>2. ASSUME NEW h \in Handlers \cup {NoHandler}, set_notice_processor(h) PROVE TraceToOwnFile'
  BY <1>2, HandlerAssumption DEF set_notice_processor, SavedDefault
<1>3. CASE trace \/ trace_refused \/ untrace \/ CollectIO
  BY <1>3 DEF trace, trace_refused, untrace, CollectIO
<1>4. ASSUME NEW pg, \/ set_client_encoding(pg) \/ set_client_encoding_interrupted(pg)
                     \/ exec_set(pg) \/ internal_encoding_set(pg)
      PROVE TraceToOwnFile'
  BY <1>4 DEF set_client_encoding, set_client_encoding_interrupted, exec_set,
              internal_encoding_set, SetEncoding
<1>5. CASE set_default_encoding
  BY <1>5 DEF set_default_encoding, SetEncoding
<1>6. ASSUME NEW enabled \in BOOLEAN, setnonblocking(enabled) PROVE TraceToOwnFile'
  BY <1>6 DEF setnonblocking
<1>7. CASE LargeObjectCall
  BY <1>7 DEF LargeObjectCall, Restored
<1>8. CASE lo_argument_error
  BY <1>8 DEF lo_argument_error
<1>9. CASE reset_done
  BY <1>9 DEF reset_done
<1>10. CASE reset_interrupted
  BY <1>10 DEF reset_interrupted
<1>11. CASE reset_encoding_interrupted
  BY <1>11 DEF reset_encoding_interrupted
<1>12. CASE reset_failed
  BY <1>12 DEF reset_failed
<1>13. CASE sync_reset
  BY <1>13 DEF sync_reset
<1>14. CASE finish
  BY <1>14 DEF finish
<1>15. CASE UNCHANGED ssVars
  BY <1>15 DEF ssVars
<1> QED
  BY <1>1, <1>2, <1>3, <1>4, <1>5, <1>6, <1>7, <1>8, <1>9, <1>10, <1>11, <1>12, <1>13, <1>14,
     <1>15 DEF SsNext

(* libpq's trace never goes to a descriptor that was closed (trace,        *)
(* untrace, reset and the garbage collector).                              *)
THEOREM TraceSafe == SsSpec => []TraceToOwnFile
BY ShapeInit, ShapeNext, TraceInit, TraceNext, PTL DEF SsSpec

-----------------------------------------------------------------------------
(* Blocking and nonblocking *)

LEMMA ModeInit == SsInit => ModeKept
BY DEF SsInit, ModeKept

LEMMA ModeNext ==
  ~ResetNonblocking /\ Shape /\ ModeKept /\ [SsNext]_ssVars => ModeKept'
<1> SUFFICES ASSUME ~ResetNonblocking, Shape, ModeKept, [SsNext]_ssVars PROVE ModeKept'
  OBVIOUS
<1> USE DEF Shape, ModeKept
<1>1. ASSUME NEW h \in Handlers \cup {NoHandler}, set_notice_receiver(h) PROVE ModeKept'
  BY <1>1, HandlerAssumption DEF set_notice_receiver, SavedDefault
<1>2. ASSUME NEW h \in Handlers \cup {NoHandler}, set_notice_processor(h) PROVE ModeKept'
  BY <1>2, HandlerAssumption DEF set_notice_processor, SavedDefault
<1>3. CASE trace \/ trace_refused \/ untrace \/ CollectIO
  BY <1>3 DEF trace, trace_refused, untrace, CollectIO
<1>4. ASSUME NEW pg, \/ set_client_encoding(pg) \/ set_client_encoding_interrupted(pg)
                     \/ exec_set(pg) \/ internal_encoding_set(pg)
      PROVE ModeKept'
  BY <1>4 DEF set_client_encoding, set_client_encoding_interrupted, exec_set,
              internal_encoding_set, SetEncoding
<1>5. CASE set_default_encoding
  BY <1>5 DEF set_default_encoding, SetEncoding
<1>6. ASSUME NEW enabled \in BOOLEAN, setnonblocking(enabled) PROVE ModeKept'
  <2>1. cn'.sendApi = ~enabled /\ cn'.flushData = ~enabled
    BY <1>6 DEF setnonblocking
  <2>2. cn'.sendApi \in BOOLEAN /\ cn'.flushData = cn'.sendApi
    BY <2>1, Zenon
  <2>3. CASE lq' = [lq EXCEPT !.nonblocking = TRUE]
    <3>1. lq'.nonblocking = TRUE
      BY <2>3
    <3> QED
      BY <2>2, <3>1
  <2>4. CASE ~lq.nonblocking /\ UNCHANGED <<lq, managed>>
    BY <2>2, <2>4
  <2> QED
    BY <1>6, <2>3, <2>4 DEF setnonblocking
<1>7. CASE LargeObjectCall
  BY <1>7 DEF LargeObjectCall, Restored
<1>8. CASE lo_argument_error
  BY <1>8 DEF lo_argument_error
<1>9. CASE reset_done
  BY <1>9 DEF reset_done
<1>10. CASE reset_interrupted
  BY <1>10 DEF reset_interrupted
<1>11. CASE reset_encoding_interrupted
  BY <1>11 DEF reset_encoding_interrupted
<1>12. CASE reset_failed
  BY <1>12 DEF reset_failed
<1>13. CASE sync_reset
  BY <1>13 DEF sync_reset
<1>14. CASE finish
  BY <1>14 DEF finish
<1>15. CASE UNCHANGED ssVars
  BY <1>15 DEF ssVars
<1> QED
  BY <1>1, <1>2, <1>3, <1>4, <1>5, <1>6, <1>7, <1>8, <1>9, <1>10, <1>11, <1>12, <1>13, <1>14,
     <1>15 DEF SsNext

(* isnonblocking says what the methods that send do, and libpq itself      *)
(* never waits, if no reset is called in nonblocking mode                  *)
(* (setnonblocking, BLOCKING_BEGIN and BLOCKING_END, reset).               *)
THEOREM ModeAgreesAlways == ASSUME ~ResetNonblocking PROVE SsSpec => []ModeAgrees
<1>1. Shape /\ ModeKept => ModeAgrees
  BY DEF Shape, ModeKept, ModeAgrees, isnonblocking
<1>2. Shape /\ ModeKept /\ [SsNext]_ssVars => ModeKept'
  BY ModeNext
<1> QED
  BY <1>1, <1>2, ShapeInit, ShapeNext, ModeInit, PTL DEF SsSpec
=============================================================================
