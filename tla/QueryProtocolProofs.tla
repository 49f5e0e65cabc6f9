------------------------ MODULE QueryProtocolProofs ------------------------
(***************************************************************************)
(* exec is serial execution, for any statements in any number, any number  *)
(* of asynchronous exceptions and of rows: QueryProtocol implements        *)
(* SerialExec.                                                             *)
(*                                                                         *)
(* The invariant describes what can be on its way between the client and   *)
(* the server.  Everything in it belongs to the last statement sent, and   *)
(* it ends with that statement's final result and ReadyForQuery; a client  *)
(* that is idle has taken all of it.                                       *)
(***************************************************************************)
EXTENDS QueryProtocol, SequenceTheorems, TLAPS

XStates == {"idle", "intrans", "inerror"}
Message ==
  [t : {"result", "error", "copy_in", "copy_out", "data", "copydone"}, id : Nat, last : BOOLEAN]
    \cup [t : {"ready"}, id : Nat, last : BOOLEAN, x : XStates]
Request == [t : {"query"}, id : Nat, kind : AllKinds]
             \cup [t : {"copyend"}, id : Nat, kind : {"done", "fail"}]

StreamTypeOK ==
  /\ async \in {"idle", "busy", "copy_in", "copy_out"}
  /\ xact \in XStates /\ srvXact \in XStates
  /\ inbuf \in Seq(Message) /\ toSrv \in Seq(Request)
  /\ srv \in [st : {"idle", "running", "copy_in", "copy_out", "finished"}, id : Nat,
              kind : AllKinds \cup {"none"}]
  /\ nStmt \in Nat

Final(m) == m.last /\ m.t \in {"result", "error"}
Newest(s) == s[Len(s)]

(* The last statement sent is still on its way to the server. *)
Pending == toSrv # <<>> /\ Newest(toSrv).t = "query"
LastKind == IF Pending THEN Newest(toSrv).kind ELSE srv.kind

EndsFirst(q) == \A i \in 1..Len(q) : i < Len(q) => q[i].t = "copyend"

(* Only ends of COPYs that the server has given up are before a statement, *)
(* and nothing comes in for it as long as it is on its way.                *)
Outgoing ==
  /\ EndsFirst(toSrv)
  /\ Pending => /\ srv.st = "idle" /\ inbuf = <<>> /\ async = "busy"
                /\ nStmt = srv.id + 1 /\ Newest(toSrv).id = nStmt
  /\ ~Pending => srv.id = nStmt

(* What comes in answers the last statement; its final result is right     *)
(* before ReadyForQuery, which is the last message, and a COPY begins with *)
(* the first one.  b are the messages, s the state of the server, n the    *)
(* statement and x the transaction's state.                                *)
NoCopy(b) == \A i \in 1..Len(b) : b[i].t \notin CopyStates

Stream(b, s, n, x) ==
  /\ \A i \in 1..Len(b) :
       /\ b[i].id = n
       /\ b[i].t \in CopyStates => i = 1 /\ b[i].t = s.kind
       /\ b[i].t = "ready" => i = Len(b) /\ b[i].x = x
       /\ i < Len(b) /\ b[i + 1].t = "ready" => Final(b[i])
  /\ b # <<>> => /\ s.st = "idle" <=> Newest(b).t = "ready"
                 /\ s.st = "finished" => Final(Newest(b))
                 /\ s.st = "running" => s.kind \notin CopyStates

Incoming == Stream(inbuf, srv, nStmt, srvXact)

(* An idle client has taken everything, and another one has something to   *)
(* wait for.                                                               *)
InStep ==
  /\ async = "idle" => inbuf = <<>> /\ srv.st = "idle" /\ xact = srvXact
  /\ async # "idle" /\ ~Pending /\ inbuf = <<>> => srv.st # "idle"
  /\ async \in CopyStates => /\ async = srv.kind /\ ~Pending
                             /\ srv.st # "running" /\ NoCopy(inbuf)

(* COMMIT and ROLLBACK end the transaction, whether they succeed or not. *)
Ended ==
  /\ srv.st \in CopyStates => srv.st = srv.kind
  /\ srv.kind \in EndKinds /\ srv.st \in {"idle", "finished"} => srvXact = "idle"

StreamInv == StreamTypeOK /\ Outgoing /\ Incoming /\ InStep /\ Ended

(* The call in progress, as far as it is exec. *)
CallTypeOK ==
  /\ status \in {"ok", "lost", "bad"}
  /\ nInt \in Nat
  /\ pc \in {"ready", "discard", "discard_loop", "discard_rows", "send", "result", "get",
             "block", "row"}
  /\ call \in [name : {"none", "exec", "send_query", "discard_results", "get_last_result",
                       "get_result", "block", "get_copy_data", "put_copy_end"},
               kind : AllKinds \cup {"none"}, id : Nat]
  /\ prev = NoResult \/ prev \in Message

ReadyNext ==
  \/ inbuf # <<>> /\ Head(inbuf).t = "ready"
  \/ inbuf = <<>> /\ ~Pending /\ srv.st = "finished"

ExecInv ==
  /\ pc = "send" => call.name = "exec" /\ (async = "idle" \/ status = "bad")
  /\ call.name = "exec" =>
       /\ call.kind \in AllKinds
       /\ pc \in {"ready", "discard", "discard_loop", "discard_rows", "send", "result"}
       /\ pc = "result" =>
            /\ async = "busy" /\ LastKind = call.kind
            /\ ReadyNext => Final(prev) /\ prev.id = nStmt
       /\ pc = "ready" =>
            /\ \/ ret \in {"ok", "error", "nil", "interrupt"}
               \/ ret \in {"unable", "conn_bad"} /\ status = "bad"
            /\ ret \in {"ok", "error", "nil"} =>
                 /\ ret = Checked(prev)
                 /\ async = "idle" \/ prev.t \in CopyStates
                 /\ LastKind = call.kind /\ (prev.t \in CopyStates => prev.t = call.kind)

QPInv == StreamInv /\ CallTypeOK /\ ExecInv

-----------------------------------------------------------------------------
(* Lists of messages and requests *)

LEMMA EmptyLength == ASSUME NEW S, NEW s \in Seq(S) PROVE s = <<>> <=> Len(s) = 0
OBVIOUS

LEMMA MsgTyped ==
  ASSUME NEW t \in {"result", "error", "copy_in", "copy_out", "data", "copydone"},
         NEW i \in Nat, NEW l \in BOOLEAN
  PROVE  Msg(t, i, l) \in Message
BY DEF Msg, Message

(* A message at the end keeps the order, if the server's state fits to it. *)
LEMMA Emitted ==
  ASSUME NEW b \in Seq(Message), NEW m \in Message, NEW s, NEW s2, NEW n, NEW x, NEW x2,
         Stream(b, s, n, x), s.st # "idle", s2.kind = s.kind, m.id = n,
         m.t \in CopyStates => m.t = s.kind /\ s.st = "running",
         m.t = "ready" => s.st = "finished" /\ m.x = x2,
         s2.st = "running" => s.kind \notin CopyStates,
         s2.st = "idle" <=> m.t = "ready",
         s2.st = "finished" => Final(m)
  PROVE  /\ Append(b, m) \in Seq(Message) /\ Append(b, m) # <<>>
         /\ Stream(Append(b, m), s2, n, x2)
         /\ Head(Append(b, m)) = IF b = <<>> THEN m ELSE Head(b)
         /\ NoCopy(b) /\ m.t \notin CopyStates => NoCopy(Append(b, m))
<1> DEFINE c == Append(b, m)
<1>1. /\ c \in Seq(Message) /\ Len(c) = Len(b) + 1 /\ Len(b) \in Nat /\ c # <<>>
      /\ \A i \in 1..Len(b) : c[i] = b[i]
      /\ c[Len(b) + 1] = m
      /\ Head(c) = IF b = <<>> THEN m ELSE Head(b)
  OBVIOUS
<1> HIDE DEF c
<1>2. /\ \A i \in 1..Len(b) : b[i].t # "ready"
      /\ m.t \in CopyStates => Len(b) = 0
  BY EmptyLength DEF Stream, Newest
<1>3. ASSUME NEW i \in 1..Len(c)
      PROVE  /\ c[i].id = n
             /\ c[i].t \in CopyStates => i = 1 /\ c[i].t = s2.kind
             /\ c[i].t = "ready" => i = Len(c) /\ c[i].x = x2
             /\ i < Len(c) /\ c[i + 1].t = "ready" => Final(c[i])
  <2>1. CASE i = Len(c)
    BY <1>1, <1>2, <2>1
  <2>2. CASE i < Len(b)
    <3>1. i \in 1..Len(b) /\ i + 1 \in 1..Len(b)
      BY <1>1, <1>3, <2>2
    <3> QED
      BY <1>1, <1>2, <3>1 DEF Stream
  <2>3. CASE i = Len(b)
    <3>1. i \in 1..Len(b) /\ c[i] = Newest(b) /\ c[i + 1] = m /\ b # <<>>
      BY <1>1, <1>3, <2>3 DEF Newest
    <3> QED
      BY <1>1, <1>2, <2>3, <3>1 DEF Stream
  <2> QED
    BY <1>1, <1>3, <2>1, <2>2, <2>3
<1>4. Newest(c) = m
  BY <1>1 DEF Newest
<1>5. Stream(c, s2, n, x2)
  BY <1>3, <1>4 DEF Stream
<1>6. NoCopy(b) /\ m.t \notin CopyStates => NoCopy(c)
  BY <1>1 DEF NoCopy
<1> QED
  BY <1>1, <1>5, <1>6 DEF c

(* The first message is taken. *)
LEMMA Taken ==
  ASSUME NEW b \in Seq(Message), b # <<>>, NEW s, NEW n, NEW x, Stream(b, s, n, x)
  PROVE  /\ Tail(b) \in Seq(Message) /\ Stream(Tail(b), s, n, x)
         /\ Head(b) \in Message /\ Head(b).id = n
         /\ Head(b).t \in CopyStates => Head(b).t = s.kind
         /\ Head(b).t = "ready" => Tail(b) = <<>> /\ s.st = "idle" /\ Head(b).x = x
         /\ NoCopy(Tail(b))
         /\ Tail(b) = <<>> => Head(b) = Newest(b)
         /\ Tail(b) # <<>> /\ Head(Tail(b)).t = "ready" => Final(Head(b))
<1> DEFINE c == Tail(b)
<1>1. /\ c \in Seq(Message) /\ Len(c) = Len(b) - 1 /\ Len(b) \in Nat /\ Len(b) > 0
      /\ \A i \in 1..Len(c) : c[i] = b[i + 1]
      /\ Head(b) = b[1] /\ Head(b) \in Message
      /\ c = <<>> <=> Len(b) = 1
      /\ c # <<>> => Head(c) = b[2]
  <2>1. /\ c \in Seq(Message) /\ Len(c) = Len(b) - 1 /\ Len(b) \in Nat /\ Len(b) > 0
        /\ \A i \in 1..Len(c) : c[i] = b[i + 1]
        /\ Head(b) = b[1] /\ Head(b) \in Message
    BY HeadTailProperties, LenProperties
  <2> HIDE DEF c
  <2>2. c = <<>> <=> Len(c) = 0
    BY <2>1
  <2>3. c # <<>> => Head(c) = c[1] /\ 1 \in 1..Len(c)
    BY <2>1
  <2> QED
    BY <2>1, <2>2, <2>3
<1> HIDE DEF c
<1>2. ASSUME NEW i \in 1..Len(c)
      PROVE  /\ c[i].id = n
             /\ c[i].t \notin CopyStates
             /\ c[i].t = "ready" => i = Len(c) /\ c[i].x = x
             /\ i < Len(c) /\ c[i + 1].t = "ready" => Final(c[i])
  <2>1. i + 1 \in 1..Len(b) /\ (i < Len(c) => i + 1 \in 1..Len(c))
    BY <1>1, <1>2
  <2>2. c[i] = b[i + 1] /\ (i < Len(c) => c[i + 1] = b[i + 2]) /\ (i = Len(c) <=> i + 1 = Len(b))
    BY <1>1, <1>2, <2>1
  <2> QED
    BY <1>1, <1>2, <2>1, <2>2, SMTT(30) DEF Stream
<1>3. c # <<>> => Newest(c) = Newest(b)
  BY <1>1 DEF Newest
<1>4. Stream(c, s, n, x)
  BY <1>2, <1>3 DEF Stream
<1>5. 1 \in 1..Len(b)
  BY <1>1
<1>6. /\ Head(b).id = n
      /\ Head(b).t \in CopyStates => Head(b).t = s.kind
      /\ Head(b).t = "ready" => c = <<>> /\ s.st = "idle" /\ Head(b).x = x
      /\ c = <<>> => Head(b) = Newest(b)
      /\ c # <<>> /\ Head(c).t = "ready" => Final(Head(b))
  BY <1>1, <1>5 DEF Stream, Newest
<1>7. NoCopy(c)
  BY <1>2 DEF NoCopy
<1> QED
  BY <1>1, <1>4, <1>6, <1>7 DEF c

LEMMA Asked ==
  ASSUME StreamInv, ~Pending, NEW r \in Request, toSrv' = Append(toSrv, r)
  PROVE  /\ toSrv' \in Seq(Request) /\ toSrv' # <<>> /\ Newest(toSrv') = r
         /\ EndsFirst(toSrv')
<1>1. /\ toSrv \in Seq(Request) /\ EndsFirst(toSrv)
      /\ toSrv # <<>> => Newest(toSrv).t = "copyend"
  <2>1. toSrv \in Seq(Request) /\ EndsFirst(toSrv)
    BY DEF StreamInv, StreamTypeOK, Outgoing, EndsFirst
  <2>2. toSrv # <<>> => Newest(toSrv) \in Request
    BY <2>1 DEF Newest
  <2> QED
    BY <2>1, <2>2 DEF Pending, Request
<1>2. /\ toSrv' \in Seq(Request) /\ Len(toSrv') = Len(toSrv) + 1 /\ Len(toSrv) \in Nat
      /\ toSrv' # <<>> /\ toSrv'[Len(toSrv) + 1] = r
      /\ \A i \in 1..Len(toSrv) : toSrv'[i] = toSrv[i]
      /\ Len(toSrv) > 0 => toSrv # <<>>
  BY <1>1
<1>3. ASSUME NEW i \in 1..Len(toSrv'), i < Len(toSrv')
      PROVE  toSrv'[i].t = "copyend"
  <2>1. i \in 1..Len(toSrv) /\ (i < Len(toSrv) \/ i = Len(toSrv))
    BY <1>2, <1>3
  <2> QED
    BY <1>1, <1>2, <2>1 DEF EndsFirst, Newest
<1> QED
  BY <1>2, <1>3 DEF EndsFirst, Newest

LEMMA Read ==
  ASSUME StreamInv, toSrv # <<>>, toSrv' = Tail(toSrv)
  PROVE  /\ toSrv' \in Seq(Request) /\ EndsFirst(toSrv') /\ Head(toSrv) \in Request
         /\ Head(toSrv).t = "query" =>
              Pending /\ ~Pending' /\ toSrv' = <<>> /\ Newest(toSrv) = Head(toSrv)
         /\ Head(toSrv).t # "query" =>
              (Pending' <=> Pending) /\ (Pending => Newest(toSrv') = Newest(toSrv))
<1>1. /\ toSrv \in Seq(Request) /\ EndsFirst(toSrv)
  BY DEF StreamInv, StreamTypeOK, Outgoing, EndsFirst
<1>2. /\ toSrv' \in Seq(Request) /\ Len(toSrv') = Len(toSrv) - 1 /\ Len(toSrv) \in Nat
      /\ Len(toSrv) > 0 /\ \A i \in 1..Len(toSrv') : toSrv'[i] = toSrv[i + 1]
      /\ Head(toSrv) = toSrv[1] /\ Head(toSrv) \in Request
  BY <1>1, HeadTailProperties, LenProperties
<1>3. toSrv' = <<>> <=> Len(toSrv) = 1
  <2>1. toSrv' = <<>> <=> Len(toSrv') = 0
    BY <1>2, EmptyLength, Zenon
  <2> QED
    BY <1>2, <2>1
<1>4. EndsFirst(toSrv')
  <2>1. \A i \in 1..Len(toSrv') : i + 1 \in 1..Len(toSrv) /\ (i < Len(toSrv') => i + 1 < Len(toSrv))
    BY <1>2
  <2> QED
    BY <1>1, <1>2, <2>1 DEF EndsFirst
<1>5. toSrv' # <<>> => Newest(toSrv') = Newest(toSrv)
  BY <1>2, <1>3 DEF Newest
<1>6. Head(toSrv).t = "query" => Len(toSrv) = 1
  BY <1>1, <1>2 DEF EndsFirst
<1> QED
  BY <1>2, <1>3, <1>4, <1>5, <1>6 DEF Pending, Newest

-----------------------------------------------------------------------------
(* The server *)

(* A step of the server goes on with the last statement. *)
GoesOn ==
  /\ StreamInv' /\ LastKind' = LastKind /\ (ReadyNext' => ReadyNext)
  /\ UNCHANGED <<async, nStmt>>

(* Nothing happens to the statement. *)
LEMMA StreamSame ==
  ASSUME StreamInv, UNCHANGED <<async, xact, inbuf, toSrv, srv, srvXact, nStmt>>
  PROVE  GoesOn
<1>1. Pending' = Pending
  BY DEF Pending, Newest
<1>2. StreamTypeOK' /\ Outgoing' /\ Incoming' /\ InStep' /\ Ended'
  BY <1>1 DEF StreamInv, StreamTypeOK, Outgoing, EndsFirst, Newest, Incoming, Stream, InStep, Ended
<1> QED
  BY <1>1, <1>2 DEF GoesOn, StreamInv, LastKind, ReadyNext, Newest

(* It sends something and is then in state st. *)
LEMMA Sends ==
  ASSUME StreamInv, NEW st \in {"running", "copy_in", "copy_out", "finished", "idle"},
         srv.st # "idle", srv' = [srv EXCEPT !.st = st], srvXact' \in XStates,
         st \in CopyStates => st = srv.kind,
         srv.kind \in EndKinds /\ st \in {"idle", "finished"} => srvXact' = "idle",
         inbuf' \in Seq(Message), inbuf' # <<>>, Stream(inbuf', srv', nStmt, srvXact'),
         Head(inbuf').t = "ready" => ReadyNext,
         async \in CopyStates => st # "running" /\ NoCopy(inbuf'),
         EndsFirst(toSrv'), toSrv' \in Seq(Request), ~Pending',
         UNCHANGED <<async, xact, nStmt>>
  PROVE  GoesOn
<1>1. ~Pending /\ srv.id = nStmt
  BY DEF StreamInv, Outgoing
<1>2. /\ srv' \in [st : {"idle", "running", "copy_in", "copy_out", "finished"}, id : Nat,
                   kind : AllKinds \cup {"none"}]
      /\ srv'.st = st /\ srv'.kind = srv.kind /\ srv'.id = srv.id
  BY DEF StreamInv, StreamTypeOK
<1>3. StreamTypeOK'
  BY <1>2 DEF StreamInv, StreamTypeOK
<1>4. Outgoing' /\ Incoming'
  BY <1>1, <1>2 DEF Outgoing, Incoming
<1>5. InStep' /\ Ended'
  BY <1>1, <1>2 DEF StreamInv, InStep, Ended
<1>6. LastKind' = LastKind
  BY <1>1, <1>2 DEF LastKind
<1>7. ReadyNext' => ReadyNext
  BY DEF ReadyNext
<1> QED
  BY <1>3, <1>4, <1>5, <1>6, <1>7 DEF GoesOn, StreamInv

LEMMA SendsOne ==
  ASSUME StreamInv, NEW m \in Message,
         NEW st \in {"running", "copy_in", "copy_out", "finished", "idle"},
         inbuf' = Append(inbuf, m), srv' = [srv EXCEPT !.st = st], srvXact' \in XStates,
         srv.st # "idle", m.id = srv.id,
         m.t \in CopyStates => m.t = srv.kind /\ srv.st = "running",
         st = "running" => srv.st = "running" /\ srv.kind \notin CopyStates,
         m.t = "ready" => srv.st = "finished" /\ m.x = srvXact',
         st = "idle" <=> m.t = "ready",
         st = "finished" => Final(m),
         st \in CopyStates => st = srv.kind,
         srv.kind \in EndKinds /\ st \in {"idle", "finished"} => srvXact' = "idle",
         EndsFirst(toSrv'), toSrv' \in Seq(Request), ~Pending',
         UNCHANGED <<async, xact, nStmt>>
  PROVE  GoesOn
<1>1. ~Pending /\ srv.id = nStmt /\ srv'.st = st /\ srv'.kind = srv.kind
  BY DEF StreamInv, StreamTypeOK, Outgoing
<1>2. /\ inbuf' \in Seq(Message) /\ inbuf' # <<>>
      /\ Stream(inbuf', srv', nStmt, srvXact')
      /\ Head(inbuf') = IF inbuf = <<>> THEN m ELSE Head(inbuf)
      /\ NoCopy(inbuf) /\ m.t \notin CopyStates => NoCopy(inbuf')
  BY <1>1, Emitted DEF StreamInv, StreamTypeOK, Incoming
<1>3. Head(inbuf').t = "ready" => ReadyNext
  BY <1>1, <1>2 DEF ReadyNext
<1>4. async \in CopyStates => st # "running" /\ NoCopy(inbuf')
  BY <1>2 DEF StreamInv, InStep
<1> QED
  BY <1>2, <1>3, <1>4, Sends

LEMMA FailsGoesOn ==
  ASSUME StreamInv, srv.st \in {"running", "copy_in", "copy_out"}, Fails,
         UNCHANGED <<async, xact, toSrv, nStmt>>
  PROVE  GoesOn
<1> DEFINE m == Msg("error", srv.id, TRUE)
<1>1. m \in Message /\ m.t = "error" /\ m.id = srv.id /\ Final(m)
  BY MsgTyped DEF Msg, Final, StreamInv, StreamTypeOK
<1>2. /\ inbuf' = Append(inbuf, m) /\ srv' = [srv EXCEPT !.st = "finished"]
      /\ srvXact' \in XStates /\ (srv.kind \in EndKinds => srvXact' = "idle")
  BY DEF Fails, Emit, XStates
<1>3. EndsFirst(toSrv') /\ toSrv' \in Seq(Request) /\ ~Pending'
  BY DEF StreamInv, StreamTypeOK, Outgoing, Pending
<1> HIDE DEF m
<1> QED
  BY <1>1, <1>2, <1>3, SendsOne DEF CopyStates

(* A cancel request that reaches the server *)
LEMMA CancelledGoesOn ==
  ASSUME StreamInv, Cancelled, UNCHANGED <<async, xact, toSrv, nStmt>>
  PROVE  GoesOn
<1>1. CASE Up /\ srv.st \in {"running", "copy_in", "copy_out"}
  BY <1>1, FailsGoesOn DEF Cancelled
<1>2. CASE ~(Up /\ srv.st \in {"running", "copy_in", "copy_out"})
  BY <1>2, StreamSame DEF Cancelled
<1> QED
  BY <1>1, <1>2

LEMMA StartGoesOn == ASSUME StreamInv, SrvStart PROVE GoesOn
<1>1. /\ srv.st = "idle" /\ toSrv # <<>> /\ toSrv' = Tail(toSrv)
      /\ srv' = IF Head(toSrv).t = "query"
                THEN [st |-> "running", id |-> Head(toSrv).id, kind |-> Head(toSrv).kind]
                ELSE srv
      /\ UNCHANGED <<async, xact, inbuf, srvXact, nStmt>>
  BY DEF SrvStart, libpqVars, rubyVars
<1>2. /\ toSrv' \in Seq(Request) /\ EndsFirst(toSrv') /\ Head(toSrv) \in Request
      /\ Head(toSrv).t = "query" =>
           Pending /\ ~Pending' /\ toSrv' = <<>> /\ Newest(toSrv) = Head(toSrv)
      /\ Head(toSrv).t # "query" =>
           (Pending' <=> Pending) /\ (Pending => Newest(toSrv') = Newest(toSrv))
  BY <1>1, Read
<1>3. CASE Head(toSrv).t = "query"
  <2>1. /\ Pending /\ ~Pending' /\ inbuf' = <<>> /\ async' = "busy"
        /\ srv'.st = "running" /\ srv'.id = nStmt /\ srv'.kind = Newest(toSrv).kind
    BY <1>1, <1>2, <1>3 DEF StreamInv, Outgoing
  <2>2. srv' \in [st : {"idle", "running", "copy_in", "copy_out", "finished"}, id : Nat,
                  kind : AllKinds \cup {"none"}]
    BY <1>1, <1>2, <1>3 DEF Request
  <2>3. StreamTypeOK'
    BY <1>1, <1>2, <2>2 DEF StreamInv, StreamTypeOK
  <2>4. Outgoing' /\ Incoming' /\ InStep' /\ Ended'
    BY <1>1, <1>2, <2>1 DEF Outgoing, Incoming, Stream, InStep, Ended, CopyStates
  <2> QED
    BY <1>1, <2>1, <2>3, <2>4 DEF GoesOn, StreamInv, LastKind, ReadyNext
<1>4. CASE Head(toSrv).t # "query"
  <2>1. /\ Pending' <=> Pending
        /\ Pending => Newest(toSrv') = Newest(toSrv)
        /\ srv' = srv
    BY <1>1, <1>2, <1>4
  <2>2. StreamTypeOK' /\ Outgoing' /\ Incoming' /\ InStep' /\ Ended'
    BY <1>1, <1>2, <2>1
    DEF StreamInv, StreamTypeOK, Outgoing, Incoming, Stream, Newest, InStep, Ended
  <2> QED
    BY <1>1, <2>1, <2>2 DEF GoesOn, StreamInv, LastKind, ReadyNext
<1> QED
  BY <1>3, <1>4

LEMMA FinishGoesOn == ASSUME StreamInv, SrvFinish PROVE GoesOn
<1> DEFINE m == Msg("result", srv.id, TRUE)
           d == Msg("copydone", srv.id, FALSE)
<1>1. /\ srv' = [srv EXCEPT !.st = "finished"] /\ srv.st \in {"running", "copy_out"}
      /\ srv.kind \in EndKinds => srvXact' = "idle"
      /\ UNCHANGED <<async, xact, toSrv, nStmt>>
      /\ srvXact' \in XStates
      /\ inbuf' = IF srv.st = "copy_out" THEN inbuf \o <<d, m>> ELSE Append(inbuf, m)
  BY DEF SrvFinish, rubyVars, XStates, StreamInv, StreamTypeOK, EndKinds
<1>2. /\ m \in Message /\ m.t = "result" /\ m.id = srv.id /\ Final(m)
      /\ d \in Message /\ d.t = "copydone" /\ d.id = srv.id
  BY MsgTyped DEF Msg, Final, StreamInv, StreamTypeOK
<1>3. EndsFirst(toSrv') /\ toSrv' \in Seq(Request) /\ ~Pending' /\ srv.id = nStmt
  BY <1>1 DEF StreamInv, StreamTypeOK, Outgoing, Pending
<1> HIDE DEF m, d
<1>4. CASE srv.st # "copy_out"
  BY <1>1, <1>2, <1>3, <1>4, SendsOne DEF CopyStates
<1>5. CASE srv.st = "copy_out"
  <2> DEFINE c == Append(inbuf, d)
  <2>1. /\ c \in Seq(Message) /\ c # <<>> /\ Stream(c, srv, nStmt, srvXact)
        /\ Head(c) = IF inbuf = <<>> THEN d ELSE Head(inbuf)
        /\ NoCopy(inbuf) => NoCopy(c)
    BY <1>2, <1>3, <1>5, Emitted DEF StreamInv, StreamTypeOK, Incoming, CopyStates
  <2>2. inbuf' = Append(c, m)
    BY <1>1, <1>2, <1>5 DEF StreamInv, StreamTypeOK
  <2> HIDE DEF c
  <2>3. srv'.st = "finished" /\ srv'.kind = srv.kind
    BY <1>1 DEF StreamInv, StreamTypeOK
  <2>4. /\ inbuf' \in Seq(Message) /\ inbuf' # <<>>
        /\ Stream(inbuf', srv', nStmt, srvXact')
        /\ Head(inbuf') = Head(c)
        /\ NoCopy(inbuf) => NoCopy(inbuf')
    BY <1>2, <1>3, <1>5, <2>1, <2>2, <2>3, Emitted DEF CopyStates
  <2>5. Head(inbuf').t = "ready" => ReadyNext
    BY <1>2, <2>1, <2>4 DEF ReadyNext
  <2>6. async \in CopyStates => NoCopy(inbuf')
    BY <2>4 DEF StreamInv, InStep
  <2> QED
    BY <1>1, <1>3, <2>4, <2>5, <2>6, Sends DEF CopyStates
<1> QED
  BY <1>4, <1>5

LEMMA ServerGoesOn == ASSUME StreamInv, Server PROVE GoesOn
<1>1. /\ srv.st # "idle" => ~Pending /\ srv.id = nStmt
      /\ toSrv \in Seq(Request) /\ EndsFirst(toSrv)
      /\ (toSrv' = toSrv => (Pending' <=> Pending))
      /\ srv.id \in Nat /\ srvXact \in XStates
      /\ srv.st = "running" => srv = [srv EXCEPT !.st = "running"]
      /\ srv.st = "copy_out" => srv = [srv EXCEPT !.st = "copy_out"]
      /\ srv.st \in CopyStates => srv.st = srv.kind
  BY DEF StreamInv, StreamTypeOK, Outgoing, Pending, Ended
<1>2. CASE SrvMore
  <2> DEFINE m == Msg("result", srv.id, FALSE)
  <2>1. m \in Message /\ m.t = "result" /\ m.id = srv.id
    BY <1>1, MsgTyped DEF Msg
  <2>2. inbuf' = Append(inbuf, m) /\ srv' = [srv EXCEPT !.st = "running"] /\ srv.st = "running"
        /\ srv.kind \notin CopyStates /\ UNCHANGED <<async, xact, toSrv, srvXact, nStmt>>
    BY <1>1, <1>2 DEF SrvMore, Emit, rubyVars, CopyStates
  <2> HIDE DEF m
  <2> QED
    BY <1>1, <2>1, <2>2, SendsOne DEF CopyStates
<1>3. CASE SrvCopyStart
  <2> DEFINE m == Msg(srv.kind, srv.id, FALSE)
  <2>1. srv.st = "running" /\ srv.kind \in CopyStates
    BY <1>3 DEF SrvCopyStart
  <2>2. m \in Message /\ m.t = srv.kind /\ m.id = srv.id
    BY <1>1, <2>1, MsgTyped DEF Msg, CopyStates
  <2>3. /\ inbuf' = Append(inbuf, m) /\ srv' = [srv EXCEPT !.st = srv.kind]
        /\ UNCHANGED <<async, xact, toSrv, srvXact, nStmt>>
    BY <1>3 DEF SrvCopyStart, Emit, rubyVars
  <2>4. srv.kind \notin {"ready", "finished", "idle"} /\ srv.kind \in {"copy_in", "copy_out"}
    BY <2>1 DEF CopyStates
  <2> HIDE DEF m
  <2> QED
    BY <1>1, <2>1, <2>2, <2>3, <2>4, SendsOne
<1>4. CASE SrvData
  <2> DEFINE m == Msg("data", srv.id, FALSE)
  <2>1. m \in Message /\ m.t = "data" /\ m.id = srv.id
    BY <1>1, MsgTyped DEF Msg
  <2>2. inbuf' = Append(inbuf, m) /\ srv' = [srv EXCEPT !.st = "copy_out"] /\ srv.st = "copy_out"
        /\ UNCHANGED <<async, xact, toSrv, srvXact, nStmt>>
    BY <1>1, <1>4 DEF SrvData, Emit, rubyVars
  <2> HIDE DEF m
  <2> QED
    BY <1>1, <2>1, <2>2, SendsOne DEF CopyStates
<1>5. CASE SrvCopyEnd
  <2> DEFINE m == Msg(IF Head(toSrv).kind = "fail" THEN "error" ELSE "result", srv.id, TRUE)
  <2>1. m \in Message /\ m.t \in {"error", "result"} /\ m.id = srv.id /\ Final(m)
    BY <1>1, MsgTyped DEF Msg, Final
  <2>2. /\ inbuf' = Append(inbuf, m) /\ srv' = [srv EXCEPT !.st = "finished"]
        /\ srv.st = "copy_in" /\ toSrv # <<>> /\ toSrv' = Tail(toSrv)
        /\ UNCHANGED <<async, xact, nStmt>>
        /\ srvXact' = srvXact \/ srvXact' = "inerror"
    BY <1>5 DEF SrvCopyEnd, Emit, rubyVars
  <2>3. toSrv' \in Seq(Request) /\ EndsFirst(toSrv') /\ ~Pending'
    BY <1>1, <2>2, Read
  <2>4. srvXact' \in XStates
    BY <1>1, <2>2 DEF XStates
  <2> HIDE DEF m
  <2>5. srv.kind \notin EndKinds
    BY <1>1, <2>2 DEF EndKinds, CopyStates
  <2> QED
    BY <1>1, <2>1, <2>2, <2>3, <2>4, <2>5, SendsOne DEF CopyStates
<1>6. CASE SrvReady
  <2> DEFINE m == [t |-> "ready", id |-> srv.id, last |-> TRUE, x |-> srvXact]
  <2>1. m \in Message /\ m.t = "ready" /\ m.id = srv.id /\ m.x = srvXact
    BY <1>1 DEF Message
  <2>2. inbuf' = Append(inbuf, m) /\ srv' = [srv EXCEPT !.st = "idle"] /\ srv.st = "finished"
        /\ UNCHANGED <<async, xact, toSrv, srvXact, nStmt>>
    BY <1>6 DEF SrvReady, Emit, rubyVars
  <2> HIDE DEF m
  <2>3. srv.kind \in EndKinds => srvXact = "idle"
    BY <2>2 DEF StreamInv, Ended
  <2> QED
    BY <1>1, <2>1, <2>2, <2>3, SendsOne DEF CopyStates
<1>7. CASE SrvError
  BY <1>7, FailsGoesOn DEF SrvError, rubyVars
<1> QED
  BY <1>2, <1>3, <1>4, <1>5, <1>6, <1>7, StartGoesOn, FinishGoesOn DEF Server

-----------------------------------------------------------------------------
(* libpq *)

(* What PQgetResult returns, and what is left. *)
LEMMA GetResultKeeps ==
  ASSUME StreamInv, CallTypeOK, ~PQisBusy, PQgetResult, UNCHANGED <<toSrv, srv, srvXact, nStmt>>
  PROVE  /\ StreamInv' /\ LastKind' = LastKind
         /\ Got = NoResult \/ Got \in Message
         /\ Got.t = "none" => async' = "idle"
         /\ Got.t \in CopyStates => async' = Got.t /\ Got.t = LastKind
         /\ Got.t \notin {"none"} \cup CopyStates => async' = "busy"
         /\ async = "busy" => /\ ~Pending
                              /\ Got.t = "none" => ReadyNext
                              /\ Got.t # "none" => Got.id = nStmt
                              /\ Got.t # "none" /\ ReadyNext' => Final(Got)
<1>1. (Pending' <=> Pending) /\ LastKind' = LastKind
  BY DEF Pending, LastKind, Newest
<1>2. CASE async = "busy"
  <2>1. inbuf # <<>> /\ ~Pending /\ inbuf \in Seq(Message)
    BY <1>2 DEF PQisBusy, StreamInv, StreamTypeOK, Outgoing
  <2>2. /\ Tail(inbuf) \in Seq(Message) /\ Stream(Tail(inbuf), srv, nStmt, srvXact)
        /\ Head(inbuf) \in Message /\ Head(inbuf).id = nStmt
        /\ Head(inbuf).t \in CopyStates => Head(inbuf).t = srv.kind
        /\ Head(inbuf).t = "ready" => Tail(inbuf) = <<>> /\ srv.st = "idle" /\ Head(inbuf).x = srvXact
        /\ NoCopy(Tail(inbuf))
        /\ Tail(inbuf) = <<>> => Head(inbuf) = Newest(inbuf)
        /\ Tail(inbuf) # <<>> /\ Head(Tail(inbuf)).t = "ready" => Final(Head(inbuf))
    BY <2>1, Taken DEF StreamInv, Incoming
  <2>3. /\ inbuf' = Tail(inbuf)
        /\ async' = IF Head(inbuf).t = "ready" THEN "idle"
                    ELSE IF Head(inbuf).t \in CopyStates THEN Head(inbuf).t ELSE "busy"
        /\ xact' = IF Head(inbuf).t = "ready" THEN srvXact ELSE xact
    BY <1>2, <2>2 DEF PQgetResult, CopyStates
  <2>4. Got = IF Head(inbuf).t = "ready" THEN NoResult ELSE Head(inbuf)
    BY <1>2 DEF Got, CopyStates
  <2>5. Head(inbuf).t # "none"
    BY <2>2 DEF Message
  <2>6. Tail(inbuf) = <<>> /\ Head(inbuf).t # "ready" => srv.st # "idle"
    BY <2>1, <2>2 DEF StreamInv, Incoming, Stream
  <2>7. Tail(inbuf) = <<>> /\ srv.st = "finished" => Final(Head(inbuf))
    BY <2>1, <2>2 DEF StreamInv, Incoming, Stream
  <2>8. srv.st = "running" => Head(inbuf).t \notin CopyStates
    BY <2>1, <2>2 DEF StreamInv, Incoming, Stream
  <2>9. StreamTypeOK'
    BY <2>2, <2>3 DEF StreamInv, StreamTypeOK, CopyStates
  <2>10. Outgoing' /\ Incoming' /\ InStep' /\ Ended'
    BY <1>1, <2>1, <2>2, <2>3, <2>6, <2>8
    DEF StreamInv, Outgoing, Incoming, InStep, Ended, CopyStates
  <2>11. StreamInv'
    BY <2>9, <2>10 DEF StreamInv
  <2>12. /\ Got.t = "none" => Head(inbuf).t = "ready"
         /\ Got.t # "none" => Got = Head(inbuf) /\ Head(inbuf).t # "ready"
         /\ Got = NoResult \/ Got \in Message
    BY <2>2, <2>4, <2>5 DEF NoResult
  <2>13. Got.t # "none" /\ ReadyNext' => Final(Got)
    BY <1>1, <2>2, <2>3, <2>7, <2>12 DEF ReadyNext
  <2> QED
    BY <1>1, <2>1, <2>2, <2>3, <2>11, <2>12, <2>13 DEF ReadyNext, LastKind, CopyStates
<1>3. CASE async # "busy"
  <2>1. UNCHANGED <<async, inbuf, xact>>
    BY <1>3 DEF PQgetResult
  <2>2. StreamInv'
    BY <2>1, StreamSame DEF GoesOn
  <2>3. CASE async = "idle"
    <3>1. Got = NoResult
      BY <2>3 DEF Got, CopyStates
    <3> QED
      BY <1>1, <1>3, <2>1, <2>2, <2>3, <3>1 DEF NoResult, CopyStates
  <2>4. CASE async \in CopyStates
    <3>1. Got = Msg(async, call.id, FALSE) /\ Got.t = async
      BY <2>4 DEF Got, Msg, CopyStates
    <3>2. Got \in Message
      BY <2>4, <3>1, MsgTyped DEF CallTypeOK, CopyStates
    <3>3. async = LastKind
      BY <2>4 DEF StreamInv, InStep, LastKind
    <3> QED
      BY <1>1, <1>3, <2>1, <2>2, <2>4, <3>1, <3>2, <3>3 DEF CopyStates
  <2> QED
    BY <1>3, <2>3, <2>4 DEF StreamInv, StreamTypeOK, CopyStates
<1> QED
  BY <1>2, <1>3

LEMMA GetCopyDataKeeps ==
  ASSUME StreamInv, inbuf # <<>>, PQgetCopyData, UNCHANGED <<xact, toSrv, srv, srvXact, nStmt>>
  PROVE  /\ StreamInv' /\ LastKind' = LastKind
         /\ IF Head(inbuf).t = "data" THEN async' = async ELSE async' = "busy"
<1>1. (Pending' <=> Pending) /\ LastKind' = LastKind
  BY DEF Pending, LastKind, Newest
<1>2. ~Pending /\ inbuf \in Seq(Message) /\ async # "idle"
  BY DEF StreamInv, StreamTypeOK, Outgoing, InStep
<1>3. /\ Tail(inbuf) \in Seq(Message) /\ Stream(Tail(inbuf), srv, nStmt, srvXact)
      /\ Tail(inbuf) = <<>> => Head(inbuf) = Newest(inbuf)
      /\ NoCopy(Tail(inbuf))
  BY <1>2, Taken DEF StreamInv, Incoming
<1>4. \/ inbuf' = inbuf /\ async' = "busy"
      \/ inbuf' = Tail(inbuf) /\ async' \in {async, "busy"} /\ Head(inbuf).t \in {"data", "copydone"}
  BY DEF PQgetCopyData
<1>5. Tail(inbuf) = <<>> /\ Head(inbuf).t \in {"data", "copydone"} => srv.st # "idle"
  BY <1>2, <1>3 DEF StreamInv, Incoming, Stream
<1>6. StreamTypeOK'
  BY <1>2, <1>3, <1>4 DEF StreamInv, StreamTypeOK
<1>7. Incoming'
  BY <1>3, <1>4 DEF StreamInv, Incoming
<1>8. Outgoing' /\ InStep' /\ Ended'
  BY <1>1, <1>2, <1>3, <1>4, <1>5 DEF StreamInv, Outgoing, InStep, Ended, CopyStates
<1> QED
  BY <1>1, <1>6, <1>7, <1>8 DEF StreamInv, PQgetCopyData

LEMMA SendQueryKeeps ==
  ASSUME StreamInv, CanSend, NEW k \in AllKinds, PQsendQuery(k),
         UNCHANGED <<xact, inbuf, srv, srvXact>>
  PROVE  StreamInv' /\ LastKind' = k /\ ~ReadyNext' /\ srv.id = nStmt
<1> DEFINE r == [t |-> "query", id |-> nStmt + 1, kind |-> k]
<1>1. /\ async = "idle" /\ inbuf = <<>> /\ srv.st = "idle" /\ ~Pending /\ srv.id = nStmt
      /\ nStmt \in Nat
  BY DEF CanSend, StreamInv, StreamTypeOK, InStep, Outgoing
<1>2. r \in Request /\ r.t = "query" /\ r.id = nStmt + 1 /\ r.kind = k
  BY <1>1 DEF Request
<1>3. toSrv' = Append(toSrv, r) /\ async' = "busy" /\ nStmt' = nStmt + 1
  BY DEF PQsendQuery
<1> HIDE DEF r
<1>4. toSrv' \in Seq(Request) /\ toSrv' # <<>> /\ Newest(toSrv') = r /\ EndsFirst(toSrv')
  BY <1>1, <1>2, <1>3, Asked
<1>5. Pending' /\ LastKind' = k
  BY <1>2, <1>4 DEF Pending, LastKind, Newest
<1>6. StreamTypeOK'
  BY <1>1, <1>3, <1>4 DEF StreamInv, StreamTypeOK
<1>7. Incoming'
  BY <1>1 DEF Incoming, Stream
<1>8. Outgoing'
  BY <1>1, <1>2, <1>3, <1>4, <1>5 DEF Outgoing, Newest
<1>9. InStep' /\ Ended'
  BY <1>1, <1>3, <1>5 DEF StreamInv, InStep, Ended, CopyStates
<1> QED
  BY <1>1, <1>5, <1>6, <1>7, <1>8, <1>9 DEF StreamInv, ReadyNext

(* The end of a COPY FROM STDIN that the client knows of *)
LEMMA PutCopyEndKeeps ==
  ASSUME StreamInv, async = "copy_in", NEW how \in {"done", "fail"}, PQputCopyEnd(how),
         UNCHANGED <<xact, inbuf, srv, srvXact, nStmt>>
  PROVE  StreamInv' /\ LastKind' = LastKind /\ async' = "busy"
<1> DEFINE r == [t |-> "copyend", id |-> 0, kind |-> how]
<1>1. ~Pending
  BY DEF StreamInv, InStep, CopyStates
<1>2. r \in Request /\ r.t = "copyend"
  BY DEF Request
<1>3. toSrv' = Append(toSrv, r) /\ async' = "busy"
  BY DEF PQputCopyEnd
<1> HIDE DEF r
<1>4. toSrv' \in Seq(Request) /\ toSrv' # <<>> /\ Newest(toSrv') = r /\ EndsFirst(toSrv')
  BY <1>1, <1>2, <1>3, Asked
<1>5. ~Pending' /\ LastKind' = LastKind
  BY <1>1, <1>2, <1>4 DEF Pending, LastKind, Newest
<1>6. StreamTypeOK'
  BY <1>3, <1>4 DEF StreamInv, StreamTypeOK
<1>7. Incoming' /\ Outgoing' /\ InStep' /\ Ended'
  BY <1>1, <1>3, <1>4, <1>5
  DEF StreamInv, Incoming, Stream, Newest, Outgoing, InStep, Ended, CopyStates
<1> QED
  BY <1>3, <1>5, <1>6, <1>7 DEF StreamInv

(* One that comes in while results are discarded is ended at once. *)
LEMMA DiscardCopyInKeeps ==
  ASSUME StreamInv, CallTypeOK, ~PQisBusy, Got.t = "copy_in", discard_copy_in,
         UNCHANGED <<srv, srvXact, nStmt>>
  PROVE  StreamInv' /\ LastKind' = LastKind /\ async' = "busy"
<1>1. PQputCopyEnd("fail") /\ UNCHANGED xact
  BY DEF discard_copy_in
<1>2. CASE async = "copy_in"
  BY <1>1, <1>2, PutCopyEndKeeps DEF discard_copy_in
<1>3. CASE async = "busy"
  <2> DEFINE r == [t |-> "copyend", id |-> 0, kind |-> "fail"]
  <2>1. inbuf # <<>> /\ ~Pending /\ inbuf \in Seq(Message)
    BY <1>3 DEF PQisBusy, StreamInv, StreamTypeOK, Outgoing
  <2>2. inbuf' = Tail(inbuf) /\ toSrv' = Append(toSrv, r) /\ async' = "busy"
    BY <1>3 DEF discard_copy_in, PQputCopyEnd
  <2>3. r \in Request /\ r.t = "copyend"
    BY DEF Request
  <2> HIDE DEF r
  <2>4. Head(inbuf).t = "copy_in"
    BY <1>3 DEF Got, NoResult, CopyStates
  <2>5. /\ Tail(inbuf) \in Seq(Message) /\ Stream(Tail(inbuf), srv, nStmt, srvXact)
        /\ Tail(inbuf) = <<>> => Head(inbuf) = Newest(inbuf)
    BY <2>1, Taken DEF StreamInv, Incoming
  <2>6. Tail(inbuf) = <<>> => srv.st # "idle"
    BY <2>1, <2>4, <2>5 DEF StreamInv, Incoming, Stream
  <2>7. toSrv' \in Seq(Request) /\ toSrv' # <<>> /\ Newest(toSrv') = r /\ EndsFirst(toSrv')
    BY <2>1, <2>2, <2>3, Asked
  <2>8. ~Pending' /\ LastKind' = LastKind
    BY <2>1, <2>3, <2>7 DEF Pending, LastKind, Newest
  <2>9. StreamTypeOK'
    BY <1>1, <2>2, <2>5, <2>7 DEF StreamInv, StreamTypeOK
  <2>10. Incoming'
    BY <2>2, <2>5 DEF Incoming
  <2>11. Outgoing' /\ InStep' /\ Ended'
    BY <2>1, <2>2, <2>6, <2>7, <2>8 DEF StreamInv, Outgoing, InStep, Ended, CopyStates
  <2> QED
    BY <2>2, <2>8, <2>9, <2>10, <2>11 DEF StreamInv
<1> QED
  BY <1>2, <1>3 DEF StreamInv, StreamTypeOK, Got, Msg, NoResult, CopyStates

-----------------------------------------------------------------------------
(* Calls.  The invariant is kept by each step of QueryProtocol, and by     *)
(* what transaction and copy_data do with the connection.                  *)

(* Whatever goes on without the call in progress *)
LEMMA BackgroundKeeps ==
  ASSUME QPInv, GoesOn, UNCHANGED <<pc, call, prev, ret, nInt>>,
         status' = status \/ (status = "ok" /\ status' = "lost")
  PROVE  QPInv'
<1>1. CallTypeOK'
  BY DEF QPInv, CallTypeOK
<1>2. ExecInv'
  BY DEF QPInv, ExecInv, GoesOn, Final
<1> QED
  BY <1>1, <1>2 DEF QPInv, GoesOn

LEMMA ServerKeeps == ASSUME QPInv, Server PROVE QPInv'
<1>1. GoesOn
  BY ServerGoesOn DEF QPInv
<1>2. UNCHANGED <<status, rubyVars>>
  BY DEF Server, SrvStart, SrvMore, SrvFinish, SrvCopyStart, SrvData, SrvCopyEnd, SrvError,
         SrvReady, libpqVars
<1> QED
  BY <1>1, <1>2, BackgroundKeeps DEF rubyVars

LEMMA LoseKeeps == ASSUME QPInv, Lose PROVE QPInv'
<1>1. UNCHANGED <<async, xact, inbuf, srvVars, rubyVars>> /\ status = "ok" /\ status' = "lost"
  BY DEF Lose, Up
<1>2. GoesOn
  BY <1>1, StreamSame DEF QPInv, srvVars, rubyVars
<1> QED
  BY <1>1, <1>2, BackgroundKeeps DEF rubyVars

LEMMA SameKeeps == ASSUME QPInv, UNCHANGED qpVars PROVE QPInv'
<1>1. GoesOn
  BY StreamSame DEF QPInv, qpVars, libpqVars, srvVars, rubyVars
<1> QED
  BY <1>1, BackgroundKeeps DEF qpVars, libpqVars, rubyVars

(* The calls a program can make *)
CallNames == {"discard_results", "get_last_result", "get_result", "block", "get_copy_data"}
Phases == {"discard", "result", "get", "block", "row"}

LEMMA BeginKeeps ==
  ASSUME QPInv, GoesOn, UNCHANGED <<status, nInt>>,
         NEW name \in CallNames, NEW ph \in Phases, Begin(name, "none", ph)
  PROVE  QPInv'
<1>1. /\ pc' = ph /\ call' = [name |-> name, kind |-> "none", id |-> 0]
      /\ prev' = NoResult
  BY DEF Begin
<1>2. call'.name = name /\ name # "exec" /\ ph # "send"
  BY <1>1 DEF CallNames, Phases
<1>3. CallTypeOK'
  BY <1>1 DEF QPInv, CallTypeOK, CallNames, Phases
<1>4. ExecInv'
  BY <1>1, <1>2 DEF ExecInv
<1> QED
  BY <1>3, <1>4 DEF QPInv, GoesOn

LEMMA PlainKeeps ==
  ASSUME QPInv, NEW name \in CallNames, NEW ph \in Phases, Plain(name, ph)
  PROVE  QPInv'
<1>1. GoesOn
  BY StreamSame DEF Plain, QPInv, libpqVars, srvVars
<1> QED
  BY <1>1, BeginKeeps DEF Plain, libpqVars

LEMMA ExecKeeps == ASSUME QPInv, NEW k \in AllKinds, async_exec(k) PROVE QPInv'
<1>1. GoesOn
  BY StreamSame DEF async_exec, QPInv, libpqVars, srvVars
<1>2. /\ pc' = "discard" /\ call' = [name |-> "exec", kind |-> k, id |-> 0]
      /\ prev' = NoResult /\ UNCHANGED <<status, nInt>>
  BY DEF async_exec, Begin, libpqVars
<1>3. CallTypeOK'
  BY <1>2 DEF QPInv, CallTypeOK
<1>4. ExecInv'
  BY <1>2 DEF ExecInv
<1> QED
  BY <1>1, <1>3, <1>4 DEF QPInv, GoesOn

LEMMA SendQueryCallKeeps == ASSUME QPInv, NEW k \in AllKinds, send_query(k) PROVE QPInv'
<1>1. StreamInv'
  <2>1. CASE CanSend
    BY <2>1, SendQueryKeeps DEF send_query, QPInv
  <2>2. CASE ~CanSend
    BY <2>2, StreamSame DEF send_query, QPInv, GoesOn
  <2> QED
    BY <2>1, <2>2
<1>2. /\ pc' = "ready" /\ prev' = NoResult /\ UNCHANGED <<status, nInt>>
      /\ \E i \in Nat : call' = [name |-> "send_query", kind |-> k, id |-> i]
  BY DEF send_query, QPInv, StreamInv, StreamTypeOK
<1>3. CallTypeOK'
  BY <1>2 DEF QPInv, CallTypeOK
<1>4. ExecInv'
  BY <1>2 DEF ExecInv
<1> QED
  BY <1>1, <1>3, <1>4 DEF QPInv

LEMMA PutCopyEndCallKeeps ==
  ASSUME QPInv, NEW how \in {"done", "fail"}, put_copy_end(how) PROVE QPInv'
<1>1. StreamInv'
  <2>1. CASE async = "copy_in" /\ status # "bad"
    BY <2>1, PutCopyEndKeeps DEF put_copy_end, QPInv
  <2>2. CASE ~(async = "copy_in" /\ status # "bad")
    BY <2>2, StreamSame DEF put_copy_end, QPInv, GoesOn
  <2> QED
    BY <2>1, <2>2
<1>2. /\ pc' = "ready" /\ UNCHANGED <<prev, status, nInt>>
      /\ call' = [name |-> "put_copy_end", kind |-> "none", id |-> 0]
  BY DEF put_copy_end
<1>3. CallTypeOK'
  BY <1>2 DEF QPInv, CallTypeOK
<1>4. ExecInv'
  BY <1>2 DEF ExecInv
<1> QED
  BY <1>1, <1>3, <1>4 DEF QPInv

LEMMA ProgramKeeps == ASSUME QPInv, Program PROVE QPInv'
BY ExecKeeps, SendQueryCallKeeps, PlainKeeps, PutCopyEndCallKeeps, KindsAssumption
DEF Program, CallNames, Phases

(* The steps of a call.  discard_results leaves an idle connection to      *)
(* exec, or a broken one.                                                  *)
LEMMA DiscardedKeeps ==
  ASSUME QPInv, StreamInv', NEW how, Discarded(how), pc \in {"discard", "discard_loop", "discard_rows"},
         UNCHANGED <<call, prev, nInt>>, status' = status \/ status' = "bad",
         async' = "idle" \/ status' = "bad"
  PROVE  QPInv'
<1>1. \/ call.name = "exec" /\ pc' = "send"
      \/ call.name # "exec" /\ pc' = "ready"
  BY DEF Discarded, EndCall
<1>2. CallTypeOK'
  BY <1>1 DEF QPInv, CallTypeOK
<1>3. ExecInv'
  BY <1>1 DEF QPInv, ExecInv
<1> QED
  BY <1>2, <1>3 DEF QPInv

LEMMA DiscardKeeps ==
  ASSUME QPInv, discard_results \/ discard_results_get \/ discard_results_row \/ discard_results_error
  PROVE  QPInv'
<1>1. CASE discard_results
  <2>1. UNCHANGED <<libpqVars, srvVars, call, prev, nStmt, nInt>> /\ pc = "discard"
    BY <1>1 DEF discard_results
  <2>2. StreamInv'
    BY <2>1, StreamSame DEF QPInv, GoesOn, libpqVars, srvVars
  <2>3. CASE PQtransactionStatus \in {"idle", "intrans", "inerror"}
    <3>1. async' = "idle"
      BY <2>1, <2>3 DEF PQtransactionStatus, libpqVars
    <3>2. Discarded("nil")
      BY <1>1, <2>3 DEF discard_results
    <3> QED
      BY <2>1, <2>2, <3>1, <3>2, DiscardedKeeps DEF libpqVars
  <2>4. CASE PQtransactionStatus = "unknown"
    <3>1. status' = "bad" /\ status = "bad"
      BY <2>1, <2>4 DEF PQtransactionStatus, libpqVars, QPInv, StreamInv, StreamTypeOK, XStates
    <3>2. pc' = "ready" /\ ret' = "conn_bad"
      BY <1>1, <2>4 DEF discard_results, EndCall
    <3>3. CallTypeOK' /\ ExecInv'
      BY <2>1, <3>1, <3>2 DEF QPInv, CallTypeOK, ExecInv
    <3> QED
      BY <2>2, <3>3 DEF QPInv
  <2>5. CASE PQtransactionStatus \notin {"idle", "intrans", "inerror", "unknown"}
    <3>1. pc' = "discard_loop"
      BY <1>1, <2>5 DEF discard_results
    <3>2. CallTypeOK' /\ ExecInv'
      BY <2>1, <3>1 DEF QPInv, CallTypeOK, ExecInv, libpqVars
    <3> QED
      BY <2>2, <3>2 DEF QPInv
  <2> QED
    BY <2>3, <2>4, <2>5
<1>2. CASE discard_results_get
  <2>1. /\ UNCHANGED <<status, srv, srvXact, nData, call, prev, nStmt, nInt>>
        /\ pc = "discard_loop" /\ ~PQisBusy
    BY <1>2 DEF discard_results_get
  <2>2. StreamInv' /\ (Got.t = "none" => async' = "idle")
    <3>1. CASE Got.t = "copy_in"
      BY <1>2, <2>1, <3>1, DiscardCopyInKeeps DEF discard_results_get, QPInv
    <3>2. CASE Got.t # "copy_in"
      BY <1>2, <2>1, <3>2, GetResultKeeps DEF discard_results_get, QPInv
    <3> QED
      BY <3>1, <3>2
  <2>3. CASE Got.t = "none"
    <3>1. Discarded("true")
      BY <1>2, <2>3 DEF discard_results_get
    <3> QED
      BY <2>1, <2>2, <2>3, <3>1, DiscardedKeeps
  <2>4. CASE Got.t # "none"
    <3>1. pc' \in {"discard_rows", "discard_loop"}
      BY <1>2, <2>1, <2>4 DEF discard_results_get
    <3>2. CallTypeOK' /\ ExecInv'
      BY <2>1, <3>1 DEF QPInv, CallTypeOK, ExecInv
    <3> QED
      BY <2>2, <3>2 DEF QPInv
  <2> QED
    BY <2>3, <2>4
<1>3. CASE discard_results_row
  <2>1. /\ UNCHANGED <<xact, status, srvVars, call, prev, ret, nStmt, nInt>>
        /\ inbuf # <<>> /\ PQgetCopyData
        /\ pc = "discard_rows" /\ pc' \in {"discard_rows", "discard_loop"}
    BY <1>3 DEF discard_results_row
  <2>2. StreamInv'
    BY <2>1, GetCopyDataKeeps DEF QPInv, srvVars
  <2>3. CallTypeOK' /\ ExecInv'
    BY <2>1 DEF QPInv, CallTypeOK, ExecInv
  <2> QED
    BY <2>2, <2>3 DEF QPInv
<1>4. CASE discard_results_error
  <2>1. /\ UNCHANGED <<async, xact, inbuf, srvVars, call, prev, nStmt, nInt>>
        /\ pc \in {"discard_loop", "discard_rows"} /\ status' = "bad" /\ Discarded("false")
    BY <1>4 DEF discard_results_error
  <2>2. StreamInv'
    BY <2>1, StreamSame DEF QPInv, GoesOn, srvVars
  <2> QED
    BY <2>1, <2>2, DiscardedKeeps
<1> QED
  BY <1>1, <1>2, <1>3, <1>4

LEMMA ExecSendKeeps == ASSUME QPInv, exec_send PROVE QPInv'
<1>1. /\ UNCHANGED <<xact, inbuf, status, srv, srvXact, nData, prev, nInt>>
      /\ pc = "send" /\ call.name = "exec" /\ call.kind \in AllKinds
      /\ async = "idle" \/ status = "bad"
  BY DEF exec_send, QPInv, ExecInv
<1>2. CASE CanSend
  <2>1. /\ PQsendQuery(call.kind) /\ call' = [call EXCEPT !.id = nStmt + 1] /\ pc' = "result"
        /\ async' = "busy"
    BY <1>2 DEF exec_send, PQsendQuery
  <2>2. StreamInv' /\ LastKind' = call.kind /\ ~ReadyNext'
    BY <1>1, <1>2, <2>1, SendQueryKeeps DEF QPInv
  <2>3. call'.name = "exec" /\ call'.kind = call.kind
    BY <1>1, <2>1 DEF QPInv, CallTypeOK
  <2>4. CallTypeOK'
    BY <1>1, <2>1 DEF QPInv, CallTypeOK, StreamInv, StreamTypeOK
  <2>5. ExecInv'
    BY <1>1, <2>1, <2>2, <2>3 DEF ExecInv
  <2> QED
    BY <2>2, <2>4, <2>5 DEF QPInv
<1>3. CASE ~CanSend
  <2>1. pc' = "ready" /\ ret' = "unable" /\ UNCHANGED <<toSrv, async, nStmt, call>>
    BY <1>3 DEF exec_send, EndCall
  <2>2. StreamInv'
    BY <1>1, <2>1, StreamSame DEF QPInv, GoesOn
  <2>3. status = "bad"
    BY <1>1, <1>3 DEF CanSend
  <2>4. CallTypeOK' /\ ExecInv'
    BY <1>1, <2>1, <2>3 DEF QPInv, CallTypeOK, ExecInv
  <2> QED
    BY <2>2, <2>4 DEF QPInv
<1> QED
  BY <1>2, <1>3

LEMMA LastResultKeeps == ASSUME QPInv, async_get_last_result PROVE QPInv'
<1>1. /\ pc = "result" /\ ~PQisBusy /\ PQgetResult
      /\ UNCHANGED <<status, srvVars, call, nStmt, nInt>>
      /\ prev' = IF Got.t = "none" THEN prev ELSE Got
  BY DEF async_get_last_result
<1>2. /\ StreamInv' /\ LastKind' = LastKind
      /\ Got = NoResult \/ Got \in Message
      /\ Got.t = "none" => async' = "idle"
      /\ Got.t \in CopyStates => async' = Got.t /\ Got.t = LastKind
      /\ Got.t \notin {"none"} \cup CopyStates => async' = "busy"
      /\ async = "busy" => /\ ~Pending
                           /\ Got.t = "none" => ReadyNext
                           /\ Got.t # "none" => Got.id = nStmt
                           /\ Got.t # "none" /\ ReadyNext' => Final(Got)
  BY <1>1, GetResultKeeps DEF QPInv, srvVars
<1>3. prev' = NoResult \/ prev' \in Message
  BY <1>1, <1>2 DEF QPInv, CallTypeOK
<1>4. CASE LastResult(Got)
  <2>1. pc' = "ready" /\ ret' = Checked(prev') /\ Got.t \in {"none", "copy_in", "copy_out"}
    BY <1>4 DEF async_get_last_result, EndCall, LastResult, CopyStates
  <2>2. ret' \in {"ok", "error", "nil"}
    BY <2>1 DEF Checked
  <2>3. CallTypeOK'
    BY <1>1, <1>3, <2>1 DEF QPInv, CallTypeOK
  <2>4. CASE call.name = "exec"
    <3>1. LastKind' = call.kind /\ async = "busy"
      BY <1>1, <1>2, <2>4 DEF QPInv, ExecInv
    <3>2. Got.t # "none" => prev'.t = call.kind /\ prev'.t \in CopyStates
      BY <1>1, <1>2, <2>1, <3>1 DEF CopyStates
    <3>3. Got.t = "none" => prev'.t \notin CopyStates
      BY <1>1, <1>2, <2>4, <3>1 DEF QPInv, ExecInv, Final, CopyStates
    <3>4. ExecInv'
      BY <1>1, <1>2, <2>1, <2>2, <2>4, <3>1, <3>2, <3>3 DEF QPInv, ExecInv
    <3> QED
      BY <1>2, <2>3, <3>4 DEF QPInv
  <2>5. CASE call.name # "exec"
    BY <1>1, <1>2, <2>1, <2>3, <2>5 DEF QPInv, ExecInv
  <2> QED
    BY <2>4, <2>5
<1>5. CASE ~LastResult(Got)
  <2>1. UNCHANGED <<pc, ret>> /\ Got.t \notin {"none"} \cup CopyStates
    BY <1>5 DEF async_get_last_result, LastResult
  <2>2. CallTypeOK'
    BY <1>1, <1>3, <2>1 DEF QPInv, CallTypeOK
  <2>3. ExecInv'
    BY <1>1, <1>2, <2>1 DEF QPInv, ExecInv
  <2> QED
    BY <1>2, <2>2, <2>3 DEF QPInv
<1> QED
  BY <1>4, <1>5

LEMMA OtherCallsKeep ==
  ASSUME QPInv, get_result \/ block \/ wait_socket_readable_error \/ get_copy_data
  PROVE  QPInv'
<1>1. CASE get_result
  <2>1. /\ pc = "get" /\ pc' = "ready" /\ ~PQisBusy /\ PQgetResult /\ prev' = Got
        /\ UNCHANGED <<status, srvVars, call, nStmt, nInt>>
    BY <1>1 DEF get_result, EndCall
  <2>2. StreamInv' /\ (Got = NoResult \/ Got \in Message)
    BY <2>1, GetResultKeeps DEF QPInv, srvVars
  <2>3. CallTypeOK' /\ ExecInv'
    BY <2>1, <2>2 DEF QPInv, CallTypeOK, ExecInv
  <2> QED
    BY <2>2, <2>3 DEF QPInv
<1>2. CASE block
  <2>1. pc = "block" /\ pc' = "ready" /\ UNCHANGED <<libpqVars, srvVars, call, prev, nStmt, nInt>>
    BY <1>2 DEF block, EndCall
  <2>2. StreamInv'
    BY <2>1, StreamSame DEF QPInv, GoesOn, libpqVars, srvVars
  <2>3. CallTypeOK' /\ ExecInv'
    BY <2>1 DEF QPInv, CallTypeOK, ExecInv, libpqVars
  <2> QED
    BY <2>2, <2>3 DEF QPInv
<1>3. CASE wait_socket_readable_error
  <2>1. /\ pc' = "ready" /\ status' = "bad" /\ ret' = "conn_bad"
        /\ UNCHANGED <<async, xact, inbuf, srvVars, call, prev, nStmt, nInt>>
    BY <1>3 DEF wait_socket_readable_error, EndCall
  <2>2. StreamInv'
    BY <2>1, StreamSame DEF QPInv, GoesOn, srvVars
  <2>3. CallTypeOK' /\ ExecInv'
    BY <2>1 DEF QPInv, CallTypeOK, ExecInv
  <2> QED
    BY <2>2, <2>3 DEF QPInv
<1>4. CASE get_copy_data
  <2>1. /\ pc = "row" /\ pc' = "ready" /\ status' \in {status, "bad"}
        /\ UNCHANGED <<xact, srvVars, call, prev, nStmt, nInt>>
        /\ UNCHANGED <<async, inbuf>> \/ (inbuf # <<>> /\ PQgetCopyData)
    BY <1>4 DEF get_copy_data, EndCall
  <2>2. StreamInv'
    BY <2>1, StreamSame, GetCopyDataKeeps DEF QPInv, GoesOn, srvVars
  <2>3. CallTypeOK' /\ ExecInv'
    BY <2>1 DEF QPInv, CallTypeOK, ExecInv
  <2> QED
    BY <2>2, <2>3 DEF QPInv
<1> QED
  BY <1>1, <1>2, <1>3, <1>4

LEMMA InterruptKeeps == ASSUME QPInv, Interrupt \/ exec_argument_error PROVE QPInv'
<1>1. /\ pc' = "ready" /\ ret' = "interrupt" /\ nInt' = nInt + 1
      /\ UNCHANGED <<libpqVars, srvVars, call, prev, nStmt>>
  BY DEF Interrupt, exec_argument_error, EndCall
<1>2. StreamInv'
  BY <1>1, StreamSame DEF QPInv, GoesOn, libpqVars, srvVars
<1>3. CallTypeOK' /\ ExecInv'
  BY <1>1 DEF QPInv, CallTypeOK, ExecInv, libpqVars
<1> QED
  BY <1>2, <1>3 DEF QPInv

LEMMA ClientKeeps == ASSUME QPInv, Client PROVE QPInv'
BY DiscardKeeps, ExecSendKeeps, LastResultKeeps, OtherCallsKeep DEF Client

LEMMA QPStep == ASSUME QPInv, [QPNext]_qpVars PROVE QPInv'
BY ProgramKeeps, ClientKeeps, InterruptKeeps, ServerKeeps, LoseKeeps, SameKeeps DEF QPNext

LEMMA QPStart == ASSUME QPInit PROVE QPInv
<1>1. StreamTypeOK
  BY DEF QPInit, StreamTypeOK, XStates
<1>2. ~Pending /\ Outgoing /\ Incoming /\ InStep /\ Ended
  BY DEF QPInit, Pending, Outgoing, EndsFirst, Incoming, Stream, InStep, Ended, CopyStates, EndKinds
<1>3. CallTypeOK /\ ExecInv
  BY DEF QPInit, CallTypeOK, ExecInv, NoCall
<1> QED
  BY <1>1, <1>2, <1>3 DEF QPInv, StreamInv

(* What becomes of the kinds of statements, for transaction and copy_data: *)
(* a statement comes from a call, and the server executes the last one.    *)
LEMMA CallMoves ==
  ASSUME QPInv, Client \/ Interrupt \/ Server \/ Lose
  PROVE  /\ LastKind' = LastKind \/ (call.name = "exec" /\ LastKind' = call.kind)
         /\ srv'.kind \in {srv.kind, LastKind}
         /\ call'.kind = call.kind /\ call'.name = call.name
         /\ status' = "ok" => status = "ok"
<1>1. CASE Server \/ Lose
  <2>1. GoesOn
    BY <1>1, ServerGoesOn, StreamSame DEF QPInv, Lose, srvVars, rubyVars
  <2>2. srv'.kind \in {srv.kind, LastKind}
    <3>1. CASE SrvStart
      BY <3>1, Read DEF SrvStart, QPInv, LastKind
    <3>2. CASE ~SrvStart
      BY <1>1, <3>2 DEF Server, SrvMore, SrvFinish, SrvCopyStart, SrvData, SrvCopyEnd, SrvError,
                        Fails, SrvReady, Lose, srvVars, QPInv, StreamInv, StreamTypeOK
    <3> QED
      BY <3>1, <3>2
  <2>3. UNCHANGED call /\ (status' = "ok" => status = "ok")
    BY <1>1 DEF Server, SrvStart, SrvMore, SrvFinish, SrvCopyStart, SrvData, SrvCopyEnd, SrvError,
                SrvReady, Lose, Up, libpqVars, rubyVars
  <2> QED
    BY <2>1, <2>2, <2>3 DEF GoesOn
<1>2. CASE exec_send
  <2>1. UNCHANGED <<srv, status>> /\ call.name = "exec" /\ call.kind \in AllKinds
    BY <1>2 DEF exec_send, QPInv, ExecInv
  <2>2. call'.kind = call.kind /\ call'.name = call.name
    BY <1>2 DEF exec_send, QPInv, CallTypeOK
  <2>3. CASE CanSend
    <3>1. LastKind' = call.kind
      BY <1>2, <2>1, <2>3, SendQueryKeeps DEF exec_send, QPInv
    <3> QED
      BY <2>1, <2>2, <3>1
  <2>4. CASE ~CanSend
    <3>1. LastKind' = LastKind
      BY <1>2, <2>4, StreamSame DEF exec_send, QPInv, GoesOn
    <3> QED
      BY <2>1, <2>2, <3>1
  <2> QED
    BY <2>3, <2>4
<1>3. CASE discard_results_get
  <2>1. UNCHANGED <<srv, status, call>> /\ ~PQisBusy
    BY <1>3 DEF discard_results_get
  <2>2. LastKind' = LastKind
    <3>1. CASE Got.t = "copy_in"
      BY <1>3, <3>1, DiscardCopyInKeeps DEF discard_results_get, QPInv
    <3>2. CASE Got.t # "copy_in"
      BY <1>3, <3>2, GetResultKeeps DEF discard_results_get, QPInv
    <3> QED
      BY <3>1, <3>2
  <2> QED
    BY <2>1, <2>2
<1>4. CASE \/ discard_results \/ discard_results_row \/ discard_results_error
           \/ async_get_last_result \/ get_result \/ block
           \/ wait_socket_readable_error \/ get_copy_data \/ Interrupt
  <2>1. UNCHANGED <<toSrv, srv, call>> /\ (status' = "ok" => status = "ok")
    BY <1>4 DEF discard_results, discard_results_row, discard_results_error, async_get_last_result,
                get_result, block, wait_socket_readable_error, get_copy_data, Interrupt,
                libpqVars, srvVars
  <2>2. LastKind' = LastKind
    BY <2>1 DEF LastKind, Pending, Newest
  <2> QED
    BY <2>1, <2>2
<1> QED
  BY <1>1, <1>2, <1>3, <1>4 DEF Client

LEMMA SendMoves ==
  ASSUME QPInv, NEW k \in AllKinds, send_query(k)
  PROVE  /\ LastKind' \in {LastKind, k} /\ call'.kind = k /\ call'.name = "send_query"
         /\ UNCHANGED <<srv, status, pc>>
<1>1. CASE CanSend
  BY <1>1, SendQueryKeeps DEF send_query, QPInv
<1>2. CASE ~CanSend
  BY <1>2, StreamSame DEF send_query, QPInv, GoesOn
<1> QED
  BY <1>1, <1>2

LEMMA ProgramMoves ==
  ASSUME QPInv, Program
  PROVE  /\ LastKind' \in {LastKind} \cup Kinds /\ call'.kind \in {"none"} \cup Kinds
         /\ UNCHANGED <<srv, status>>
<1>1. ASSUME UNCHANGED toSrv, UNCHANGED srv PROVE LastKind' = LastKind
  BY <1>1 DEF LastKind, Pending, Newest
<1>2. ASSUME NEW k \in Kinds, async_exec(k) PROVE LastKind' = LastKind /\ call'.kind = k /\ UNCHANGED <<srv, status>>
  BY <1>1, <1>2 DEF async_exec, Begin, libpqVars, srvVars
<1>3. ASSUME NEW name \in CallNames, NEW ph, Plain(name, ph)
      PROVE  LastKind' = LastKind /\ call'.kind = "none" /\ UNCHANGED <<srv, status>>
  BY <1>1, <1>3 DEF Plain, Begin, libpqVars, srvVars
<1>4. ASSUME NEW how \in {"done", "fail"}, put_copy_end(how)
      PROVE  LastKind' = LastKind /\ call'.kind = "none" /\ UNCHANGED <<srv, status>>
  <2>1. CASE async = "copy_in" /\ status # "bad"
    BY <1>4, <2>1, PutCopyEndKeeps DEF put_copy_end, QPInv
  <2>2. CASE ~(async = "copy_in" /\ status # "bad")
    BY <1>1, <1>4, <2>2 DEF put_copy_end
  <2> QED
    BY <2>1, <2>2
<1> QED
  BY <1>2, <1>3, <1>4, SendMoves, KindsAssumption DEF Program, CallNames

-----------------------------------------------------------------------------
(* The refinement.  Mode and Answer are what Serial sees of exec. *)

Mode == CASE ~ExecRuns -> "idle" [] ExecRuns /\ pc = "result" -> "sent" [] OTHER -> "called"
AnswerTo == IF ExecAnswered /\ (prev.last \/ prev.t \in CopyStates) THEN prev.id ELSE 0

SerialStep == [Serial!SeNext]_(Serial!seVars)

(* Without a call of exec there is neither a mode nor an answer, and while *)
(* it runs there is no answer yet.                                         *)
LEMMA NoExec ==
  ASSUME call.name # "exec" PROVE Mode = "idle" /\ AnswerTo = 0
BY DEF Mode, AnswerTo, ExecRuns, ExecAnswered

LEMMA NoExecNext ==
  ASSUME call'.name # "exec" PROVE Mode' = "idle" /\ AnswerTo' = 0
BY DEF Mode, AnswerTo, ExecRuns, ExecAnswered

LEMMA ExecRunning ==
  ASSUME call.name = "exec", pc # "ready"
  PROVE  Mode = (IF pc = "result" THEN "sent" ELSE "called") /\ AnswerTo = 0
BY DEF Mode, AnswerTo, ExecRuns, ExecAnswered

LEMMA ExecRunningNext ==
  ASSUME call'.name = "exec", pc' # "ready"
  PROVE  Mode' = (IF pc' = "result" THEN "sent" ELSE "called") /\ AnswerTo' = 0
BY DEF Mode, AnswerTo, ExecRuns, ExecAnswered

(* exec is left without an answer. *)
LEMMA ExecLeft ==
  ASSUME pc' = "ready", ret' \notin {"ok", "error", "nil"}
  PROVE  Mode' = "idle" /\ AnswerTo' = 0
BY DEF Mode, AnswerTo, ExecRuns, ExecAnswered

LEMMA Unseen ==
  ASSUME Mode' = Mode, AnswerTo' = AnswerTo, UNCHANGED <<nStmt, nInt>>, srv'.id = srv.id,
         (status' = "bad") <=> (status = "bad")
  PROVE  SerialStep
BY DEF SerialStep, Serial!seVars, Mode, AnswerTo

LEMMA SerialProgram == ASSUME QPInv, Program PROVE SerialStep
<1>1. pc = "ready" /\ Mode = "idle"
  BY DEF Program, async_exec, send_query, Plain, Begin, put_copy_end, Mode, ExecRuns
<1>2. ASSUME NEW k \in Kinds, async_exec(k) PROVE SerialStep
  <2>1. /\ call'.name = "exec" /\ pc' = "discard"
        /\ UNCHANGED <<nStmt, nInt, srv, status>>
    BY <1>2 DEF async_exec, Begin, libpqVars, srvVars
  <2>2. Mode' = "called" /\ AnswerTo' = 0
    BY <2>1, ExecRunningNext
  <2>3. Serial!Call
    BY <1>1, <2>1, <2>2 DEF Serial!Call, Mode, AnswerTo
  <2> QED
    BY <2>3 DEF SerialStep, Serial!SeNext
<1>3. ASSUME call'.name # "exec", nStmt' \in {nStmt, nStmt + 1}, UNCHANGED <<srv, status, nInt>>
      PROVE  SerialStep
  <2>1. Mode' = "idle" /\ AnswerTo' = 0
    BY <1>3, NoExecNext
  <2>2. Serial!Other
    BY <1>1, <1>3, <2>1 DEF Serial!Other, Mode, AnswerTo
  <2> QED
    BY <2>2 DEF SerialStep, Serial!SeNext
<1>4. ASSUME NEW k \in Kinds, send_query(k) PROVE SerialStep
  BY <1>3, <1>4 DEF send_query, PQsendQuery
<1>5. ASSUME NEW name \in CallNames, NEW ph, Plain(name, ph) PROVE SerialStep
  BY <1>3, <1>5 DEF Plain, Begin, CallNames, libpqVars, srvVars
<1>6. ASSUME NEW how, put_copy_end(how) PROVE SerialStep
  BY <1>3, <1>6 DEF put_copy_end
<1> QED
  BY <1>2, <1>4, <1>5, <1>6 DEF Program, CallNames

LEMMA SerialServer == ASSUME QPInv, Server \/ Lose PROVE SerialStep
<1>1. UNCHANGED rubyVars /\ ((status' = "bad") <=> (status = "bad"))
  BY DEF Server, SrvStart, SrvMore, SrvFinish, SrvCopyStart, SrvData, SrvCopyEnd, SrvError,
         SrvReady, libpqVars, Lose, Up
<1>2. Mode' = Mode /\ AnswerTo' = AnswerTo /\ UNCHANGED <<nStmt, nInt>>
  BY <1>1 DEF Mode, AnswerTo, ExecRuns, ExecAnswered, rubyVars
<1>3. CASE srv'.id = srv.id
  BY <1>1, <1>2, <1>3, Unseen
<1>4. CASE srv'.id # srv.id
  <2>1. SrvStart /\ Head(toSrv).t = "query"
    BY <1>4
    DEF Server, SrvStart, SrvMore, SrvFinish, SrvCopyStart, SrvData, SrvCopyEnd, SrvError, Fails,
        SrvReady, Lose, srvVars, QPInv, StreamInv, StreamTypeOK
  <2>2. /\ srv'.id = Head(toSrv).id /\ Head(toSrv) = Newest(toSrv) /\ Pending /\ status' = status
    BY <2>1, Read DEF SrvStart, QPInv, libpqVars
  <2>3. srv.id \in Nat /\ nStmt = srv.id + 1 /\ srv'.id = srv.id + 1
    BY <2>2 DEF QPInv, StreamInv, StreamTypeOK, Outgoing
  <2>4. Serial!Execute
    BY <1>2, <2>2, <2>3 DEF Serial!Execute, Mode, AnswerTo
  <2> QED
    BY <2>4 DEF SerialStep, Serial!SeNext
<1> QED
  BY <1>3, <1>4

(* The step finds the connection broken. *)
LEMMA SerialBreaks ==
  ASSUME status' = "bad", AnswerTo' = AnswerTo, Mode' = Mode \/ Mode' = "idle",
         UNCHANGED <<nStmt, nInt>>, srv'.id = srv.id
  PROVE  SerialStep
<1>1. Serial!Breaks
  BY DEF Serial!Breaks, Mode, AnswerTo
<1> QED
  BY <1>1 DEF SerialStep, Serial!SeNext

LEMMA SerialDiscard ==
  ASSUME QPInv, discard_results \/ discard_results_get \/ discard_results_row \/ discard_results_error
  PROVE  SerialStep
<1>1. UNCHANGED <<call, nStmt, nInt>> /\ srv'.id = srv.id
      /\ pc \in {"discard", "discard_loop", "discard_rows"}
  BY DEF discard_results, discard_results_get, discard_results_row, discard_results_error, srvVars
<1>2. \/ UNCHANGED status
      \/ status' = "bad"
  BY DEF discard_results, discard_results_get, discard_results_row, discard_results_error, libpqVars
<1>3. CASE call.name # "exec"
  <2>1. Mode = "idle" /\ Mode' = "idle" /\ AnswerTo = 0 /\ AnswerTo' = 0
    BY <1>1, <1>3, NoExec, NoExecNext
  <2> QED
    BY <1>1, <1>2, <2>1, Unseen, SerialBreaks
<1>4. CASE call.name = "exec"
  <2>1. Mode = "called" /\ AnswerTo = 0
    BY <1>1, <1>4, ExecRunning
  <2>2. CASE pc' # "ready"
    <3>1. pc' # "result"
      BY <1>1, <1>4, <2>2
      DEF discard_results, discard_results_get, discard_results_row, discard_results_error,
          Discarded, EndCall
    <3>2. Mode' = "called" /\ AnswerTo' = 0
      BY <1>1, <1>4, <2>2, <3>1, ExecRunningNext
    <3> QED
      BY <1>1, <1>2, <2>1, <3>2, Unseen, SerialBreaks
  <2>3. CASE pc' = "ready"
    <3>1. status = "bad" /\ status' = "bad" /\ ret' = "conn_bad"
      <4>1. discard_results /\ PQtransactionStatus = "unknown"
        BY <1>1, <1>4, <2>3
        DEF discard_results, discard_results_get, discard_results_row, discard_results_error,
            Discarded, EndCall
      <4> QED
        BY <4>1 DEF discard_results, EndCall, PQtransactionStatus, libpqVars, QPInv, StreamInv,
                    StreamTypeOK, XStates
    <3>2. Mode' = "idle" /\ AnswerTo' = 0
      BY <2>3, <3>1, ExecLeft
    <3>3. Serial!Fail
      BY <1>1, <2>1, <3>1, <3>2 DEF Serial!Fail, Mode, AnswerTo
    <3> QED
      BY <3>3 DEF SerialStep, Serial!SeNext
  <2> QED
    BY <2>2, <2>3
<1> QED
  BY <1>3, <1>4

LEMMA SerialSend == ASSUME QPInv, exec_send PROVE SerialStep
<1>1. /\ UNCHANGED <<status, srv, nInt>> /\ pc = "send" /\ call.name = "exec"
      /\ call.kind \in AllKinds /\ (async = "idle" \/ status = "bad")
  BY DEF exec_send, QPInv, ExecInv
<1>2. Mode = "called" /\ AnswerTo = 0
  BY <1>1, ExecRunning
<1>3. CASE CanSend
  <2>1. pc' = "result" /\ call' = [call EXCEPT !.id = nStmt + 1] /\ nStmt' = nStmt + 1
    BY <1>3 DEF exec_send, PQsendQuery
  <2>2. call'.name = "exec"
    BY <1>1, <2>1 DEF QPInv, CallTypeOK
  <2>3. Mode' = "sent" /\ AnswerTo' = 0
    BY <2>1, <2>2, ExecRunningNext
  <2>4. srv.id = nStmt
    BY <1>3 DEF CanSend, QPInv, StreamInv, InStep, Outgoing
  <2>5. Serial!Send
    BY <1>1, <1>2, <2>1, <2>3, <2>4 DEF Serial!Send, Mode, AnswerTo
  <2> QED
    BY <2>5 DEF SerialStep, Serial!SeNext
<1>4. CASE ~CanSend
  <2>1. pc' = "ready" /\ ret' = "unable" /\ UNCHANGED nStmt /\ status = "bad"
    BY <1>1, <1>4 DEF exec_send, EndCall, CanSend
  <2>2. Mode' = "idle" /\ AnswerTo' = 0
    BY <2>1, ExecLeft
  <2>3. Serial!Fail
    BY <1>1, <1>2, <2>1, <2>2 DEF Serial!Fail, Mode, AnswerTo
  <2> QED
    BY <2>3 DEF SerialStep, Serial!SeNext
<1> QED
  BY <1>3, <1>4

LEMMA SerialLast == ASSUME QPInv, async_get_last_result PROVE SerialStep
<1>1. /\ pc = "result" /\ ~PQisBusy /\ PQgetResult
      /\ UNCHANGED <<status, srvVars, call, nStmt, nInt>>
      /\ prev' = IF Got.t = "none" THEN prev ELSE Got
  BY DEF async_get_last_result
<1>2. CASE call.name # "exec"
  <2>1. Mode = "idle" /\ Mode' = "idle" /\ AnswerTo = 0 /\ AnswerTo' = 0
    BY <1>1, <1>2, NoExec, NoExecNext
  <2> QED
    BY <1>1, <2>1, Unseen DEF srvVars
<1>3. CASE call.name = "exec" /\ ~LastResult(Got)
  <2>1. UNCHANGED pc
    BY <1>3 DEF async_get_last_result
  <2>2. Mode = "sent" /\ Mode' = "sent" /\ AnswerTo = 0 /\ AnswerTo' = 0
    BY <1>1, <1>3, <2>1, ExecRunning, ExecRunningNext
  <2> QED
    BY <1>1, <2>2, Unseen DEF srvVars
<1>4. CASE call.name = "exec" /\ LastResult(Got)
  <2>1. pc' = "ready" /\ ret' = Checked(prev') /\ Got.t \in {"none", "copy_in", "copy_out"}
    BY <1>4 DEF async_get_last_result, EndCall, LastResult, CopyStates
  <2>2. ret' \in {"ok", "error", "nil"}
    BY <2>1 DEF Checked
  <2>3. async = "busy" /\ (ReadyNext => Final(prev) /\ prev.id = nStmt)
    BY <1>1, <1>4 DEF QPInv, ExecInv
  <2>4. /\ ~Pending
        /\ Got.t = "none" => ReadyNext
        /\ Got.t # "none" => Got.id = nStmt
    BY <1>1, <2>3, GetResultKeeps DEF QPInv, srvVars
  <2>5. prev'.id = nStmt /\ (prev'.last \/ prev'.t \in CopyStates)
    BY <1>1, <2>1, <2>3, <2>4 DEF Final, CopyStates
  <2>6. Mode = "sent" /\ AnswerTo = 0
    BY <1>1, <1>4, ExecRunning
  <2>7. Mode' = "idle" /\ AnswerTo' = nStmt
    BY <1>1, <1>4, <2>1, <2>2, <2>5 DEF Mode, AnswerTo, ExecRuns, ExecAnswered
  <2>8. srv.id = nStmt
    BY <2>4 DEF QPInv, StreamInv, Outgoing
  <2>9. Serial!Answer
    BY <1>1, <2>6, <2>7, <2>8 DEF Serial!Answer, Mode, AnswerTo, srvVars
  <2> QED
    BY <2>9 DEF SerialStep, Serial!SeNext
<1> QED
  BY <1>2, <1>3, <1>4

LEMMA SerialOthers ==
  ASSUME QPInv, get_result \/ block \/ wait_socket_readable_error \/ get_copy_data
  PROVE  SerialStep
<1>1. UNCHANGED <<call, nStmt, nInt>> /\ srv'.id = srv.id /\ pc # "ready" /\ pc' = "ready"
  BY DEF get_result, block, wait_socket_readable_error, get_copy_data, EndCall, srvVars
<1>2. status' = status \/ status' = "bad"
  BY DEF get_result, block, wait_socket_readable_error, get_copy_data, libpqVars
<1>3. CASE call.name # "exec"
  <2>1. Mode = "idle" /\ Mode' = "idle" /\ AnswerTo = 0 /\ AnswerTo' = 0
    BY <1>1, <1>3, NoExec, NoExecNext
  <2> QED
    BY <1>1, <1>2, <2>1, Unseen, SerialBreaks
<1>4. CASE call.name = "exec"
  <2>1. pc = "result" \/ pc \notin {"get", "block", "row"}
    BY <1>4 DEF QPInv, ExecInv
  <2>2. status' = "bad" /\ ret' = "conn_bad"
    BY <1>4, <2>1 DEF get_result, block, wait_socket_readable_error, get_copy_data, EndCall,
                      QPInv, ExecInv
  <2>3. AnswerTo = 0 /\ Mode' = "idle" /\ AnswerTo' = 0
    BY <1>1, <1>4, <2>2, ExecRunning, ExecLeft
  <2> QED
    BY <1>1, <2>2, <2>3, SerialBreaks
<1> QED
  BY <1>3, <1>4

LEMMA SerialInterrupt == ASSUME QPInv, Interrupt \/ exec_argument_error PROVE SerialStep
<1>1. /\ pc' = "ready" /\ ret' = "interrupt" /\ nInt' = nInt + 1 /\ pc # "ready"
      /\ UNCHANGED <<srv, status, call, nStmt>>
  BY DEF Interrupt, exec_argument_error, EndCall, libpqVars, srvVars
<1>2. Mode' = "idle" /\ AnswerTo' = 0
  BY <1>1, ExecLeft
<1>3. AnswerTo = 0
  BY <1>1 DEF AnswerTo, ExecAnswered
<1>4. Serial!Stop
  BY <1>1, <1>2, <1>3 DEF Serial!Stop, Mode, AnswerTo
<1> QED
  BY <1>4 DEF SerialStep, Serial!SeNext

LEMMA SerialNext == ASSUME QPInv, [QPNext]_qpVars PROVE SerialStep
<1>1. CASE UNCHANGED qpVars
  <2>1. Mode' = Mode /\ AnswerTo' = AnswerTo /\ UNCHANGED <<nStmt, nInt, srv, status>>
    BY <1>1 DEF qpVars, libpqVars, srvVars, rubyVars, Mode, AnswerTo, ExecRuns, ExecAnswered
  <2> QED
    BY <2>1, Unseen
<1> QED
  BY <1>1, SerialProgram, SerialServer, SerialDiscard, SerialSend, SerialLast, SerialOthers,
     SerialInterrupt DEF QPNext, Client

(* pgconn_async_exec is serial execution: it answers with the last result  *)
(* of its own statement, after the server has executed all others once and *)
(* in order, and is never refused because a command is in progress,        *)
(* whatever was left behind on the connection; for any statements,         *)
(* exceptions and rows, in any number.                                     *)
THEOREM ExecRefinesSerial == QPSpec => ExecIsSerial
<1>1. QPInit => Serial!SeInit
  BY DEF QPInit, Serial!SeInit, NoCall, ExecRuns, ExecAnswered
<1>2. QPInit => QPInv
  BY QPStart
<1>3. QPInv /\ [QPNext]_qpVars => QPInv'
  BY QPStep
<1>4. QPInv /\ [QPNext]_qpVars => [Serial!SeNext]_(Serial!seVars)
  BY SerialNext DEF SerialStep
<1> QED
  BY <1>1, <1>2, <1>3, <1>4, PTL DEF QPSpec, ExecIsSerial, Serial!SeSpec
=============================================================================
