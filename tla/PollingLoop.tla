---------------------------- MODULE PollingLoop ----------------------------
(***************************************************************************)
(* Establishing a connection to one of several hosts: Connection.new,      *)
(* Connection#reset, Pollable#polling_loop and #remove_current_host of     *)
(* lib/pg/connection.rb with reset_start2, connect_poll and socket_io of   *)
(* ext/pg_connection.c.  libpq's PQconnectStart / PQconnectPoll are        *)
(* external: they walk their own host list and may fail over to the next   *)
(* host, at once or after any number of polls.                             *)
(*                                                                         *)
(* The option hash "iopts" is the set of those indices of the resolved     *)
(* list Hosts which remove_current_host has left in it: entries are only   *)
(* ever deleted and keep their order.  Time is counted in ticks from the   *)
(* entry into polling_loop, which only uses differences of clock values.   *)
(***************************************************************************)
EXTENDS Integers, Sequences, FiniteSets

CONSTANTS
  Dest,         \* (host, hostaddr, port) combinations
  Hosts,        \* the resolved list of destinations, duplicates allowed
  Reported,     \* what conn.host/hostaddr/port say while connecting to a
                \* destination: itself, or a spelling that is not in the list
  Timeo,        \* the connect_timeout parameter in ticks, 0 means no timeout
  LoadBalance,  \* load_balance_hosts=random: libpq shuffles its host list
  MaxPolls,     \* bound: polls that libpq needs at most per destination
  MaxDrift      \* bound: ticks that may pass outside of the waits

ASSUME HostsAssumption ==
  /\ Hosts \in Seq(Dest)
  /\ Len(Hosts) > 0

ASSUME ReportedAssumption ==
  /\ DOMAIN Reported = Dest
  /\ \A d \in Dest : Reported[d] = d \/ Reported[d] \notin Dest

ASSUME TimeAssumption ==
  /\ Timeo \in Nat
  /\ MaxPolls \in Nat
  /\ MaxDrift \in Nat
  /\ LoadBalance \in BOOLEAN

VARIABLES
  pc,         \* where the Ruby code is
  pollStatus, \* poll_status: the direction polling_loop waits for
  left,       \* iopts: the entries of Hosts that are still in it
  now,        \* ticks since polling_loop was entered
  deadline,   \* when the running IO#wait gives up
  errors,     \* connection_errors: the destinations it tells about
  message,    \* destinations the raised PG::ConnectionBad tells about
  pgconn,     \* this->pgconn: "null" or "live"
  socketIo,   \* this->socket_io: none, of libpq's current socket, or stale
  cur,        \* libpq: the entry of Hosts it is connecting to
  todo,       \* libpq: the entries of its host list it has not tried yet
  want,       \* libpq: the direction the connection attempt has to wait for
  polls,      \* libpq: polls of the current attempt
  lqErrors,   \* libpq: destinations PQerrorMessage tells about
  timedOut,   \* history: destinations that a wait for has timed out
  waited      \* history: ticks spent in IO#wait since polling_loop was entered

rubyVars  == <<pollStatus, left, deadline, errors>>
libpqVars == <<cur, todo, want, polls, lqErrors>>
vars == <<pc, pollStatus, left, now, deadline, errors, message, pgconn,
          socketIo, cur, todo, want, polls, lqErrors, timedOut, waited>>

Entries == 1..Len(Hosts)
DestsOf(S) == {Hosts[i] : i \in S}
Directions == {"reading", "writing"}

(* The program is not in polling_loop. *)
Outside == {"connected", "raised", "interrupted"}

(* stop_time, relative to the entry into polling_loop. *)
StopTime == Timeo * Len(Hosts)

Smaller(a, b) == IF a <= b THEN a ELSE b

Init ==
  /\ pc = "idle"
  /\ pollStatus = "writing"
  /\ left = Entries
  /\ now = 0
  /\ deadline = 0
  /\ errors = {}
  /\ message = {}
  /\ pgconn = "null"
  /\ socketIo = "none"
  /\ cur = 1
  /\ todo = {}
  /\ want = "writing"
  /\ polls = 0
  /\ lqErrors = {}
  /\ timedOut = {}
  /\ waited = 0

-----------------------------------------------------------------------------
(* libpq (external) *)

(* The entry libpq turns to next: its list is in the given order, or       *)
(* shuffled once when the PGconn is made.                                  *)
NextEntry(S, i) == i \in S /\ (LoadBalance \/ \A j \in S : i <= j)

(* Prefixes of libpq's walk through the entries S: the ones it gives up at *)
(* once because connect() fails without waiting.                           *)
FailingPrefix(S, F) ==
  F \subseteq S /\ (LoadBalance \/ \A i \in F : \A j \in S \ F : i <= j)

(* libpq attempts the destinations S until one does not fail at once; that *)
(* one is then in progress with a new socket.                              *)
Attempt(S, failed) ==
  \E F \in SUBSET S :
    /\ FailingPrefix(S, F)
    /\ \E i \in S \ F :
         /\ NextEntry(S \ F, i)
         /\ cur' = i
         /\ todo' = (S \ F) \ {i}
         /\ lqErrors' = failed \cup DestsOf(F)
    /\ polls' = 0
    /\ want' = "writing"

(* libpq attempts the destinations S and every one of them fails at once. *)
AttemptFails(S, failed) ==
  /\ todo' = {}
  /\ lqErrors' = failed \cup DestsOf(S)
  /\ UNCHANGED <<cur, want, polls>>

(* The IO object of a socket that libpq has closed is stale. *)
Replaced(io) == IF io = "none" THEN "none" ELSE "stale"

-----------------------------------------------------------------------------
(* ext/pg_connection.c *)

close_socket_io_open(io) == io
close_socket_io(io) == "none"

(* socket_io memoizes the IO object of the socket. *)
socket_io(io) == IF io = "none" THEN "current" ELSE io

(* reset_start2 closes the old PGconn and its IO object and starts anew. *)
reset_start2 ==
  /\ pgconn' = "live"
  /\ socketIo' = Replaced(close_socket_io(socketIo))

(* The state polling_loop starts from. *)
EnterLoop ==
  /\ pc' = "top"
  /\ pollStatus' = "writing"
  /\ left' = Entries
  /\ now' = 0
  /\ deadline' = 0
  /\ errors' = {}
  /\ message' = {}
  /\ timedOut' = {}
  /\ waited' = 0

(* Connection.new: connect_start, then polling_loop if the connection is   *)
(* not bad already.                                                        *)
connect_to_hosts ==
  /\ pc = "idle"
  /\ pgconn' = "live"
  /\ \/ EnterLoop /\ Attempt(Entries, {})
     \/ /\ AttemptFails(Entries, {})
        /\ pc' = "raised"
        /\ message' = DestsOf(Entries)
        /\ UNCHANGED <<rubyVars, now, timedOut, waited>>
  /\ UNCHANGED socketIo

(* Connection#reset: reset_start2 with the options of Connection.new, then *)
(* polling_loop.  It may be called whether or not the last attempt failed. *)
reset ==
  /\ pc \in Outside
  /\ reset_start2
  /\ \/ EnterLoop /\ Attempt(Entries, {})
     \/ /\ AttemptFails(Entries, {})
        /\ pc' = "raised"
        /\ message' = DestsOf(Entries)
        /\ UNCHANGED <<rubyVars, now, timedOut, waited>>

-----------------------------------------------------------------------------
(* Pollable *)

Matches(S) == {i \in S : Hosts[i] = Reported[Hosts[cur]]}

(* remove_current_host deletes the first entry that equals what the        *)
(* connection reports as its current host, if there is one.                *)
remove_current_host_none(S) == S
remove_current_host_first(S) == S \ {i \in S : \A j \in S : i <= j}
remove_current_host(S) ==
  S \ {i \in Matches(S) : \A j \in Matches(S) : i <= j}

(* timeout: the time a single wait may take at time t, less than zero when *)
(* the total time is exceeded.                                             *)
WaitTime_single(t) == Timeo
WaitTime(t) == Smaller(Timeo, StopTime - t)

(* The top of the loop: compute the timeout, remove the current host, then *)
(* wait on the socket unless the total time is already exceeded.           *)
LoopTop ==
  /\ pc = "top"
  /\ left' = remove_current_host(left)
  /\ IF Timeo > 0 /\ WaitTime(now) < 0
     THEN /\ pc' = "noevent"
          /\ UNCHANGED <<deadline, socketIo>>
     ELSE /\ pc' = "wait"
          /\ deadline' = now + WaitTime(now)
          /\ socketIo' = socket_io(socketIo)
  /\ UNCHANGED <<pollStatus, now, errors, message, pgconn, libpqVars, timedOut, waited>>

(* Time passes in IO#wait. *)
Tick ==
  /\ pc = "wait"
  /\ Timeo > 0
  /\ now < deadline
  /\ now' = now + 1
  /\ waited' = waited + 1
  /\ UNCHANGED <<pc, rubyVars, message, pgconn, socketIo, libpqVars, timedOut>>

(* Time passes while other code runs, such as PQconnectPoll or another     *)
(* thread that holds the GVL.                                              *)
Drift ==
  /\ pc \in {"top", "poll"}
  /\ Timeo > 0
  /\ now < StopTime + MaxDrift
  /\ now' = now + 1
  /\ UNCHANGED <<pc, rubyVars, message, pgconn, socketIo, libpqVars, timedOut, waited>>

(* IO#wait returns the event.  It cannot come in on a stale socket or for  *)
(* a direction the connection attempt is not about.                        *)
SocketReady ==
  /\ pc = "wait"
  /\ socketIo = "current"
  /\ pollStatus = want
  /\ pc' = "poll"
  /\ UNCHANGED <<rubyVars, now, message, pgconn, socketIo, libpqVars, timedOut, waited>>

(* IO#wait returns nil. *)
WaitTimeout ==
  /\ pc = "wait"
  /\ Timeo > 0
  /\ now >= deadline
  /\ pc' = "noevent"
  /\ UNCHANGED <<rubyVars, now, message, pgconn, socketIo, libpqVars, timedOut, waited>>

(* The timeout with hosts remaining: reset_start2 replaces the PGconn by   *)
(* one that connects to them.  It raises when they all fail at once.       *)
Restart ==
  /\ pc = "noevent"
  /\ left # {}
  /\ timedOut' = timedOut \cup {Hosts[cur]}
  /\ errors' = errors \cup lqErrors \cup {Hosts[cur]}
  /\ reset_start2
  /\ \/ /\ Attempt(left, {})
        /\ pc' = "top"
        /\ pollStatus' = "writing"
        /\ UNCHANGED message
     \/ /\ AttemptFails(left, {})
        /\ pc' = "raised"
        /\ message' = DestsOf(left)
        /\ UNCHANGED pollStatus
  /\ UNCHANGED <<left, now, deadline, waited>>

(* The timeout of the last host: finish and raise. *)
GiveUp ==
  /\ pc = "noevent"
  /\ left = {}
  /\ pc' = "raised"
  /\ timedOut' = timedOut \cup {Hosts[cur]}
  /\ errors' = errors \cup lqErrors \cup {Hosts[cur]}
  /\ message' = errors \cup lqErrors \cup {Hosts[cur]}
  /\ socketIo' = close_socket_io(socketIo)
  /\ pgconn' = "null"
  /\ UNCHANGED <<pollStatus, left, now, deadline, libpqVars, waited>>

(* connect_poll and reset_poll close the IO object and call PQconnectPoll. *)
(* The loop ends when that says OK or FAILED; polling_loop then checks the *)
(* status, and finishes the connection and raises if it is not OK.         *)
PollOk ==
  /\ pc = "poll"
  /\ pc' = "connected"
  /\ socketIo' = close_socket_io(socketIo)
  /\ UNCHANGED <<rubyVars, now, message, pgconn, libpqVars, timedOut, waited>>

PollAgain ==
  /\ pc = "poll"
  /\ polls < MaxPolls
  /\ polls' = polls + 1
  /\ want' \in Directions
  /\ pollStatus' = want'
  /\ pc' = "top"
  /\ socketIo' = close_socket_io(socketIo)
  /\ UNCHANGED <<left, deadline, errors, now, message, pgconn, cur, todo, lqErrors,
                 timedOut, waited>>

PollFailover ==
  /\ pc = "poll"
  /\ Attempt(todo, lqErrors \cup {Hosts[cur]})
  /\ pollStatus' = want'
  /\ pc' = "top"
  /\ socketIo' = Replaced(close_socket_io(socketIo))
  /\ UNCHANGED <<left, deadline, errors, now, message, pgconn, timedOut, waited>>

PollFailed ==
  /\ pc = "poll"
  /\ AttemptFails(todo, lqErrors \cup {Hosts[cur]})
  /\ pc' = "raised"
  /\ message' = errors \cup lqErrors'
  /\ pgconn' = "null"
  /\ socketIo' = close_socket_io(socketIo)
  /\ UNCHANGED <<rubyVars, now, timedOut, waited>>

Poll == PollOk \/ PollAgain \/ PollFailover \/ PollFailed

(* An asynchronous exception (Timeout.timeout, Thread#raise) ends IO#wait; *)
(* nothing in polling_loop rescues it.                                     *)
Interrupt ==
  /\ pc = "wait"
  /\ pc' = "interrupted"
  /\ UNCHANGED <<rubyVars, now, message, pgconn, socketIo, libpqVars, timedOut, waited>>

Next ==
  \/ connect_to_hosts \/ reset
  \/ LoopTop \/ Tick \/ Drift \/ SocketReady \/ WaitTimeout
  \/ Restart \/ GiveUp \/ Poll \/ Interrupt

(* The Ruby code goes on running, and the timer of IO#wait expires.  No    *)
(* fairness is assumed for the server: SocketReady may never happen.       *)
Fairness ==
  WF_vars(LoopTop \/ Tick \/ WaitTimeout \/ Restart \/ GiveUp \/ Poll)

Spec == Init /\ [][Next]_vars
FairSpec == Spec /\ Fairness

-----------------------------------------------------------------------------
(* Properties *)

(* Type invariant; a wait never ends later than stop_time. *)
TypeOK ==
  /\ pc \in {"idle", "top", "wait", "noevent", "poll"} \cup Outside
  /\ pollStatus \in Directions
  /\ left \subseteq Entries
  /\ now \in 0..(StopTime + MaxDrift)
  /\ deadline \in 0..StopTime
  /\ errors \subseteq Dest
  /\ message \subseteq Dest
  /\ pgconn \in {"null", "live"}
  /\ socketIo \in {"none", "current", "stale"}
  /\ cur \in Entries
  /\ todo \subseteq Entries
  /\ want \in Directions
  /\ polls \in 0..MaxPolls
  /\ lqErrors \subseteq Dest
  /\ timedOut \subseteq Dest
  /\ waited \in Nat

(* However the single waits, the failovers inside of libpq and the         *)
(* restarts follow each other, polling_loop spends no more than            *)
(* number-of-hosts * connect_timeout waiting (connection.rb:783-785).      *)
TotalWaitBounded == waited <= StopTime

(* polling_loop waits on the socket libpq is using for the current attempt *)
(* and for the direction libpq asked for.  A memoized socket_io of an      *)
(* earlier attempt, or a direction left over from the host before, would   *)
(* make it wait for an event that never comes.                             *)
WaitsOnLiveSocket ==
  pc = "wait" => socketIo = "current" /\ pollStatus = want /\ pgconn = "live"

(* When polling_loop gives up, be it after timeouts, refused connections   *)
(* or a mixture, every host of the list has been tried and is accounted    *)
(* for in the message: no host is lost on the way between iopts and the    *)
(* list libpq walks through.  (Not so when reset_start2 raises.)           *)
GivenUpAfterAllHosts ==
  pc = "raised" /\ pgconn = "null" => message = DestsOf(Entries)

(* A destination that timed out is not waited for a second time.           *)
TimedOutNotRetried ==
  pc = "wait" => Hosts[cur] \notin timedOut

(* A connection attempt ends, whatever the servers do, provided that there *)
(* is a connect_timeout.                                                   *)
ConnectingEnds == pc = "top" ~> pc \in Outside
=============================================================================
