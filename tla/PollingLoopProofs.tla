------------------------- MODULE PollingLoopProofs -------------------------
(***************************************************************************)
(* Proofs about PollingLoop, for every list of hosts, every timeout and    *)
(* every behaviour of the servers.                                         *)
(***************************************************************************)
EXTENDS PollingLoop, TLAPS

(* The total time is a natural number; its definition as a product is not  *)
(* needed any further.                                                     *)
LEMMA StopTimeType == StopTime \in Nat
  <1>1. Len(Hosts) \in Nat
    BY HostsAssumption
  <1> QED
    BY <1>1, TimeAssumption DEF StopTime

LEMMA NoTimeoutNoTime == Timeo = 0 => StopTime = 0
  <1>1. Len(Hosts) \in Nat
    BY HostsAssumption
  <1> QED
    BY <1>1 DEF StopTime

LEMMA EntriesFacts ==
  /\ 1 \in Entries
  /\ \A i \in Entries : i \in Nat /\ Hosts[i] \in Dest
  BY HostsAssumption DEF Entries

LEMMA DestsOfType == \A S : S \subseteq Entries => DestsOf(S) \subseteq Dest
  BY EntriesFacts DEF DestsOf

(* The clock within the loop: it stands still without a timeout, and no    *)
(* more than the time that has passed was spent waiting.                   *)
ClockInv ==
  /\ Timeo = 0 => now = 0
  /\ waited <= now
  /\ pc = "wait" => now <= deadline

(* The inductive invariant for the type and the time. *)
TimeInv == TypeOK /\ ClockInv

(* What an attempt of libpq on the entries S leaves behind. *)
LEMMA AttemptType ==
  ASSUME NEW S, S \subseteq Entries, NEW E, E \subseteq Dest, Attempt(S, E)
  PROVE  /\ cur' \in S /\ todo' \subseteq S
         /\ want' = "writing" /\ polls' = 0
         /\ lqErrors' \subseteq Dest
         /\ E \subseteq lqErrors'
         /\ lqErrors' \subseteq E \cup DestsOf(S)
         /\ \A i \in S : i = cur' \/ i \in todo' \/ Hosts[i] \in lqErrors'
  <1>1. PICK F \in SUBSET S :
          /\ \E i \in S \ F : /\ cur' = i
                              /\ todo' = (S \ F) \ {i}
                              /\ lqErrors' = E \cup DestsOf(F)
          /\ polls' = 0 /\ want' = "writing"
    BY DEF Attempt
  <1>2. DestsOf(F) \subseteq Dest /\ DestsOf(F) \subseteq DestsOf(S)
    BY DestsOfType DEF DestsOf
  <1>3. \A i \in F : Hosts[i] \in DestsOf(F)
    BY DEF DestsOf
  <1> QED
    BY <1>1, <1>2, <1>3

LEMMA AttemptFailsType ==
  ASSUME NEW S, S \subseteq Entries, NEW E, E \subseteq Dest, AttemptFails(S, E)
  PROVE  /\ todo' = {} /\ UNCHANGED <<cur, want, polls>>
         /\ lqErrors' \subseteq Dest
         /\ lqErrors' = E \cup DestsOf(S)
         /\ \A i \in S : Hosts[i] \in lqErrors'
  BY DestsOfType DEF AttemptFails, DestsOf

LEMMA TimeInit == Init => TimeInv
  BY EntriesFacts, StopTimeType, TimeAssumption
     DEF Init, TimeInv, TypeOK, ClockInv, Directions, Outside

LEMMA TimeStep == TimeInv /\ [Next]_vars => TimeInv'
  <1> SUFFICES ASSUME TimeInv, [Next]_vars PROVE TimeInv'
    OBVIOUS
  <1> USE StopTimeType, TimeAssumption DEF TimeInv
  <1>1. CASE connect_to_hosts
    <2>1. CASE EnterLoop /\ Attempt(Entries, {})
      BY <1>1, <2>1, AttemptType, EntriesFacts
         DEF connect_to_hosts, EnterLoop, TypeOK, ClockInv, Directions, Outside
    <2>2. CASE AttemptFails(Entries, {}) /\ pc' = "raised" /\ message' = DestsOf(Entries)
               /\ UNCHANGED <<rubyVars, now, timedOut, waited>>
      BY <1>1, <2>2, AttemptFailsType, DestsOfType
         DEF connect_to_hosts, rubyVars, TypeOK, ClockInv, Directions, Outside
    <2> QED BY <1>1, <2>1, <2>2 DEF connect_to_hosts
  <1>2. CASE reset
    <2>0. socketIo' = "none" /\ pgconn' = "live"
      BY <1>2 DEF reset, reset_start2, Replaced, close_socket_io
    <2>1. CASE EnterLoop /\ Attempt(Entries, {})
      BY <2>0, <2>1, AttemptType, EntriesFacts
         DEF EnterLoop, TypeOK, ClockInv, Directions, Outside
    <2>2. CASE AttemptFails(Entries, {}) /\ pc' = "raised" /\ message' = DestsOf(Entries)
               /\ UNCHANGED <<rubyVars, now, timedOut, waited>>
      BY <2>0, <2>2, AttemptFailsType, DestsOfType
         DEF rubyVars, TypeOK, ClockInv, Directions, Outside
    <2> QED BY <1>2, <2>1, <2>2 DEF reset
  <1>3. CASE LoopTop
    <2>1. left' \subseteq Entries
      BY <1>3 DEF LoopTop, remove_current_host, Matches, TypeOK
    <2>2. CASE Timeo > 0 /\ WaitTime(now) < 0
      BY <1>3, <2>1, <2>2
         DEF LoopTop, libpqVars, TypeOK, ClockInv, Directions, Outside
    <2>3. CASE ~(Timeo > 0 /\ WaitTime(now) < 0)
      <3>1. now \in Nat
        BY DEF TypeOK
      <3>2. now + WaitTime(now) \in 0..StopTime /\ now <= now + WaitTime(now)
        BY <2>3, <3>1, NoTimeoutNoTime DEF WaitTime, Smaller, ClockInv
      <3>3. socketIo' \in {"none", "current", "stale"}
        BY <1>3, <2>3 DEF LoopTop, socket_io, TypeOK
      <3> QED
        BY <1>3, <2>1, <2>3, <3>2, <3>3
           DEF LoopTop, libpqVars, TypeOK, ClockInv, Directions, Outside
    <2> QED BY <2>2, <2>3
  <1>4. CASE Tick
    BY <1>4 DEF Tick, rubyVars, libpqVars, TypeOK, ClockInv, Directions, Outside
  <1>5. CASE Drift
    BY <1>5 DEF Drift, rubyVars, libpqVars, TypeOK, ClockInv, Directions, Outside
  <1>6. CASE SocketReady
    BY <1>6 DEF SocketReady, rubyVars, libpqVars, TypeOK, ClockInv, Directions, Outside
  <1>7. CASE WaitTimeout
    BY <1>7 DEF WaitTimeout, rubyVars, libpqVars, TypeOK, ClockInv, Directions, Outside
  <1>8. CASE Restart
    <2>0. /\ socketIo' = "none"
          /\ Hosts[cur] \in Dest
          /\ errors' = errors \cup lqErrors \cup {Hosts[cur]}
          /\ timedOut' = timedOut \cup {Hosts[cur]}
          /\ pgconn' = "live"
          /\ UNCHANGED <<left, now, deadline, waited>>
      BY <1>8, EntriesFacts DEF Restart, reset_start2, Replaced, close_socket_io, TypeOK
    <2>1. CASE Attempt(left, {}) /\ pc' = "top" /\ pollStatus' = "writing" /\ UNCHANGED message
      <3>1. left \subseteq Entries /\ {} \subseteq Dest
        BY DEF TypeOK
      <3>2. /\ cur' \in left /\ todo' \subseteq left /\ want' = "writing" /\ polls' = 0
            /\ lqErrors' \subseteq Dest
        BY <2>1, <3>1, AttemptType
      <3> QED
        BY <2>0, <2>1, <3>1, <3>2 DEF TypeOK, ClockInv, Directions, Outside
    <2>2. CASE AttemptFails(left, {}) /\ pc' = "raised" /\ message' = DestsOf(left)
               /\ UNCHANGED pollStatus
      BY <2>0, <2>2, AttemptFailsType, DestsOfType
         DEF TypeOK, ClockInv, Directions, Outside
    <2> QED BY <1>8, <2>1, <2>2 DEF Restart
  <1>9. CASE GiveUp
    BY <1>9, EntriesFacts
       DEF GiveUp, libpqVars, close_socket_io, TypeOK, ClockInv, Directions, Outside
  <1>10. CASE PollOk
    BY <1>10 DEF PollOk, rubyVars, libpqVars, close_socket_io, TypeOK, ClockInv,
                 Directions, Outside
  <1>11. CASE PollAgain
    BY <1>11 DEF PollAgain, close_socket_io, TypeOK, ClockInv, Directions, Outside
  <1>12. CASE PollFailover
    <2>1. lqErrors \cup {Hosts[cur]} \subseteq Dest /\ todo \subseteq Entries
      BY EntriesFacts DEF TypeOK
    <2>2. socketIo' = "none"
      BY <1>12 DEF PollFailover, Replaced, close_socket_io
    <2>3. /\ cur' \in todo /\ todo' \subseteq todo /\ want' = "writing" /\ polls' = 0
          /\ lqErrors' \subseteq Dest
      <3>1. Attempt(todo, lqErrors \cup {Hosts[cur]})
        BY <1>12 DEF PollFailover
      <3> HIDE DEF TimeInv
      <3> QED
        BY <2>1, <3>1, AttemptType
    <2> QED
      BY <1>12, <2>1, <2>2, <2>3
         DEF PollFailover, TypeOK, ClockInv, Directions, Outside
  <1>13. CASE PollFailed
    <2>1. lqErrors \cup {Hosts[cur]} \subseteq Dest /\ todo \subseteq Entries
      BY EntriesFacts DEF TypeOK
    <2> QED
      BY <1>13, <2>1, AttemptFailsType
         DEF PollFailed, rubyVars, close_socket_io, TypeOK, ClockInv, Directions, Outside
  <1>14. CASE Interrupt
    BY <1>14 DEF Interrupt, rubyVars, libpqVars, TypeOK, ClockInv, Directions, Outside
  <1>15. CASE UNCHANGED vars
    BY <1>15 DEF vars, TypeOK, ClockInv
  <1> QED
    BY <1>1, <1>2, <1>3, <1>4, <1>5, <1>6, <1>7, <1>8, <1>9, <1>10, <1>11, <1>12, <1>13,
       <1>14, <1>15 DEF Next, Poll

(* The variables of polling_loop and of libpq keep to their types; no wait *)
(* of polling_loop is scheduled past stop_time.                            *)
THEOREM TypeCorrect == Spec => []TypeOK
  <1>1. TimeInv => TypeOK
    BY DEF TimeInv
  <1> QED
    BY TimeInit, TimeStep, <1>1, PTL DEF Spec

(* The waits of polling_loop add up to number-of-hosts * connect_timeout   *)
(* at most (the comment above the computation of "timeout").               *)
THEOREM TotalWait == Spec => []TotalWaitBounded
  <1>1. Init => TotalWaitBounded
    BY StopTimeType DEF Init, TotalWaitBounded
  <1>2. TimeInv /\ TotalWaitBounded /\ [Next]_vars => TotalWaitBounded'
    <2> SUFFICES ASSUME TimeInv, TotalWaitBounded, [Next]_vars
                 PROVE  TotalWaitBounded'
      OBVIOUS
    <2>1. CASE Tick
      BY <2>1, StopTimeType DEF Tick, TimeInv, TypeOK, ClockInv, TotalWaitBounded
    <2>2. CASE waited' = 0
      BY <2>2, StopTimeType DEF TotalWaitBounded
    <2>3. CASE waited' = waited
      BY <2>3 DEF TotalWaitBounded, StopTime
    <2> QED
      BY <2>1, <2>2, <2>3
         DEF Next, Poll, vars, connect_to_hosts, reset, EnterLoop, LoopTop, Drift,
             SocketReady, WaitTimeout, Restart, GiveUp, PollOk, PollAgain, PollFailover,
             PollFailed, Interrupt
  <1> QED
    BY TimeInit, TimeStep, <1>1, <1>2, PTL DEF Spec

-----------------------------------------------------------------------------
(* The socket: libpq's and the loop's idea of what to wait for agree.      *)

InLoop == pc \in {"top", "wait", "noevent", "poll"}

SocketInv ==
  /\ socketIo # "stale"
  /\ InLoop => pgconn = "live"
  /\ pc \in {"top", "wait"} => pollStatus = want
  /\ pc = "wait" => socketIo = "current"

LEMMA SocketStep == TimeInv /\ SocketInv /\ [Next]_vars => SocketInv'
  <1> SUFFICES ASSUME TimeInv, SocketInv, [Next]_vars PROVE SocketInv'
    OBVIOUS
  <1> USE DEF SocketInv, InLoop
  <1>1. CASE connect_to_hosts
    BY <1>1 DEF connect_to_hosts, EnterLoop, Attempt, AttemptFails
  <1>2. CASE reset
    BY <1>2 DEF reset, reset_start2, EnterLoop, Attempt, AttemptFails, Replaced, close_socket_io
  <1>3. CASE LoopTop
    <2>1. socketIo \in {"none", "current"}
      BY DEF TimeInv, TypeOK
    <2> QED
      BY <1>3, <2>1 DEF LoopTop, socket_io, libpqVars
  <1>4. CASE Tick \/ Drift \/ SocketReady \/ WaitTimeout \/ Interrupt
    BY <1>4 DEF Tick, Drift, SocketReady, WaitTimeout, Interrupt, rubyVars, libpqVars
  <1>5. CASE Restart
    BY <1>5 DEF Restart, reset_start2, Attempt, AttemptFails, Replaced, close_socket_io
  <1>6. CASE GiveUp
    BY <1>6 DEF GiveUp, close_socket_io
  <1>7. CASE PollOk \/ PollAgain \/ PollFailed
    BY <1>7 DEF PollOk, PollAgain, PollFailed, close_socket_io
  <1>8. CASE PollFailover
    BY <1>8 DEF PollFailover, Attempt, Replaced, close_socket_io
  <1>9. CASE UNCHANGED vars
    BY <1>9 DEF vars
  <1> QED
    BY <1>1, <1>2, <1>3, <1>4, <1>5, <1>6, <1>7, <1>8, <1>9 DEF Next, Poll

(* polling_loop never waits on a memoized socket_io of an earlier attempt, *)
(* nor for the direction that an earlier attempt was about.                *)
THEOREM LiveSocket == Spec => []WaitsOnLiveSocket
  <1>1. Init => SocketInv
    BY DEF Init, SocketInv, InLoop
  <1>2. SocketInv => WaitsOnLiveSocket
    BY DEF SocketInv, InLoop, WaitsOnLiveSocket
  <1> QED
    BY TimeInit, TimeStep, SocketStep, <1>1, <1>2, PTL DEF Spec

-----------------------------------------------------------------------------
(* The hosts: while the loop runs, a host is still in iopts, or known to   *)
(* have failed, or the current one; and it is in the rest of libpq's list, *)
(* or known to have failed, or the current one.                            *)

Known == errors \cup lqErrors \cup {Hosts[cur]}

HostInv ==
  /\ InLoop => \A i \in Entries : i \in left \/ Hosts[i] \in Known
  /\ InLoop => \A i \in Entries : i \in todo \/ Hosts[i] \in Known
  /\ InLoop => errors \subseteq DestsOf(Entries) /\ lqErrors \subseteq DestsOf(Entries)
  /\ InLoop => pgconn = "live"
  /\ GivenUpAfterAllHosts

LEMMA InDestsOf == \A i \in Entries : Hosts[i] \in DestsOf(Entries)
  BY DEF DestsOf

LEMMA DestsOfMonotonic == \A S : S \subseteq Entries => DestsOf(S) \subseteq DestsOf(Entries)
  BY DEF DestsOf

(* What remove_current_host removes is the current destination. *)
LEMMA RemovedIsCurrent ==
  ASSUME cur \in Entries, left \subseteq Entries, NEW i \in left,
         i \notin remove_current_host(left)
  PROVE  Hosts[i] = Hosts[cur]
  <1>1. Hosts[i] = Reported[Hosts[cur]]
    BY DEF remove_current_host, Matches
  <1>2. Hosts[i] \in Dest /\ Hosts[cur] \in Dest
    BY EntriesFacts
  <1> QED
    BY <1>1, <1>2, ReportedAssumption

LEMMA HostInit == Init => HostInv
  BY DEF Init, HostInv, InLoop, GivenUpAfterAllHosts

LEMMA HostStep == TimeInv /\ HostInv /\ [Next]_vars => HostInv'
  <1> SUFFICES ASSUME TimeInv, HostInv, [Next]_vars PROVE HostInv'
    OBVIOUS
  <1>t. /\ left \subseteq Entries /\ todo \subseteq Entries /\ cur \in Entries
        /\ lqErrors \subseteq Dest /\ {} \subseteq Dest /\ Hosts[cur] \in Dest
        /\ Entries \subseteq Entries
    BY EntriesFacts DEF TimeInv, TypeOK
  <1>1. CASE connect_to_hosts \/ reset
    <2>1. CASE EnterLoop /\ Attempt(Entries, {})
      <3>1. /\ cur' \in Entries
            /\ lqErrors' \subseteq DestsOf(Entries)
            /\ \A i \in Entries : i = cur' \/ i \in todo' \/ Hosts[i] \in lqErrors'
        BY <2>1, <1>t, AttemptType
      <3>2. pgconn' = "live"
        BY <1>1 DEF connect_to_hosts, reset, reset_start2
      <3> QED
        BY <2>1, <3>1, <3>2
           DEF EnterLoop, HostInv, InLoop, Known, GivenUpAfterAllHosts
    <2>2. CASE pc' = "raised" /\ pgconn' = "live"
      BY <2>2 DEF HostInv, InLoop, GivenUpAfterAllHosts
    <2> QED
      BY <1>1, <2>1, <2>2 DEF connect_to_hosts, reset, reset_start2
  <1>2. CASE LoopTop
    <2>1. \A i \in Entries : i \in left' \/ Hosts[i] \in Known
      <3> TAKE i \in Entries
      <3>1. CASE i \in left
        BY <1>2, <1>t, <3>1, RemovedIsCurrent DEF LoopTop, Known
      <3>2. CASE i \notin left
        BY <1>2, <3>2 DEF LoopTop, HostInv, InLoop
      <3> QED BY <3>1, <3>2
    <2>2. Known' = Known /\ UNCHANGED <<errors, lqErrors, todo, pgconn, message>>
      BY <1>2 DEF LoopTop, libpqVars, Known
    <2>3. InLoop /\ pc' # "raised"
      BY <1>2 DEF LoopTop, InLoop
    <2> QED
      BY <2>1, <2>2, <2>3 DEF HostInv, GivenUpAfterAllHosts, InLoop
  <1>3. CASE Tick \/ Drift \/ SocketReady \/ WaitTimeout \/ Interrupt
    <2>1. /\ UNCHANGED <<errors, lqErrors, cur, left, todo, pgconn, message>>
          /\ InLoop /\ pc' # "raised"
      BY <1>3 DEF Tick, Drift, SocketReady, WaitTimeout, Interrupt, rubyVars, libpqVars, InLoop
    <2>2. Known' = Known
      BY <2>1 DEF Known
    <2> QED
      BY <2>1, <2>2 DEF HostInv, GivenUpAfterAllHosts
  <1>4. CASE Restart
    <2>0. /\ InLoop /\ errors' = Known /\ left' = left /\ pgconn' = pgconn
          /\ Known \subseteq DestsOf(Entries)
      BY <1>4, <1>t, InDestsOf DEF Restart, reset_start2, InLoop, Known, HostInv
    <2>1. CASE Attempt(left, {}) /\ pc' = "top"
      <3>1. /\ cur' \in left
            /\ lqErrors' \subseteq DestsOf(left)
            /\ \A i \in left : i = cur' \/ i \in todo' \/ Hosts[i] \in lqErrors'
        BY <2>1, <1>t, AttemptType
      <3>2. \A i \in Entries : i \in left \/ Hosts[i] \in errors'
        BY <2>0 DEF HostInv
      <3>3. lqErrors' \subseteq DestsOf(Entries)
        BY <3>1, <1>t, DestsOfMonotonic
      <3>4. \A i \in Entries : i \in todo' \/ Hosts[i] \in Known'
        BY <3>1, <3>2 DEF Known
      <3>5. \A i \in Entries : i \in left' \/ Hosts[i] \in Known'
        BY <2>0, <3>2 DEF Known
      <3> QED
        BY <2>0, <2>1, <3>3, <3>4, <3>5 DEF HostInv, InLoop, GivenUpAfterAllHosts
    <2>2. CASE pc' = "raised"
      BY <2>0, <2>2 DEF HostInv, InLoop, GivenUpAfterAllHosts
    <2> QED
      BY <1>4, <2>1, <2>2 DEF Restart
  <1>5. CASE GiveUp
    <2>1. InLoop /\ left = {} /\ message' = Known /\ pc' = "raised"
      BY <1>5 DEF GiveUp, InLoop, Known
    <2>2. Known \subseteq DestsOf(Entries)
      BY <2>1, <1>t, InDestsOf DEF HostInv, Known
    <2>3. DestsOf(Entries) \subseteq Known
      BY <2>1 DEF HostInv, DestsOf
    <2> QED
      BY <2>1, <2>2, <2>3 DEF HostInv, InLoop, GivenUpAfterAllHosts, DestsOf, Entries
  <1>6. CASE PollOk
    BY <1>6 DEF PollOk, HostInv, InLoop, GivenUpAfterAllHosts
  <1>7. CASE PollAgain
    <2>1. /\ UNCHANGED <<errors, lqErrors, cur, left, todo, pgconn>>
          /\ InLoop /\ pc' # "raised"
      BY <1>7 DEF PollAgain, InLoop
    <2>2. Known' = Known
      BY <2>1 DEF Known
    <2> QED
      BY <2>1, <2>2 DEF HostInv, GivenUpAfterAllHosts
  <1>8. CASE PollFailover
    <2>0. /\ InLoop /\ pc' = "top" /\ UNCHANGED <<errors, left, pgconn>>
          /\ Attempt(todo, lqErrors \cup {Hosts[cur]})
      BY <1>8 DEF PollFailover, InLoop
    <2>1. /\ cur' \in todo
          /\ lqErrors \cup {Hosts[cur]} \subseteq lqErrors'
          /\ lqErrors' \subseteq (lqErrors \cup {Hosts[cur]}) \cup DestsOf(todo)
          /\ \A i \in todo : i = cur' \/ i \in todo' \/ Hosts[i] \in lqErrors'
      <3>1. lqErrors \cup {Hosts[cur]} \subseteq Dest
        BY <1>t
      <3> QED
        BY <2>0, <1>t, <3>1, AttemptType
    <2>2. Known \subseteq Known'
      BY <2>0, <2>1 DEF Known
    <2>3. lqErrors' \subseteq DestsOf(Entries)
      BY <2>0, <2>1, <1>t, InDestsOf, DestsOfMonotonic DEF HostInv
    <2>4. \A i \in Entries : i \in todo' \/ Hosts[i] \in Known'
      BY <2>0, <2>1, <2>2 DEF HostInv, Known
    <2>5. \A i \in Entries : i \in left' \/ Hosts[i] \in Known'
      BY <2>0, <2>2 DEF HostInv
    <2> QED
      BY <2>0, <2>3, <2>4, <2>5 DEF HostInv, InLoop, GivenUpAfterAllHosts
  <1>9. CASE PollFailed
    <2>0. /\ InLoop /\ pc' = "raised" /\ message' = errors \cup lqErrors'
          /\ AttemptFails(todo, lqErrors \cup {Hosts[cur]})
      BY <1>9 DEF PollFailed, InLoop
    <2>1. /\ lqErrors' = (lqErrors \cup {Hosts[cur]}) \cup DestsOf(todo)
          /\ \A i \in todo : Hosts[i] \in lqErrors'
      <3>1. lqErrors \cup {Hosts[cur]} \subseteq Dest
        BY <1>t
      <3> QED
        BY <2>0, <1>t, <3>1, AttemptFailsType
    <2>2. message' \subseteq DestsOf(Entries)
      BY <2>0, <2>1, <1>t, InDestsOf, DestsOfMonotonic DEF HostInv
    <2>3. \A i \in Entries : Hosts[i] \in message'
      BY <2>0, <2>1 DEF HostInv, Known
    <2>4. message' = DestsOf(Entries)
      BY <2>2, <2>3 DEF DestsOf
    <2> QED
      BY <2>0, <2>4 DEF HostInv, InLoop, GivenUpAfterAllHosts, DestsOf, Entries
  <1>10. CASE UNCHANGED vars
    <2>1. Known' = Known
      BY <1>10 DEF vars, Known
    <2> QED
      BY <1>10, <2>1 DEF vars, HostInv, InLoop, GivenUpAfterAllHosts
  <1> QED
    BY <1>1, <1>2, <1>3, <1>4, <1>5, <1>6, <1>7, <1>8, <1>9, <1>10 DEF Next, Poll

(* polling_loop gives up only after every host of the list was tried, and  *)
(* its ConnectionBad accounts for exactly the hosts of the list.           *)
THEOREM AllHostsTried == Spec => []GivenUpAfterAllHosts
  <1>1. HostInv => GivenUpAfterAllHosts
    BY DEF HostInv
  <1> QED
    BY TimeInit, TimeStep, HostInit, HostStep, <1>1, PTL DEF Spec

-----------------------------------------------------------------------------
(* Retries: with distinct destinations that are reported as they were      *)
(* given, what timed out is neither in iopts nor in libpq's list any more. *)

Distinct == \A i, j \in Entries : Hosts[i] = Hosts[j] => i = j
FaithfullyReported == \A d \in Dest : Reported[d] = d

RetryInv ==
  InLoop =>
    /\ \A i \in left \cup todo \cup {cur} : Hosts[i] \notin timedOut
    /\ pc # "top" => cur \notin left

LEMMA RetryStep ==
  ASSUME Distinct, FaithfullyReported
  PROVE  TimeInv /\ RetryInv /\ [Next]_vars => RetryInv'
  <1> SUFFICES ASSUME TimeInv, RetryInv, [Next]_vars PROVE RetryInv'
    OBVIOUS
  <1>t. /\ left \subseteq Entries /\ todo \subseteq Entries /\ cur \in Entries
        /\ lqErrors \cup {Hosts[cur]} \subseteq Dest /\ {} \subseteq Dest /\ Hosts[cur] \in Dest
        /\ Entries \subseteq Entries
    BY EntriesFacts DEF TimeInv, TypeOK
  <1>1. CASE connect_to_hosts \/ reset
    <2>1. CASE EnterLoop
      BY <2>1 DEF EnterLoop, RetryInv, InLoop
    <2>2. CASE pc' = "raised"
      BY <2>2 DEF RetryInv, InLoop
    <2> QED
      BY <1>1, <2>1, <2>2 DEF connect_to_hosts, reset, reset_start2
  <1>2. CASE LoopTop
    <2>1. left' \subseteq left /\ UNCHANGED <<todo, cur, timedOut>> /\ InLoop
      BY <1>2 DEF LoopTop, libpqVars, remove_current_host, InLoop
    <2>2. cur \notin left'
      <3>1. Matches(left) \subseteq {cur}
        BY <1>t DEF Matches, Distinct, FaithfullyReported
      <3>2. cur \in left => cur \in Matches(left)
        BY <1>t DEF Matches, FaithfullyReported
      <3>3. cur \in Nat
        BY <1>t, EntriesFacts
      <3> QED
        BY <1>2, <3>1, <3>2, <3>3 DEF LoopTop, remove_current_host
    <2> QED
      BY <2>1, <2>2 DEF RetryInv
  <1>3. CASE Tick \/ Drift \/ SocketReady \/ WaitTimeout \/ Interrupt
    BY <1>3 DEF Tick, Drift, SocketReady, WaitTimeout, Interrupt, rubyVars, libpqVars,
                InLoop, RetryInv
  <1>4. CASE Restart
    <2>1. CASE Attempt(left, {}) /\ pc' = "top"
      <3>1. cur' \in left /\ todo' \subseteq left
        BY <2>1, <1>t, AttemptType
      <3>2. \A i \in left : Hosts[i] # Hosts[cur]
        BY <1>4, <1>t DEF Restart, reset_start2, RetryInv, InLoop, Distinct
      <3>3. left' = left /\ timedOut' = timedOut \cup {Hosts[cur]} /\ InLoop
        BY <1>4 DEF Restart, reset_start2, InLoop
      <3> QED
        BY <2>1, <3>1, <3>2, <3>3 DEF RetryInv
    <2>2. CASE pc' = "raised"
      BY <2>2 DEF RetryInv, InLoop
    <2> QED
      BY <1>4, <2>1, <2>2 DEF Restart
  <1>5. CASE GiveUp \/ PollOk \/ PollFailed
    BY <1>5 DEF GiveUp, PollOk, PollFailed, RetryInv, InLoop
  <1>6. CASE PollAgain
    BY <1>6 DEF PollAgain, RetryInv, InLoop
  <1>7. CASE PollFailover
    <2>1. cur' \in todo /\ todo' \subseteq todo
      <3>1. Attempt(todo, lqErrors \cup {Hosts[cur]})
        BY <1>7 DEF PollFailover
      <3> QED
        BY <3>1, <1>t, AttemptType
    <2> QED
      BY <1>7, <2>1 DEF PollFailover, RetryInv, InLoop
  <1>8. CASE UNCHANGED vars
    BY <1>8 DEF vars, RetryInv, InLoop
  <1> QED
    BY <1>1, <1>2, <1>3, <1>4, <1>5, <1>6, <1>7, <1>8 DEF Next, Poll

(* A list of distinct destinations that the connection reports as they     *)
(* were given never waits twice for one that has timed out.                *)
THEOREM NotRetried ==
  ASSUME Distinct, FaithfullyReported
  PROVE  Spec => []TimedOutNotRetried
  <1>1. Init => RetryInv
    BY DEF Init, RetryInv, InLoop
  <1>2. RetryInv => TimedOutNotRetried
    BY DEF RetryInv, InLoop, TimedOutNotRetried
  <1>3. TimeInv /\ RetryInv /\ [Next]_vars => RetryInv'
    BY RetryStep
  <1> QED
    BY TimeInit, TimeStep, <1>1, <1>2, <1>3, PTL DEF Spec
=============================================================================
