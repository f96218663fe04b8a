--------------------- MODULE HttpUpstreamCheck_proofs ---------------------
(***************************************************************************)
(* Proofs about HttpUpstreamCheck and StreamUpstreamCheck, for any number  *)
(* of workers, any configuration of the check and any number of lost       *)
(* workers.  The lemmas about the handlers take the table of check types   *)
(* as a parameter, so that the proofs about both modules use them.         *)
(***************************************************************************)
EXTENDS StreamUpstreamCheck, TLAPS

\* The bounds on ages and counters are natural numbers.
LEMMA Bounds ==
  /\ TakeoverAge \in Nat /\ AgeCap \in Nat /\ CountCap \in Nat
  /\ CheckInterval \in Nat /\ CheckTimeout \in Nat /\ MaxLag \in Nat
  /\ MaxLag <= AgeCap
BY BoundsAssumption, ConfAssumption DEF TakeoverAge, AgeCap, CountCap

\* A saturated value is between zero and its cap.
LEMMA SaturateType ==
  ASSUME NEW n \in Nat, NEW cap \in Nat
  PROVE  Saturate(n, cap) \in 0..cap
BY DEF Saturate

\* The interval begin_handler computes is one of the values it is compared
\* with, also when the subtraction wraps.
LEMMA IntervalType ==
  ASSUME TypeOK, NEW w \in Pids
  PROVE  Interval(w) \in {0, CheckInterval, TakeoverAge}
BY Bounds DEF Interval

-----------------------------------------------------------------------------
(***************************************************************************)
(* Type correctness.                                                       *)
(***************************************************************************)

\* begin_handler keeps the types.
LEMMA BeginType ==
  ASSUME TypeOK, NEW w \in Pids,
         begin_read(w) \/ begin_skip(w) \/ begin_lock(w) \/ begin_return(w)
  PROVE  TypeOK'
<1>1. CASE begin_read(w)
  BY <1>1, IntervalType
  DEF TypeOK, begin_read, Goto, Places, shm, link
<1>2. CASE begin_skip(w)
  BY <1>2 DEF TypeOK, begin_skip, shm, link
<1>3. CASE begin_lock(w)
  BY <1>3, Bounds DEF TypeOK, begin_lock, Goto, Places, link
<1>4. CASE begin_return(w)
  BY <1>4 DEF TypeOK, begin_return, Goto, Places, shm, link
<1> QED BY <1>1, <1>2, <1>3, <1>4

\* The three outcomes of connect_handler keep the types.
LEMMA ConnectType ==
  ASSUME TypeOK, NEW w \in Pids, NEW clean \in BOOLEAN,
         connect_reuse(w) \/ connect_new(w) \/ connect_fail(w, clean),
         UNCHANGED <<shm, life, lag, due, interval, count>>
  PROVE  TypeOK'
<1>1. CASE connect_reuse(w)
  BY <1>1, Bounds DEF TypeOK, connect_reuse, Started, Goto, Places, shm
<1>2. CASE connect_new(w)
  BY <1>2, Bounds DEF TypeOK, connect_new, Started, Goto, Places, shm
<1>3. CASE connect_fail(w, clean)
  BY <1>3 DEF TypeOK, connect_fail, Report, Goto, Places, shm
<1> QED BY <1>1, <1>2, <1>3

\* A verdict is stored as a triple of flags.
LEMMA VerdictType ==
  ASSUME TypeOK, NEW w \in Pids,
         NEW result \in BOOLEAN, NEW error \in BOOLEAN, NEW clean \in BOOLEAN,
         Report(w, result, error, clean)
  PROVE  /\ pc' \in [Pids -> Places]
         /\ check' \in [Pids -> [result : BOOLEAN, error : BOOLEAN,
                                 clean : BOOLEAN]]
BY DEF TypeOK, Report, Goto, Places

\* The handlers of network events and of the timeout keep the types.
LEMMA EventType ==
  ASSUME TypeOK, NEW w \in Pids, NEW types, NEW result \in BOOLEAN,
         \/ peek_handler(w, types) \/ send_handler(w, types)
         \/ recv_handler(w, types) \/ timeout_handler(w, result)
  PROVE  TypeOK'
<1>1. CASE peek_handler(w, types)
  <2>1. /\ pc' \in [Pids -> Places]
        /\ check' \in [Pids -> [result : BOOLEAN, error : BOOLEAN,
                                clean : BOOLEAN]]
    BY <1>1, VerdictType DEF peek_handler
  <2> QED BY <1>1, <2>1 DEF TypeOK, peek_handler, shm, link
<1>2. CASE send_handler(w, types)
  <2>1. CASE UNCHANGED link /\ \E error \in BOOLEAN :
                                  Report(w, FALSE, error, TRUE)
    <3>1. /\ pc' \in [Pids -> Places]
          /\ check' \in [Pids -> [result : BOOLEAN, error : BOOLEAN,
                                  clean : BOOLEAN]]
      BY <2>1, VerdictType
    <3> QED BY <1>2, <2>1, <3>1 DEF TypeOK, send_handler, shm, link
  <2>2. CASE /\ requests' = [requests EXCEPT ![w] = @ + 1]
             /\ state' = [state EXCEPT ![w] = "send_done"]
             /\ UNCHANGED <<pc, check, conn, timer, elapsed>>
    BY <1>2, <2>2 DEF TypeOK, send_handler, shm
  <2> QED BY <1>2, <2>1, <2>2 DEF send_handler
<1>3. CASE recv_handler(w, types)
  <2>1. /\ pc' \in [Pids -> Places]
        /\ check' \in [Pids -> [result : BOOLEAN, error : BOOLEAN,
                                clean : BOOLEAN]]
    BY <1>3, VerdictType DEF recv_handler
  <2> QED BY <1>3, <2>1 DEF TypeOK, recv_handler, shm, link
<1>4. CASE timeout_handler(w, result)
  BY <1>4 DEF TypeOK, timeout_handler, Report, Goto, Places, shm
<1> QED BY <1>1, <1>2, <1>3, <1>4

\* status_update and clean_event keep the types.
LEMMA ReportType ==
  ASSUME TypeOK, NEW w \in Pids, NEW types,
         \/ status_load(w) \/ status_store(w) \/ status_publish(w)
         \/ clean_event(w, types) \/ discard_handler(w, types)
  PROVE  TypeOK'
<1>1. CASE status_load(w)
  BY <1>1, Bounds DEF TypeOK, status_load, Goto, Places, link
<1>2. CASE status_store(w)
  <2>1. count[w] + 1 \in Nat
    BY Bounds DEF TypeOK
  <2>2. Inc(count[w]) \in 0..CountCap
    BY <2>1, SaturateType, Bounds DEF Inc
  <2> QED BY <1>2, <2>2 DEF TypeOK, status_store, Goto, Places, link
<1>3. CASE status_publish(w)
  <2>1. down' \in BOOLEAN
    BY <1>3 DEF status_publish
  <2>2. fall_count' \in 0..CountCap /\ access_age' \in 0..AgeCap
    BY <1>3, Bounds DEF TypeOK, status_publish
  <2>3. pc' \in [Pids -> Places]
    BY <1>3 DEF TypeOK, status_publish, Goto, Places
  <2>4. count' \in [Pids -> 0..CountCap]
    BY <1>3, Bounds DEF TypeOK, status_publish
  <2> QED BY <1>3, <2>1, <2>2, <2>3, <2>4 DEF TypeOK, status_publish, link
<1>4. CASE clean_event(w, types)
  BY <1>4, Bounds DEF TypeOK, clean_event, Cleaned, NoCheck, Goto, Places
<1>5. CASE discard_handler(w, types)
  BY <1>5, Bounds DEF TypeOK, discard_handler, Cleaned, proc
<1> QED BY <1>1, <1>2, <1>3, <1>4, <1>5

\* The start and the end of a worker and the passing of time keep the types.
LEMMA SystemType ==
  ASSUME TypeOK,
         Tick \/ \E w \in Pids : time_update(w) \/ Lifecycle(w)
  PROVE  TypeOK'
<1>1. CASE Tick
  <2>1. access_age' \in 0..AgeCap
    BY <1>1, SaturateType, Bounds DEF Tick, TypeOK
  <2>2. lag' \in [Pids -> 0..MaxLag]
    BY <1>1, SaturateType, Bounds DEF Tick, TypeOK
  <2>3. elapsed' \in [Pids -> 0..CheckTimeout]
    BY <1>1, SaturateType, Bounds DEF Tick, TypeOK
  <2>4. due' \in [Pids -> BOOLEAN]
    BY <1>1 DEF Tick, Running
  <2> QED BY <1>1, <2>1, <2>2, <2>3, <2>4 DEF Tick, TypeOK
<1>2. ASSUME NEW w \in Pids, time_update(w) PROVE TypeOK'
  BY <1>2, Bounds DEF TypeOK, time_update, shm, link
<1>3. ASSUME NEW w \in Pids, Gone(w) PROVE TypeOK'
  BY <1>3, Bounds DEF TypeOK, Gone, NoCheck, Places, shm
<1>4. ASSUME NEW w \in Pids, add_timers(w) PROVE TypeOK'
  BY <1>4 DEF TypeOK, add_timers, shm, link
<1> QED BY <1>1, <1>2, <1>3, <1>4 DEF Lifecycle, clear_all_events, crash

\* The initial states have the right types.
LEMMA InitType == Init => TypeOK
BY Bounds, BoundsAssumption, ConfAssumption DEF Init, TypeOK, NoCheck, Places

\* Every step of a worker keeps the types.
LEMMA NextType == TypeOK /\ [Next]_vars => TypeOK'
<1> SUFFICES ASSUME TypeOK, [Next]_vars PROVE TypeOK'
  OBVIOUS
<1>1. CASE UNCHANGED vars
  BY <1>1 DEF TypeOK, vars, shm, proc, link
<1>2. ASSUME NEW w \in Pids, Worker(w) PROVE TypeOK'
  BY <1>2, BeginType, ConnectType, EventType, ReportType, SystemType
  DEF Worker, HandlerStep, NetworkEvent, connect_handler
<1> QED BY <1>1, <1>2, SystemType DEF Next

\* Every variable keeps its type in every behaviour: in particular the
\* counters status_update increments and the ages never leave their range.
THEOREM TypeCorrect == Spec => []TypeOK
BY InitType, NextType, PTL DEF Spec

-----------------------------------------------------------------------------
(***************************************************************************)
(* Checks in flight.  NoCheckRestarted and CheckHasTimeout hold together:  *)
(* begin_handler sees only its timer, so that the connection is not in use *)
(* follows from CheckHasTimeout.  That status_update without clean_event   *)
(* leaves no check without a timeout needs the last conjunct.  The two     *)
(* conjuncts about owner are for LiveOwnerIsChecking below.                *)
(***************************************************************************)
Sound(w) ==
  /\ pc[w] \in {"lock", "unlocked"} => ~timer[w] /\ conn[w] # "checking"
  /\ InFlight(w) => timer[w]
  /\ pc[w] = "lock" => owner # w
  /\ life[w] = "new" => owner # w
  /\ ~Running(w) => pc[w] = "loop" /\ conn[w] # "checking"
  /\ pc[w] \in {"report", "store", "publish"} /\ ~check[w].clean
       => conn[w] # "checking"

CheckInv == TypeOK /\ \A w \in Pids : Sound(w)

USE DEF Sound, CheckInv, InFlight, InLoop, Running, Goto

\* begin_handler keeps the invariant.
LEMMA BeginSound ==
  ASSUME CheckInv, NEW v \in Pids,
         begin_read(v) \/ begin_skip(v) \/ begin_lock(v) \/ begin_return(v)
  PROVE  \A w \in Pids : Sound(w)'
<1>1. CASE begin_read(v)
  BY <1>1 DEF TypeOK, begin_read, shm, link
<1>2. CASE begin_skip(v)
  BY <1>2 DEF TypeOK, begin_skip, shm, link
<1>3. CASE begin_lock(v)
  BY <1>3 DEF TypeOK, begin_lock, link
<1>4. CASE begin_return(v)
  BY <1>4 DEF TypeOK, begin_return, shm, link
<1> QED BY <1>1, <1>2, <1>3, <1>4

\* Every outcome of connect_handler keeps the invariant, whether clean_event
\* follows a failure or not.
LEMMA ConnectSound ==
  ASSUME CheckInv, NEW v \in Pids, NEW clean \in BOOLEAN, pc[v] = "unlocked",
         connect_reuse(v) \/ connect_new(v) \/ connect_fail(v, clean),
         UNCHANGED <<shm, life, lag, due, interval, count>>
  PROVE  \A w \in Pids : Sound(w)'
<1>1. CASE connect_reuse(v)
  BY <1>1 DEF TypeOK, connect_reuse, Started, shm
<1>2. CASE connect_new(v)
  BY <1>2 DEF TypeOK, connect_new, Started, shm
<1>3. CASE connect_fail(v, clean)
  BY <1>3 DEF TypeOK, connect_fail, Report, shm
<1> QED BY <1>1, <1>2, <1>3

\* The handlers of network events and of the timeout keep the invariant.
LEMMA EventSound ==
  ASSUME CheckInv, NEW v \in Pids, NEW types, NEW result \in BOOLEAN,
         \/ peek_handler(v, types) \/ send_handler(v, types)
         \/ recv_handler(v, types) \/ timeout_handler(v, result)
  PROVE  \A w \in Pids : Sound(w)'
<1>1. CASE \E r, e \in BOOLEAN : Report(v, r, e, TRUE) /\ UNCHANGED link
  <2>1. InLoop(v) /\ UNCHANGED <<owner, life, conn, timer>>
    BY <1>1 DEF peek_handler, send_handler, recv_handler, timeout_handler, shm, link
  <2> QED BY <1>1, <2>1 DEF TypeOK, Report
<1>2. CASE timeout_handler(v, result)
  <2>1. /\ InLoop(v) /\ UNCHANGED <<owner, life, conn>>
        /\ timer' = [timer EXCEPT ![v] = FALSE] /\ Report(v, result, ~result, TRUE)
    BY <1>2 DEF timeout_handler, shm
  <2> QED BY <2>1 DEF TypeOK, Report
<1>3. CASE send_handler(v, types) /\ UNCHANGED <<pc, check, conn, timer, elapsed>>
  BY <1>3 DEF TypeOK, send_handler, shm
<1> QED BY <1>1, <1>2, <1>3 DEF peek_handler, send_handler, recv_handler

\* status_update and clean_event keep the invariant.
LEMMA ReportSound ==
  ASSUME CheckInv, NEW v \in Pids, NEW types,
         \/ status_load(v) \/ status_store(v) \/ status_publish(v)
         \/ clean_event(v, types) \/ discard_handler(v, types)
  PROVE  \A w \in Pids : Sound(w)'
<1>1. CASE status_load(v)
  BY <1>1 DEF TypeOK, status_load, link
<1>2. CASE status_store(v)
  BY <1>2 DEF TypeOK, status_store, link
<1>3. CASE status_publish(v)
  BY <1>3 DEF TypeOK, status_publish, link
<1>4. CASE clean_event(v, types)
  <2>1. /\ pc \in [Pids -> Places] /\ timer \in [Pids -> BOOLEAN]
        /\ conn \in [Pids -> {"none", "checking", "kept"}]
        /\ check \in [Pids -> [result : BOOLEAN, error : BOOLEAN, clean : BOOLEAN]]
    BY DEF TypeOK
  <2>2. PICK c \in {"none", "kept"} :
          /\ conn' = [conn EXCEPT ![v] = c] /\ timer' = [timer EXCEPT ![v] = FALSE]
          /\ owner' = NoPid /\ life' = life
          /\ pc' = [pc EXCEPT ![v] = "loop"] /\ check' = [check EXCEPT ![v] = NoCheck]
    BY <1>4 DEF clean_event, Cleaned
  <2> QED BY <2>1, <2>2, PidsAssumption DEF NoCheck
<1>5. CASE discard_handler(v, types)
  BY <1>5, PidsAssumption DEF TypeOK, discard_handler, Cleaned, proc
<1> QED BY <1>1, <1>2, <1>3, <1>4, <1>5

\* A worker that dies or starts, and time, keep the invariant.
LEMMA SystemSound ==
  ASSUME CheckInv,
         Tick \/ \E v \in Pids : time_update(v) \/ Lifecycle(v)
  PROVE  \A w \in Pids : Sound(w)'
<1>1. CASE Tick
  BY <1>1 DEF TypeOK, Tick
<1>2. ASSUME NEW v \in Pids, time_update(v) PROVE \A w \in Pids : Sound(w)'
  BY <1>2 DEF TypeOK, time_update, shm, link
<1>3. ASSUME NEW v \in Pids, Gone(v) PROVE \A w \in Pids : Sound(w)'
  BY <1>3 DEF TypeOK, Gone, NoCheck, shm
<1>4. ASSUME NEW v \in Pids, add_timers(v) PROVE \A w \in Pids : Sound(w)'
  BY <1>4 DEF TypeOK, add_timers, shm, link
<1> QED BY <1>1, <1>2, <1>3, <1>4 DEF Lifecycle, clear_all_events, crash

\* The invariant holds initially.
LEMMA InitSound == Init => CheckInv
<1> SUFFICES ASSUME Init PROVE \A w \in Pids : Sound(w)
  BY InitType
<1> QED BY PidsAssumption DEF Init, NoCheck

\* Every step keeps the invariant.
LEMMA NextSound == CheckInv /\ [Next]_vars => CheckInv'
<1> SUFFICES ASSUME CheckInv, [Next]_vars PROVE \A w \in Pids : Sound(w)'
  BY NextType
<1>1. CASE UNCHANGED vars
  BY <1>1 DEF vars, shm, proc, link
<1>2. ASSUME NEW v \in Pids, Worker(v) PROVE \A w \in Pids : Sound(w)'
  BY <1>2, BeginSound, ConnectSound, EventSound, ReportSound, SystemSound
  DEF Worker, HandlerStep, NetworkEvent, connect_handler
<1> QED BY <1>1, <1>2, SystemSound DEF Next

\* connect_handler never starts a check on top of one in flight, whatever
\* other workers did to the owner between the test of the timer in
\* begin_handler and the connection.
THEOREM NeverRestarted == Spec => []NoCheckRestarted
<1>1. CheckInv => NoCheckRestarted
  BY DEF NoCheckRestarted
<1> QED BY <1>1, InitSound, NextSound, PTL DEF Spec

\* A check waiting for the network has its timeout set: clean_event, called
\* by any handler of any worker, never leaves a check that cannot end.
THEOREM AlwaysTimeout == Spec => []CheckHasTimeout
<1>1. CheckInv => CheckHasTimeout
  BY DEF CheckHasTimeout
<1> QED BY <1>1, InitSound, NextSound, PTL DEF Spec

-----------------------------------------------------------------------------
(***************************************************************************)
(* Requests over one connection.  send_handler sends when the connection   *)
(* is fresh or taken up again and nothing was sent since (connect_done):   *)
(* then there is room for a request, since clean_event keeps a connection  *)
(* only as long as there is.                                               *)
(***************************************************************************)
Room(w) ==
  /\ requests[w] <= KeepaliveRequests
  /\ conn[w] = "kept" => requests[w] < KeepaliveRequests
  /\ conn[w] = "checking" /\ state[w] = "connect_done" => requests[w] < KeepaliveRequests

RoomInv == TypeOK /\ \A w \in Pids : Room(w)

\* The steps that do not touch the connection keep the room on it.
LEMMA RoomKept ==
  ASSUME RoomInv, UNCHANGED <<conn, requests, state>>
  PROVE  \A w \in Pids : Room(w)'
BY DEF RoomInv, Room

\* connect_handler starts with a new connection or one that was kept.
LEMMA ConnectRoom ==
  ASSUME RoomInv, NEW v \in Pids, NEW clean \in BOOLEAN,
         connect_reuse(v) \/ connect_new(v) \/ connect_fail(v, clean)
  PROVE  \A w \in Pids : Room(w)'
<1>1. CASE connect_reuse(v)
  BY <1>1 DEF RoomInv, Room, TypeOK, connect_reuse, Started
<1>2. CASE connect_new(v)
  BY <1>2, ConfAssumption DEF RoomInv, Room, TypeOK, connect_new, Started
<1>3. CASE connect_fail(v, clean)
  BY <1>3, ConfAssumption DEF RoomInv, Room, TypeOK, connect_fail
<1> QED BY <1>1, <1>2, <1>3

\* send_handler uses the room, once.
LEMMA SendRoom ==
  ASSUME RoomInv, NEW v \in Pids, NEW types, send_handler(v, types)
  PROVE  \A w \in Pids : Room(w)'
<1>1. CASE UNCHANGED link
  BY <1>1, RoomKept DEF link
<1>2. CASE /\ state[v] = "connect_done"
           /\ state' = [state EXCEPT ![v] = "send_done"]
           /\ requests' = [requests EXCEPT ![v] = @ + 1]
           /\ UNCHANGED conn
  <2>1. conn[v] = "checking"
    BY DEF send_handler
  <2> QED BY <1>2, <2>1, ConfAssumption DEF RoomInv, Room, TypeOK
<1> QED BY <1>1, <1>2 DEF send_handler

\* clean_event keeps a connection with room, and closes any other.
LEMMA CleanRoom ==
  ASSUME RoomInv, NEW v \in Pids, NEW error, NEW types, Cleaned(v, error, types)
  PROVE  \A w \in Pids : Room(w)'
BY ConfAssumption DEF RoomInv, Room, TypeOK, Cleaned

\* A worker takes its connection with it.
LEMMA GoneRoom ==
  ASSUME RoomInv, NEW v \in Pids, Gone(v)
  PROVE  \A w \in Pids : Room(w)'
<1>1. /\ conn' = [conn EXCEPT ![v] = "none"] /\ requests' = [requests EXCEPT ![v] = 0]
      /\ state' = [state EXCEPT ![v] = "all_done"]
  BY DEF Gone
<1> QED BY <1>1, ConfAssumption DEF RoomInv, Room, TypeOK

\* Every step keeps the room.
LEMMA NextRoom == RoomInv /\ [Next]_vars => RoomInv'
<1> SUFFICES ASSUME RoomInv, [Next]_vars PROVE \A w \in Pids : Room(w)'
  BY NextType DEF RoomInv
<1>1. CASE UNCHANGED <<conn, requests, state>>
  BY <1>1, RoomKept
<1>2. ASSUME NEW v \in Pids, Worker(v) PROVE \A w \in Pids : Room(w)'
  <2>1. CASE connect_handler(v)
    BY <2>1, ConnectRoom DEF connect_handler
  <2>2. CASE send_handler(v, CheckTypes)
    BY <2>2, SendRoom
  <2>3. CASE clean_event(v, CheckTypes) \/ discard_handler(v, CheckTypes)
    BY <2>3, CleanRoom DEF clean_event, discard_handler
  <2>4. CASE clear_all_events(v) \/ crash(v)
    BY <2>4, GoneRoom DEF clear_all_events, crash
  <2> QED
    BY <1>1, <1>2, <2>1, <2>2, <2>3, <2>4
    DEF Worker, HandlerStep, NetworkEvent, Lifecycle, link, begin_read, begin_skip, begin_lock,
        begin_return, timeout_handler, status_load, status_store, status_publish, peek_handler,
        recv_handler, add_timers, time_update
<1> QED
  BY <1>1, <1>2 DEF Next, Tick, vars, link

\* No connection carries more requests than check_keepalive_requests, whatever
\* the order of timeouts, answers and closed connections.
THEOREM RequestsBounded == Spec => []RequestsWithinBound
<1>1. Init => RoomInv
  BY InitType, ConfAssumption DEF Init, RoomInv, Room
<1>2. RoomInv => RequestsWithinBound
  BY DEF RoomInv, Room, RequestsWithinBound
<1> QED BY <1>1, <1>2, NextRoom, PTL DEF Spec

-----------------------------------------------------------------------------
(***************************************************************************)
(* A live owner is at work.  In the http module every handler that calls   *)
(* status_update calls clean_event after it (check[w].clean), which is     *)
(* what the invariant needs besides CheckInv: the step from "publish" back *)
(* to the event loop would leave the worker owner of a peer it skips.      *)
(***************************************************************************)
Owned(w) ==
  /\ Running(w) /\ owner = w =>
        pc[w] \in {"unlocked", "report", "store", "publish", "clean"} \/ timer[w]
  /\ check[w].clean

OwnerInv == CheckInv /\ \A w \in Pids : Owned(w)

HIDE DEF Sound, CheckInv
USE DEF Owned

\* begin_handler and connect_handler make an owner only of a worker that
\* goes on to check the peer.
LEMMA BeginOwned ==
  ASSUME TypeOK, \A w \in Pids : Owned(w), NEW v \in Pids,
         \/ begin_read(v) \/ begin_skip(v) \/ begin_lock(v) \/ begin_return(v)
         \/ connect_handler(v)
  PROVE  \A w \in Pids : Owned(w)'
<1>1. CASE begin_read(v)
  BY <1>1 DEF TypeOK, begin_read, shm, link
<1>2. CASE begin_skip(v)
  BY <1>2 DEF TypeOK, begin_skip, shm, link
<1>3. CASE begin_lock(v)
  BY <1>3 DEF TypeOK, begin_lock, link
<1>4. CASE begin_return(v)
  BY <1>4 DEF TypeOK, begin_return, shm, link
<1>5. CASE connect_handler(v)
  <2>0. UNCHANGED <<owner, life>>
    BY <1>5 DEF connect_handler, shm
  <2>1. CASE connect_reuse(v) \/ connect_new(v)
    BY <2>0, <2>1 DEF TypeOK, connect_reuse, connect_new, Started
  <2>2. CASE connect_fail(v, TRUE)
    BY <2>0, <2>2 DEF TypeOK, connect_fail, Report
  <2> QED BY <1>5, <2>1, <2>2 DEF connect_handler
<1> QED BY <1>1, <1>2, <1>3, <1>4, <1>5

\* An event ends the check of an owner only by way of status_update.
LEMMA EventOwned ==
  ASSUME TypeOK, \A w \in Pids : Owned(w), NEW v \in Pids, NEW types, NEW result \in BOOLEAN,
         \/ peek_handler(v, types) \/ send_handler(v, types)
         \/ recv_handler(v, types) \/ timeout_handler(v, result)
  PROVE  \A w \in Pids : Owned(w)'
<1>1. CASE \E r, e \in BOOLEAN : Report(v, r, e, TRUE) /\ UNCHANGED link
  <2>1. UNCHANGED <<owner, life, timer>>
    BY <1>1 DEF peek_handler, send_handler, recv_handler, timeout_handler, shm, link
  <2> QED BY <1>1, <2>1 DEF TypeOK, Report
<1>2. CASE timeout_handler(v, result)
  BY <1>2 DEF TypeOK, timeout_handler, Report, shm
<1>3. CASE send_handler(v, types) /\ UNCHANGED <<pc, check, conn, timer, elapsed>>
  BY <1>3 DEF TypeOK, send_handler, shm
<1> QED BY <1>1, <1>2, <1>3 DEF peek_handler, send_handler, recv_handler

\* status_update leads to clean_event, which gives the peer up.
LEMMA ReportOwned ==
  ASSUME TypeOK, \A w \in Pids : Owned(w), NEW v \in Pids, NEW types,
         \/ status_load(v) \/ status_store(v) \/ status_publish(v)
         \/ clean_event(v, types) \/ discard_handler(v, types)
  PROVE  \A w \in Pids : Owned(w)'
<1>1. CASE status_load(v)
  BY <1>1 DEF TypeOK, status_load, link
<1>2. CASE status_store(v)
  BY <1>2 DEF TypeOK, status_store, link
<1>3. CASE status_publish(v)
  BY <1>3 DEF TypeOK, status_publish, link
<1>4. CASE clean_event(v, types)
  <2>1. /\ owner' = NoPid /\ check' = [check EXCEPT ![v] = NoCheck]
        /\ check \in [Pids -> [result : BOOLEAN, error : BOOLEAN, clean : BOOLEAN]]
    BY <1>4 DEF TypeOK, clean_event, Cleaned
  <2> QED BY <2>1, PidsAssumption DEF NoCheck
<1>5. CASE discard_handler(v, types)
  BY <1>5, PidsAssumption DEF TypeOK, discard_handler, Cleaned, proc
<1> QED BY <1>1, <1>2, <1>3, <1>4, <1>5

\* A worker that starts has a process id that owns nothing.
LEMMA SystemOwned ==
  ASSUME OwnerInv,
         Tick \/ \E v \in Pids : time_update(v) \/ Lifecycle(v)
  PROVE  \A w \in Pids : Owned(w)'
<1>0. TypeOK /\ \A w \in Pids : Owned(w) /\ (life[w] = "new" => owner # w)
  BY DEF OwnerInv, CheckInv, Sound
<1>1. CASE Tick
  BY <1>0, <1>1 DEF TypeOK, Tick
<1>2. ASSUME NEW v \in Pids, time_update(v) PROVE \A w \in Pids : Owned(w)'
  BY <1>0, <1>2 DEF TypeOK, time_update, shm, link
<1>3. ASSUME NEW v \in Pids, Gone(v) PROVE \A w \in Pids : Owned(w)'
  <2>1. /\ life \in [Pids -> {"new", "run", "gone"}] /\ pc \in [Pids -> Places]
        /\ check \in [Pids -> [result : BOOLEAN, error : BOOLEAN, clean : BOOLEAN]]
        /\ timer \in [Pids -> BOOLEAN]
    BY <1>0 DEF TypeOK
  <2>2. /\ life' = [life EXCEPT ![v] = "gone"] /\ pc' = [pc EXCEPT ![v] = "loop"]
        /\ check' = [check EXCEPT ![v] = NoCheck] /\ timer' = [timer EXCEPT ![v] = FALSE]
        /\ owner' = owner
    BY <1>3 DEF Gone, shm
  <2> QED BY <1>0, <2>1, <2>2 DEF NoCheck
<1>4. ASSUME NEW v \in Pids, add_timers(v) PROVE \A w \in Pids : Owned(w)'
  BY <1>0, <1>4 DEF TypeOK, add_timers, shm, link
<1> QED BY <1>1, <1>2, <1>3, <1>4 DEF Lifecycle, clear_all_events, crash

\* Every step keeps the owner a worker that checks.
LEMMA NextOwned == OwnerInv /\ [Next]_vars => OwnerInv'
<1> SUFFICES ASSUME OwnerInv, [Next]_vars PROVE \A w \in Pids : Owned(w)'
  BY NextSound DEF OwnerInv
<1>0. TypeOK /\ \A w \in Pids : Owned(w)
  BY DEF OwnerInv, CheckInv
<1>1. CASE UNCHANGED vars
  BY <1>0, <1>1 DEF vars, shm, proc, link
<1>2. ASSUME NEW v \in Pids, Worker(v) PROVE \A w \in Pids : Owned(w)'
  <2> HIDE DEF Owned
  <2> QED BY <1>0, <1>2, BeginOwned, EventOwned, ReportOwned, SystemOwned
          DEF Worker, HandlerStep, NetworkEvent
<1> QED BY <1>1, <1>2, SystemOwned DEF Next

\* Nobody owns the peer at first.
LEMMA InitOwned == Init => OwnerInv
BY InitSound, PidsAssumption DEF Init, NoCheck, OwnerInv

\* A running worker that owns the peer is checking it, with any number of
\* workers taking the peer over, giving it up for each other, dying and
\* starting: "This process is processing this peer now" in begin_handler is
\* true of the http module.
THEOREM OwnerIsChecking == Spec => []LiveOwnerIsChecking
<1>1. OwnerInv => LiveOwnerIsChecking
  BY DEF LiveOwnerIsChecking, OwnerInv
<1> QED BY <1>1, InitOwned, NextOwned, PTL DEF Spec

-----------------------------------------------------------------------------
(***************************************************************************)
(* The stream module.  The invariant about checks in flight holds there as *)
(* well, although a failed connection is not cleaned up after; that is     *)
(* what its last conjunct is for.                                          *)
(***************************************************************************)
USE DEF Sound, CheckInv

\* Every step of a stream worker keeps the invariant on checks in flight.
LEMMA StreamNextSound == CheckInv /\ [StreamNext]_vars => CheckInv'
<1> USE DEF stream_begin_handler, stream_begin_lock, stream_begin_return,
            stream_connect_handler, stream_peek_handler, stream_send_handler,
            stream_recv_handler, stream_discard_handler,
            stream_timeout_handler, stream_status_update, stream_clean_event,
            stream_clear_all_events, stream_add_timers
<1> SUFFICES ASSUME CheckInv, [StreamNext]_vars
             PROVE  TypeOK' /\ \A w \in Pids : Sound(w)'
  OBVIOUS
<1>1. CASE UNCHANGED vars
  BY <1>1 DEF TypeOK, vars, shm, proc, link
<1>2. ASSUME NEW v \in Pids, StreamWorker(v)
      PROVE  TypeOK' /\ \A w \in Pids : Sound(w)'
  <2>1. CASE stream_begin_handler(v) \/ stream_begin_lock(v) \/ stream_begin_return(v)
    BY <2>1, BeginType, BeginSound
  <2>2. CASE stream_connect_handler(v)
    BY <2>2, ConnectType, ConnectSound
  <2>3. CASE \/ stream_peek_handler(v) \/ stream_send_handler(v)
             \/ stream_recv_handler(v) \/ stream_timeout_handler(v)
    BY <2>3, EventType, EventSound
  <2>4. CASE \/ stream_status_update(v) \/ stream_clean_event(v)
             \/ stream_discard_handler(v)
    BY <2>4, ReportType, ReportSound
  <2>5. CASE time_update(v) \/ Lifecycle(v)
    BY <2>5, SystemType, SystemSound
  <2> QED BY <1>2, <2>1, <2>2, <2>3, <2>4, <2>5
          DEF StreamWorker, StreamHandlerStep, Lifecycle
<1> QED BY <1>1, <1>2, SystemType, SystemSound DEF StreamNext

\* The stream module, too, never starts a check on top of one in flight,
\* whatever check type is configured and whichever workers take over.
THEOREM StreamNeverRestarted == StreamSpec => []NoCheckRestarted
<1>1. CheckInv => NoCheckRestarted
  BY DEF NoCheckRestarted
<1> QED BY <1>1, InitSound, StreamNextSound, PTL DEF StreamSpec

\* The stream module's checks in flight always have their timeout set, also
\* after a failed connection that connect_handler does not clean up after.
THEOREM StreamAlwaysTimeout == StreamSpec => []CheckHasTimeout
<1>1. CheckInv => CheckHasTimeout
  BY DEF CheckHasTimeout
<1> QED BY <1>1, InitSound, StreamNextSound, PTL DEF StreamSpec

\* Every step of a stream worker keeps the room on its connection.
LEMMA StreamNextRoom ==
  CheckInv /\ RoomInv /\ [StreamNext]_vars => \A w \in Pids : Room(w)'
<1> SUFFICES ASSUME RoomInv, [StreamNext]_vars PROVE \A w \in Pids : Room(w)'
  OBVIOUS
<1>1. CASE UNCHANGED <<conn, requests, state>>
  BY <1>1, RoomKept
<1>2. ASSUME NEW v \in Pids, StreamWorker(v) PROVE \A w \in Pids : Room(w)'
  <2>1. CASE stream_connect_handler(v)
    BY <2>1, ConnectRoom DEF stream_connect_handler
  <2>2. CASE stream_send_handler(v)
    BY <2>2, SendRoom DEF stream_send_handler
  <2>3. CASE stream_clean_event(v) \/ stream_discard_handler(v)
    BY <2>3, CleanRoom
    DEF stream_clean_event, stream_discard_handler, clean_event, discard_handler
  <2>4. CASE stream_clear_all_events(v) \/ crash(v)
    BY <2>4, GoneRoom DEF stream_clear_all_events, clear_all_events, crash
  <2> QED
    BY <1>1, <1>2, <2>1, <2>2, <2>3, <2>4
    DEF StreamWorker, StreamHandlerStep, stream_begin_handler, stream_begin_lock,
        stream_begin_return, stream_peek_handler, stream_recv_handler, stream_timeout_handler,
        stream_status_update, stream_add_timers, link, begin_read, begin_skip, begin_lock,
        begin_return, timeout_handler, status_load, status_store, status_publish, peek_handler,
        recv_handler, add_timers, time_update
<1> QED
  BY <1>1, <1>2 DEF StreamNext, Tick, vars, link

\* The stream module's connections carry no more requests than
\* check_keepalive_requests either, although clean_event is left out after a
\* connection that fails at once.
THEOREM StreamRequestsBounded == StreamSpec => []RequestsWithinBound
<1>1. Init => RoomInv
  BY InitType, ConfAssumption DEF Init, RoomInv, Room
<1>2. CheckInv /\ RoomInv /\ [StreamNext]_vars => RoomInv'
  <2>1. CheckInv /\ [StreamNext]_vars => TypeOK'
    BY StreamNextSound
  <2> QED BY <2>1, StreamNextRoom DEF RoomInv
<1>3. RoomInv => RequestsWithinBound
  BY DEF RoomInv, Room, RequestsWithinBound
<1> QED BY <1>1, <1>2, <1>3, InitSound, StreamNextSound, PTL DEF StreamSpec
=============================================================================
