------------------------- MODULE HttpUpstreamCheck -------------------------
(***************************************************************************)
(* One peer of an upstream, checked by the worker processes of nginx       *)
(* (ngx_http_upstream_check_module.c).  Every worker runs the same timers  *)
(* for the peer; the record of the peer in shared memory says which worker *)
(* owns the current check and holds the counters and the published status. *)
(* Peers share no state, so one peer stands for all of them.               *)
(*                                                                         *)
(* A handler runs to completion within its worker, but other workers run   *)
(* in parallel: a handler is cut into a step for each access to shared     *)
(* memory whose order with the steps of other workers can matter.          *)
(*                                                                         *)
(* Time is kept as ages in ticks.  access_age is the time since the last   *)
(* write of shm->access_time and lag[w] the time since worker w refreshed  *)
(* its cached ngx_current_msec.  Both saturate, which only merges values   *)
(* that every comparison of the code treats alike.                         *)
(***************************************************************************)
EXTENDS Integers, FiniteSets

CONSTANTS
  Pids,              \* process ids workers can get; each is used once
  NoPid,             \* NGX_INVALID_PID
  NWorkers,          \* worker_processes
  MaxGone,           \* bound: workers that crash or exit in one behaviour
  Type,              \* check type, a key of CheckTypes
  CheckInterval,     \* check_interval, in ticks of half of it
  CheckTimeout,      \* check_timeout, in ticks
  RiseCount,         \* rise_count of the check directive
  FallCount,         \* fall_count of the check directive
  DefaultDown,       \* default_down of the check directive
  KeepaliveRequests, \* check_keepalive_requests
  InitAges,          \* ages of access_time the behaviour may start with
  MaxLag             \* bound: staleness of a worker's cached time, in ticks

(***************************************************************************)
(* The check types: the handlers of write and read events, and whether a   *)
(* connection may be kept between checks (ngx_check_types).                *)
(***************************************************************************)
Exchange(k) == [send |-> "send", recv |-> "recv", keepalive |-> k]

CheckTypes ==
  [tcp       |-> [send |-> "peek", recv |-> "peek", keepalive |-> TRUE],
   http      |-> Exchange(TRUE),
   fastcgi   |-> Exchange(FALSE),
   ssl_hello |-> Exchange(FALSE),
   mysql     |-> Exchange(FALSE),
   ajp       |-> Exchange(FALSE)]

TakeoverAge == CheckInterval * 16           \* check_interval << 4
AgeCap == TakeoverAge + MaxLag              \* ages saturate here
CountCap == RiseCount + FallCount           \* counters saturate here

ASSUME PidsAssumption ==
  /\ IsFiniteSet(Pids)
  /\ NoPid \notin Pids

ASSUME BoundsAssumption ==
  /\ NWorkers \in Nat
  /\ MaxGone \in Nat
  /\ MaxLag \in Nat
  /\ InitAges \subseteq 0..AgeCap

ASSUME ConfAssumption ==
  /\ CheckInterval \in Nat \ {0}
  /\ CheckTimeout \in Nat \ {0}
  /\ RiseCount \in Nat \ {0}
  /\ FallCount \in Nat \ {0}
  /\ DefaultDown \in BOOLEAN
  /\ KeepaliveRequests \in Nat \ {0}

VARIABLES
  \* the peer's record in shared memory
  owner, access_age, rise_count, fall_count, down,
  \* per worker: life, place in the running handler, cached time, locals
  life, pc, lag, due, interval, count, check,
  \* per worker: its connection to the peer and its timeout timer
  conn, requests, state, timer, elapsed

shm == <<owner, access_age, rise_count, fall_count, down>>
proc == <<life, pc, lag, due, interval, count, check>>
link == <<conn, requests, state, timer, elapsed>>
vars == <<shm, proc, link>>

-----------------------------------------------------------------------------
Saturate(n, cap) == IF n < cap THEN n ELSE cap

Running(w) == life[w] = "run"
InLoop(w) == Running(w) /\ pc[w] = "loop"
NumRunning == Cardinality({w \in Pids : Running(w)})
NumGone == Cardinality({w \in Pids : life[w] = "gone"})

NoCheck == [result |-> FALSE, error |-> FALSE, clean |-> TRUE]

Goto(w, l) == pc' = [pc EXCEPT ![w] = l]

(***************************************************************************)
(* The initial record: init_shm_peer with no record to inherit; access_age *)
(* AgeCap stands for access_time = 0.  InitAges also allows the age of an  *)
(* inherited record.                                                       *)
(***************************************************************************)
Init ==
  /\ owner = NoPid
  /\ access_age \in InitAges
  /\ rise_count = 0 /\ fall_count = 0 /\ down = DefaultDown
  /\ life \in [Pids -> {"new", "run"}]
  /\ NumRunning = NWorkers
  /\ pc = [w \in Pids |-> "loop"]
  /\ lag = [w \in Pids |-> 0]
  /\ due = [w \in Pids |-> FALSE]
  /\ interval = [w \in Pids |-> 0]
  /\ count = [w \in Pids |-> 0]
  /\ check = [w \in Pids |-> NoCheck]
  /\ conn = [w \in Pids |-> "none"]
  /\ requests = [w \in Pids |-> 0]
  /\ state = [w \in Pids |-> "all_done"]
  /\ timer = [w \in Pids |-> FALSE]
  /\ elapsed = [w \in Pids |-> 0]

-----------------------------------------------------------------------------
(***************************************************************************)
(* begin_handler: the check timer of worker w fires.                       *)
(***************************************************************************)

\* ngx_current_msec - shm->access_time in unsigned arithmetic: a time cached
\* before the last write of access_time wraps to a value above every bound.
\* The result is rounded down to the bounds it is compared with.
Interval(w) ==
  LET i == IF access_age >= lag[w] THEN access_age - lag[w] ELSE AgeCap
  IN CASE i >= TakeoverAge -> TakeoverAge
       [] i < CheckInterval -> 0
       [] OTHER -> CheckInterval

\* Variant with a bug: the timeout timer is not looked at.
begin_read_any_timer(w) ==
  /\ InLoop(w)
  /\ due[w]
  /\ owner # w
  /\ due' = [due EXCEPT ![w] = FALSE]
  /\ interval' = [interval EXCEPT ![w] = Interval(w)]
  /\ Goto(w, "lock")
  /\ UNCHANGED <<shm, life, lag, count, check, link>>

\* The reads before the lock.  The owner is read first, but no other worker
\* ever makes w the owner, so the test still holds when access_time is read.
begin_read(w) ==
  /\ InLoop(w)
  /\ due[w]
  /\ owner # w
  /\ ~timer[w]
  /\ due' = [due EXCEPT ![w] = FALSE]
  /\ interval' = [interval EXCEPT ![w] = Interval(w)]
  /\ Goto(w, "lock")
  /\ UNCHANGED <<shm, life, lag, count, check, link>>

\* The peer is this worker's already: only the check timer is re-armed.
begin_skip(w) ==
  /\ InLoop(w)
  /\ due[w]
  /\ owner = w \/ timer[w]
  /\ due' = [due EXCEPT ![w] = FALSE]
  /\ UNCHANGED <<shm, life, pc, lag, interval, count, check, link>>

\* Variants with a bug: the owner is not tested again under the mutex; the
\* peer of a lost worker is not taken over.
begin_lock_any_owner(w) ==
  /\ pc[w] = "lock"
  /\ owner' = IF interval[w] >= CheckInterval THEN w ELSE owner
  /\ interval' = [interval EXCEPT ![w] = 0]
  /\ Goto(w, "unlocked")
  /\ UNCHANGED <<access_age, rise_count, fall_count, down, life, lag, due, count,
                 check, link>>

begin_lock_no_takeover(w) ==
  /\ pc[w] = "lock"
  /\ owner' = IF interval[w] >= CheckInterval /\ owner = NoPid THEN w ELSE owner
  /\ interval' = [interval EXCEPT ![w] = 0]
  /\ Goto(w, "unlocked")
  /\ UNCHANGED <<access_age, rise_count, fall_count, down, life, lag, due, count,
                 check, link>>

\* The section under shm->mutex.
begin_lock(w) ==
  /\ pc[w] = "lock"
  /\ LET free == interval[w] >= CheckInterval /\ owner = NoPid
         stale == ~free /\ interval[w] >= TakeoverAge
     IN /\ owner' = IF free \/ stale THEN w ELSE owner
        /\ access_age' = IF stale THEN lag[w] ELSE access_age
  /\ interval' = [interval EXCEPT ![w] = 0]
  /\ Goto(w, "unlocked")
  /\ UNCHANGED <<rise_count, fall_count, down, life, lag, due, count, check, link>>

\* The owner is read again after the unlock: not this worker.
begin_return(w) ==
  /\ pc[w] = "unlocked"
  /\ owner # w
  /\ Goto(w, "loop")
  /\ UNCHANGED <<shm, life, lag, due, interval, count, check, link>>

-----------------------------------------------------------------------------
\* A handler has its verdict and enters status_update; clean says whether it
\* calls clean_event after it.
Report(w, result, error, clean) ==
  /\ check' = [check EXCEPT ![w] = [result |-> result, error |-> error,
                                    clean |-> clean]]
  /\ Goto(w, "report")

\* A connection is open with the handlers of the check type, the timeout runs.
Started(w) ==
  /\ conn' = [conn EXCEPT ![w] = "checking"]
  /\ state' = [state EXCEPT ![w] = "connect_done"]
  /\ timer' = [timer EXCEPT ![w] = TRUE]
  /\ elapsed' = [elapsed EXCEPT ![w] = 0]

(***************************************************************************)
(* connect_handler, called when w still owns the peer.  When connect       *)
(* succeeds at once the write handler is called from here: that is the     *)
(* same as the write event coming next.                                    *)
(***************************************************************************)

\* A kept connection that still answers a peek is used again.
connect_reuse(w) ==
  /\ conn[w] = "kept"
  /\ Started(w)
  /\ Goto(w, "loop")
  /\ UNCHANGED <<requests, check>>

\* Variant with a bug: no timeout while a connection is under way.
connect_new_no_timer(w) ==
  /\ conn' = [conn EXCEPT ![w] = "checking"]
  /\ state' = [state EXCEPT ![w] = "connect_done"]
  /\ requests' = [requests EXCEPT ![w] = 0]
  /\ Goto(w, "loop")
  /\ UNCHANGED <<check, timer, elapsed>>

\* A new connection is made, or under way (NGX_OK, NGX_AGAIN).
connect_new(w) ==
  /\ Started(w)
  /\ requests' = [requests EXCEPT ![w] = 0]
  /\ Goto(w, "loop")
  /\ UNCHANGED check

\* ngx_event_connect_peer returned NGX_ERROR or NGX_DECLINED.
connect_fail(w, clean) ==
  /\ conn' = [conn EXCEPT ![w] = "none"]
  /\ requests' = [requests EXCEPT ![w] = 0]
  /\ Report(w, FALSE, FALSE, clean)
  /\ UNCHANGED <<state, timer, elapsed>>

\* Variant with a bug: no clean_event after a connection that fails.
connect_handler_no_clean(w) ==
  /\ pc[w] = "unlocked"
  /\ owner = w
  /\ connect_reuse(w) \/ connect_new(w) \/ connect_fail(w, FALSE)
  /\ UNCHANGED <<shm, life, lag, due, interval, count>>

connect_handler(w) ==
  /\ pc[w] = "unlocked"
  /\ owner = w
  /\ connect_reuse(w) \/ connect_new(w) \/ connect_fail(w, TRUE)
  /\ UNCHANGED <<shm, life, lag, due, interval, count>>

-----------------------------------------------------------------------------
(***************************************************************************)
(* Events of a check in flight.                                            *)
(***************************************************************************)
InFlight(w) == InLoop(w) /\ conn[w] = "checking"

\* tcp: a readable or writable connection is probed with a peek.
peek_handler(w, types) ==
  /\ InFlight(w)
  /\ "peek" \in {types[Type].send, types[Type].recv}
  /\ Report(w, TRUE, FALSE, TRUE) \/ Report(w, FALSE, TRUE, TRUE)
  /\ UNCHANGED <<shm, life, lag, due, interval, count, link>>

\* The request is sent, or sending it fails.  Only a failed send marks the
\* connection, a failed initialisation does not.
send_handler(w, types) ==
  /\ InFlight(w)
  /\ types[Type].send = "send"
  /\ \/ /\ state[w] = "connect_done"
        /\ state' = [state EXCEPT ![w] = "send_done"]
        /\ requests' = [requests EXCEPT ![w] = @ + 1]
        /\ UNCHANGED <<pc, check, conn, timer, elapsed>>
     \/ /\ \E error \in BOOLEAN : Report(w, FALSE, error, TRUE)
        /\ UNCHANGED link
  /\ UNCHANGED <<shm, life, lag, due, interval, count>>

\* The answer is parsed: accepted, rejected or cut short.  A rejected answer
\* need not mark the connection, an accepted one may.  Before the request is
\* sent only the re-arming of the read event can fail.
recv_handler(w, types) ==
  /\ InFlight(w)
  /\ types[Type].recv = "recv"
  /\ \/ /\ state[w] = "send_done"
        /\ \E result, error \in BOOLEAN : Report(w, result, error, TRUE)
     \/ /\ state[w] # "send_done"
        /\ Report(w, FALSE, FALSE, TRUE)
  /\ UNCHANGED <<shm, life, lag, due, interval, count, link>>

\* check_timeout_ev expires.
timeout_handler(w, result) ==
  /\ InLoop(w)
  /\ timer[w]
  /\ elapsed[w] = CheckTimeout
  /\ timer' = [timer EXCEPT ![w] = FALSE]
  /\ Report(w, result, ~result, TRUE)
  /\ UNCHANGED <<shm, life, lag, due, interval, count, conn, requests, state,
                 elapsed>>

-----------------------------------------------------------------------------
(***************************************************************************)
(* status_update takes no lock.  Each increment is a load and a store, and *)
(* the comparison may use the value just stored or load it again.          *)
(***************************************************************************)
Inc(n) == Saturate(n + 1, CountCap)

status_load(w) ==
  /\ pc[w] = "report"
  /\ IF check[w].result
     THEN /\ count' = [count EXCEPT ![w] = rise_count]
          /\ UNCHANGED rise_count
     ELSE /\ count' = [count EXCEPT ![w] = fall_count]
          /\ rise_count' = 0
  /\ Goto(w, "store")
  /\ UNCHANGED <<owner, access_age, fall_count, down, life, lag, due, interval,
                 check, link>>

status_store(w) ==
  /\ pc[w] = "store"
  /\ IF check[w].result
     THEN rise_count' = Inc(count[w]) /\ UNCHANGED fall_count
     ELSE fall_count' = Inc(count[w]) /\ UNCHANGED rise_count
  /\ Goto(w, "publish")
  /\ UNCHANGED <<owner, access_age, down, life, lag, due, interval, count, check,
                 link>>

\* Variant with a bug: a success does not reset the failures.
status_publish_keep_fall(w) ==
  /\ pc[w] = "publish"
  /\ down' = IF check[w].result THEN down /\ rise_count < RiseCount
                               ELSE down \/ fall_count >= FallCount
  /\ access_age' = lag[w]
  /\ count' = [count EXCEPT ![w] = 0]
  /\ Goto(w, IF check[w].clean THEN "clean" ELSE "loop")
  /\ UNCHANGED <<owner, rise_count, fall_count, life, lag, due, interval, check,
                 link>>

status_publish(w) ==
  /\ pc[w] = "publish"
  /\ IF check[w].result
     THEN /\ fall_count' = 0
          /\ \E seen \in {Inc(count[w]), rise_count} :
                down' = (down /\ seen < RiseCount)
     ELSE /\ UNCHANGED fall_count
          /\ \E seen \in {Inc(count[w]), fall_count} :
                down' = (down \/ seen >= FallCount)
  /\ access_age' = lag[w]
  /\ count' = [count EXCEPT ![w] = 0]
  /\ Goto(w, IF check[w].clean THEN "clean" ELSE "loop")
  /\ UNCHANGED <<owner, rise_count, life, lag, due, interval, check, link>>

-----------------------------------------------------------------------------
\* Variants with a bug: the peer is given up to process 0; a connection is
\* kept for one request too many.
Cleaned_zero(w, error, types) ==
  /\ conn' = [conn EXCEPT ![w] = "none"]
  /\ requests' = [requests EXCEPT ![w] = 0]
  /\ timer' = [timer EXCEPT ![w] = FALSE]
  /\ elapsed' = [elapsed EXCEPT ![w] = 0]
  /\ state' = [state EXCEPT ![w] = "all_done"]
  /\ owner' = 0

Cleaned_off_by_one(w, error, types) ==
  LET keep == /\ conn[w] # "none"
              /\ ~error
              /\ types[Type].keepalive
              /\ requests[w] <= KeepaliveRequests
  IN /\ conn' = [conn EXCEPT ![w] = IF keep THEN "kept" ELSE "none"]
     /\ requests' = [requests EXCEPT ![w] = IF keep THEN @ ELSE 0]
     /\ timer' = [timer EXCEPT ![w] = FALSE]
     /\ elapsed' = [elapsed EXCEPT ![w] = 0]
     /\ state' = [state EXCEPT ![w] = "all_done"]
     /\ owner' = NoPid

\* What clean_event leaves: the connection is kept or closed, the timeout is
\* deleted, and the peer is given up whoever owns it.
Cleaned(w, error, types) ==
  LET keep == /\ conn[w] # "none"
              /\ ~error
              /\ types[Type].keepalive
              /\ requests[w] < KeepaliveRequests
  IN /\ conn' = [conn EXCEPT ![w] = IF keep THEN "kept" ELSE "none"]
     /\ requests' = [requests EXCEPT ![w] = IF keep THEN @ ELSE 0]
     /\ timer' = [timer EXCEPT ![w] = FALSE]
     /\ elapsed' = [elapsed EXCEPT ![w] = 0]
     /\ state' = [state EXCEPT ![w] = "all_done"]
     /\ owner' = NoPid

clean_event(w, types) ==
  /\ pc[w] = "clean"
  /\ Cleaned(w, check[w].error, types)
  /\ check' = [check EXCEPT ![w] = NoCheck]
  /\ Goto(w, "loop")
  /\ UNCHANGED <<access_age, rise_count, fall_count, down, life, lag, due, interval,
                 count>>

\* The peer closes a kept connection: discard_handler also cleans up.
discard_handler(w, types) ==
  /\ InLoop(w)
  /\ conn[w] = "kept"
  /\ Cleaned(w, TRUE, types)
  /\ UNCHANGED <<access_age, rise_count, fall_count, down, proc>>

-----------------------------------------------------------------------------
(***************************************************************************)
(* Worker processes.                                                       *)
(***************************************************************************)

\* What is private to a process is gone with it; shared memory stays.
Gone(w) ==
  /\ NumGone < MaxGone
  /\ life' = [life EXCEPT ![w] = "gone"]
  /\ pc' = [pc EXCEPT ![w] = "loop"]
  /\ lag' = [lag EXCEPT ![w] = 0]
  /\ due' = [due EXCEPT ![w] = FALSE]
  /\ interval' = [interval EXCEPT ![w] = 0]
  /\ count' = [count EXCEPT ![w] = 0]
  /\ check' = [check EXCEPT ![w] = NoCheck]
  /\ conn' = [conn EXCEPT ![w] = "none"]
  /\ requests' = [requests EXCEPT ![w] = 0]
  /\ state' = [state EXCEPT ![w] = "all_done"]
  /\ timer' = [timer EXCEPT ![w] = FALSE]
  /\ elapsed' = [elapsed EXCEPT ![w] = 0]
  /\ UNCHANGED shm

\* A worker told to quit clears its events at the next handler, or between
\* claiming the peer and connecting to it, and does not give the peer up.
clear_all_events(w) ==
  /\ Running(w)
  /\ pc[w] \in {"loop", "unlocked"}
  /\ Gone(w)

\* A worker dies anywhere but in the few instructions under the mutex.
crash(w) ==
  /\ Running(w)
  /\ Gone(w)

\* The master starts a process in place of a lost one (add_timers).
add_timers(w) ==
  /\ life[w] = "new"
  /\ NumRunning < NWorkers
  /\ life' = [life EXCEPT ![w] = "run"]
  /\ UNCHANGED <<shm, pc, lag, due, interval, count, check, link>>

-----------------------------------------------------------------------------
(***************************************************************************)
(* Time.  A tick is half a check interval, the period of the check timer:  *)
(* the timer of every worker is due once in a tick.                        *)
(***************************************************************************)
Tick ==
  /\ access_age' = Saturate(access_age + 1, AgeCap)
  /\ lag' = [w \in Pids |->
               IF Running(w) THEN Saturate(lag[w] + 1, MaxLag) ELSE lag[w]]
  /\ due' = [w \in Pids |-> Running(w)]
  /\ elapsed' = [w \in Pids |->
               IF timer[w] THEN Saturate(elapsed[w] + 1, CheckTimeout)
                           ELSE elapsed[w]]
  /\ UNCHANGED <<owner, rise_count, fall_count, down, life, pc, interval,
                 count, check, conn, requests, state, timer>>

\* The event loop of w refreshes ngx_current_msec.
time_update(w) ==
  /\ InLoop(w)
  /\ lag[w] # 0
  /\ lag' = [lag EXCEPT ![w] = 0]
  /\ UNCHANGED <<shm, life, pc, due, interval, count, check, link>>

-----------------------------------------------------------------------------
\* Steps of a handler that has begun: it does not wait for anything.
HandlerStep(w, types) ==
  \/ begin_lock(w)
  \/ begin_return(w)
  \/ status_load(w)
  \/ status_store(w)
  \/ status_publish(w)
  \/ clean_event(w, types)

\* Events the network decides on.
NetworkEvent(w, types) ==
  \/ peek_handler(w, types)
  \/ send_handler(w, types)
  \/ recv_handler(w, types)
  \/ discard_handler(w, types)

Lifecycle(w) ==
  \/ clear_all_events(w)
  \/ crash(w)
  \/ add_timers(w)

Worker(w) ==
  \/ begin_read(w)
  \/ begin_skip(w)
  \/ connect_handler(w)
  \/ timeout_handler(w, FALSE)
  \/ HandlerStep(w, CheckTypes)
  \/ NetworkEvent(w, CheckTypes)
  \/ time_update(w)
  \/ Lifecycle(w)

Next == Tick \/ \E w \in Pids : Worker(w)

Spec == Init /\ [][Next]_vars

\* Handlers do not block: none lasts as long as half a check interval.
PromptTick == Tick /\ \A w \in Pids : pc[w] = "loop"

PromptNext == PromptTick \/ \E w \in Pids : Worker(w)

PromptSpec == Init /\ [][PromptNext]_vars

-----------------------------------------------------------------------------
(***************************************************************************)
(* Fairness.  Handlers run to their end, the check timer is re-armed by    *)
(* every run of begin_handler, an expired timeout is handled, the event    *)
(* loop comes around and time passes.  Nothing is assumed of the network,  *)
(* of crashes or of the master.                                            *)
(***************************************************************************)
Fairness ==
  /\ WF_vars(PromptTick)
  /\ \A w \in Pids :
       /\ WF_vars(begin_read(w) \/ begin_skip(w))
       /\ WF_vars(connect_handler(w) \/ HandlerStep(w, CheckTypes))
       /\ WF_vars(timeout_handler(w, FALSE))
       /\ WF_vars(time_update(w))

FairSpec == PromptSpec /\ Fairness

-----------------------------------------------------------------------------
(***************************************************************************)
(* Properties.                                                             *)
(***************************************************************************)
\* Worker w has claimed the peer or is at work on a check of it.
Checking(w) ==
  /\ Running(w)
  /\ \/ timer[w]
     \/ pc[w] \in {"report", "store", "publish", "clean"}
     \/ pc[w] = "unlocked" /\ owner = w

Places == {"loop", "lock", "unlocked", "report", "store", "publish", "clean"}

\* Every variable keeps its type; counters and ages stay within their caps.
TypeOK ==
  /\ owner \in Pids \cup {NoPid}
  /\ access_age \in 0..AgeCap
  /\ rise_count \in 0..CountCap
  /\ fall_count \in 0..CountCap
  /\ down \in BOOLEAN
  /\ life \in [Pids -> {"new", "run", "gone"}]
  /\ pc \in [Pids -> Places]
  /\ lag \in [Pids -> 0..MaxLag]
  /\ due \in [Pids -> BOOLEAN]
  /\ interval \in [Pids -> {0, CheckInterval, TakeoverAge}]
  /\ count \in [Pids -> 0..CountCap]
  /\ check \in [Pids -> [result : BOOLEAN, error : BOOLEAN, clean : BOOLEAN]]
  /\ conn \in [Pids -> {"none", "checking", "kept"}]
  /\ requests \in [Pids -> Nat]
  /\ state \in [Pids -> {"connect_done", "send_done", "all_done"}]
  /\ timer \in [Pids -> BOOLEAN]
  /\ elapsed \in [Pids -> 0..CheckTimeout]

\* begin_handler skips a peer whose owner is this process because "This
\* process is processing this peer now": a running worker that owns the peer
\* is in a handler of its check or has the check in flight with its timeout
\* set.  Otherwise the worker would never check the peer again.
LiveOwnerIsChecking ==
  \A w \in Pids :
    Running(w) /\ owner = w =>
      \/ pc[w] \in {"unlocked", "report", "store", "publish", "clean"}
      \/ timer[w]

\* connect_handler is only reached by a worker with no check of the peer in
\* flight, even when another worker has taken the peer over or given it up
\* in between: a check in flight is never restarted on top of itself.
NoCheckRestarted ==
  \A w \in Pids :
    pc[w] \in {"lock", "unlocked"} => ~timer[w] /\ conn[w] # "checking"

\* A check waiting for the network always has its timeout set, so that no
\* clean-up of a connection can leave a check that never ends.
CheckHasTimeout ==
  \A w \in Pids : InFlight(w) => timer[w]

\* The keep-alive bound of check_keepalive_requests: no connection ever carries
\* more requests, though send_handler sends without a look at their number and
\* the only test is in clean_event, a whole check earlier.
RequestsWithinBound ==
  \A w \in Pids : requests[w] <= KeepaliveRequests

\* The point of shm->owner: no two workers check the peer at a time.  It
\* needs punctual timers, workers whose cached times agree, no worker lost,
\* a check type without keep-alive and an access_time written within the
\* last 16 intervals; begin_handler and clean_event alone do not ensure it.
AtMostOneChecker ==
  \A v, w \in Pids : Checking(v) /\ Checking(w) => v = w

\* As long as some worker stays alive, the peer is checked again and again,
\* whichever workers die or quit while they own it: the take-over after 16
\* intervals in begin_handler makes up for the owner that is gone.
PeerKeepsBeingChecked ==
  (\E w \in Pids : <>[]Running(w)) => []<>(\E w \in Pids : pc[w] = "publish")
=============================================================================
